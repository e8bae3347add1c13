-------------------------- MODULE RipeTesterProofs --------------------------
(***************************************************************************)
(* What the four numbers of ripe_tester.py mean, for every list of forms   *)
(* and compilers, every number of repeats, and any number of early deaths  *)
(* and restarts.                                                           *)
(***************************************************************************)
EXTENDS RipeTester, TLAPS

Reality == [succeeded : Nat, checked : Nat, stale : BOOLEAN, excess : Int]

Flags == attack_possible \in BOOLEAN /\ marker \in BOOLEAN

Counters ==
  /\ pc \in {"run", "read", "classify", "compiled", "summary", "end", "killed"}
  /\ compiler \in 1 .. Len(compilers) /\ progress \in 1 .. Len(Forms)
  /\ i \in 0 .. RepeatTimes /\ s_attempts \in 0 .. i
  /\ total \in [Classes -> Nat]
  /\ log \in {"none", "other", "Impossible"}
  /\ failures \in 0 .. MaxFailures

\* Types of the variables TypeOK leaves open.
Shapes ==
  /\ Counters /\ Flags
  /\ results \in Seq([Classes -> Nat]) /\ file \in Seq([Classes -> Nat])
  /\ real \in Reality
  /\ pc = "run" => i < RepeatTimes
  /\ pc = "read" => s_attempts < i
  /\ pc = "compiled" => i = 0 /\ s_attempts = 0 /\ attack_possible /\ real.checked = 0

\* How many forms have been counted, at every point of the loops.
Counted ==
  /\ \A k \in DOMAIN results : Sum(results[k]) = Len(Forms)
  /\ \A k \in DOMAIN file : Sum(file[k]) = Len(Forms)
  /\ pc \in {"run", "read", "classify"} => Sum(total) = progress - 1
  /\ pc = "compiled" => Sum(total) = Len(Forms)
  /\ pc \in {"run", "read", "classify", "compiled"} => Len(results) = compiler - 1
  /\ pc \in {"summary", "end"} => Len(results) = Len(compilers)

\* What the tester knows of a form that the generator rejects.
Rejected ==
  /\ ~attack_possible => pc \in {"classify", "killed"}
  /\ pc = "classify" /\ ~attack_possible => ~is_attack_possible(form)
  /\ pc = "read" /\ log = "Impossible" => ~is_attack_possible(form)
  /\ \/ pc = "run"
     \/ pc = "read" /\ log # "Impossible"
     \/ pc = "classify" /\ attack_possible
     => (~is_attack_possible(form) => real.checked = 0)

\* A marker is worth one success; the successes of the current form that are
\* credited, or will be, exceed those that happened by at most the one stale
\* marker, and not if an earlier form has been credited with it.
Worth == IF marker THEN 1 ELSE 0
Ahead == s_attempts - real.succeeded + Worth

Credit ==
  pc # "killed" =>
    /\ Ahead \in {0, 1} /\ real.excess \in {0, 1}
    /\ Ahead + real.excess = 1 \/ Ahead + real.excess = 0
    /\ Ahead + real.excess = 1 => real.stale
    /\ marker /\ (pc # "read" \/ log = "Impossible") => Ahead = 1

IInv == Shapes /\ Counted /\ Rejected /\ Credit

-----------------------------------------------------------------------------

LEMMA Sizes ==
  /\ RepeatTimes \in Nat \ {0} /\ MaxFailures \in Nat
  /\ Len(Forms) \in Nat \ {0} /\ Len(compilers) \in Nat \ {0}
BY FormsAssumption

\* One more form in any of the four classes makes one more form.
LEMMA OneMore ==
  ASSUME NEW t \in [Classes -> Nat], NEW c \in Classes
  PROVE  /\ Sum([t EXCEPT ![c] = @ + 1]) = Sum(t) + 1
         /\ [t EXCEPT ![c] = @ + 1] \in [Classes -> Nat]
         /\ Sum(t) \in Nat
BY DEF Sum, Classes

LEMMA NothingYet == Sum(Nothing) = 0 /\ Nothing \in [Classes -> Nat]
BY DEF Sum, Nothing, Classes

LEMMA ClassType == class \in Classes
BY DEF class, Classes

\* What the updates of real keep and change.
LEMMA RanRecord ==
  ASSUME NEW r \in Reality, NEW d \in Nat, NEW q,
         q = [r EXCEPT !.checked = @ + 1, !.succeeded = @ + d]
  PROVE  /\ q \in Reality /\ q.succeeded = r.succeeded + d
         /\ q.excess = r.excess /\ q.stale = r.stale
<1> DEFINE c == [r EXCEPT !.checked = @ + 1]
<1>1. c \in Reality
  BY DEF Reality
<1> HIDE DEF c
<1>2. [c EXCEPT !.succeeded = @ + d] \in Reality
  BY <1>1 DEF Reality
<1>3. q = [c EXCEPT !.succeeded = @ + d]
  BY DEF c, Reality
<1> QED
  BY <1>2, <1>3 DEF Reality

LEMMA ClearedRecord ==
  ASSUME NEW r \in Reality, NEW d \in Int, NEW q,
         q = [r EXCEPT !.succeeded = 0, !.checked = 0, !.excess = @ + d]
  PROVE  /\ q \in Reality /\ q.succeeded = 0 /\ q.checked = 0
         /\ q.excess = r.excess + d /\ q.stale = r.stale
<1> DEFINE s == [r EXCEPT !.succeeded = 0]
<1> DEFINE c == [s EXCEPT !.checked = 0]
<1>1. s \in Reality
  BY DEF Reality
<1> HIDE DEF s
<1>2. c \in Reality
  BY <1>1 DEF Reality
<1> HIDE DEF c
<1>3. [c EXCEPT !.excess = @ + d] \in Reality
  BY <1>2 DEF Reality
<1>4. q = [c EXCEPT !.excess = @ + d]
  BY DEF s, c
<1> QED
  BY <1>3, <1>4 DEF Reality

LEMMA InitHolds == Init => IInv
<1> SUFFICES ASSUME Init PROVE IInv
  OBVIOUS
<1> USE Sizes DEF Init
<1>1. Shapes
  <2>1. real \in Reality
    BY DEF Reality, Unjudged
  <2>2. Flags
    BY DEF Flags
  <2>3. Counters
    BY NothingYet DEF Counters
  <2>4. results \in Seq([Classes -> Nat]) /\ file \in Seq([Classes -> Nat])
    OBVIOUS
  <2>5. pc = "run" /\ i < RepeatTimes
    OBVIOUS
  <2> QED
    BY <2>1, <2>2, <2>3, <2>4, <2>5 DEF Shapes
<1>2. Counted
  BY NothingYet DEF Counted
<1>3. Rejected
  BY DEF Rejected, Unjudged
<1>4. Credit
  BY DEF Credit, Unjudged, Ahead, Worth
<1> QED
  BY <1>1, <1>2, <1>3, <1>4 DEF IInv

-----------------------------------------------------------------------------

\* Typing.
LEMMA ShapesStep == IInv /\ [Next]_vars => Shapes'
<1> SUFFICES ASSUME Shapes, [Next]_vars PROVE Shapes'
  BY DEF IInv
<1> USE Sizes
<1>0. /\ Counters /\ Flags /\ real \in Reality
      /\ results \in Seq([Classes -> Nat]) /\ file \in Seq([Classes -> Nat])
  BY DEF Shapes
<1>1. CASE RunForm
  <2>1. real' \in Reality
    <3>1. CASE real' = real
      BY <1>0, <3>1
    <3>2. CASE real' = [real EXCEPT !.checked = @ + 1]
      BY <1>0, <3>2 DEF Reality
    <3>3. ASSUME NEW d \in {0, 1},
                 real' = [real EXCEPT !.checked = @ + 1, !.succeeded = @ + d]
          PROVE  real' \in Reality
      BY <1>0, <3>3, RanRecord
    <3> QED
      BY <1>1, <3>1, <3>2, <3>3 DEF RunForm
  <2>2. /\ \/ failures' = failures
           \/ failures > 0 /\ failures' = failures - 1
        /\ log' = "other" \/ log' = "Impossible"
    <3>1. \/ failures' = failures
          \/ failures > 0 /\ failures' = failures - 1
      BY <1>1 DEF RunForm
    <3>2. log' = "other" \/ log' = "Impossible"
      BY <1>1 DEF RunForm
    <3> QED
      BY <3>1, <3>2
  <2>3. Counters' /\ s_attempts' < i'
    <3>1. /\ i' = i + 1 /\ i < RepeatTimes /\ pc' = "read"
          /\ UNCHANGED <<compiler, progress, s_attempts, total>>
      BY <1>1 DEF RunForm
    <3> QED
      BY <1>0, <2>2, <3>1 DEF Counters
  <2>4. Flags'
    BY <1>0, <1>1 DEF RunForm, Flags
  <2>5. pc' = "read"
    BY <1>1 DEF RunForm
  <2>6. UNCHANGED <<results, file>>
    BY <1>1 DEF RunForm
  <2> QED
    BY <1>0, <2>1, <2>3, <2>4, <2>5, <2>6 DEF Shapes
<1>2. CASE ReadLog
  <2>1. Counters' /\ (pc' = "run" => i' < RepeatTimes)
    <3>1. CASE log = "Impossible"
      BY <1>0, <1>2, <3>1 DEF ReadLog, Counters
    <3>2. CASE log # "Impossible"
      <4>1. s_attempts' \in {s_attempts, s_attempts + 1} /\ i' = i
        <5>1. s_attempts' = s_attempts + (IF marker THEN 1 ELSE 0) /\ i' = i
          BY <1>2, <3>2 DEF ReadLog
        <5>2. s_attempts \in Int
          BY <1>0 DEF Counters
        <5> QED
          BY <5>1, <5>2
      <4>2. pc' = IF i < RepeatTimes THEN "run" ELSE "classify"
        BY <1>2, <3>2 DEF ReadLog
      <4>3. UNCHANGED <<compiler, progress, total, log, failures>> /\ s_attempts < i
        BY <1>2 DEF ReadLog, Shapes
      <4> QED
        BY <1>0, <4>1, <4>2, <4>3 DEF Counters
    <3> QED
      BY <3>1, <3>2
  <2>2. Flags'
    BY <1>0, <1>2 DEF ReadLog, Flags
  <2> QED
    BY <1>0, <1>2, <2>1, <2>2 DEF ReadLog, Shapes
<1>3. CASE Classify
  <2>1. total' \in [Classes -> Nat]
    BY <1>0, <1>3, OneMore, ClassType DEF Classify, Counters
  <2>2. real' \in Reality /\ real'.checked = 0
    <3>1. s_attempts \in Int /\ real.excess \in Int /\ real.succeeded \in Int
      BY <1>0 DEF Counters, Reality
    <3>2. real' = [real EXCEPT !.succeeded = 0, !.checked = 0,
                     !.excess = @ + (s_attempts - real.succeeded)]
      BY <1>3 DEF Classify, NewForm
    <3>3. s_attempts - real.succeeded \in Int
      BY <3>1
    <3> HIDE DEF Reality
    <3> QED
      BY <1>0, <3>2, <3>3, ClearedRecord
  <2>3. Counters'
    BY <1>0, <1>3, <2>1 DEF Classify, NewForm, Counters
  <2>4. Flags'
    BY <1>0, <1>3 DEF Classify, NewForm, Flags
  <2> QED
    BY <1>0, <1>3, <2>2, <2>3, <2>4 DEF Classify, NewForm, Shapes
<1>4. CASE CompilerDone
  <2>1. Counters'
    BY <1>0, <1>4, NothingYet DEF CompilerDone, Counters
  <2>2. results' \in Seq([Classes -> Nat])
    BY <1>0, <1>4 DEF CompilerDone, Counters
  <2>3. Flags'
    BY <1>0, <1>4 DEF CompilerDone, Flags
  <2> QED
    BY <1>0, <1>4, <2>1, <2>2, <2>3 DEF CompilerDone, Shapes
<1>5. CASE Summary
  BY <1>0, <1>5 DEF Summary, Shapes, Counters, Flags
<1>6. CASE Killed
  BY <1>0, <1>6 DEF Killed, Shapes, Counters, Flags
<1>7. CASE Restart
  <2>1. real' \in Reality
    BY <1>0, <1>7 DEF Restart, Unjudged, Reality, Flags
  <2>2. Counters'
    BY <1>0, <1>7, NothingYet DEF Restart, Counters
  <2>3. Flags'
    BY <1>0, <1>7 DEF Restart, Flags
  <2> QED
    BY <1>0, <1>7, <2>1, <2>2, <2>3 DEF Restart, Shapes
<1>8. CASE UNCHANGED vars
  BY <1>0, <1>8 DEF vars, Shapes, Counters, Flags
<1> QED
  BY <1>1, <1>2, <1>3, <1>4, <1>5, <1>6, <1>7, <1>8 DEF Next

\* Counting.
LEMMA CountedStep == IInv /\ [Next]_vars => Counted'
<1> SUFFICES ASSUME IInv, [Next]_vars PROVE Counted'
  OBVIOUS
<1> USE Sizes DEF IInv, Counted
<1>1. CASE RunForm
  BY <1>1 DEF RunForm
<1>2. CASE ReadLog
  BY <1>2 DEF ReadLog
<1>3. CASE Classify
  <2>1. Sum(total') = Sum(total) + 1
    BY <1>3, OneMore, ClassType DEF Classify, Shapes, Counters
  <2> QED
    BY <1>3, <2>1 DEF Classify, Shapes, Counters
<1>4. CASE CompilerDone
  <2>1. /\ DOMAIN results' = 1 .. Len(results) + 1
        /\ Len(results') = Len(results) + 1
        /\ \A k \in DOMAIN results' :
             results'[k] = IF k = Len(results) + 1 THEN total ELSE results[k]
    BY <1>4 DEF CompilerDone, Shapes, Counters
  <2>2. \A k \in DOMAIN results' : Sum(results'[k]) = Len(Forms)
    <3>1. /\ \A k \in DOMAIN results : Sum(results[k]) = Len(Forms)
          /\ Sum(total) = Len(Forms)
          /\ DOMAIN results = 1 .. Len(results) /\ Len(results) \in Nat
      BY <1>4 DEF CompilerDone, Shapes
    <3>2. TAKE k \in DOMAIN results'
    <3>3. CASE k = Len(results) + 1
      BY <2>1, <3>1, <3>3
    <3>4. CASE k # Len(results) + 1
      <4>1. k \in DOMAIN results
        BY <2>1, <3>1, <3>2, <3>4
      <4> QED
        BY <2>1, <3>1, <3>4, <4>1
    <3> QED
      BY <3>3, <3>4
  <2>3. pc' = "run" => compiler' = compiler + 1 /\ progress' = 1 /\ Sum(total') = 0
    BY <1>4, NothingYet DEF CompilerDone
  <2>4. pc' # "run" => pc' = "summary" /\ Len(results') = Len(compilers)
    BY <1>4, <2>1 DEF CompilerDone, Shapes, Counters
  <2> QED
    BY <1>4, <2>1, <2>2, <2>3, <2>4 DEF CompilerDone, Shapes, Counters
<1>5. CASE Summary
  BY <1>5 DEF Summary
<1>6. CASE Killed
  BY <1>6 DEF Killed
<1>7. CASE Restart
  BY <1>7, NothingYet DEF Restart
<1>8. CASE UNCHANGED vars
  BY <1>8 DEF vars
<1> QED
  BY <1>1, <1>2, <1>3, <1>4, <1>5, <1>6, <1>7, <1>8 DEF Next

\* Rejected forms.
LEMMA RejectedStep == IInv /\ [Next]_vars => Rejected'
<1> SUFFICES ASSUME IInv, [Next]_vars PROVE Rejected'
  OBVIOUS
<1> USE Sizes DEF IInv, Rejected, form
<1>1. CASE RunForm
  <2>1. /\ pc = "run" /\ pc' = "read" /\ attack_possible /\ attack_possible' = attack_possible
        /\ form' = form
        /\ ~is_attack_possible(form) => real.checked = 0
    BY <1>1 DEF RunForm
  <2>2. \/ log' = "other" /\ real' = real
        \/ log' = "Impossible" /\ ~is_attack_possible(form)
        \/ log' = "other" /\ is_attack_possible(form)
    BY <1>1 DEF RunForm
  <2> QED
    BY <2>1, <2>2
<1>2. CASE ReadLog
  <2>1. /\ pc = "read" /\ pc' \in {"run", "classify"} /\ real' = real /\ log' = log
        /\ form' = form /\ attack_possible
    BY <1>2 DEF ReadLog
  <2>2. CASE log = "Impossible"
    BY <1>2, <2>1, <2>2 DEF ReadLog
  <2>3. CASE log # "Impossible"
    BY <1>2, <2>1, <2>3 DEF ReadLog
  <2> QED
    BY <2>2, <2>3
<1>3. CASE Classify
  BY <1>3 DEF Classify, NewForm, Shapes
<1>4. CASE CompilerDone
  BY <1>4 DEF CompilerDone, Shapes
<1>5. CASE Summary
  BY <1>5 DEF Summary
<1>6. CASE Killed
  BY <1>6 DEF Killed
<1>7. CASE Restart
  BY <1>7 DEF Restart, Unjudged
<1>8. CASE UNCHANGED vars
  BY <1>8 DEF vars
<1> QED
  BY <1>1, <1>2, <1>3, <1>4, <1>5, <1>6, <1>7, <1>8 DEF Next

\* Credit for successes.
LEMMA CreditStep == IInv /\ [Next]_vars => Credit'
<1> SUFFICES ASSUME IInv, [Next]_vars PROVE Credit'
  OBVIOUS
<1> USE Sizes DEF IInv, Credit, Ahead, Worth, Shapes, Counters, Flags, Reality
<1>1. CASE RunForm
  <2>1. /\ pc = "run" /\ pc' = "read" /\ s_attempts' = s_attempts
        /\ real'.excess = real.excess /\ real'.stale = real.stale
    BY <1>1 DEF RunForm
  <2>2. CASE marker' = marker /\ real'.succeeded = real.succeeded
    BY <2>1, <2>2
  <2>3. CASE /\ log' # "Impossible"
             /\ marker' = TRUE /\ real'.succeeded = real.succeeded + 1
    <3>1. Ahead' = s_attempts - real.succeeded /\ marker'
      BY <2>1, <2>3
    <3>2. CASE marker
      <4>1. Ahead = s_attempts - real.succeeded + 1 /\ Ahead = 1 /\ real.excess = 0
        BY <2>1, <3>2
      <4>2. Ahead' = 0
        BY <3>1, <4>1
      <4> HIDE DEF Ahead
      <4> QED
        BY <2>1, <2>3, <4>1, <4>2
    <3>3. CASE ~marker
      <4>1. Ahead' = Ahead
        BY <3>1, <3>3
      <4>2. /\ Ahead' \in {0, 1} /\ real'.excess \in {0, 1}
            /\ Ahead' + real'.excess = 1 \/ Ahead' + real'.excess = 0
            /\ Ahead' + real'.excess = 1 => real'.stale
        <5> HIDE DEF Ahead
        <5> QED
          BY <2>1, <4>1
      <4> QED
        BY <2>1, <2>3, <4>2
    <3> QED
      BY <3>2, <3>3
  <2>4. \/ real' = real /\ marker' = marker
        \/ real' = [real EXCEPT !.checked = @ + 1] /\ marker' = marker
        \/ \E success \in BOOLEAN :
             /\ log' = "other" /\ marker' = (marker \/ success)
             /\ real' = [real EXCEPT !.checked = @ + 1,
                           !.succeeded = @ + (IF success THEN 1 ELSE 0)]
    BY <1>1 DEF RunForm
  <2>5. ASSUME NEW success \in BOOLEAN, log' = "other", marker' = (marker \/ success),
               real' = [real EXCEPT !.checked = @ + 1,
                           !.succeeded = @ + (IF success THEN 1 ELSE 0)]
        PROVE Credit'
    <3>1. CASE success
      <4>1. marker' = TRUE
        BY <2>5, <3>1
      <4>2. real'.succeeded = real.succeeded + 1
        BY <2>5, <3>1
      <4> QED
        BY <2>3, <2>5, <4>1, <4>2
    <3>2. CASE ~success
      <4>1. marker' = marker
        BY <2>5, <3>2
      <4>2. real'.succeeded = real.succeeded
        BY <2>5, <3>2
      <4> QED
        BY <2>2, <4>1, <4>2
    <3> QED
      BY <3>1, <3>2
  <2>6. CASE real' = real /\ marker' = marker
    BY <2>2, <2>6
  <2>7. CASE real' = [real EXCEPT !.checked = @ + 1] /\ marker' = marker
    BY <2>2, <2>7
  <2> QED
    BY <2>4, <2>5, <2>6, <2>7
<1>2. CASE ReadLog
  <2>1. pc = "read" /\ pc' \in {"run", "classify"} /\ real' = real /\ log' = log
    BY <1>2 DEF ReadLog
  <2>2. CASE log = "Impossible"
    <3>1. s_attempts' = s_attempts /\ marker' = marker
      BY <1>2, <2>2 DEF ReadLog
    <3> QED
      BY <2>1, <2>2, <3>1
  <2>3. CASE log # "Impossible"
    <3>1. marker' = FALSE /\ s_attempts' = s_attempts + Worth
      BY <1>2, <2>3 DEF ReadLog
    <3>2. Ahead' = Ahead
      BY <2>1, <3>1
    <3> QED
      BY <2>1, <2>3, <3>1, <3>2
  <2> QED
    BY <2>2, <2>3
<1>3. CASE Classify
  <2>1. /\ pc = "classify" /\ pc' \in {"run", "compiled"}
        /\ marker' = marker /\ s_attempts' = 0
    BY <1>3 DEF Classify, NewForm
  <2>2. /\ real'.succeeded = 0 /\ real'.stale = real.stale
        /\ real'.excess = real.excess + (s_attempts - real.succeeded)
    BY <1>3 DEF Classify, NewForm
  <2>3. Ahead' = Worth /\ Worth \in {0, 1}
    BY <2>1, <2>2
  <2>4. CASE marker
    BY <2>1, <2>2, <2>3, <2>4
  <2>5. CASE ~marker
    BY <2>1, <2>2, <2>3, <2>5
  <2> QED
    BY <2>4, <2>5
<1>4. CASE CompilerDone
  BY <1>4 DEF CompilerDone
<1>5. CASE Summary
  BY <1>5 DEF Summary
<1>6. CASE Killed
  BY <1>6 DEF Killed
<1>7. CASE Restart
  BY <1>7 DEF Restart, Unjudged
<1>8. CASE UNCHANGED vars
  BY <1>8 DEF vars
<1> QED
  BY <1>1, <1>2, <1>3, <1>4, <1>5, <1>6, <1>7, <1>8 DEF Next

-----------------------------------------------------------------------------

LEMMA Holds == Spec => []IInv
<1>1. IInv /\ [Next]_vars => IInv'
  BY ShapesStep, CountedStep, RejectedStep, CreditStep DEF IInv
<1> QED
  BY <1>1, InitHolds, PTL DEF Spec

\* The type invariant.
THEOREM TypeCorrect == Spec => []TypeOK
<1>1. IInv => TypeOK
  BY DEF IInv, Shapes, Counters, Flags, TypeOK
<1> QED
  BY <1>1, Holds, PTL

\* Every form is in exactly one of the four numbers of a summary line
\* (ripe_tester.py:222-266).
THEOREM EveryFormCountedAlways == Spec => []EveryFormCounted
<1>1. IInv => EveryFormCounted
  BY DEF IInv, Counted, EveryFormCounted
<1> QED
  BY <1>1, Holds, PTL

\* The successes that are credited are those that happened, but for one
\* marker of a killed run (ripe_tester.py:174-175 and 218-220).
THEOREM CreditExactAlways == Spec => []CreditExact
<1>1. IInv => CreditExact
  <2> SUFFICES ASSUME IInv, pc \notin {"read", "killed"} PROVE CreditExact
    BY DEF CreditExact
  <2>1. s_attempts \in Int /\ real.succeeded \in Int /\ real.excess \in Int
    BY DEF IInv, Shapes, Counters, Reality
  <2>2. Ahead - Worth = s_attempts - real.succeeded
    BY <2>1 DEF Ahead, Worth
  <2>3. /\ Ahead \in {0, 1} /\ real.excess \in {0, 1} /\ Worth \in {0, 1}
        /\ Ahead + real.excess = 1 \/ Ahead + real.excess = 0
        /\ Ahead + real.excess = 1 => real.stale
        /\ Worth = 1 => Ahead = 1
    BY DEF IInv, Credit, Worth
  <2> QED
    BY <2>1, <2>2, <2>3 DEF CreditExact
<1> QED
  BY <1>1, Holds, PTL

\* NP is a rejected form, and a rejected form is NP unless none of its runs
\* got to the check (ripe_tester.py:211-224).
THEOREM NPMeansImpossibleAlways == Spec => []NPMeansImpossible
<1>1. IInv => NPMeansImpossible
  BY DEF IInv, Rejected, NPMeansImpossible, class
<1> QED
  BY <1>1, Holds, PTL

\* What OK, SOME and FAIL say (ripe_tester.py:227-251).
THEOREM ClassesHonestAlways == Spec => []ClassesHonest
<1>1. IInv => ClassesHonest
  <2> SUFFICES ASSUME IInv, pc = "classify" PROVE ClassesHonest
    BY DEF ClassesHonest
  <2>1. /\ s_attempts \in 0 .. RepeatTimes /\ real.succeeded \in Nat
        /\ RepeatTimes \in Nat \ {0} /\ real.excess \in Int
    BY Sizes DEF IInv, Shapes, Counters, Reality
  <2>2. Ahead - Worth = s_attempts - real.succeeded
    BY <2>1 DEF Ahead, Worth
  <2>3. /\ Ahead \in {0, 1} /\ real.excess \in {0, 1} /\ Worth \in {0, 1}
        /\ Ahead = 1 => real.stale
        /\ Worth = 1 => Ahead = 1
    BY DEF IInv, Credit, Worth
  <2>4. class = "OK" => s_attempts = RepeatTimes
    BY DEF class
  <2>5. class = "FAIL" => s_attempts = 0
    BY DEF class
  <2>6. class = "SOME" => s_attempts # RepeatTimes /\ s_attempts # 0
    BY DEF class
  <2> QED
    BY <2>1, <2>2, <2>3, <2>4, <2>5, <2>6 DEF ClassesHonest
<1> QED
  BY <1>1, Holds, PTL

=============================================================================
