----------------------------- MODULE RipeTester -----------------------------
(***************************************************************************)
(* ripe_tester.py: every form of the RIPE benchmark is run RepeatTimes     *)
(* times per compiler, and counted as OK, SOME, FAIL or NP from a marker   *)
(* file and a log the runs leave behind.  The tester may be killed and     *)
(* started again on the same machine; /tmp/ripe-eval stays.                *)
(*                                                                         *)
(* A run of the generator is one step: it may die while it creates its     *)
(* pool (init_pool), it rejects a form that is not possible, and otherwise *)
(* it leaves the marker if the form succeeded.                             *)
(***************************************************************************)
EXTENDS RipeForms, Integers

CONSTANTS compilers,     \* the compilers, in order
          Forms,         \* the forms in the order of the nested loops
          RepeatTimes,   \* run-variants.sh: 3
          MaxFailures    \* runs that may die early, and kills

ASSUME FormsAssumption ==
  /\ \A k \in DOMAIN Forms : is_attack_possible(Forms[k]) \in BOOLEAN
  /\ Len(Forms) \in Nat \ {0} /\ Len(compilers) \in Nat \ {0}
  /\ RepeatTimes \in Nat \ {0} /\ MaxFailures \in Nat

VARIABLES pc,         \* "run", "read", "classify", "compiled", "summary", "end", "killed"
          compiler,   \* position in compilers
          progress,   \* position in Forms
          i, s_attempts, attack_possible,
          total,      \* the four counters of the compiler
          results,    \* totals of the finished compilers
          marker,     \* /tmp/ripe-eval/f_xxxx exists
          log,        \* what the last run says of the form
          file,       \* the result file: what its summary lines say, per compiler
          failures,   \* early deaths and kills left
          real        \* of the current form: runs that succeeded, runs that got
                      \* past init_pool; of the whole run: was a marker found at
                      \* the start, and successes credited too much

vars == <<pc, compiler, progress, i, s_attempts, attack_possible, total, results,
          marker, log, file, failures, real>>

Classes == {"OK", "SOME", "FAIL", "NP"}
Nothing == [c \in Classes |-> 0]
form == Forms[progress]

\* Deviations: one of the two is not cleared.
NewFormKeepsImpossible ==
  /\ i' = 0 /\ s_attempts' = 0 /\ attack_possible' = attack_possible
  /\ real' = [real EXCEPT !.succeeded = 0, !.checked = 0,
                !.excess = @ + (s_attempts - real.succeeded)]

NewFormKeepsAttempts ==
  /\ i' = 0 /\ s_attempts' = s_attempts /\ attack_possible' = TRUE
  /\ real' = [real EXCEPT !.succeeded = 0, !.checked = 0]

\* The loop over the forms: a new one starts with cleared counters.
NewForm ==
  /\ i' = 0 /\ s_attempts' = 0 /\ attack_possible' = TRUE
  /\ real' = [real EXCEPT !.succeeded = 0, !.checked = 0,
                !.excess = @ + (s_attempts - real.succeeded)]

Unjudged(m) == [succeeded |-> 0, checked |-> 0, stale |-> m, excess |-> 0]

Init ==
  /\ pc = "run" /\ compiler = 1 /\ progress = 1
  /\ i = 0 /\ s_attempts = 0 /\ attack_possible = TRUE
  /\ total = Nothing /\ results = <<>>
  /\ marker = FALSE /\ log = "none"
  /\ file = <<>> /\ failures = MaxFailures
  /\ real = Unjudged(FALSE)

\* One run of the generator: rm of the log, the command line, the shell's own
\* messages in a second log.
RunForm ==
  /\ pc = "run" /\ i < RepeatTimes
  /\ i' = i + 1 /\ pc' = "read"
  /\ \/ /\ failures > 0 /\ failures' = failures - 1
        /\ log' = "other" /\ UNCHANGED <<marker, real>>
     \/ /\ ~is_attack_possible(form) /\ log' = "Impossible"
        /\ real' = [real EXCEPT !.checked = @ + 1]
        /\ UNCHANGED <<marker, failures>>
     \/ /\ is_attack_possible(form) /\ log' = "other"
        /\ \E success \in BOOLEAN :
             /\ marker' = (marker \/ success)
             /\ real' = [real EXCEPT !.checked = @ + 1,
                           !.succeeded = @ + (IF success THEN 1 ELSE 0)]
        /\ UNCHANGED failures
  /\ UNCHANGED <<compiler, progress, s_attempts, attack_possible, total, results, file>>

\* Deviation: the marker is not removed.
ReadKeepingMarker ==
  /\ pc = "read"
  /\ IF log = "Impossible"
     THEN attack_possible' = FALSE /\ pc' = "classify" /\ UNCHANGED <<s_attempts, marker>>
     ELSE /\ s_attempts' = s_attempts + (IF marker THEN 1 ELSE 0)
          /\ marker' = marker
          /\ pc' = IF i < RepeatTimes THEN "run" ELSE "classify"
          /\ UNCHANGED attack_possible
  /\ UNCHANGED <<compiler, progress, i, total, results, log, file, failures, real>>

\* The log is read: "not possible once, not possible always".  Otherwise the
\* marker counts as a success and is removed.
ReadLog ==
  /\ pc = "read"
  /\ IF log = "Impossible"
     THEN attack_possible' = FALSE /\ pc' = "classify" /\ UNCHANGED <<s_attempts, marker>>
     ELSE /\ s_attempts' = s_attempts + (IF marker THEN 1 ELSE 0)
          /\ marker' = FALSE
          /\ pc' = IF i < RepeatTimes THEN "run" ELSE "classify"
          /\ UNCHANGED attack_possible
  /\ UNCHANGED <<compiler, progress, i, total, results, log, file, failures, real>>

\* Deviation: one success is enough.
class_of_some ==
  IF ~attack_possible THEN "NP"
  ELSE IF s_attempts > 0 THEN "OK"
  ELSE "FAIL"

class ==
  IF ~attack_possible THEN "NP"
  ELSE IF s_attempts = RepeatTimes THEN "OK"
  ELSE IF s_attempts = 0 THEN "FAIL"
  ELSE "SOME"

Classify ==
  /\ pc = "classify"
  /\ total' = [total EXCEPT ![class] = @ + 1]
  /\ NewForm
  /\ IF progress < Len(Forms)
     THEN progress' = progress + 1 /\ pc' = "run"
     ELSE pc' = "compiled" /\ UNCHANGED progress
  /\ UNCHANGED <<compiler, results, marker, log, file, failures>>

\* Deviation: the counters are not reset for the next compiler.
CompilerDoneKeepsTotals ==
  /\ pc = "compiled"
  /\ results' = Append(results, total)
  /\ IF compiler < Len(compilers)
     THEN compiler' = compiler + 1 /\ progress' = 1 /\ pc' = "run" /\ UNCHANGED total
     ELSE pc' = "summary" /\ UNCHANGED <<compiler, progress, total>>
  /\ UNCHANGED <<i, s_attempts, attack_possible, marker, log, file, failures, real>>

\* The end of the loop over the forms; the next compiler starts from zero.
CompilerDone ==
  /\ pc = "compiled"
  /\ results' = Append(results, total)
  /\ IF compiler < Len(compilers)
     THEN compiler' = compiler + 1 /\ progress' = 1 /\ pc' = "run" /\ total' = Nothing
     ELSE pc' = "summary" /\ UNCHANGED <<compiler, progress, total>>
  /\ UNCHANGED <<i, s_attempts, attack_possible, marker, log, file, failures, real>>

\* The summary is written to a temporary file and moved to its place.
Summary ==
  /\ pc = "summary" /\ pc' = "end"
  /\ file' = results
  /\ UNCHANGED <<compiler, progress, i, s_attempts, attack_possible, total, results,
                 marker, log, failures, real>>

\* The tester is killed between two commands.
Killed ==
  /\ pc \notin {"end", "killed"} /\ failures > 0
  /\ failures' = failures - 1 /\ pc' = "killed"
  /\ UNCHANGED <<compiler, progress, i, s_attempts, attack_possible, total, results,
                 marker, log, file, real>>

\* ... and started again: mkdir only if the directory is not there.
Restart ==
  /\ pc = "killed"
  /\ pc' = "run" /\ compiler' = 1 /\ progress' = 1
  /\ i' = 0 /\ s_attempts' = 0 /\ attack_possible' = TRUE
  /\ total' = Nothing /\ results' = <<>>
  /\ log' = "none" /\ real' = Unjudged(marker)
  /\ UNCHANGED <<marker, file, failures>>

Next ==
  RunForm \/ ReadLog \/ Classify \/ CompilerDone \/ Summary \/ Killed \/ Restart

Spec == Init /\ [][Next]_vars

-----------------------------------------------------------------------------
(* Properties *)

Sum(t) == t.OK + t.SOME + t.FAIL + t.NP

\* Type invariant.
TypeOK ==
  /\ pc \in {"run", "read", "classify", "compiled", "summary", "end", "killed"}
  /\ compiler \in 1 .. Len(compilers) /\ progress \in 1 .. Len(Forms)
  /\ i \in 0 .. RepeatTimes /\ s_attempts \in 0 .. i
  /\ attack_possible \in BOOLEAN /\ marker \in BOOLEAN
  /\ total \in [Classes -> Nat]
  /\ log \in {"none", "other", "Impossible"}
  /\ failures \in 0 .. MaxFailures

\* Every form is counted once per compiler: the four numbers of a summary
\* line, also of the file an earlier run left (ripe_tester.py:260-266 adds
\* three of them up), are those of all forms.
EveryFormCounted ==
  /\ \A k \in DOMAIN results : Sum(results[k]) = Len(Forms)
  /\ \A k \in DOMAIN file : Sum(file[k]) = Len(Forms)
  /\ pc \in {"run", "read", "classify"} => Sum(total) = progress - 1
  /\ pc = "summary" => Len(results) = Len(compilers)

\* A marker that a killed run left behind is the only success that is
\* credited to the wrong run, and at most once; without one, every success
\* that is counted happened, and every one that happened is counted.
CreditExact ==
  LET excess == real.excess + (s_attempts - real.succeeded) IN
  CASE pc \in {"run", "classify", "compiled", "summary", "end"} ->
         excess = 0 \/ (excess = 1 /\ real.stale)
    [] OTHER -> TRUE

\* A form is only counted NP if the generator rejects it, and one it rejects
\* is counted otherwise only if none of its runs got as far as the check.
NPMeansImpossible ==
  pc = "classify" =>
    /\ class = "NP" => ~is_attack_possible(form)
    /\ ~is_attack_possible(form) /\ class # "NP" => real.checked = 0

\* OK is "Always" and FAIL is "Never" (table_4.sh:7), whatever kills and
\* earlier runs did, but for one stale marker.
ClassesHonest ==
  pc = "classify" =>
    /\ class = "OK" /\ ~real.stale => real.succeeded = RepeatTimes
    /\ class = "FAIL" => real.succeeded = 0
    /\ class = "SOME" /\ ~real.stale => real.succeeded \in 1 .. (RepeatTimes - 1)

=============================================================================
