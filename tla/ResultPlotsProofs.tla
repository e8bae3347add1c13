-------------------------- MODULE ResultPlotsProofs --------------------------
(***************************************************************************)
(* The import of results implements ResultArchive, and the figures are what*)
(* ResultPlots says they are, for all configurations, any number of        *)
(* executions, imports and stops, and results of any form.                 *)
(*                                                                         *)
(* Three parts: the log and the numbered files (IInv, ImportIsArchive); what*)
(* the parser makes of the lines of any file, and the cells of a plot, by  *)
(* induction over the lines; the invariant of the figures (PlotInv), and the*)
(* properties of the bars that follow from it.                             *)
(***************************************************************************)
EXTENDS ResultPlots, FiniteSetTheorems, WellFoundedInduction, TLAPS

\* The files of a library are numbered from 1 on, without a gap.
Numbered(files) == \E n \in Nat : files = [i \in 1 .. n |-> files[i]]

\* The inductive invariant.  The log can only be extended at its end because
\* the file without a number has been moved away when a result is copied, and
\* because the first free number is above all others.
IInv ==
  /\ figure \in Figures
  /\ current = [lib \in Libs |-> current[lib]]
  /\ archived = [lib \in Libs |-> archived[lib]]
  /\ \A lib \in Libs : Numbered(archived[lib])
  /\ step \in {"rotate", "copy"} => pos \in 1 .. Len(figure.libs)
  /\ step = "copy" => current[Lib] = NoFile /\ results[Lib] # NoFile

-----------------------------------------------------------------------------
(* Files and their numbers *)

LEMMA Libraries ==
  ASSUME figure \in Figures
  PROVE  /\ Len(figure.libs) \in Nat /\ DOMAIN figure.libs = 1 .. Len(figure.libs)
         /\ 1 \in 1 .. Len(figure.libs)
         /\ \A p \in 1 .. Len(figure.libs) : figure.libs[p] \in Libs
<1>1. figure.libs \in Seq(STRING) /\ "pmdk" \in ToSet(figure.libs)
  BY BoundsAssumption
<1>2. Len(figure.libs) \in Nat /\ DOMAIN figure.libs = 1 .. Len(figure.libs)
  BY <1>1
<1>3. PICK p \in 1 .. Len(figure.libs) : figure.libs[p] = "pmdk"
  BY <1>1, <1>2 DEF ToSet
<1> QED
  BY <1>2, <1>3 DEF Libs, ToSet

\* The search for a free number ends behind the last (import_pmembench.sh:27-35).
LEMMA FirstFree ==
  ASSUME NEW lib, NEW n \in Nat, DOMAIN archived[lib] = 1 .. n
  PROVE  FreeNumber(lib) = n + 1
<1>1. Cardinality(1 .. n) = n
  <2>1. Cardinality(1 .. n) = IF 1 > n THEN 0 ELSE n - 1 + 1
    BY FS_Interval
  <2> QED
    BY <2>1
<1>2. \A j \in 1 .. n + 1 : j \notin 1 .. n <=> j = n + 1
  OBVIOUS
<1>3. n + 1 \in 1 .. n + 1 /\ 1 .. (n + 1) - 1 \subseteq 1 .. n
  OBVIOUS
<1> QED
  BY <1>1, <1>2, <1>3 DEF FreeNumber

LEMMA Extended ==
  ASSUME NEW n \in Nat, NEW files, files = [i \in 1 .. n |-> files[i]], NEW file
  PROVE  /\ files \o <<file>> = [i \in 1 .. n + 1 |-> IF i = n + 1 THEN file ELSE files[i]]
         /\ files \o <<>> = files
         /\ Append(files, file) = files \o <<file>>
<1> DEFINE S == {files[i] : i \in 1 .. n} \cup {file}
           both == files \o <<file>>
<1>1. files \in Seq(S) /\ Len(files) = n /\ DOMAIN files = 1 .. n
  <2> HIDE DEF S
  <2>1. \A i \in 1 .. n : files[i] \in S
    BY DEF S
  <2> QED
    BY <2>1
<1>2. <<file>> \in Seq(S) /\ Len(<<file>>) = 1 /\ <<file>>[1] = file
  OBVIOUS
<1> HIDE DEF S
<1>3. both \in Seq(S) /\ Len(both) = n + 1 /\ DOMAIN both = 1 .. n + 1
      /\ (\A i \in 1 .. n : both[i] = files[i]) /\ both[n + 1] = file
  BY <1>1, <1>2
<1>4. both = [i \in 1 .. n + 1 |-> IF i = n + 1 THEN file ELSE files[i]]
  <2>1. both = [i \in 1 .. n + 1 |-> both[i]]
    BY <1>3
  <2>2. \A i \in 1 .. n + 1 : both[i] = IF i = n + 1 THEN file ELSE files[i]
    BY <1>3
  <2> QED
    BY <2>1, <2>2
<1>5. files \o <<>> = files
  BY <1>1
<1>6. Append(files, file) = both
  <2>1. Append(files, file) \in Seq(S) /\ Len(Append(files, file)) = n + 1
        /\ \A i \in 1 .. n : Append(files, file)[i] = files[i]
    BY <1>1, <1>2 DEF S
  <2>2. Append(files, file)[n + 1] = file
    BY <1>1, <1>2 DEF S
  <2>3. Append(files, file) = [i \in 1 .. n + 1 |-> Append(files, file)[i]]
    BY <2>1
  <2> QED
    BY <1>4, <2>1, <2>2, <2>3
<1> QED
  BY <1>4, <1>5, <1>6

\* A file under the next number is a file at the end.
LEMMA MovedToEnd ==
  ASSUME NEW n \in Nat, NEW files, files = [i \in 1 .. n |-> files[i]], NEW file
  PROVE  \E moved :
           /\ moved = With(files, n + 1, file)
           /\ moved = files \o <<file>>
           /\ moved = [i \in 1 .. n + 1 |-> moved[i]]
<1>1. DOMAIN files = 1 .. n /\ (1 .. n) \cup {n + 1} = 1 .. n + 1
  OBVIOUS
<1>2. With(files, n + 1, file) = [i \in 1 .. n + 1 |-> IF i = n + 1 THEN file ELSE files[i]]
  BY <1>1 DEF With
<1>3. files \o <<file>> = [i \in 1 .. n + 1 |-> IF i = n + 1 THEN file ELSE files[i]]
  BY Extended
<1>4. PICK moved : moved = With(files, n + 1, file)
  OBVIOUS
<1> QED
  BY <1>2, <1>3, <1>4

-----------------------------------------------------------------------------
(* The invariant *)

LEMMA EmptyNumbered == Numbered(<<>>)
<1>1. <<>> = [i \in 1 .. 0 |-> <<>>[i]]
  OBVIOUS
<1> QED
  BY <1>1 DEF Numbered

\* No result has been imported in the beginning.
THEOREM InitHolds == Init => IInv
<1> SUFFICES ASSUME Init PROVE IInv
  OBVIOUS
<1>1. current = [lib \in Libs |-> NoFile] /\ archived = [lib \in Libs |-> <<>>]
  BY DEF Init, Nothing
<1>2. figure \in Figures /\ step = "idle"
  BY DEF Init
<1> QED
  BY <1>1, <1>2, EmptyNumbered DEF IInv

LEMMA NextLibrary ==
  ASSUME IInv, step \in {"rotate", "copy"}, NextLib
  PROVE  (step' = "rotate" /\ pos' \in 1 .. Len(figure.libs)) \/ step' = "generate"
BY Libraries DEF IInv, NextLib

\* Steps that leave the files of the archive alone.
LEMMA OtherSteps ==
  ASSUME IInv, UNCHANGED <<figure, current, archived>>,
         step' \notin {"rotate", "copy"} \/ (step' = "rotate" /\ pos' \in 1 .. Len(figure.libs))
  PROVE  IInv'
<1>1. Libs' = Libs
  BY DEF Libs
<1> QED
  BY <1>1 DEF IInv

LEMMA RotateStep == IInv /\ Rotate => IInv' /\ UNCHANGED <<results, log>>
<1> SUFFICES ASSUME IInv, Rotate PROVE IInv' /\ UNCHANGED <<results, log>>
  OBVIOUS
<1>1. /\ step = "rotate" /\ step' = "copy" /\ pos' = pos /\ figure' = figure /\ results' = results
      /\ results[Lib] # NoFile /\ figure \in Figures /\ pos \in 1 .. Len(figure.libs)
      /\ Libs' = Libs /\ Lib' = Lib
  BY DEF Rotate, IInv, Libs, Lib, Skipped
<1>2. Lib \in Libs
  BY <1>1, Libraries DEF Lib
<1>3. current = [lib \in Libs |-> current[lib]] /\ archived = [lib \in Libs |-> archived[lib]]
      /\ \A lib \in Libs : Numbered(archived[lib])
  BY DEF IInv
<1>4. CASE current[Lib] = NoFile
  <2>1. current' = current /\ archived' = archived
    BY <1>4 DEF Rotate
  <2>2. log' = log
    BY <1>1, <2>1 DEF log
  <2>3. IInv'
    BY <1>1, <1>3, <1>4, <2>1 DEF IInv
  <2> QED
    BY <1>1, <2>2, <2>3
<1>5. CASE current[Lib] # NoFile
  <2> DEFINE files == archived[Lib]
             moved == With(files, FreeNumber(Lib), current[Lib])
  <2>1. /\ archived' = [archived EXCEPT ![Lib] = moved]
        /\ current' = [current EXCEPT ![Lib] = NoFile]
    BY <1>5 DEF Rotate
  <2>2. PICK n \in Nat : files = [i \in 1 .. n |-> files[i]]
    BY <1>2, <1>3 DEF Numbered
  <2>3. FreeNumber(Lib) = n + 1
    <3>1. DOMAIN files = 1 .. n
      BY <2>2
    <3> QED
      BY <3>1, FirstFree
  <2>4. /\ moved = files \o <<current[Lib]>> /\ Numbered(moved)
        /\ moved \o <<>> = moved
    <3>1. PICK fs, file : fs = files /\ file = current[Lib]
      OBVIOUS
    <3>2. fs = [i \in 1 .. n |-> fs[i]]
      BY <2>2, <3>1
    <3>3. PICK m : m = With(fs, n + 1, file) /\ m = fs \o <<file>> /\ m = [i \in 1 .. n + 1 |-> m[i]]
      BY <3>2, MovedToEnd
    <3>4. PICK k \in Nat : k = n + 1
      OBVIOUS
    <3>5. m = [i \in 1 .. k |-> m[i]]
      BY <3>3, <3>4
    <3>6. m \o <<>> = m /\ Numbered(m)
      BY <3>5, Extended DEF Numbered
    <3> QED
      BY <2>3, <3>1, <3>3, <3>6
  <2>5. /\ archived' = [lib \in Libs |-> IF lib = Lib THEN moved ELSE archived[lib]]
        /\ current' = [lib \in Libs |-> IF lib = Lib THEN NoFile ELSE current[lib]]
    <3> HIDE DEF moved
    <3> QED
      BY <1>3, <2>1
  <2>6. IInv'
    <3>1. \A lib \in Libs : Numbered(archived'[lib])
      BY <1>3, <2>4, <2>5
    <3>2. current'[Lib] = NoFile
      BY <1>2, <2>5
    <3>3. /\ archived' = [lib \in Libs |-> archived'[lib]]
          /\ current' = [lib \in Libs |-> current'[lib]]
      <4> HIDE DEF moved
      <4> QED
        BY <2>5
    <3> QED
      BY <1>1, <3>1, <3>2, <3>3 DEF IInv
  <2>7. log' = log
    <3> DEFINE before(lib) == archived[lib] \o (IF current[lib] = NoFile THEN <<>> ELSE <<current[lib]>>)
               after(lib) == archived'[lib] \o (IF current'[lib] = NoFile THEN <<>> ELSE <<current'[lib]>>)
    <3>1. \A lib \in Libs : after(lib) = before(lib)
      <4> SUFFICES ASSUME NEW lib \in Libs PROVE after(lib) = before(lib)
        OBVIOUS
      <4>1. CASE lib = Lib
        <5>1. archived'[lib] = moved /\ current'[lib] = NoFile
          BY <2>5, <4>1
        <5>2. after(lib) = moved
          BY <2>4, <5>1
        <5>3. before(lib) = files \o <<current[Lib]>>
          BY <1>5, <4>1
        <5> QED
          BY <2>4, <5>2, <5>3
      <4>2. CASE lib # Lib
        BY <2>5, <4>2
      <4> QED
        BY <4>1, <4>2
    <3>2. log = [lib \in Libs |-> before(lib)]
      BY DEF log
    <3>3. log' = [lib \in Libs |-> after(lib)]
      BY <1>1 DEF log
    <3> HIDE DEF before, after
    <3> QED
      BY <3>1, <3>2, <3>3
  <2> QED
    BY <1>1, <2>6, <2>7
<1> QED
  BY <1>4, <1>5

LEMMA CopyStep == IInv /\ Copy => IInv' /\ Lib \in DOMAIN log /\ Archive!Import(Lib)
<1> SUFFICES ASSUME IInv, Copy PROVE IInv' /\ Lib \in DOMAIN log /\ Archive!Import(Lib)
  OBVIOUS
<1>1. /\ step = "copy" /\ figure' = figure /\ results' = results /\ archived' = archived
      /\ results[Lib] # NoFile /\ current[Lib] = NoFile
      /\ current' = [current EXCEPT ![Lib] = results[Lib]]
      /\ figure \in Figures /\ pos \in 1 .. Len(figure.libs) /\ Libs' = Libs
      /\ current = [lib \in Libs |-> current[lib]]
  BY DEF Copy, IInv, Libs
<1>2. Lib \in Libs
  BY <1>1, Libraries DEF Lib
<1>3. (step' = "rotate" /\ pos' \in 1 .. Len(figure.libs)) \/ step' = "generate"
  BY <1>1, NextLibrary DEF Copy
<1>4. current' = [lib \in Libs |-> IF lib = Lib THEN results[Lib] ELSE current[lib]]
  BY <1>1
<1>5. IInv'
  <2>1. current' = [lib \in Libs |-> current'[lib]]
    BY <1>4
  <2> QED
    BY <1>1, <1>3, <2>1 DEF IInv
<1>6. Archive!Import(Lib)
  <2>1. PICK n \in Nat : archived[Lib] = [i \in 1 .. n |-> archived[Lib][i]]
    BY <1>2 DEF IInv, Numbered
  <2>2. PICK files : files = archived[Lib]
    OBVIOUS
  <2>3. PICK file : file = results[Lib]
    OBVIOUS
  <2>4. files \o <<file>> = Append(files, file) /\ files \o <<>> = files
    BY <2>1, <2>2, Extended
  <2>5. log[Lib] = files
    BY <1>1, <1>2, <2>2, <2>4 DEF log
  <2>6. log' = [lib \in Libs |-> IF lib = Lib THEN files \o <<file>> ELSE log[lib]]
    <3>1. \A lib \in Libs :
            archived'[lib] \o (IF current'[lib] = NoFile THEN <<>> ELSE <<current'[lib]>>)
              = IF lib = Lib THEN files \o <<file>> ELSE log[lib]
      BY <1>1, <1>4, <2>2, <2>3 DEF log
    <3> QED
      BY <1>1, <3>1 DEF log
  <2>7. [log EXCEPT ![Lib] = Append(@, results[Lib])]
          = [lib \in Libs |-> IF lib = Lib THEN Append(files, file) ELSE log[lib]]
    <3>1. DOMAIN log = Libs
      BY DEF log
    <3> QED
      BY <2>3, <2>5, <3>1
  <2> QED
    BY <1>1, <2>4, <2>6, <2>7 DEF Archive!Import
<1>7. Lib \in DOMAIN log
  BY <1>2 DEF log
<1> QED
  BY <1>5, <1>6, <1>7

LEMMA CleanStep == IInv /\ Clean => IInv' /\ Archive!Next
<1> SUFFICES ASSUME IInv, Clean PROVE IInv' /\ Archive!Next
  OBVIOUS
<1>1. /\ figure' = figure /\ results' = results /\ Libs' = Libs /\ step' = "idle"
      /\ current' = [lib \in Libs |-> NoFile] /\ archived' = [lib \in Libs |-> <<>>]
      /\ figure \in Figures
  BY DEF Clean, Ended, Nothing, Libs, IInv
<1>2. log' = [lib \in Libs |-> <<>>]
  <2>1. <<>> \o <<>> = <<>>
    OBVIOUS
  <2>2. \A lib \in Libs :
          archived'[lib] \o (IF current'[lib] = NoFile THEN <<>> ELSE <<current'[lib]>>) = <<>>
    BY <1>1, <2>1
  <2> QED
    BY <1>1, <2>2 DEF log
<1>3. DOMAIN log = Libs
  BY DEF log
<1>4. IInv'
  BY <1>1, EmptyNumbered DEF IInv
<1> QED
  BY <1>1, <1>2, <1>3, <1>4 DEF Archive!Next, Archive!Remove, Archive!Empty

\* Every step is a step of the archive, or none.
THEOREM StepHolds == IInv /\ [Next]_vars => IInv' /\ [Archive!Next]_<<results, log>>
<1> SUFFICES ASSUME IInv, [Next]_vars PROVE IInv' /\ [Archive!Next]_<<results, log>>
  OBVIOUS
<1>0. UNCHANGED <<figure, current, archived>> => UNCHANGED log
  BY DEF log, Libs
<1>1. CASE StartExecution \/ RunPiece \/ StopExecution
  <2>1. UNCHANGED <<figure, current, archived>>
    BY <1>1 DEF StartExecution, RunPiece, StopExecution
  <2>2. step' \in {"run", "idle"}
    BY <1>1 DEF StartExecution, RunPiece, StopExecution
  <2> QED
    BY <1>0, <2>1, <2>2, OtherSteps DEF Archive!Next, Archive!Produce
<1>2. CASE Start
  <2>1. figure \in Figures
    BY DEF IInv
  <2> QED
    BY <1>0, <1>2, <2>1, OtherSteps, Libraries DEF Start
<1>3. CASE SkipMissing
  <2>1. (step' = "rotate" /\ pos' \in 1 .. Len(figure.libs)) \/ step' = "generate"
    BY <1>3, NextLibrary DEF SkipMissing
  <2> QED
    BY <1>0, <1>3, <2>1, OtherSteps DEF SkipMissing
<1>4. CASE Parse \/ Draw \/ Stopped
  <2>1. UNCHANGED <<figure, current, archived, results>>
    BY <1>4 DEF Parse, Draw, Stopped
  <2>2. step' \in {"idle", "draw", "clean"}
    <3>1. Parse => step' \in {"idle", "draw"}
      BY DEF Parse, Ended
    <3>2. Draw => step' \in {"idle", "draw", "clean"}
      <4>1. Draw /\ PlotDies => step' = "idle"
        BY DEF Draw, Ended
      <4>2. Draw /\ ~PlotDies => step' \in {"draw", "clean"}
        BY DEF Draw
      <4> QED
        BY <4>1, <4>2
    <3>3. Stopped => step' = "idle"
      BY DEF Stopped, Ended
    <3> QED
      BY <1>4, <3>1, <3>2, <3>3
  <2> QED
    BY <1>0, <2>1, <2>2, OtherSteps
<1>6. CASE Copy
  BY <1>6, CopyStep DEF Archive!Next
<1>5. CASE UNCHANGED vars
  <2>1. UNCHANGED <<figure, step, pos, current, archived, results>>
    BY <1>5 DEF vars
  <2>2. IInv'
    BY <2>1 DEF IInv, Libs, Lib
  <2> QED
    BY <1>0, <2>1, <2>2
<1> QED
  BY <1>1, <1>2, <1>3, <1>4, <1>5, <1>6, RotateStep, CleanStep DEF Next

\* The import is an archive: whenever executions of benchmarks and scripts are
\* stopped, imported results are neither lost nor overwritten, and what is
\* plotted is the end of the log (import_pmembench.sh:25-39,
\* import_pmemkv.sh:17-30).
THEOREM ImportIsArchive == Spec => NothingOverwritten
<1>1. Init => Archive!Init
  <2> SUFFICES ASSUME Init PROVE Archive!Init
    OBVIOUS
  <2>1. current = [lib \in Libs |-> NoFile] /\ archived = [lib \in Libs |-> <<>>]
    BY DEF Init, Nothing
  <2>2. <<>> \o <<>> = <<>>
    OBVIOUS
  <2>3. log = [lib \in Libs |-> <<>>]
    BY <2>1, <2>2 DEF log
  <2> QED
    BY <2>3 DEF Archive!Init, Archive!Empty
<1> QED
  BY <1>1, InitHolds, StepHolds, PTL DEF Spec, NothingOverwritten, Archive!Spec

-----------------------------------------------------------------------------
(* Induction, and the recursive functions of the model *)

LEMMA LeastNumber ==
  ASSUME NEW T, T \subseteq Nat, T # {}
  PROVE  \E x \in T : \A y \in T : x <= y
<1>1. IsWellFoundedOn(OpToRel(<, Nat), Nat)
  BY NatLessThanWellFounded
<1>2. PICK x \in T : \A y \in T : ~(<<y, x>> \in OpToRel(<, Nat))
  BY <1>1, WFMin
<1>3. \A y \in T : ~(y < x)
  <2> SUFFICES ASSUME NEW y \in T, y < x PROVE FALSE
    OBVIOUS
  <2>1. x \in Nat /\ y \in Nat
    OBVIOUS
  <2>2. <<y, x>> \in OpToRel(<, Nat)
    BY <2>1 DEF OpToRel
  <2> QED
    BY <1>2, <2>2
<1>4. \A y \in T : x <= y
  BY <1>3
<1> QED
  BY <1>4

\* What the set of the numbers with a property has to satisfy.
LEMMA Induction ==
  ASSUME NEW S, 0 \in S, \A n \in Nat : n \in S => n + 1 \in S
  PROVE  \A n \in Nat : n \in S
<1> DEFINE T == {n \in Nat : n \notin S}
<1> SUFFICES ASSUME T # {} PROVE FALSE
  OBVIOUS
<1>1. PICK x \in T : \A y \in T : x <= y
  <2>1. T \subseteq Nat
    OBVIOUS
  <2> HIDE DEF T
  <2> QED
    BY <2>1, LeastNumber
<1>2. x # 0 /\ x \in Nat /\ x - 1 \in Nat
  OBVIOUS
<1>3. x - 1 \in S
  BY <1>1, <1>2
<1> QED
  BY <1>2, <1>3

\* Line by line.
LEMMA ParserReads ==
  ASSUME NEW lines
  PROVE  /\ parsing(lines)[0] = AtFirstLine
         /\ \A i \in 1 .. Len(lines) : parsing(lines)[i] = ReadLine(parsing(lines)[i - 1], lines[i])
<1> DEFINE n == Len(lines)
           Is(g, k) == g = [i \in 0 .. k |-> IF i = 0 THEN AtFirstLine
                                             ELSE ReadLine(g[i - 1], lines[i])]
           S == {k \in Nat : \E g : Is(g, k)}
           after[i \in 0 .. Len(lines)] ==
             IF i = 0 THEN AtFirstLine ELSE ReadLine(after[i - 1], lines[i])
<1>1. 0 \in S
  <2> DEFINE g == [i \in 0 .. 0 |-> AtFirstLine]
  <2>1. Is(g, 0)
    OBVIOUS
  <2> QED
    BY <2>1
<1>2. \A k \in Nat : k \in S => k + 1 \in S
  <2> SUFFICES ASSUME NEW k \in Nat, k \in S PROVE \E g : Is(g, k + 1)
    OBVIOUS
  <2>1. PICK g : Is(g, k)
    OBVIOUS
  <2> DEFINE h == [i \in 0 .. k + 1 |-> IF i = k + 1 THEN ReadLine(g[k], lines[k + 1]) ELSE g[i]]
  <2>2. \A i \in 0 .. k + 1 : h[i] = IF i = 0 THEN AtFirstLine ELSE ReadLine(h[i - 1], lines[i])
    BY <2>1
  <2>3. Is(h, k + 1)
    BY <2>2
  <2> QED
    BY <2>3
<1>3. n \in S
  <2>1. n \in Nat
    OBVIOUS
  <2> HIDE DEF S, n
  <2> QED
    BY <1>1, <1>2, <2>1, Induction
<1>4. PICK g : Is(g, n)
  BY <1>3
<1>5. after = [i \in 0 .. n |-> IF i = 0 THEN AtFirstLine ELSE ReadLine(after[i - 1], lines[i])]
  BY <1>4
<1>6. parsing(lines) = after
  BY DEF parsing
<1>7. n \in Nat
  OBVIOUS
<1> HIDE DEF after, n
<1>8. after[0] = AtFirstLine /\ \A i \in 1 .. n : after[i] = ReadLine(after[i - 1], lines[i])
  BY <1>5, <1>7
<1> QED
  BY <1>6, <1>8 DEF n

\* Each element is kept or left out.
LEMMA ChosenStep ==
  ASSUME NEW s, NEW S
  PROVE  \E f : /\ Chosen(s, S) = f[Len(s)] /\ f[0] = <<>>
                /\ \A i \in 1 .. Len(s) :
                     f[i] = IF s[i] \in S THEN Append(f[i - 1], s[i]) ELSE f[i - 1]
<1> DEFINE n == Len(s)
           Add(i, last) == IF s[i] \in S THEN Append(last, s[i]) ELSE last
           Is(g, k) == g = [i \in 0 .. k |-> IF i = 0 THEN <<>> ELSE Add(i, g[i - 1])]
           N == {k \in Nat : \E g : Is(g, k)}
           chosen[i \in 0 .. Len(s)] ==
             IF i = 0 THEN <<>>
             ELSE IF s[i] \in S THEN Append(chosen[i - 1], s[i]) ELSE chosen[i - 1]
<1> HIDE DEF Add
<1>1. 0 \in N
  <2> DEFINE g == [i \in 0 .. 0 |-> <<>>]
  <2>1. Is(g, 0)
    OBVIOUS
  <2> QED
    BY <2>1
<1>2. \A k \in Nat : k \in N => k + 1 \in N
  <2> SUFFICES ASSUME NEW k \in Nat, k \in N PROVE \E g : Is(g, k + 1)
    OBVIOUS
  <2>1. PICK g : Is(g, k)
    OBVIOUS
  <2> DEFINE h == [i \in 0 .. k + 1 |-> IF i = k + 1 THEN Add(k + 1, g[k]) ELSE g[i]]
  <2>2. \A i \in 0 .. k + 1 : h[i] = IF i = 0 THEN <<>> ELSE Add(i, h[i - 1])
    BY <2>1
  <2>3. Is(h, k + 1)
    BY <2>2
  <2> QED
    BY <2>3
<1>3. n \in N
  <2>1. n \in Nat
    OBVIOUS
  <2> HIDE DEF N, n
  <2> QED
    BY <1>1, <1>2, <2>1, Induction
<1>4. PICK g : Is(g, n)
  BY <1>3
<1>5. chosen = [i \in 0 .. n |-> IF i = 0 THEN <<>> ELSE Add(i, chosen[i - 1])]
  BY <1>4 DEF Add
<1>6. Chosen(s, S) = chosen[n]
  BY DEF Chosen
<1>7. n \in Nat
  OBVIOUS
<1> HIDE DEF chosen, n
<1>8. chosen[0] = <<>> /\ \A i \in 1 .. n : chosen[i] = Add(i, chosen[i - 1])
  BY <1>5, <1>7
<1> QED
  BY <1>6, <1>8 DEF n, Add

LEMMA ChosenElements ==
  ASSUME NEW T, NEW s \in Seq(T), NEW S
  PROVE  /\ Chosen(s, S) \in Seq(T \cap S) /\ Len(Chosen(s, S)) <= Len(s)
         /\ Len(s) > 0 /\ s[1] \in S => Len(Chosen(s, S)) > 0 /\ Chosen(s, S)[1] = s[1]
<1>1. PICK f : /\ Chosen(s, S) = f[Len(s)] /\ f[0] = <<>>
               /\ \A i \in 1 .. Len(s) :
                    f[i] = IF s[i] \in S THEN Append(f[i - 1], s[i]) ELSE f[i - 1]
  BY ChosenStep
<1> DEFINE n == Len(s)
           P(i) == /\ f[i] \in Seq(T \cap S) /\ Len(f[i]) <= i
                   /\ i > 0 /\ s[1] \in S => Len(f[i]) > 0 /\ f[i][1] = s[1]
           N == {i \in Nat : i <= n => P(i)}
<1>2. 0 \in N
  <2>1. f[0] \in Seq(T \cap S) /\ Len(f[0]) = 0
    BY <1>1
  <2> QED
    BY <2>1
<1>3. \A i \in Nat : i \in N => i + 1 \in N
  <2> SUFFICES ASSUME NEW i \in Nat, P(i), i + 1 <= n PROVE P(i + 1)
    OBVIOUS
  <2>1. s[i + 1] \in T /\ n \in Nat /\ i + 1 \in 1 .. Len(s) /\ (i + 1) - 1 = i
    OBVIOUS
  <2>2. CASE s[i + 1] \in S
    <3>1. f[i + 1] = Append(f[i], s[i + 1])
      BY <1>1, <2>1, <2>2
    <3>2. f[i] \in Seq(T \cap S) /\ s[i + 1] \in T \cap S
      BY <2>1, <2>2
    <3>3. /\ f[i + 1] \in Seq(T \cap S) /\ Len(f[i + 1]) = Len(f[i]) + 1
          /\ (\A j \in 1 .. Len(f[i]) : f[i + 1][j] = f[i][j]) /\ f[i + 1][Len(f[i]) + 1] = s[i + 1]
      BY <3>1, <3>2
    <3>4. CASE i = 0
      BY <1>1, <3>3, <3>4
    <3>5. CASE i > 0
      BY <3>3, <3>5
    <3> QED
      BY <3>4, <3>5
  <2>3. CASE s[i + 1] \notin S
    <3>1. f[i + 1] = f[i]
      BY <1>1, <2>1, <2>3
    <3>2. i > 0 \/ s[1] \notin S
      BY <2>3
    <3> QED
      BY <3>1, <3>2
  <2> QED
    BY <2>2, <2>3
<1>4. n \in N /\ n \in Nat
  <2>1. n \in Nat
    OBVIOUS
  <2> HIDE DEF N, n
  <2> QED
    BY <1>2, <1>3, <2>1, Induction
<1>5. P(n)
  BY <1>4
<1> HIDE DEF N, n
<1> QED
  BY <1>1, <1>4, <1>5 DEF n

\* The elements of S come first.
LEMMA ChosenPrefix ==
  ASSUME NEW T, NEW s \in Seq(T), NEW S, NEW k \in 0 .. Len(s),
         \A i \in 1 .. Len(s) : s[i] \in S <=> i <= k
  PROVE  Chosen(s, S) \in Seq(T) /\ Len(Chosen(s, S)) = k /\ \A i \in 1 .. k : Chosen(s, S)[i] = s[i]
<1>1. PICK f : /\ Chosen(s, S) = f[Len(s)] /\ f[0] = <<>>
               /\ \A i \in 1 .. Len(s) :
                    f[i] = IF s[i] \in S THEN Append(f[i - 1], s[i]) ELSE f[i - 1]
  BY ChosenStep
<1> DEFINE n == Len(s)
           m(i) == IF i <= k THEN i ELSE k
           P(i) == /\ f[i] \in Seq(T) /\ Len(f[i]) = m(i)
                   /\ \A j \in 1 .. m(i) : f[i][j] = s[j]
           N == {i \in Nat : i <= n => P(i)}
<1>2. 0 \in N
  <2>1. f[0] \in Seq(T) /\ Len(f[0]) = 0 /\ m(0) = 0
    BY <1>1
  <2> HIDE DEF m
  <2>2. P(0)
    BY <2>1
  <2> QED
    BY <2>2
<1>3. \A i \in Nat : i \in N => i + 1 \in N
  <2> SUFFICES ASSUME NEW i \in Nat, P(i), i + 1 <= n PROVE P(i + 1)
    <3>1. n \in Nat
      OBVIOUS
    <3> HIDE DEF P, n
    <3> QED
      BY <3>1
  <2>1. s[i + 1] \in T /\ n \in Nat /\ i + 1 \in 1 .. Len(s) /\ (i + 1) - 1 = i
    OBVIOUS
  <2>2. CASE i + 1 <= k
    <3>1. f[i + 1] = Append(f[i], s[i + 1])
      BY <1>1, <2>1, <2>2
    <3>2. f[i] \in Seq(T) /\ Len(f[i]) = i /\ \A j \in 1 .. i : f[i][j] = s[j]
      BY <2>2
    <3>3. /\ f[i + 1] \in Seq(T) /\ Len(f[i + 1]) = i + 1
          /\ (\A j \in 1 .. i : f[i + 1][j] = s[j]) /\ f[i + 1][i + 1] = s[i + 1]
      BY <2>1, <3>1, <3>2
    <3>4. m(i + 1) = i + 1
      BY <2>2
    <3> HIDE DEF m
    <3> QED
      BY <3>3, <3>4
  <2>3. CASE i + 1 > k
    <3>1. f[i + 1] = f[i]
      BY <1>1, <2>1, <2>3
    <3>2. m(i + 1) = m(i)
      BY <2>3
    <3> HIDE DEF m
    <3> QED
      BY <3>1, <3>2
  <2> QED
    BY <2>2, <2>3
<1>4. n \in N /\ n \in Nat
  <2>1. n \in Nat
    OBVIOUS
  <2> HIDE DEF N, n
  <2> QED
    BY <1>2, <1>3, <2>1, Induction
<1>5. P(n) /\ m(n) = k
  BY <1>4
<1> HIDE DEF N, n, m
<1> QED
  BY <1>1, <1>5 DEF n

\* Where the parts of a flattened sequence begin.
Starts(parts, start) ==
  /\ start \in [1 .. Len(parts) + 1 -> Nat]
  /\ start[1] = 0
  /\ \A b \in 1 .. Len(parts) : start[b + 1] = start[b] + Len(parts[b])

LEMMA FlattenStep ==
  ASSUME NEW parts, Len(parts) > 0
  PROVE  \E f : /\ FlattenSeq(parts) = f[Len(parts)] /\ f[1] = parts[1]
                /\ \A i \in 2 .. Len(parts) : f[i] = f[i - 1] \o parts[i]
<1> DEFINE n == Len(parts)
           Add(i, last) == IF i = 1 THEN parts[i] ELSE last \o parts[i]
           Is(g, k) == g = [i \in 1 .. k |-> Add(i, g[i - 1])]
           N == {k \in Nat : k > 0 => \E g : Is(g, k)}
           flatten[i \in 1 .. Len(parts)] ==
             IF i = 1 THEN parts[i] ELSE flatten[i - 1] \o parts[i]
<1>0. \A x : Add(1, x) = parts[1]
  OBVIOUS
<1> HIDE DEF Add
<1>1. 0 \in N
  OBVIOUS
<1>2. \A k \in Nat : k \in N => k + 1 \in N
  <2> SUFFICES ASSUME NEW k \in Nat, k \in N PROVE \E g : Is(g, k + 1)
    OBVIOUS
  <2>1. CASE k = 0
    <3> DEFINE g == [i \in 1 .. 1 |-> parts[1]]
    <3>1. \A i \in 1 .. 1 : Add(i, g[i - 1]) = parts[1]
      BY <1>0
    <3>2. Is(g, 1)
      BY <3>1
    <3> QED
      BY <2>1, <3>2
  <2>2. CASE k > 0
    <3>1. PICK g : Is(g, k)
      BY <2>2
    <3> DEFINE h == [i \in 1 .. k + 1 |-> IF i = k + 1 THEN Add(k + 1, g[k]) ELSE g[i]]
    <3>2. \A i \in 1 .. k + 1 : h[i] = Add(i, h[i - 1])
      <4> SUFFICES ASSUME NEW i \in 1 .. k + 1 PROVE h[i] = Add(i, h[i - 1])
        OBVIOUS
      <4>1. CASE i = 1
        <5>1. 1 \in 1 .. k /\ 1 # k + 1
          BY <2>2
        <5> QED
          BY <1>0, <3>1, <4>1, <5>1
      <4>2. CASE i \in 2 .. k
        <5>1. i - 1 \in 1 .. k + 1 /\ i - 1 # k + 1 /\ i # k + 1 /\ i \in 1 .. k
          BY <4>2
        <5> QED
          BY <3>1, <5>1
      <4>3. CASE i = k + 1
        <5>1. i - 1 = k /\ k \in 1 .. k + 1 /\ k # k + 1
          BY <2>2, <4>3
        <5> QED
          BY <4>3, <5>1
      <4> QED
        BY <4>1, <4>2, <4>3
    <3>3. Is(h, k + 1)
      BY <3>2
    <3> QED
      BY <3>3
  <2> QED
    BY <2>1, <2>2
<1>3. n \in N
  <2>1. n \in Nat
    OBVIOUS
  <2> HIDE DEF N, n
  <2> QED
    BY <1>1, <1>2, <2>1, Induction
<1>4. PICK g : Is(g, n)
  BY <1>3
<1>5. flatten = [i \in 1 .. n |-> Add(i, flatten[i - 1])]
  BY <1>4 DEF Add
<1>6. FlattenSeq(parts) = flatten[n]
  BY DEF FlattenSeq
<1>7. n \in Nat /\ n > 0
  OBVIOUS
<1> HIDE DEF flatten, n
<1>8. flatten[1] = parts[1]
  BY <1>0, <1>5, <1>7
<1>9. \A i \in 2 .. n : flatten[i] = flatten[i - 1] \o parts[i]
  <2> SUFFICES ASSUME NEW i \in 2 .. n PROVE flatten[i] = flatten[i - 1] \o parts[i]
    OBVIOUS
  <2>1. flatten[i] = Add(i, flatten[i - 1]) /\ i # 1
    BY <1>5, <1>7
  <2>2. Add(i, flatten[i - 1]) = flatten[i - 1] \o parts[i]
    BY <2>1 DEF Add
  <2> QED
    BY <2>1, <2>2
<1> QED
  BY <1>6, <1>8, <1>9 DEF n

\* Each place of a flattened sequence is a place of a part.
Places(parts, flat, start) ==
  /\ Starts(parts, start) /\ Len(flat) = start[Len(parts) + 1]
  /\ \A b, c \in 1 .. Len(parts) + 1 : b <= c => start[b] <= start[c]
  /\ \A b \in 1 .. Len(parts) : \A k \in 1 .. Len(parts[b]) :
       start[b] + k \in 1 .. Len(flat) /\ flat[start[b] + k] = parts[b][k]
  /\ \A i \in 1 .. Len(flat) : \E b \in 1 .. Len(parts) :
       \E k \in 1 .. Len(parts[b]) : i = start[b] + k

LEMMA Flattened ==
  ASSUME NEW T, NEW parts, NEW flat, flat = FlattenSeq(parts), Len(parts) > 0,
         \A b \in 1 .. Len(parts) : parts[b] \in Seq(T)
  PROVE  flat \in Seq(T) /\ \E start : Places(parts, flat, start)
<1>1. PICK f : /\ FlattenSeq(parts) = f[Len(parts)] /\ f[1] = parts[1]
               /\ \A i \in 2 .. Len(parts) : f[i] = f[i - 1] \o parts[i]
  BY FlattenStep
<1> DEFINE n == Len(parts)
<1>2. n \in Nat /\ n > 0
  OBVIOUS
<1>3. \A i \in 1 .. n : f[i] \in Seq(T)
  <2> DEFINE N == {i \in Nat : i \in 1 .. n => f[i] \in Seq(T)}
  <2>1. 0 \in N
    OBVIOUS
  <2>2. \A i \in Nat : i \in N => i + 1 \in N
    <3> SUFFICES ASSUME NEW i \in Nat, i \in N, i + 1 \in 1 .. n PROVE f[i + 1] \in Seq(T)
      OBVIOUS
    <3>1. parts[i + 1] \in Seq(T)
      OBVIOUS
    <3>2. CASE i = 0
      BY <1>1, <3>1, <3>2
    <3>3. CASE i > 0
      <4>1. i \in 1 .. n /\ i + 1 \in 2 .. Len(parts) /\ (i + 1) - 1 = i
        BY <1>2, <3>3
      <4>2. f[i] \in Seq(T)
        BY <4>1
      <4>3. f[i + 1] = f[i] \o parts[i + 1]
        BY <1>1, <4>1
      <4> QED
        BY <3>1, <4>2, <4>3
    <3> QED
      BY <3>2, <3>3
  <2> HIDE DEF N
  <2>3. \A i \in Nat : i \in N
    BY <2>1, <2>2, Induction
  <2> QED
    BY <1>2, <2>3 DEF N
<1> DEFINE start == [b \in 1 .. n + 1 |-> IF b = 1 THEN 0 ELSE Len(f[b - 1])]
<1>4. \A i \in 1 .. n : i + 1 \in 1 .. n + 1 /\ start[i + 1] = Len(f[i]) /\ start[i + 1] \in Nat
  <2> SUFFICES ASSUME NEW i \in 1 .. n
               PROVE  i + 1 \in 1 .. n + 1 /\ start[i + 1] = Len(f[i]) /\ start[i + 1] \in Nat
    OBVIOUS
  <2>1. i + 1 \in 1 .. n + 1 /\ i + 1 # 1 /\ (i + 1) - 1 = i
    BY <1>2
  <2> QED
    BY <2>1
<1>5. start[1] = 0
  BY <1>2
<1>6. start \in [1 .. n + 1 -> Nat]
  OBVIOUS
<1>7. \A b \in 1 .. n : start[b + 1] = start[b] + Len(parts[b])
  <2> SUFFICES ASSUME NEW b \in 1 .. n PROVE start[b + 1] = start[b] + Len(parts[b])
    OBVIOUS
  <2>1. start[b + 1] = Len(f[b]) /\ parts[b] \in Seq(T)
    BY <1>4
  <2>2. CASE b = 1
    BY <1>1, <1>5, <2>1, <2>2
  <2>3. CASE b # 1
    <3>1. b \in 2 .. Len(parts) /\ b - 1 \in 1 .. n /\ (b - 1) + 1 = b
      BY <1>2, <2>3
    <3>2. f[b] = f[b - 1] \o parts[b] /\ f[b - 1] \in Seq(T)
      BY <1>1, <1>3, <3>1
    <3>3. Len(f[b]) = Len(f[b - 1]) + Len(parts[b])
      BY <2>1, <3>2
    <3>4. start[b] = Len(f[b - 1])
      <4>1. start[(b - 1) + 1] = Len(f[b - 1])
        BY <1>4, <3>1
      <4> QED
        BY <3>1, <4>1
    <3> QED
      BY <2>1, <3>3, <3>4
  <2> QED
    BY <2>2, <2>3
<1> HIDE DEF start
<1>8. \A b \in 1 .. n : start[b] \in Nat /\ start[b + 1] \in Nat /\ start[b] <= start[b + 1]
  <2> SUFFICES ASSUME NEW b \in 1 .. n
               PROVE  start[b] \in Nat /\ start[b + 1] \in Nat /\ start[b] <= start[b + 1]
    OBVIOUS
  <2>1. start[b] \in Nat /\ start[b + 1] \in Nat /\ Len(parts[b]) \in Nat
    BY <1>2, <1>4, <1>6
  <2> QED
    BY <1>7, <2>1
<1>9. \A b, c \in 1 .. n + 1 : b <= c => start[b] <= start[c]
  <2> SUFFICES ASSUME NEW b \in 1 .. n + 1 PROVE \A c \in 1 .. n + 1 : b <= c => start[b] <= start[c]
    OBVIOUS
  <2> DEFINE N == {d \in Nat : b + d <= n + 1 => start[b] <= start[b + d]}
  <2>1. 0 \in N
    <3>1. start[b] \in Nat /\ b + 0 = b
      BY <1>6
    <3> QED
      BY <3>1
  <2>2. \A d \in Nat : d \in N => d + 1 \in N
    <3> SUFFICES ASSUME NEW d \in Nat, d \in N, b + (d + 1) <= n + 1
                 PROVE  start[b] <= start[b + (d + 1)]
      OBVIOUS
    <3>1. b + d \in 1 .. n /\ b + (d + 1) = (b + d) + 1 /\ b + d <= n + 1
      BY <1>2
    <3>2. start[b] <= start[b + d]
      BY <3>1
    <3>3. start[b + d] <= start[(b + d) + 1] /\ start[b + d] \in Nat /\ start[(b + d) + 1] \in Nat
      BY <1>8, <3>1
    <3>4. start[b] \in Nat
      BY <1>6
    <3> QED
      BY <3>1, <3>2, <3>3, <3>4
  <2> HIDE DEF N
  <2>3. \A d \in Nat : d \in N
    BY <2>1, <2>2, Induction
  <2> SUFFICES ASSUME NEW c \in 1 .. n + 1, b <= c PROVE start[b] <= start[c]
    OBVIOUS
  <2>4. c - b \in Nat /\ b + (c - b) = c /\ c <= n + 1
    BY <1>2
  <2> QED
    BY <2>3, <2>4 DEF N
<1> DEFINE P(i) ==
             /\ \A b \in 1 .. i : \A k \in 1 .. Len(parts[b]) :
                  start[b] + k \in 1 .. Len(f[i]) /\ f[i][start[b] + k] = parts[b][k]
             /\ \A j \in 1 .. Len(f[i]) : \E b \in 1 .. i : \E k \in 1 .. Len(parts[b]) : j = start[b] + k
<1>10. P(1)
  <2>1. f[1] = parts[1] /\ start[1] = 0 /\ Len(parts[1]) \in Nat
    BY <1>1, <1>5
  <2>2. \A b \in 1 .. 1 : b = 1
    OBVIOUS
  <2>3. 1 \in 1 .. 1
    OBVIOUS
  <2> QED
    BY <2>1, <2>2, <2>3
<1>11. \A i \in 1 .. n - 1 : P(i) => P(i + 1)
  <2> SUFFICES ASSUME NEW i \in 1 .. n - 1, P(i) PROVE P(i + 1)
    OBVIOUS
  <2>1. i \in 1 .. n /\ i + 1 \in 2 .. Len(parts) /\ i + 1 \in 1 .. n /\ (i + 1) - 1 = i /\ i \in Nat
    BY <1>2
  <2>2. f[i] \in Seq(T) /\ parts[i + 1] \in Seq(T) /\ f[i + 1] = f[i] \o parts[i + 1]
    BY <1>1, <1>3, <2>1
  <2>3. start[i + 1] = Len(f[i])
    BY <1>4, <2>1
  <2> DEFINE g == f[i]
             part == parts[i + 1]
             h == f[i + 1]
  <2>4. /\ Len(h) = Len(g) + Len(part) /\ Len(g) \in Nat /\ Len(part) \in Nat
        /\ \A j \in 1 .. Len(g) : h[j] = g[j]
        /\ \A k \in 1 .. Len(part) : h[Len(g) + k] = part[k]
    <3> HIDE DEF g, part, h
    <3>1. g \in Seq(T) /\ part \in Seq(T) /\ h = g \o part
      BY <2>2 DEF g, part, h
    <3>2. /\ Len(h) = Len(g) + Len(part) /\ Len(g) \in Nat /\ Len(part) \in Nat
          /\ \A j \in 1 .. Len(g) : h[j] = g[j]
      BY <3>1
    <3>3. ASSUME NEW k \in 1 .. Len(part) PROVE h[Len(g) + k] = part[k]
      <4>1. Len(g) + k \in 1 .. Len(g) + Len(part) /\ Len(g) + k > Len(g) /\ (Len(g) + k) - Len(g) = k
        BY <3>2
      <4> QED
        BY <3>1, <4>1
    <3> QED
      BY <3>2, <3>3
  <2> HIDE DEF g, part, h
  <2>5. ASSUME NEW b \in 1 .. i + 1, NEW k \in 1 .. Len(parts[b])
        PROVE  start[b] + k \in 1 .. Len(h) /\ h[start[b] + k] = parts[b][k]
    <3>1. CASE b = i + 1
      <4>1. k \in 1 .. Len(part) /\ start[b] = Len(g) /\ parts[b] = part
        BY <2>3, <3>1 DEF g, part
      <4> QED
        BY <2>4, <4>1
    <3>2. CASE b # i + 1
      <4>1. b \in 1 .. i
        BY <2>1, <3>2
      <4>2. start[b] + k \in 1 .. Len(g) /\ g[start[b] + k] = parts[b][k]
        BY <4>1 DEF g
      <4> QED
        BY <2>4, <4>2
    <3> QED
      BY <3>1, <3>2
  <2>6. ASSUME NEW j \in 1 .. Len(h)
        PROVE  \E b \in 1 .. i + 1 : \E k \in 1 .. Len(parts[b]) : j = start[b] + k
    <3>1. CASE j <= Len(g)
      <4>1. j \in 1 .. Len(f[i])
        BY <2>4, <3>1 DEF g
      <4>2. PICK b \in 1 .. i : \E k \in 1 .. Len(parts[b]) : j = start[b] + k
        BY <4>1
      <4>3. b \in 1 .. i + 1
        BY <2>1
      <4> QED
        BY <4>2, <4>3
    <3>2. CASE j > Len(g)
      <4>1. j - Len(g) \in 1 .. Len(part) /\ j = Len(g) + (j - Len(g))
        BY <2>4, <3>2
      <4>2. i + 1 \in 1 .. i + 1
        BY <2>1
      <4> QED
        BY <2>3, <4>1, <4>2 DEF g, part
    <3> QED
      BY <2>4, <3>1, <3>2
  <2> QED
    BY <2>5, <2>6 DEF h
<1>12. P(n)
  <2> DEFINE N == {i \in Nat : i \in 1 .. n => P(i)}
  <2> HIDE DEF P
  <2>1. 0 \in N
    OBVIOUS
  <2>2. \A i \in Nat : i \in N => i + 1 \in N
    <3> SUFFICES ASSUME NEW i \in Nat, i \in N, i + 1 \in 1 .. n PROVE P(i + 1)
      OBVIOUS
    <3>1. CASE i = 0
      BY <1>10, <3>1
    <3>2. CASE i > 0
      <4>1. i \in 1 .. n - 1 /\ i \in 1 .. n
        BY <1>2, <3>2
      <4> QED
        BY <1>11, <4>1
    <3> QED
      BY <3>1, <3>2
  <2> HIDE DEF N
  <2>3. \A i \in Nat : i \in N
    BY <2>1, <2>2, Induction
  <2> QED
    BY <1>2, <2>3 DEF N
<1>13. FlattenSeq(parts) = f[n] /\ f[n] \in Seq(T) /\ Len(f[n]) = start[n + 1]
  <2>1. n \in 1 .. n
    BY <1>2
  <2> QED
    BY <1>1, <1>3, <1>4, <2>1
<1>14. Starts(parts, start)
  BY <1>5, <1>6, <1>7 DEF Starts
<1>15. /\ Len(f[n]) = start[n + 1]
       /\ \A b \in 1 .. n : \A k \in 1 .. Len(parts[b]) :
            start[b] + k \in 1 .. Len(f[n]) /\ f[n][start[b] + k] = parts[b][k]
       /\ \A j \in 1 .. Len(f[n]) : \E b \in 1 .. n : \E k \in 1 .. Len(parts[b]) : j = start[b] + k
  BY <1>12, <1>13
<1> HIDE DEF n, P
<1>16. flat = f[n]
  BY <1>13
<1>17. Places(parts, flat, start)
  BY <1>9, <1>14, <1>15, <1>16 DEF n, Places
<1> QED
  BY <1>13, <1>16, <1>17

-----------------------------------------------------------------------------
(* Result files, line by line *)

\* What a file can have of a block: rows only behind labels.
BlockSet ==
  {block \in [n : Nat, head : 0 .. 2, rows : SUBSET (1 .. Rows)] : block.head < 2 => block.rows = {}}

Numbers == [x \in 1 .. Rows |-> x]
Sorted(block) == Chosen(Numbers, block.rows)
Size(block) == block.head + Len(Sorted(block))

LineSet == [kind : {"info", "labels", "row"}, lib : STRING, execution : Nat, bench : STRING, x : Nat]

\* Line k of block b.
Its(lib, file, b, k) ==
  Line(IF k = 1 THEN "info" ELSE IF k = 2 THEN "labels" ELSE "row", lib, file[b].n,
       figure.blocks[b], IF k <= 2 THEN 0 ELSE Sorted(file[b])[k - 2])

\* Block b is what follows line start[b].
Layout(lib, file, lines, start) ==
  /\ start \in [1 .. Len(figure.blocks) + 1 -> Nat]
  /\ start[1] = 0 /\ Len(lines) = start[Len(figure.blocks) + 1]
  /\ \A b \in 1 .. Len(figure.blocks) : start[b + 1] = start[b] + Size(file[b])
  /\ \A b, c \in 1 .. Len(figure.blocks) + 1 : b <= c => start[b] <= start[c]
  /\ \A b \in 1 .. Len(figure.blocks) : \A k \in 1 .. Size(file[b]) :
       start[b] + k \in 1 .. Len(lines) /\ lines[start[b] + k] = Its(lib, file, b, k)
  /\ \A i \in 1 .. Len(lines) : \E b \in 1 .. Len(figure.blocks) :
       \E k \in 1 .. Size(file[b]) : i = start[b] + k

LEMMA FigureFacts ==
  ASSUME figure \in Figures
  PROVE  /\ figure.suite \in {"pmembench", "pmemkv"}
         /\ Len(figure.libs) \in Nat /\ Len(figure.libs) > 1 /\ figure.libs[1] = "pmdk"
         /\ \A p \in 1 .. Len(figure.libs) : figure.libs[p] \in STRING
         /\ \A p, q \in 1 .. Len(figure.libs) : p # q => figure.libs[p] # figure.libs[q]
         /\ Libs \subseteq STRING /\ "pmdk" \in Libs
         /\ \A lib \in Libs : \E p \in 1 .. Len(figure.libs) : lib = figure.libs[p]
         /\ Len(figure.blocks) \in Nat /\ Len(figure.blocks) > 0
         /\ DOMAIN figure.blocks = 1 .. Len(figure.blocks)
         /\ \A b \in 1 .. Len(figure.blocks) : figure.blocks[b] \in STRING /\ figure.blocks[b] # NotAName
         /\ \A b, c \in 1 .. Len(figure.blocks) : b # c => figure.blocks[b] # figure.blocks[c]
         /\ Len(figure.benchmarks) \in Nat /\ DOMAIN figure.benchmarks = 1 .. Len(figure.benchmarks)
         /\ \A m \in 1 .. Len(figure.benchmarks) :
              \E b \in 1 .. Len(figure.blocks) : figure.benchmarks[m] = figure.blocks[b]
         /\ \A m, o \in 1 .. Len(figure.benchmarks) : m # o => figure.benchmarks[m] # figure.benchmarks[o]
         /\ Len(figure.plots) \in Nat /\ Len(figure.plots) > 0
         /\ DOMAIN figure.plots = 1 .. Len(figure.plots)
         /\ \A i \in 1 .. Len(figure.plots) :
              /\ figure.plots[i].slowdown \in BOOLEAN /\ figure.plots[i].legend \in Nat
              /\ figure.plots[i].legend < Len(figure.benchmarks)
<1>1. /\ figure.suite \in {"pmembench", "pmemkv"} /\ figure.libs \in Seq(STRING)
      /\ "pmdk" \in ToSet(figure.libs)
  BY BoundsAssumption
<1>2. /\ Len(figure.libs) > 1 /\ figure.libs[1] = "pmdk" /\ IsInjective(figure.libs)
      /\ figure.blocks \in Seq(STRING \ {NotAName}) /\ IsInjective(figure.blocks)
      /\ figure.benchmarks \in Seq(ToSet(figure.blocks)) /\ IsInjective(figure.benchmarks)
      /\ figure.plots \in Seq([slowdown : BOOLEAN, legend : Nat]) /\ figure.plots # <<>>
      /\ \A i \in DOMAIN figure.plots : figure.plots[i].legend < Len(figure.benchmarks)
  BY FiguresAssumption
<1>3. /\ Len(figure.libs) \in Nat /\ DOMAIN figure.libs = 1 .. Len(figure.libs)
      /\ \A p \in 1 .. Len(figure.libs) : figure.libs[p] \in STRING
      /\ \A p, q \in 1 .. Len(figure.libs) : p # q => figure.libs[p] # figure.libs[q]
  BY <1>1, <1>2 DEF IsInjective
<1>4. /\ Libs \subseteq STRING /\ "pmdk" \in Libs
      /\ \A lib \in Libs : \E p \in 1 .. Len(figure.libs) : lib = figure.libs[p]
  BY <1>1, <1>3 DEF Libs, ToSet
<1>5. /\ Len(figure.blocks) \in Nat
      /\ DOMAIN figure.blocks = 1 .. Len(figure.blocks)
      /\ \A b \in 1 .. Len(figure.blocks) : figure.blocks[b] \in STRING /\ figure.blocks[b] # NotAName
      /\ \A b, c \in 1 .. Len(figure.blocks) : b # c => figure.blocks[b] # figure.blocks[c]
  <2>1. DOMAIN figure.blocks = 1 .. Len(figure.blocks) /\ Len(figure.blocks) \in Nat
    BY <1>2
  <2>2. \A b \in 1 .. Len(figure.blocks) : figure.blocks[b] \in STRING \ {NotAName}
    BY <1>2
  <2> QED
    BY <1>2, <2>1, <2>2 DEF IsInjective
<1>6. /\ Len(figure.benchmarks) \in Nat /\ DOMAIN figure.benchmarks = 1 .. Len(figure.benchmarks)
      /\ \A m \in 1 .. Len(figure.benchmarks) :
           \E b \in 1 .. Len(figure.blocks) : figure.benchmarks[m] = figure.blocks[b]
      /\ \A m, o \in 1 .. Len(figure.benchmarks) : m # o => figure.benchmarks[m] # figure.benchmarks[o]
  <2>1. DOMAIN figure.benchmarks = 1 .. Len(figure.benchmarks) /\ Len(figure.benchmarks) \in Nat
    BY <1>2
  <2>2. \A m \in 1 .. Len(figure.benchmarks) : figure.benchmarks[m] \in ToSet(figure.blocks)
    BY <1>2
  <2> QED
    BY <1>2, <1>5, <2>1, <2>2 DEF IsInjective, ToSet
<1>7. /\ Len(figure.plots) \in Nat /\ Len(figure.plots) > 0
      /\ DOMAIN figure.plots = 1 .. Len(figure.plots)
      /\ \A i \in 1 .. Len(figure.plots) :
           /\ figure.plots[i].slowdown \in BOOLEAN /\ figure.plots[i].legend \in Nat
           /\ figure.plots[i].legend < Len(figure.benchmarks)
  <2>1. DOMAIN figure.plots = 1 .. Len(figure.plots) /\ Len(figure.plots) \in Nat /\ Len(figure.plots) > 0
    BY <1>2
  <2>2. \A i \in 1 .. Len(figure.plots) : figure.plots[i] \in [slowdown : BOOLEAN, legend : Nat]
    <3> DEFINE R == [slowdown : BOOLEAN, legend : Nat]
               ps == figure.plots
    <3>1. ps \in Seq(R)
      BY <1>2
    <3> HIDE DEF R, ps
    <3>2. \A i \in 1 .. Len(ps) : ps[i] \in R
      BY <3>1
    <3> QED
      BY <3>2 DEF R, ps
  <2> QED
    BY <1>2, <2>1, <2>2
<1>8. Len(figure.blocks) > 0
  <2>1. Len(figure.benchmarks) > 0
    BY <1>6, <1>7
  <2>2. PICK b \in 1 .. Len(figure.blocks) : figure.benchmarks[1] = figure.blocks[b]
    BY <1>6, <2>1
  <2> QED
    BY <1>5, <2>2
<1> QED
  BY <1>1, <1>2, <1>3, <1>4, <1>5, <1>6, <1>7, <1>8

\* The rows of a block, in order.
LEMMA SortedRows ==
  ASSUME NEW block \in BlockSet
  PROVE  /\ Sorted(block) \in Seq(block.rows) /\ Len(Sorted(block)) <= Rows
         /\ block.rows = {} => Sorted(block) = <<>>
<1>1. Rows \in Nat
  BY BoundsAssumption
<1>2. Numbers \in Seq(1 .. Rows) /\ Len(Numbers) = Rows
  BY <1>1 DEF Numbers
<1>3. Sorted(block) \in Seq((1 .. Rows) \cap block.rows) /\ Len(Sorted(block)) <= Rows
  BY <1>2, ChosenElements DEF Sorted
<1>4. (1 .. Rows) \cap block.rows = block.rows
  BY DEF BlockSet
<1>5. block.rows = {} => Sorted(block) = <<>>
  <2> SUFFICES ASSUME block.rows = {} PROVE Sorted(block) = <<>>
    OBVIOUS
  <2> DEFINE s == Sorted(block)
  <2>1. s \in Seq(block.rows)
    BY <1>3, <1>4
  <2>2. Len(s) = 0
    <3> SUFFICES ASSUME Len(s) # 0 PROVE FALSE
      OBVIOUS
    <3>1. s[1] \in block.rows
      BY <2>1
    <3> QED
      BY <3>1
  <2> HIDE DEF s
  <2> QED
    BY <2>1, <2>2 DEF s
<1> QED
  BY <1>3, <1>4, <1>5

\* The rows a benchmark printed before it stopped.
LEMMA SortedPrefix ==
  ASSUME NEW block \in BlockSet, NEW k \in 0 .. Rows, block.rows = 1 .. k
  PROVE  Len(Sorted(block)) = k /\ \A x \in 1 .. k : Sorted(block)[x] = x
<1>1. Rows \in Nat
  BY BoundsAssumption
<1>2. Numbers \in Seq(1 .. Rows) /\ Len(Numbers) = Rows /\ \A x \in 1 .. Rows : Numbers[x] = x
  BY <1>1 DEF Numbers
<1>3. k \in 0 .. Len(Numbers) /\ \A x \in 1 .. Len(Numbers) : Numbers[x] \in block.rows <=> x <= k
  BY <1>2
<1>4. Len(Sorted(block)) = k /\ \A x \in 1 .. k : Sorted(block)[x] = Numbers[x]
  BY <1>2, <1>3, ChosenPrefix DEF Sorted
<1> QED
  BY <1>1, <1>2, <1>4

LEMMA Joined ==
  ASSUME NEW T, NEW g, NEW h, NEW whole, g \in Seq(T), h \in Seq(T), whole = g \o h
  PROVE  /\ whole \in Seq(T) /\ Len(whole) = Len(g) + Len(h)
         /\ \A j \in 1 .. Len(g) : whole[j] = g[j]
         /\ \A k \in 1 .. Len(h) : whole[Len(g) + k] = h[k]
<1>1. whole \in Seq(T) /\ Len(whole) = Len(g) + Len(h)
  OBVIOUS
<1>2. \A j \in 1 .. Len(g) : whole[j] = g[j]
  OBVIOUS
<1>3. ASSUME NEW k \in 1 .. Len(h) PROVE whole[Len(g) + k] = h[k]
  <2>1. Len(g) + k \in 1 .. Len(g) + Len(h) /\ Len(g) + k > Len(g) /\ (Len(g) + k) - Len(g) = k
    OBVIOUS
  <2> QED
    BY <2>1
<1> QED
  BY <1>1, <1>2, <1>3

LEMMA LinesOfBlock ==
  ASSUME figure \in Figures, NEW lib \in STRING,
         NEW file \in [DOMAIN figure.blocks -> BlockSet], NEW b \in 1 .. Len(figure.blocks)
  PROVE  /\ BlockLines(lib, file, b) \in Seq(LineSet)
         /\ Len(BlockLines(lib, file, b)) = Size(file[b])
         /\ \A k \in 1 .. Size(file[b]) : BlockLines(lib, file, b)[k] = Its(lib, file, b, k)
<1> DEFINE block == file[b]
           line(kind, x) == Line(kind, lib, block.n, figure.blocks[b], x)
           xs == Sorted(block)
           info == IF block.head > 0 THEN <<line("info", 0)>> ELSE <<>>
           labels == IF block.head > 1 THEN <<line("labels", 0)>> ELSE <<>>
           rows == [i \in DOMAIN xs |-> line("row", xs[i])]
<1>1. /\ block \in BlockSet /\ block.n \in Nat /\ block.head \in 0 .. 2 /\ block.rows \subseteq 1 .. Rows
      /\ (block.head < 2 => block.rows = {}) /\ figure.blocks[b] \in STRING
  BY FigureFacts DEF BlockSet
<1>2. BlockLines(lib, file, b) = (info \o labels) \o rows
  BY DEF BlockLines, Sorted, Numbers
<1>3. /\ xs \in Seq(block.rows) /\ Len(xs) \in Nat /\ DOMAIN xs = 1 .. Len(xs)
      /\ (block.rows = {} => xs = <<>>) /\ \A i \in 1 .. Len(xs) : xs[i] \in Nat
  <2>1. xs \in Seq(block.rows) /\ (block.rows = {} => xs = <<>>)
    BY <1>1, SortedRows
  <2> HIDE DEF xs, block
  <2>2. Rows \in Nat
    BY BoundsAssumption
  <2> QED
    BY <1>1, <2>1, <2>2
<1>4. \A kind \in {"info", "labels", "row"}, x \in Nat : line(kind, x) \in LineSet
  BY <1>1 DEF Line, LineSet
<1>5. \A k : Its(lib, file, b, k) =
         line(IF k = 1 THEN "info" ELSE IF k = 2 THEN "labels" ELSE "row", IF k <= 2 THEN 0 ELSE xs[k - 2])
  BY DEF Its
<1>6. Size(block) = block.head + Len(xs)
  BY DEF Size
<1> HIDE DEF line, xs, block
<1>7. rows \in Seq(LineSet) /\ Len(rows) = Len(xs) /\ \A i \in 1 .. Len(xs) : rows[i] = line("row", xs[i])
  BY <1>3, <1>4
<1> HIDE DEF rows
<1>8. CASE block.head = 2
  <2>1. info = <<line("info", 0)>> /\ labels = <<line("labels", 0)>>
    BY <1>8
  <2> HIDE DEF info, labels
  <2> DEFINE front == info \o labels
             whole == front \o rows
  <2>2. /\ front \in Seq(LineSet) /\ Len(front) = 2 /\ front[1] = line("info", 0) /\ front[2] = line("labels", 0)
    BY <1>4, <2>1
  <2> HIDE DEF front
  <2>3. /\ whole \in Seq(LineSet) /\ Len(whole) = 2 + Len(xs) /\ whole[1] = front[1] /\ whole[2] = front[2]
        /\ \A k \in 3 .. Len(xs) + 2 : whole[k] = rows[k - 2]
    <3>1. front \in Seq(LineSet) /\ rows \in Seq(LineSet) /\ Len(front) = 2 /\ Len(rows) = Len(xs)
          /\ Len(xs) \in Nat /\ whole = front \o rows
      BY <1>3, <1>7, <2>2
    <3> HIDE DEF whole
    <3>2. /\ whole \in Seq(LineSet) /\ Len(whole) = Len(front) + Len(rows)
          /\ \A j \in 1 .. Len(front) : whole[j] = front[j]
          /\ \A k \in 1 .. Len(rows) : whole[Len(front) + k] = rows[k]
      <4>1. PICK g, h, w : g = front /\ h = rows /\ w = whole
        OBVIOUS
      <4>2. g \in Seq(LineSet) /\ h \in Seq(LineSet) /\ w = g \o h
        BY <3>1, <4>1
      <4>3. /\ w \in Seq(LineSet) /\ Len(w) = Len(g) + Len(h)
            /\ \A j \in 1 .. Len(g) : w[j] = g[j]
            /\ \A k \in 1 .. Len(h) : w[Len(g) + k] = h[k]
        BY <4>2, Joined
      <4> QED
        BY <4>1, <4>3
    <3>3. ASSUME NEW k \in 3 .. Len(xs) + 2 PROVE whole[k] = rows[k - 2]
      <4>1. k - 2 \in 1 .. Len(rows) /\ Len(front) + (k - 2) = k
        BY <3>1
      <4> QED
        BY <3>2, <4>1
    <3>4. 1 \in 1 .. Len(front) /\ 2 \in 1 .. Len(front)
      BY <3>1
    <3>5. Len(whole) = 2 + Len(xs)
      BY <3>1, <3>2
    <3> QED
      BY <3>2, <3>3, <3>4, <3>5
  <2> HIDE DEF whole
  <2>4. \A k \in 1 .. Len(xs) + 2 : whole[k] = Its(lib, file, b, k)
    <3> SUFFICES ASSUME NEW k \in 1 .. Len(xs) + 2 PROVE whole[k] = Its(lib, file, b, k)
      OBVIOUS
    <3>1. CASE k = 1
      BY <1>5, <2>2, <2>3, <3>1
    <3>2. CASE k = 2
      BY <1>5, <2>2, <2>3, <3>2
    <3>3. CASE k > 2
      <4>1. k \in 3 .. Len(xs) + 2 /\ k - 2 \in 1 .. Len(xs)
        BY <1>3, <3>3
      <4>2. whole[k] = line("row", xs[k - 2])
        BY <1>7, <2>3, <4>1
      <4>3. Its(lib, file, b, k) = line("row", xs[k - 2])
        BY <1>5, <3>3
      <4> QED
        BY <4>2, <4>3
    <3> QED
      BY <1>3, <3>1, <3>2, <3>3
  <2>5. BlockLines(lib, file, b) = whole /\ Size(block) = Len(xs) + 2
    BY <1>2, <1>3, <1>6, <1>8 DEF whole, front
  <2>6. Size(file[b]) = Len(xs) + 2 /\ Len(whole) = Len(xs) + 2
    BY <1>3, <2>3, <2>5 DEF block
  <2> QED
    BY <2>3, <2>4, <2>5, <2>6
<1>9. CASE block.head # 2
  <2>1. xs = <<>> /\ Len(xs) = 0 /\ block.head \in {0, 1}
    BY <1>1, <1>3, <1>9
  <2>2. rows = <<>>
    BY <1>7, <2>1
  <2>3. CASE block.head = 0
    <3>1. info = <<>> /\ labels = <<>>
      BY <2>3
    <3>2. BlockLines(lib, file, b) = <<>>
      BY <1>2, <2>2, <3>1
    <3>3. Size(file[b]) = 0
      BY <1>6, <2>1, <2>3 DEF block
    <3> QED
      BY <3>2, <3>3
  <2>4. CASE block.head = 1
    <3>1. info = <<line("info", 0)>> /\ labels = <<>>
      BY <2>4
    <3>2. line("info", 0) \in LineSet
      BY <1>4
    <3>3. BlockLines(lib, file, b) = <<line("info", 0)>>
      <4> DEFINE s == <<line("info", 0)>>
      <4>1. s \in Seq(LineSet)
        BY <3>2
      <4> HIDE DEF s
      <4>2. (s \o <<>>) \o <<>> = s
        BY <4>1
      <4>3. BlockLines(lib, file, b) = (s \o <<>>) \o <<>>
        BY <1>2, <2>2, <3>1 DEF s
      <4> QED
        BY <4>2, <4>3 DEF s
    <3>4. Size(file[b]) = 1
      BY <1>6, <2>1, <2>4 DEF block
    <3>5. Its(lib, file, b, 1) = line("info", 0)
      BY <1>5
    <3> QED
      BY <3>2, <3>3, <3>4, <3>5
  <2> QED
    BY <2>1, <2>3, <2>4
<1> QED
  BY <1>8, <1>9

\* The lines of a file, in the order of its blocks.
LEMMA LinesLaidOut ==
  ASSUME figure \in Figures, NEW lib \in STRING,
         NEW file \in [DOMAIN figure.blocks -> BlockSet]
  PROVE  /\ Lines(lib, file) \in Seq(LineSet)
         /\ \E start : Layout(lib, file, Lines(lib, file), start)
<1> DEFINE n == Len(figure.blocks)
           whole == [b \in DOMAIN file |-> BlockLines(lib, file, b)]
<1>1. n \in Nat /\ n > 0 /\ DOMAIN figure.blocks = 1 .. n /\ DOMAIN file = 1 .. n
  BY FigureFacts
<1>2. \A b \in 1 .. n :
        /\ BlockLines(lib, file, b) \in Seq(LineSet)
        /\ Len(BlockLines(lib, file, b)) = Size(file[b])
        /\ \A k \in 1 .. Size(file[b]) : BlockLines(lib, file, b)[k] = Its(lib, file, b, k)
  BY LinesOfBlock
<1>3. PICK m, parts, flat : m = n /\ parts = whole /\ flat = FlattenSeq(parts)
  OBVIOUS
<1>4. Lines(lib, file) = flat
  BY <1>3 DEF Lines
<1> HIDE DEF n
<1>5. /\ m \in Nat /\ m > 0 /\ DOMAIN parts = 1 .. m /\ Len(parts) = m
      /\ parts = [b \in 1 .. m |-> parts[b]]
      /\ \A b \in 1 .. m : parts[b] = BlockLines(lib, file, b)
  <2>1. whole = [b \in 1 .. m |-> BlockLines(lib, file, b)] /\ m \in Nat /\ m > 0
    BY <1>1, <1>3
  <2> HIDE DEF whole
  <2> QED
    BY <1>3, <2>1
<1> HIDE DEF whole
<1>6. \A b \in 1 .. m : parts[b] \in Seq(LineSet) /\ Len(parts[b]) = Size(file[b])
                        /\ \A k \in 1 .. Size(file[b]) : parts[b][k] = Its(lib, file, b, k)
  BY <1>2, <1>3, <1>5
<1>7. PICK start : Places(parts, flat, start)
  <2>1. Len(parts) > 0 /\ \A b \in 1 .. Len(parts) : parts[b] \in Seq(LineSet)
    BY <1>5, <1>6
  <2> QED
    BY <1>3, <2>1, Flattened
<1>8. flat \in Seq(LineSet)
  <2>1. Len(parts) > 0 /\ \A b \in 1 .. Len(parts) : parts[b] \in Seq(LineSet)
    BY <1>5, <1>6
  <2> QED
    BY <1>3, <2>1, Flattened
<1>9. Layout(lib, file, flat, start)
  <2>1. /\ start \in [1 .. m + 1 -> Nat] /\ start[1] = 0
        /\ \A b \in 1 .. m : start[b + 1] = start[b] + Size(file[b])
    BY <1>5, <1>6, <1>7 DEF Places, Starts
  <2>2. \A b \in 1 .. m : \A k \in 1 .. Size(file[b]) :
          start[b] + k \in 1 .. Len(flat) /\ flat[start[b] + k] = Its(lib, file, b, k)
    BY <1>5, <1>6, <1>7 DEF Places
  <2>3. \A i \in 1 .. Len(flat) : \E b \in 1 .. m : \E k \in 1 .. Size(file[b]) : i = start[b] + k
    BY <1>5, <1>6, <1>7 DEF Places
  <2>4. m = Len(figure.blocks)
    BY <1>3 DEF n
  <2>5. Len(flat) = start[m + 1] /\ \A b, c \in 1 .. m + 1 : b <= c => start[b] <= start[c]
    BY <1>5, <1>7 DEF Places
  <2> QED
    BY <2>5, <2>1, <2>2, <2>3, <2>4 DEF Layout
<1> QED
  BY <1>4, <1>8, <1>9

-----------------------------------------------------------------------------
(* The parser, for any lines *)

\* What is kept under a name follows a line that announces the benchmark.
Segment(lines, s, name, kept) ==
  /\ lines[s + 1].kind = "info" /\ lines[s + 1].bench = name
  /\ \A j \in 1 .. Len(kept) : kept[j] = lines[s + 1 + j]

Entry(lines, i, name, kept) ==
  /\ kept \in Seq(LineSet) /\ Len(kept) <= Rows + 1
  /\ name # NotAName =>
       \E s \in 0 .. i - 1 : s + 1 + Len(kept) <= i /\ Segment(lines, s, name, kept)

Entries(lines, i, entries) ==
  \A name \in DOMAIN entries : Entry(lines, i, name, entries[name])

\* The parser after i lines.
Read(lines, i, p) ==
  /\ p = Parser(p.mode, p.name, p.count, p.entries)
  /\ p.mode \in {"info", "labels", "values", "died"}
  /\ Entries(lines, i, p.entries)
  /\ p.mode \in {"labels", "values"} =>
       /\ p.name \in DOMAIN p.entries
       /\ p.count = NotANumber => p.name = NotAName
       /\ p.count # NotANumber => p.count = Rows /\ p.name # NotAName
  /\ p.mode = "labels" /\ p.name # NotAName =>
       i > 0 /\ lines[i].kind = "info" /\ lines[i].bench = p.name
  /\ p.mode = "values" /\ p.name # NotAName =>
       /\ Len(p.entries[p.name]) <= Rows
       /\ \E s \in 0 .. i - 1 :
            s + 1 + Len(p.entries[p.name]) = i /\ Segment(lines, s, p.name, p.entries[p.name])

LEMMA EntriesStay ==
  ASSUME NEW lines, NEW i \in Nat, NEW entries, Entries(lines, i, entries)
  PROVE  Entries(lines, i + 1, entries)
<1> SUFFICES ASSUME NEW name \in DOMAIN entries, name # NotAName
             PROVE  \E s \in 0 .. (i + 1) - 1 :
                      s + 1 + Len(entries[name]) <= i + 1 /\ Segment(lines, s, name, entries[name])
  BY DEF Entries, Entry
<1>1. PICK s \in 0 .. i - 1 : s + 1 + Len(entries[name]) <= i /\ Segment(lines, s, name, entries[name])
  BY DEF Entries, Entry
<1>2. entries[name] \in Seq(LineSet)
  BY DEF Entries, Entry
<1>3. s \in 0 .. (i + 1) - 1 /\ s + 1 + Len(entries[name]) <= i + 1
  <2>1. Len(entries[name]) \in Nat
    BY <1>2
  <2> QED
    BY <1>1, <2>1
<1> QED
  BY <1>1, <1>3

LEMMA EntryReplaced ==
  ASSUME NEW lines, NEW i \in Nat, NEW entries, Entries(lines, i, entries),
         NEW name, NEW kept, Entry(lines, i + 1, name, kept)
  PROVE  /\ Entries(lines, i + 1, With(entries, name, kept))
         /\ name \in DOMAIN With(entries, name, kept) /\ With(entries, name, kept)[name] = kept
<1>1. Entries(lines, i + 1, entries)
  BY EntriesStay
<1>2. /\ DOMAIN With(entries, name, kept) = DOMAIN entries \cup {name}
      /\ \A n \in DOMAIN entries \cup {name} :
           With(entries, name, kept)[n] = IF n = name THEN kept ELSE entries[n]
  BY DEF With
<1>3. \A n \in DOMAIN With(entries, name, kept) : Entry(lines, i + 1, n, With(entries, name, kept)[n])
  <2> SUFFICES ASSUME NEW n \in DOMAIN entries \cup {name}
               PROVE  Entry(lines, i + 1, n, With(entries, name, kept)[n])
    BY <1>2
  <2>1. CASE n = name
    BY <1>2, <2>1
  <2>2. CASE n # name
    <3>1. n \in DOMAIN entries /\ With(entries, name, kept)[n] = entries[n]
      BY <1>2, <2>2
    <3>2. Entry(lines, i + 1, n, entries[n])
      BY <1>1, <3>1 DEF Entries
    <3> QED
      BY <3>1, <3>2
  <2> QED
    BY <2>1, <2>2
<1> QED
  BY <1>2, <1>3 DEF Entries

LEMMA EmptyEntry ==
  ASSUME NEW lines, NEW i \in Nat, NEW name,
         name # NotAName => lines[i + 1].kind = "info" /\ lines[i + 1].bench = name
  PROVE  Entry(lines, i + 1, name, <<>>)
<1>1. Rows \in Nat /\ <<>> \in Seq(LineSet) /\ Len(<<>>) = 0
  BY BoundsAssumption
<1>2. i \in 0 .. (i + 1) - 1 /\ i + 1 + 0 <= i + 1
  OBVIOUS
<1>3. name # NotAName => Segment(lines, i, name, <<>>)
  BY <1>1 DEF Segment
<1> QED
  BY <1>1, <1>2, <1>3 DEF Entry

LEMMA ParserFields ==
  ASSUME NEW mode, NEW name, NEW count, NEW entries
  PROVE  LET p == Parser(mode, name, count, entries) IN
         p.mode = mode /\ p.name = name /\ p.count = count /\ p.entries = entries
BY DEF Parser

LEMMA InfoRead ==
  ASSUME NEW lines \in Seq(LineSet), NEW i \in 0 .. Len(lines) - 1, lines[i + 1].bench # NotAName,
         NEW p, Read(lines, i, p), p.mode = "info"
  PROVE  Read(lines, i + 1, ReadLine(p, lines[i + 1]))
<1> DEFINE line == lines[i + 1]
           q == ReadInfo(p, line)
<1>1. i \in Nat /\ line \in LineSet /\ line.kind \in {"info", "labels", "row"}
  <2>1. i \in Nat /\ i + 1 \in 1 .. Len(lines)
    OBVIOUS
  <2>2. line \in LineSet
    BY <2>1
  <2> QED
    BY <2>1, <2>2 DEF LineSet
<1>2. ReadLine(p, line) = q
  BY DEF ReadLine
<1>3. Entries(lines, i, p.entries) /\ Entries(lines, i + 1, p.entries)
  BY <1>1, EntriesStay DEF Read
<1>4. CASE line.kind = "row"
  <2>1. q = [p EXCEPT !.mode = "died"]
    BY <1>4 DEF ReadInfo
  <2>2. q.mode = "died" /\ q.entries = p.entries /\ q = Parser(q.mode, q.name, q.count, q.entries)
    BY <2>1 DEF Read, Parser
  <2> QED
    BY <1>2, <1>3, <2>2 DEF Read
<1>5. CASE line.kind \in {"labels", "info"}
  <2> DEFINE name == IF line.kind = "info" THEN line.bench ELSE NotAName
             count == IF line.kind = "info" THEN Rows ELSE NotANumber
             entries == With(p.entries, name, <<>>)
  <2>1. q = Parser("labels", name, count, entries)
    BY <1>5 DEF ReadInfo
  <2>2. name # NotAName => line.kind = "info" /\ line.bench = name
    OBVIOUS
  <2>3. Entry(lines, i + 1, name, <<>>)
    BY <1>1, <2>2, EmptyEntry
  <2>4. Entries(lines, i + 1, entries) /\ name \in DOMAIN entries
    BY <1>1, <1>3, <2>3, EntryReplaced
  <2>5. /\ count = NotANumber => name = NotAName
        /\ count # NotANumber => count = Rows /\ name # NotAName
    BY BoundsAssumption DEF NotANumber
  <2> HIDE DEF name, count, entries
  <2>6. q.mode = "labels" /\ q.name = name /\ q.count = count /\ q.entries = entries
        /\ q = Parser(q.mode, q.name, q.count, q.entries)
    BY <2>1, ParserFields
  <2>7. i + 1 > 0
    BY <1>1
  <2> QED
    BY <1>2, <2>2, <2>4, <2>5, <2>6, <2>7 DEF Read
<1> QED
  BY <1>1, <1>4, <1>5

LEMMA LabelsRead ==
  ASSUME NEW lines \in Seq(LineSet), NEW i \in 0 .. Len(lines) - 1,
         NEW p, Read(lines, i, p), p.mode = "labels"
  PROVE  Read(lines, i + 1, ReadLine(p, lines[i + 1]))
<1> DEFINE line == lines[i + 1]
           kept == <<line>>
           entries == With(p.entries, p.name, kept)
           q == ReadLabels(p, line)
<1>1. i \in Nat /\ line \in LineSet /\ Rows \in Nat /\ Rows > 0
  <2>1. i + 1 \in 1 .. Len(lines)
    OBVIOUS
  <2> QED
    BY <2>1, BoundsAssumption
<1>2. ReadLine(p, line) = q /\ q = Parser("values", p.name, p.count, entries)
  BY DEF ReadLine, ReadLabels
<1>3. kept \in Seq(LineSet) /\ Len(kept) = 1 /\ kept[1] = lines[i + 1]
  BY <1>1
<1> HIDE DEF kept
<1>4. p.name # NotAName => i - 1 \in 0 .. i - 1 /\ i \in 1 .. Len(lines) /\ Segment(lines, i - 1, p.name, kept)
  <2> SUFFICES ASSUME p.name # NotAName
               PROVE  i - 1 \in 0 .. i - 1 /\ i \in 1 .. Len(lines) /\ Segment(lines, i - 1, p.name, kept)
    OBVIOUS
  <2>1. i > 0 /\ lines[i].kind = "info" /\ lines[i].bench = p.name
    BY DEF Read
  <2>2. (i - 1) + 1 = i /\ i - 1 \in 0 .. i - 1 /\ i \in 1 .. Len(lines)
    BY <1>1, <2>1
  <2>3. \A j \in 1 .. Len(kept) : kept[j] = lines[(i - 1) + 1 + j]
    <3> SUFFICES ASSUME NEW j \in 1 .. Len(kept) PROVE kept[j] = lines[(i - 1) + 1 + j]
      OBVIOUS
    <3>1. j = 1 /\ (i - 1) + 1 + j = i + 1
      BY <1>1, <1>3
    <3> QED
      BY <1>3, <3>1
  <2> QED
    BY <2>1, <2>2, <2>3 DEF Segment
<1>5. Entry(lines, i + 1, p.name, kept)
  <2>1. p.name # NotAName => i - 1 \in 0 .. (i + 1) - 1 /\ (i - 1) + 1 + Len(kept) <= i + 1
    BY <1>1, <1>3, <1>4
  <2> QED
    BY <1>1, <1>3, <1>4, <2>1 DEF Entry
<1>6. Entries(lines, i + 1, entries) /\ p.name \in DOMAIN entries /\ entries[p.name] = kept
  BY <1>1, <1>5, EntryReplaced DEF Read
<1> HIDE DEF entries
<1>7. q.mode = "values" /\ q.name = p.name /\ q.count = p.count /\ q.entries = entries
      /\ q = Parser(q.mode, q.name, q.count, q.entries)
  BY <1>2, ParserFields
<1>8. p.name # NotAName => i - 1 \in 0 .. (i + 1) - 1 /\ (i - 1) + 1 + Len(kept) = i + 1 /\ Len(kept) <= Rows
  BY <1>1, <1>3, <1>4
<1>9. /\ p.count = NotANumber => p.name = NotAName
      /\ p.count # NotANumber => p.count = Rows /\ p.name # NotAName
  BY DEF Read
<1> HIDE DEF q
<1> QED
  BY <1>2, <1>4, <1>6, <1>7, <1>8, <1>9 DEF Read

LEMMA ValuesRead ==
  ASSUME NEW lines \in Seq(LineSet), NEW i \in 0 .. Len(lines) - 1,
         NEW p, Read(lines, i, p), p.mode = "values"
  PROVE  Read(lines, i + 1, ReadLine(p, lines[i + 1]))
<1> DEFINE line == lines[i + 1]
           old == p.entries[p.name]
           kept == Append(old, line)
           entries == With(p.entries, p.name, kept)
           mode == IF Len(kept) - 1 = p.count THEN "info" ELSE "values"
           q == ReadValues(p, line)
<1>1. i \in Nat /\ line \in LineSet /\ Rows \in Nat /\ Rows > 0
  <2>1. i + 1 \in 1 .. Len(lines)
    OBVIOUS
  <2> QED
    BY <2>1, BoundsAssumption
<1>2. ReadLine(p, line) = q
  BY DEF ReadLine
<1>3. Entries(lines, i, p.entries) /\ Entries(lines, i + 1, p.entries)
  BY <1>1, EntriesStay DEF Read
<1>4. CASE p.count = NotANumber
  <2>1. q = [p EXCEPT !.mode = "died"]
    BY <1>4 DEF ReadValues
  <2>2. q.mode = "died" /\ q.entries = p.entries /\ q = Parser(q.mode, q.name, q.count, q.entries)
    BY <2>1 DEF Read, Parser
  <2> QED
    BY <1>2, <1>3, <2>2 DEF Read
<1>5. CASE p.count # NotANumber
  <2>1. p.count = Rows /\ p.name # NotAName /\ p.name \in DOMAIN p.entries
    BY <1>5 DEF Read
  <2>2. old \in Seq(LineSet)
    BY <1>3, <2>1 DEF Entries, Entry
  <2>3. PICK s \in 0 .. i - 1 : s + 1 + Len(old) = i /\ Segment(lines, s, p.name, old)
    BY <2>1 DEF Read
  <2>4. Len(old) <= Rows
    BY <2>1 DEF Read
  <2>5. q = Parser(mode, p.name, p.count, entries)
    BY <1>5 DEF ReadValues
  <2>6. /\ kept \in Seq(LineSet) /\ Len(kept) = Len(old) + 1 /\ Len(old) \in Nat
        /\ (\A j \in 1 .. Len(old) : kept[j] = old[j]) /\ kept[Len(old) + 1] = line
    <3> HIDE DEF old, line
    <3> QED
      BY <1>1, <2>2
  <2> HIDE DEF kept, old
  <2>7. Segment(lines, s, p.name, kept)
    <3>1. \A j \in 1 .. Len(kept) : kept[j] = lines[s + 1 + j]
      <4> SUFFICES ASSUME NEW j \in 1 .. Len(kept) PROVE kept[j] = lines[s + 1 + j]
        OBVIOUS
      <4>1. CASE j = Len(old) + 1
        <5>1. s + 1 + j = i + 1
          BY <1>1, <2>3, <2>6, <4>1
        <5> QED
          BY <2>6, <4>1, <5>1
      <4>2. CASE j # Len(old) + 1
        <5>1. j \in 1 .. Len(old)
          BY <2>6, <4>2
        <5> QED
          BY <2>3, <2>6, <5>1 DEF Segment
      <4> QED
        BY <4>1, <4>2
    <3> QED
      BY <2>3, <3>1 DEF Segment
  <2>8. s \in 0 .. (i + 1) - 1 /\ s + 1 + Len(kept) = i + 1 /\ s + 1 + Len(kept) <= i + 1 /\ Len(kept) <= Rows + 1
    BY <1>1, <2>3, <2>4, <2>6
  <2>9. Entry(lines, i + 1, p.name, kept)
    BY <2>6, <2>7, <2>8 DEF Entry
  <2>10. Entries(lines, i + 1, entries) /\ p.name \in DOMAIN entries /\ entries[p.name] = kept
    BY <1>1, <1>3, <2>9, EntryReplaced
  <2>11. mode \in {"info", "values"} /\ (mode = "values" => Len(kept) <= Rows)
    BY <1>1, <2>1, <2>4, <2>6
  <2> HIDE DEF entries, mode
  <2>12. q.mode = mode /\ q.name = p.name /\ q.count = p.count /\ q.entries = entries
         /\ q = Parser(q.mode, q.name, q.count, q.entries)
    BY <2>5, ParserFields
  <2> HIDE DEF q
  <2> QED
    BY <1>2, <1>5, <2>1, <2>7, <2>8, <2>10, <2>11, <2>12 DEF Read
<1> QED
  BY <1>4, <1>5

LEMMA DeadRead ==
  ASSUME NEW lines \in Seq(LineSet), NEW i \in 0 .. Len(lines) - 1,
         NEW p, Read(lines, i, p), p.mode = "died"
  PROVE  Read(lines, i + 1, ReadLine(p, lines[i + 1]))
<1>1. ReadLine(p, lines[i + 1]) = p
  BY DEF ReadLine
<1>2. i \in Nat
  OBVIOUS
<1>3. Entries(lines, i + 1, p.entries)
  BY <1>2, EntriesStay DEF Read
<1> QED
  BY <1>1, <1>3 DEF Read

\* What the parser has kept at the end.
LEMMA ParsedLines ==
  ASSUME NEW lines \in Seq(LineSet), \A i \in 1 .. Len(lines) : lines[i].bench # NotAName
  PROVE  Read(lines, Len(lines), parse(lines))
<1> DEFINE n == Len(lines)
           after == parsing(lines)
           S == {i \in Nat : i <= n => Read(lines, i, after[i])}
<1>1. after[0] = AtFirstLine /\ \A i \in 1 .. n : after[i] = ReadLine(after[i - 1], lines[i])
  BY ParserReads
<1>2. n \in Nat
  OBVIOUS
<1>3. Read(lines, 0, AtFirstLine)
  BY DEF Read, AtFirstLine, Parser, Entries
<1> HIDE DEF after
<1>4. 0 \in S
  BY <1>1, <1>3
<1>5. \A i \in Nat : i \in S => i + 1 \in S
  <2> SUFFICES ASSUME NEW i \in Nat, i \in S, i + 1 <= n PROVE Read(lines, i + 1, after[i + 1])
    OBVIOUS
  <2>1. Read(lines, i, after[i]) /\ i \in 0 .. n - 1 /\ i + 1 \in 1 .. n /\ (i + 1) - 1 = i
    BY <1>2
  <2>2. after[i + 1] = ReadLine(after[i], lines[i + 1]) /\ lines[i + 1].bench # NotAName
    BY <1>1, <2>1
  <2>3. after[i].mode \in {"info", "labels", "values", "died"}
    BY <2>1 DEF Read
  <2>4. PICK p : p = after[i]
    OBVIOUS
  <2> HIDE DEF n
  <2>5. Read(lines, i + 1, ReadLine(p, lines[i + 1]))
    <3>1. Read(lines, i, p) /\ i \in 0 .. Len(lines) - 1
      BY <2>1, <2>4 DEF n
    <3>2. CASE p.mode = "info"
      BY <2>2, <3>1, <3>2, InfoRead
    <3>3. CASE p.mode = "labels"
      BY <3>1, <3>3, LabelsRead
    <3>4. CASE p.mode = "values"
      BY <3>1, <3>4, ValuesRead
    <3>5. CASE p.mode = "died"
      BY <3>1, <3>5, DeadRead
    <3> QED
      BY <2>3, <2>4, <3>2, <3>3, <3>4, <3>5
  <2> QED
    BY <2>2, <2>4, <2>5
<1>6. n \in S
  <2> HIDE DEF S, n
  <2> QED
    BY <1>2, <1>4, <1>5, Induction
<1> QED
  BY <1>6 DEF parse, after

-----------------------------------------------------------------------------
(* What can be analysed is what one block has *)

LEMMA ItsKind ==
  ASSUME NEW lib, NEW file, NEW b, NEW k \in Nat \ {0}
  PROVE  /\ Its(lib, file, b, k).kind = "info" => k = 1
         /\ Its(lib, file, b, k).kind = "labels" => k = 2
         /\ Its(lib, file, b, k).kind = "row" => k > 2
         /\ Its(lib, file, b, k).bench = figure.blocks[b] /\ Its(lib, file, b, k).lib = lib
         /\ Its(lib, file, b, k).execution = file[b].n
         /\ k > 2 => Its(lib, file, b, k) = Line("row", lib, file[b].n, figure.blocks[b], Sorted(file[b])[k - 2])
BY DEF Its, Line

LEMMA Sizes ==
  ASSUME figure \in Figures, NEW file \in [DOMAIN figure.blocks -> BlockSet],
         NEW b \in 1 .. Len(figure.blocks)
  PROVE  /\ Size(file[b]) \in Nat /\ Len(Sorted(file[b])) \in Nat
         /\ Size(file[b]) = file[b].head + Len(Sorted(file[b]))
         /\ Size(file[b]) >= 2 => file[b].head = 2
<1>1. file[b] \in BlockSet
  BY FigureFacts
<1>2. PICK block, sorted : block = file[b] /\ sorted = Sorted(block)
  OBVIOUS
<1>3. sorted \in Seq(block.rows) /\ (block.rows = {} => sorted = <<>>)
  BY <1>1, <1>2, SortedRows
<1>4. block.head \in 0 .. 2 /\ (block.head < 2 => block.rows = {})
  BY <1>1, <1>2 DEF BlockSet
<1>5. Size(block) = block.head + Len(sorted) /\ Len(sorted) \in Nat /\ Len(<<>>) = 0
  BY <1>2, <1>3 DEF Size
<1> QED
  BY <1>2, <1>3, <1>4, <1>5

InBlock(file, start, i, b) == \E k \in 1 .. Size(file[b]) : i = start[b] + k

\* Each line is of one block.
LEMMA OnePlace ==
  ASSUME figure \in Figures, NEW lib, NEW file \in [DOMAIN figure.blocks -> BlockSet],
         NEW lines, NEW start, Layout(lib, file, lines, start),
         NEW b \in 1 .. Len(figure.blocks), NEW c \in 1 .. Len(figure.blocks),
         NEW i, InBlock(file, start, i, b), InBlock(file, start, i, c)
  PROVE  b = c
<1>0. PICK k \in 1 .. Size(file[b]), l \in 1 .. Size(file[c]) : start[b] + k = start[c] + l
  BY DEF InBlock
<1>1. PICK n : n = Len(figure.blocks)
  OBVIOUS
<1>2. n \in Nat /\ b \in 1 .. n /\ c \in 1 .. n
  BY <1>1, FigureFacts
<1>3. PICK x, y : x = Size(file[b]) /\ y = Size(file[c])
  OBVIOUS
<1>4. x \in Nat /\ y \in Nat /\ k \in 1 .. x /\ l \in 1 .. y
  BY <1>0, <1>3, Sizes
<1>5. /\ start[b + 1] = start[b] + x /\ start[c + 1] = start[c] + y
      /\ \A p, q \in 1 .. n + 1 : p <= q => start[p] <= start[q]
      /\ \A p \in 1 .. n + 1 : start[p] \in Nat
  BY <1>1, <1>2, <1>3 DEF Layout
<1>6. ~(b < c)
  <2> SUFFICES ASSUME b < c PROVE FALSE
    OBVIOUS
  <2>1. start[b + 1] <= start[c] /\ start[b] \in Nat /\ start[c] \in Nat
    BY <1>2, <1>5
  <2> QED
    BY <1>0, <1>4, <1>5, <2>1
<1>7. ~(c < b)
  <2> SUFFICES ASSUME c < b PROVE FALSE
    OBVIOUS
  <2>1. start[c + 1] <= start[b] /\ start[b] \in Nat /\ start[c] \in Nat
    BY <1>2, <1>5
  <2> QED
    BY <1>0, <1>4, <1>5, <2>1
<1> QED
  BY <1>2, <1>6, <1>7

\* Line i is a line of block b.
Place(lib, file, lines, start, i, b) ==
  \E k \in 1 .. Size(file[b]) :
    /\ i = start[b] + k /\ lines[i] = Its(lib, file, b, k)
    /\ k \in Nat \ {0} /\ start[b] \in Nat

LEMMA LineAt ==
  ASSUME figure \in Figures, NEW lib, NEW file \in [DOMAIN figure.blocks -> BlockSet],
         NEW lines, NEW start, Layout(lib, file, lines, start), NEW i \in 1 .. Len(lines)
  PROVE  \E b \in 1 .. Len(figure.blocks) : Place(lib, file, lines, start, i, b)
<1>1. PICK b \in 1 .. Len(figure.blocks) : \E k \in 1 .. Size(file[b]) : i = start[b] + k
  BY DEF Layout
<1>2. PICK k \in 1 .. Size(file[b]) : i = start[b] + k
  BY <1>1
<1>3. lines[start[b] + k] = Its(lib, file, b, k)
  BY DEF Layout
<1>4. Size(file[b]) \in Nat
  BY Sizes
<1>5. start[b] \in Nat
  <2>1. PICK n : n = Len(figure.blocks)
    OBVIOUS
  <2>2. n \in Nat /\ b \in 1 .. n + 1
    BY <2>1, FigureFacts
  <2> QED
    BY <2>1, <2>2 DEF Layout
<1> QED
  BY <1>2, <1>3, <1>4, <1>5 DEF Place

\* The rows kept are the first of block b.
RowsOfBlock(lib, file, name, kept, b) ==
  /\ figure.blocks[b] = name /\ file[b].head = 2
  /\ Len(kept) - 1 <= Len(Sorted(file[b]))
  /\ \A x \in 1 .. Len(kept) - 1 : kept[x + 1] = Its(lib, file, b, x + 2)

LEMMA SegmentOfBlock ==
  ASSUME figure \in Figures, NEW lib, NEW file \in [DOMAIN figure.blocks -> BlockSet],
         NEW lines, NEW start, Layout(lib, file, lines, start), Len(lines) \in Nat,
         NEW s \in Nat, NEW name, NEW kept \in Seq(LineSet),
         Segment(lines, s, name, kept), s + 1 + Len(kept) <= Len(lines), Analysable(kept)
  PROVE  \E b \in 1 .. Len(figure.blocks) : RowsOfBlock(lib, file, name, kept, b)
<1>1. /\ lines[s + 1].kind = "info" /\ lines[s + 1].bench = name
      /\ \A j \in 1 .. Len(kept) : kept[j] = lines[s + 1 + j]
  BY DEF Segment
<1>2. Len(kept) \in Nat /\ Len(kept) > 0 /\ kept[1].kind = "labels"
      /\ \A j \in 2 .. Len(kept) : kept[j].kind = "row"
  BY DEF Analysable
<1>3. s + 1 \in 1 .. Len(lines) /\ \A j \in 1 .. Len(kept) : s + 1 + j \in 1 .. Len(lines)
  BY <1>2
<1>4. PICK b \in 1 .. Len(figure.blocks) : Place(lib, file, lines, start, s + 1, b)
  BY <1>3, LineAt
<1>5. s = start[b] /\ start[b] \in Nat /\ 1 \in 1 .. Size(file[b]) /\ figure.blocks[b] = name
  <2>1. PICK k \in 1 .. Size(file[b]) :
             /\ s + 1 = start[b] + k /\ lines[s + 1] = Its(lib, file, b, k)
             /\ k \in Nat \ {0} /\ start[b] \in Nat
    BY <1>4 DEF Place
  <2>2. k = 1 /\ figure.blocks[b] = name
    BY <1>1, <2>1, ItsKind
  <2> QED
    BY <2>1, <2>2
<1>6. 2 \in 1 .. Size(file[b])
  <2>1. s + 2 \in 1 .. Len(lines) /\ kept[1] = lines[s + 2]
    <3>1. 1 \in 1 .. Len(kept) /\ s + 1 + 1 = s + 2
      BY <1>2
    <3> QED
      BY <1>1, <1>3, <3>1
  <2>2. PICK c \in 1 .. Len(figure.blocks) : Place(lib, file, lines, start, s + 2, c)
    BY <2>1, LineAt
  <2>3. PICK k \in 1 .. Size(file[c]) :
               /\ s + 2 = start[c] + k /\ lines[s + 2] = Its(lib, file, c, k)
               /\ k \in Nat \ {0} /\ start[c] \in Nat
    BY <2>2 DEF Place
  <2>4. k = 2
    BY <1>2, <2>1, <2>3, ItsKind
  <2>5. Size(file[c]) \in Nat
    BY Sizes
  <2>6. 1 \in 1 .. Size(file[c]) /\ s + 1 = start[b] + 1 /\ s + 1 = start[c] + 1
    <3>1. PICK y, t : y = Size(file[c]) /\ t = start[c]
      OBVIOUS
    <3>2. y \in Nat /\ 2 \in 1 .. y /\ s + 2 = t + 2 /\ t \in Nat
      BY <2>3, <2>4, <2>5, <3>1
    <3>3. 1 \in 1 .. y /\ s + 1 = t + 1
      BY <3>2
    <3> QED
      BY <1>5, <3>1, <3>3
  <2>8. InBlock(file, start, s + 1, b) /\ InBlock(file, start, s + 1, c)
    BY <1>5, <2>6 DEF InBlock
  <2>7. b = c
    BY <2>8, OnePlace
  <2> QED
    BY <2>3, <2>4, <2>7
<1>7. PICK size : size = Size(file[b])
  OBVIOUS
<1>8. size \in Nat /\ size >= 2 /\ file[b].head = 2 /\ Len(Sorted(file[b])) \in Nat
      /\ size = 2 + Len(Sorted(file[b]))
  BY <1>6, <1>7, Sizes
<1>9. Len(kept) <= size - 1
  <2> SUFFICES ASSUME Len(kept) >= size PROVE FALSE
    BY <1>2, <1>8
  <2>1. size \in 2 .. Len(kept) /\ size \in 1 .. Len(kept)
    BY <1>2, <1>8
  <2>2. kept[size].kind = "row" /\ kept[size] = lines[s + 1 + size] /\ s + 1 + size \in 1 .. Len(lines)
    BY <1>1, <1>2, <1>3, <2>1
  <2>3. PICK i : i = s + 1 + size
    OBVIOUS
  <2>4. PICK c \in 1 .. Len(figure.blocks) : Place(lib, file, lines, start, i, c)
    BY <2>2, <2>3, LineAt
  <2>5. PICK k \in 1 .. Size(file[c]) :
               /\ i = start[c] + k /\ lines[i] = Its(lib, file, c, k)
               /\ k \in Nat \ {0} /\ start[c] \in Nat
    BY <2>4 DEF Place
  <2>6. k > 2
    BY <2>2, <2>3, <2>5, ItsKind
  <2>7. PICK n : n = Len(figure.blocks)
    OBVIOUS
  <2>8. n \in Nat /\ b \in 1 .. n /\ c \in 1 .. n
    BY <2>7, FigureFacts
  <2>9. /\ start[b + 1] = start[b] + size
        /\ \A p, q \in 1 .. n + 1 : p <= q => start[p] <= start[q]
        /\ \A p \in 1 .. n + 1 : start[p] \in Nat
    BY <1>7, <2>7, <2>8 DEF Layout
  <2>10. PICK y : y = Size(file[c])
    OBVIOUS
  <2>11. y \in Nat /\ k \in 1 .. y /\ start[c + 1] = start[c] + y
    BY <2>5, <2>10, Sizes DEF Layout
  <2>12. i = start[b + 1] + 1
    BY <1>4, <1>5, <1>8, <2>3, <2>9
  <2>13. CASE c <= b
    <3>2. c + 1 \in 1 .. n + 1 /\ b + 1 \in 1 .. n + 1 /\ c + 1 <= b + 1 /\ c \in 1 .. n + 1
      BY <2>8, <2>13
    <3>1. start[c + 1] <= start[b + 1] /\ start[b + 1] \in Nat /\ start[c] \in Nat
      BY <2>9, <3>2
    <3> QED
      BY <2>5, <2>11, <2>12, <3>1
  <2>14. CASE c > b
    <3>1. start[b + 1] <= start[c] /\ start[b + 1] \in Nat /\ start[c] \in Nat
      BY <2>8, <2>9, <2>14
    <3> QED
      BY <2>5, <2>6, <2>12, <3>1
  <2> QED
    BY <2>8, <2>13, <2>14
<1>10. ASSUME NEW x \in 1 .. Len(kept) - 1
       PROVE  kept[x + 1] = Its(lib, file, b, x + 2)
  <2>1. x + 1 \in 1 .. Len(kept) /\ x + 2 \in 1 .. size /\ s + 1 + (x + 1) = start[b] + (x + 2)
    <3>1. PICK len : len = Len(kept)
      OBVIOUS
    <3>2. len \in Nat /\ len <= size - 1 /\ x \in 1 .. len - 1 /\ size \in Nat
      BY <1>2, <1>8, <1>9, <3>1
    <3>3. x + 1 \in 1 .. len /\ x + 2 \in 1 .. size /\ s + 1 + (x + 1) = s + (x + 2)
      BY <3>2
    <3> QED
      BY <1>5, <3>1, <3>3
  <2>2. kept[x + 1] = lines[s + 1 + (x + 1)]
    BY <1>1, <2>1
  <2>3. lines[start[b] + (x + 2)] = Its(lib, file, b, x + 2)
    BY <1>7, <2>1 DEF Layout
  <2> QED
    BY <2>1, <2>2, <2>3
<1> QED
  BY <1>2, <1>5, <1>8, <1>9, <1>10 DEF RowsOfBlock

LEMMA FileRead ==
  ASSUME figure \in Figures, NEW lib \in STRING, NEW file \in [DOMAIN figure.blocks -> BlockSet],
         NEW lines, lines = Lines(lib, file)
  PROVE  lines \in Seq(LineSet) /\ Read(lines, Len(lines), parse(lines))
<1>1. lines \in Seq(LineSet) /\ \E start : Layout(lib, file, lines, start)
  BY LinesLaidOut
<1>2. PICK start : Layout(lib, file, lines, start)
  BY <1>1
<1>3. \A i \in 1 .. Len(lines) : lines[i].bench # NotAName
  <2> SUFFICES ASSUME NEW i \in 1 .. Len(lines) PROVE lines[i].bench # NotAName
    OBVIOUS
  <2>1. PICK b \in 1 .. Len(figure.blocks) : Place(lib, file, lines, start, i, b)
    BY <1>2, LineAt
  <2>2. PICK k \in Nat \ {0} : lines[i] = Its(lib, file, b, k)
    BY <2>1 DEF Place
  <2>3. lines[i].bench = figure.blocks[b]
    BY <2>2, ItsKind
  <2> QED
    BY <2>3, FigureFacts
<1> QED
  BY <1>1, <1>3, ParsedLines

\* The rows kept for a benchmark are rows its block has.
LEMMA AnalysableRows ==
  ASSUME figure \in Figures, NEW lib \in STRING, NEW file \in [DOMAIN figure.blocks -> BlockSet],
         NEW p, p = parse(Lines(lib, file)), NEW name \in DOMAIN p.entries, name # NotAName,
         Analysable(p.entries[name])
  PROVE  /\ p.entries[name] \in Seq(LineSet) /\ Len(p.entries[name]) > 0
         /\ \E b \in 1 .. Len(figure.blocks) : RowsOfBlock(lib, file, name, p.entries[name], b)
<1>1. PICK lines : lines = Lines(lib, file)
  OBVIOUS
<1>2. lines \in Seq(LineSet) /\ \E start : Layout(lib, file, lines, start)
  BY <1>1, LinesLaidOut
<1>3. PICK start : Layout(lib, file, lines, start)
  BY <1>2
<1>5. Read(lines, Len(lines), p)
  BY <1>1, FileRead
<1>6. PICK kept : kept = p.entries[name]
  OBVIOUS
<1>7. PICK i : i = Len(lines)
  OBVIOUS
<1>8. Entry(lines, i, name, kept)
  BY <1>5, <1>6, <1>7 DEF Read, Entries
<1>9. PICK s \in 0 .. i - 1 : s + 1 + Len(kept) <= i /\ Segment(lines, s, name, kept)
  BY <1>8 DEF Entry
<1>10. kept \in Seq(LineSet) /\ i \in Nat /\ s \in Nat
  BY <1>2, <1>7, <1>8, <1>9 DEF Entry
<1>11. Analysable(kept) /\ Len(lines) \in Nat /\ s + 1 + Len(kept) <= Len(lines)
  BY <1>6, <1>7, <1>9, <1>10
<1>12. \E b \in 1 .. Len(figure.blocks) : RowsOfBlock(lib, file, name, kept, b)
  BY <1>3, <1>9, <1>10, <1>11, SegmentOfBlock
<1>13. Len(kept) > 0
  BY <1>11 DEF Analysable
<1> QED
  BY <1>6, <1>10, <1>12, <1>13

-----------------------------------------------------------------------------
(* A file with all rows *)

AllRows(file) == \A b \in DOMAIN file : file[b].head = 2 /\ file[b].rows = 1 .. Rows

KeptOf(lib, file, b, k, kept) ==
  kept \in Seq(LineSet) /\ Len(kept) = k /\ \A j \in 1 .. k : kept[j] = Its(lib, file, b, j + 1)

\* The first b benchmarks are kept, of the last of them k lines.
KeptTo(lib, file, b, k, entries) ==
  /\ DOMAIN entries = {figure.blocks[c] : c \in 1 .. b}
  /\ \A c \in 1 .. b - 1 : KeptOf(lib, file, c, Rows + 1, entries[figure.blocks[c]])
  /\ b > 0 => KeptOf(lib, file, b, k, entries[figure.blocks[b]])

ReadWhole(lib, file, b, p) == p.mode = "info" /\ KeptTo(lib, file, b, Rows + 1, p.entries)

\* After k lines of block b.
ReadPart(lib, file, b, k, p) ==
  /\ p.mode = IF k = 1 THEN "labels" ELSE IF k = Rows + 2 THEN "info" ELSE "values"
  /\ p.name = figure.blocks[b] /\ p.count = Rows
  /\ KeptTo(lib, file, b, k - 1, p.entries)

LEMMA CompleteSizes ==
  ASSUME figure \in Figures, NEW file \in [DOMAIN figure.blocks -> BlockSet], AllRows(file),
         NEW b \in 1 .. Len(figure.blocks)
  PROVE  /\ file[b].head = 2 /\ Size(file[b]) = Rows + 2 /\ Len(Sorted(file[b])) = Rows
         /\ \A x \in 1 .. Rows : Sorted(file[b])[x] = x
<1>1. Rows \in Nat
  BY BoundsAssumption
<1>2. file[b] \in BlockSet /\ file[b].head = 2 /\ file[b].rows = 1 .. Rows
  BY FigureFacts DEF AllRows
<1>3. PICK block : block = file[b]
  OBVIOUS
<1>4. Len(Sorted(block)) = Rows /\ \A x \in 1 .. Rows : Sorted(block)[x] = x
  <2>1. Rows \in 0 .. Rows
    BY <1>1
  <2> QED
    BY <1>2, <1>3, <2>1, SortedPrefix
<1> QED
  BY <1>1, <1>2, <1>3, <1>4 DEF Size

LEMMA ItsLine ==
  ASSUME figure \in Figures, NEW lib \in STRING, NEW file \in [DOMAIN figure.blocks -> BlockSet],
         NEW b \in 1 .. Len(figure.blocks), NEW k \in 1 .. Size(file[b])
  PROVE  Its(lib, file, b, k) \in LineSet
<1>1. Len(BlockLines(lib, file, b)) = Size(file[b]) /\ BlockLines(lib, file, b) \in Seq(LineSet)
      /\ BlockLines(lib, file, b)[k] = Its(lib, file, b, k)
  BY LinesOfBlock
<1>2. PICK ls, n : ls = BlockLines(lib, file, b) /\ n = Size(file[b])
  OBVIOUS
<1>3. ls \in Seq(LineSet) /\ k \in 1 .. Len(ls)
  BY <1>1, <1>2
<1>4. ls[k] \in LineSet
  BY <1>3
<1> QED
  BY <1>1, <1>2, <1>4

\* A new name with no lines, or more lines for the last name.
LEMMA KeptNext ==
  ASSUME figure \in Figures, NEW lib, NEW file, NEW b \in 1 .. Len(figure.blocks),
         NEW entries, NEW kept, NEW k,
         KeptOf(lib, file, b, k, kept),
         \/ KeptTo(lib, file, b - 1, Rows + 1, entries)
         \/ \E l : KeptTo(lib, file, b, l, entries)
  PROVE  KeptTo(lib, file, b, k, With(entries, figure.blocks[b], kept))
<1>1. PICK n, blocks, name, new :
        n = Len(figure.blocks) /\ blocks = figure.blocks /\ name = blocks[b] /\ new = With(entries, name, kept)
  OBVIOUS
<1>2. n \in Nat /\ b \in 1 .. n /\ \A c, d \in 1 .. n : c # d => blocks[c] # blocks[d]
  BY <1>1, FigureFacts
<1>3. /\ DOMAIN new = DOMAIN entries \cup {name}
      /\ \A m \in DOMAIN entries \cup {name} : new[m] = IF m = name THEN kept ELSE entries[m]
  BY <1>1 DEF With
<1>4. \A c \in 1 .. b - 1 : KeptOf(lib, file, c, Rows + 1, entries[blocks[c]]) /\ blocks[c] \in DOMAIN entries
  <2>1. CASE KeptTo(lib, file, b - 1, Rows + 1, entries)
    <3> SUFFICES ASSUME NEW c \in 1 .. b - 1
                 PROVE  KeptOf(lib, file, c, Rows + 1, entries[blocks[c]]) /\ blocks[c] \in DOMAIN entries
      OBVIOUS
    <3>1. blocks[c] \in DOMAIN entries
      BY <1>1, <2>1 DEF KeptTo
    <3>2. CASE c = b - 1
      <4>1. b - 1 > 0
        BY <3>2
      <4> QED
        BY <1>1, <2>1, <3>1, <3>2, <4>1 DEF KeptTo
    <3>3. CASE c # b - 1
      <4>1. c \in 1 .. (b - 1) - 1
        BY <3>3
      <4> QED
        BY <1>1, <2>1, <3>1, <4>1 DEF KeptTo
    <3> QED
      BY <3>2, <3>3
  <2>2. CASE \E l : KeptTo(lib, file, b, l, entries)
    <3>1. PICK l : KeptTo(lib, file, b, l, entries)
      BY <2>2
    <3>2. \A c \in 1 .. b - 1 : c \in 1 .. b
      OBVIOUS
    <3> QED
      BY <1>1, <3>1, <3>2 DEF KeptTo
  <2> QED
    BY <2>1, <2>2
<1>5. DOMAIN new = {blocks[c] : c \in 1 .. b}
  <2>1. CASE KeptTo(lib, file, b - 1, Rows + 1, entries)
    <3>1. DOMAIN entries = {blocks[c] : c \in 1 .. b - 1}
      BY <1>1, <2>1 DEF KeptTo
    <3>2. 1 .. b = (1 .. b - 1) \cup {b}
      BY <1>2
    <3> QED
      BY <1>1, <1>3, <3>1, <3>2
  <2>2. CASE \E l : KeptTo(lib, file, b, l, entries)
    <3>1. DOMAIN entries = {blocks[c] : c \in 1 .. b}
      BY <1>1, <2>2 DEF KeptTo
    <3>2. b \in 1 .. b
      BY <1>2
    <3> QED
      BY <1>1, <1>3, <3>1, <3>2
  <2> QED
    BY <2>1, <2>2
<1>6. ASSUME NEW c \in 1 .. b - 1 PROVE KeptOf(lib, file, c, Rows + 1, new[blocks[c]])
  <2>1. c \in 1 .. n /\ c # b
    BY <1>2
  <2>2. blocks[c] # name /\ blocks[c] \in DOMAIN entries
    BY <1>1, <1>2, <1>4, <2>1
  <2>3. new[blocks[c]] = entries[blocks[c]]
    BY <1>3, <2>2
  <2> QED
    BY <1>4, <2>3
<1>7. new[blocks[b]] = kept
  BY <1>1, <1>3
<1> QED
  BY <1>1, <1>5, <1>6, <1>7 DEF KeptTo

LEMMA BlockRead ==
  ASSUME figure \in Figures, NEW lib \in STRING, NEW file \in [DOMAIN figure.blocks -> BlockSet],
         AllRows(file), NEW b \in 1 .. Len(figure.blocks), NEW p, ReadWhole(lib, file, b - 1, p)
  PROVE  ReadPart(lib, file, b, 1, ReadLine(p, Its(lib, file, b, 1)))
<1>1. PICK line : line = Its(lib, file, b, 1)
  OBVIOUS
<1>2. line.kind = "info" /\ line.bench = figure.blocks[b]
  BY <1>1 DEF Its, Line
<1>3. PICK name, entries : name = figure.blocks[b] /\ entries = With(p.entries, name, <<>>)
  OBVIOUS
<1>4. ReadLine(p, line) = Parser("labels", name, Rows, entries)
  BY <1>2, <1>3 DEF ReadWhole, ReadLine, ReadInfo
<1>5. KeptOf(lib, file, b, 0, <<>>)
  <2>1. <<>> \in Seq(LineSet) /\ Len(<<>>) = 0
    OBVIOUS
  <2> QED
    BY <2>1 DEF KeptOf
<1>6. KeptTo(lib, file, b, 0, entries)
  <2>1. KeptTo(lib, file, b - 1, Rows + 1, p.entries)
    BY DEF ReadWhole
  <2>2. PICK kept, e : kept = <<>> /\ e = p.entries
    OBVIOUS
  <2>3. KeptTo(lib, file, b, 0, With(e, figure.blocks[b], kept))
    BY <1>5, <2>1, <2>2, KeptNext
  <2> QED
    BY <1>3, <2>2, <2>3
<1>7. PICK q : q = Parser("labels", name, Rows, entries)
  OBVIOUS
<1>8. q.mode = "labels" /\ q.name = name /\ q.count = Rows /\ q.entries = entries
  BY <1>7, ParserFields
<1>9. 1 - 1 = 0
  OBVIOUS
<1>10. ReadPart(lib, file, b, 1, q)
  BY <1>3, <1>6, <1>8, <1>9 DEF ReadPart
<1> QED
  BY <1>1, <1>4, <1>7, <1>10

LEMMA PartRead ==
  ASSUME figure \in Figures, NEW lib \in STRING, NEW file \in [DOMAIN figure.blocks -> BlockSet],
         AllRows(file), NEW b \in 1 .. Len(figure.blocks), NEW k \in 1 .. Rows + 1,
         NEW p, ReadPart(lib, file, b, k, p)
  PROVE  ReadPart(lib, file, b, k + 1, ReadLine(p, Its(lib, file, b, k + 1)))
<1>1. PICK line : line = Its(lib, file, b, k + 1)
  OBVIOUS
<1>2. Rows \in Nat /\ Rows > 0 /\ (k + 1) - 1 = k /\ k \in Nat
  BY BoundsAssumption
<1>3. line \in LineSet
  <2>1. k + 1 \in 1 .. Size(file[b])
    <3>1. Size(file[b]) = Rows + 2
      BY CompleteSizes
    <3>2. k + 1 \in 1 .. Rows + 2
      BY <1>2
    <3> QED
      BY <3>1, <3>2
  <2> QED
    BY <1>1, <2>1, ItsLine
<1>4. PICK name, old : name = figure.blocks[b] /\ old = p.entries[name]
  OBVIOUS
<1>5. /\ p.name = name /\ p.count = Rows /\ KeptTo(lib, file, b, k - 1, p.entries)
      /\ old \in Seq(LineSet) /\ Len(old) = k - 1
      /\ \A j \in 1 .. k - 1 : old[j] = Its(lib, file, b, j + 1)
  BY <1>4 DEF ReadPart, KeptTo, KeptOf
<1>6. PICK kept, entries : kept = Append(old, line) /\ entries = With(p.entries, name, kept)
  OBVIOUS
<1>7. kept \in Seq(LineSet) /\ Len(kept) = k /\ (\A j \in 1 .. k - 1 : kept[j] = old[j]) /\ kept[k] = line
  <2>1. /\ kept \in Seq(LineSet) /\ Len(kept) = Len(old) + 1
        /\ (\A j \in 1 .. Len(old) : kept[j] = old[j]) /\ kept[Len(old) + 1] = line
    BY <1>3, <1>5, <1>6
  <2>2. Len(old) = k - 1 /\ Len(old) + 1 = k
    BY <1>2, <1>5
  <2> QED
    BY <2>1, <2>2
<1>8. KeptOf(lib, file, b, k, kept)
  <2>1. ASSUME NEW j \in 1 .. k PROVE kept[j] = Its(lib, file, b, j + 1)
    <3>1. CASE j = k
      BY <1>1, <1>7, <3>1
    <3>2. CASE j # k
      <4>1. j \in 1 .. k - 1
        BY <1>2, <3>2
      <4> QED
        BY <1>5, <1>7, <4>1
    <3> QED
      BY <3>1, <3>2
  <2> QED
    BY <1>7, <2>1 DEF KeptOf
<1>9. KeptTo(lib, file, b, k, entries)
  <2>1. PICK e : e = p.entries
    OBVIOUS
  <2>2. \E l : KeptTo(lib, file, b, l, e)
    BY <1>5, <2>1
  <2>3. KeptTo(lib, file, b, k, With(e, figure.blocks[b], kept))
    BY <1>8, <2>2, KeptNext
  <2> QED
    BY <1>4, <1>6, <2>1, <2>3
<1>10. PICK mode : mode = IF k = Rows + 1 THEN "info" ELSE "values"
  OBVIOUS
<1>11. PICK q : q = Parser(mode, name, Rows, entries)
  OBVIOUS
<1>12. ReadLine(p, line) = q
  <2>1. CASE k = 1
    <3>1. p.mode = "labels" /\ mode = "values"
      BY <1>2, <1>10, <2>1 DEF ReadPart
    <3>2. kept = <<line>>
      <4>1. old = <<>>
        BY <1>5, <2>1
      <4> QED
        BY <1>6, <4>1
    <3>3. ReadLine(p, line) = Parser("values", p.name, p.count, With(p.entries, p.name, <<line>>))
      BY <3>1 DEF ReadLine, ReadLabels
    <3> QED
      BY <1>5, <1>6, <1>11, <3>1, <3>2, <3>3
  <2>2. CASE k # 1
    <3>1. p.mode = "values"
      <4>1. k # Rows + 2
        BY <1>2
      <4> QED
        BY <2>2, <4>1 DEF ReadPart
    <3>2. p.count # NotANumber
      BY <1>2, <1>5 DEF NotANumber
    <3>3. ReadLine(p, line) =
            Parser(IF Len(kept) - 1 = p.count THEN "info" ELSE "values", p.name, p.count, entries)
      BY <1>4, <1>5, <1>6, <3>1, <3>2 DEF ReadLine, ReadValues
    <3>4. Len(kept) - 1 = p.count <=> k = Rows + 1
      BY <1>2, <1>5, <1>7
    <3> QED
      BY <1>5, <1>10, <1>11, <3>3, <3>4
  <2> QED
    BY <2>1, <2>2
<1>13. q.mode = mode /\ q.name = name /\ q.count = Rows /\ q.entries = entries
  BY <1>11, ParserFields
<1>14. mode = IF k + 1 = 1 THEN "labels" ELSE IF k + 1 = Rows + 2 THEN "info" ELSE "values"
  BY <1>2, <1>10
<1>15. ReadPart(lib, file, b, k + 1, q)
  BY <1>2, <1>4, <1>9, <1>13, <1>14 DEF ReadPart
<1> QED
  BY <1>1, <1>12, <1>15

LEMMA WholeBlockRead ==
  ASSUME figure \in Figures, NEW lib \in STRING, NEW file \in [DOMAIN figure.blocks -> BlockSet],
         AllRows(file), NEW lines, NEW start, Layout(lib, file, lines, start),
         NEW b \in 1 .. Len(figure.blocks), NEW after,
         \A i \in 1 .. Len(lines) : after[i] = ReadLine(after[i - 1], lines[i]),
         ReadWhole(lib, file, b - 1, after[start[b]])
  PROVE  ReadWhole(lib, file, b, after[start[b + 1]])
<1>1. Rows \in Nat /\ Rows > 0
  BY BoundsAssumption
<1>2. PICK n, s, size : n = Len(figure.blocks) /\ s = start[b] /\ size = Size(file[b])
  OBVIOUS
<1>3. n \in Nat /\ b \in 1 .. n /\ size = Rows + 2
  BY <1>2, FigureFacts, CompleteSizes
<1>4. s \in Nat /\ start[b + 1] = s + size
  <2>1. b \in 1 .. n + 1
    BY <1>3
  <2>2. start \in [1 .. n + 1 -> Nat] /\ start[b + 1] = start[b] + Size(file[b])
    BY <1>2 DEF Layout
  <2> QED
    BY <1>2, <2>1, <2>2
<1>5. ASSUME NEW k \in 1 .. size
      PROVE  after[s + k] = ReadLine(after[s + (k - 1)], Its(lib, file, b, k))
  <2>1. s + k \in 1 .. Len(lines) /\ lines[s + k] = Its(lib, file, b, k)
    BY <1>2 DEF Layout
  <2>2. (s + k) - 1 = s + (k - 1)
    BY <1>3, <1>4
  <2> QED
    BY <2>1, <2>2
<1> DEFINE N == {k \in Nat : k \in 1 .. size => ReadPart(lib, file, b, k, after[s + k])}
<1>6. 0 \in N
  OBVIOUS
<1>7. \A k \in Nat : k \in N => k + 1 \in N
  <2> SUFFICES ASSUME NEW k \in Nat, k \in N, k + 1 \in 1 .. size
               PROVE  ReadPart(lib, file, b, k + 1, after[s + (k + 1)])
    OBVIOUS
  <2>1. (k + 1) - 1 = k
    OBVIOUS
  <2>2. after[s + (k + 1)] = ReadLine(after[s + k], Its(lib, file, b, k + 1))
    BY <1>5, <2>1
  <2>3. PICK p : p = after[s + k]
    OBVIOUS
  <2>4. CASE k = 0
    <3>1. ReadWhole(lib, file, b - 1, p)
      BY <1>2, <1>4, <2>3, <2>4
    <3>2. ReadPart(lib, file, b, 1, ReadLine(p, Its(lib, file, b, 1)))
      BY <3>1, BlockRead
    <3> QED
      BY <2>2, <2>3, <2>4, <3>2
  <2>5. CASE k > 0
    <3>1. k \in 1 .. size /\ k \in 1 .. Rows + 1
      BY <1>1, <1>3, <2>5
    <3>2. ReadPart(lib, file, b, k, p)
      BY <2>3, <3>1
    <3>3. ReadPart(lib, file, b, k + 1, ReadLine(p, Its(lib, file, b, k + 1)))
      BY <3>1, <3>2, PartRead
    <3> QED
      BY <2>2, <2>3, <3>3
  <2> QED
    BY <2>4, <2>5
<1>8. size \in N
  <2>1. PICK S : S = N
    OBVIOUS
  <2> HIDE DEF N
  <2>2. \A k \in Nat : k \in S
    BY <1>6, <1>7, <2>1, Induction
  <2>3. size \in Nat
    BY <1>1, <1>3
  <2> QED
    BY <2>1, <2>2, <2>3
<1>9. ReadPart(lib, file, b, size, after[s + size])
  BY <1>1, <1>3, <1>8
<1> HIDE DEF N
<1>10. size - 1 = Rows + 1 /\ size # 1 /\ size = Rows + 2
  BY <1>1, <1>3
<1> QED
  BY <1>4, <1>9, <1>10 DEF ReadPart, ReadWhole

\* A file with all rows is parsed into all rows of all benchmarks.
LEMMA CompleteParse ==
  ASSUME figure \in Figures, NEW lib \in STRING, NEW file \in [DOMAIN figure.blocks -> BlockSet],
         AllRows(file), NEW p, p = parse(Lines(lib, file))
  PROVE  ReadWhole(lib, file, Len(figure.blocks), p)
<1>1. PICK lines : lines = Lines(lib, file)
  OBVIOUS
<1>2. lines \in Seq(LineSet) /\ \E start : Layout(lib, file, lines, start)
  BY <1>1, LinesLaidOut
<1>3. PICK start : Layout(lib, file, lines, start)
  BY <1>2
<1>4. PICK n, after : n = Len(figure.blocks) /\ after = parsing(lines)
  OBVIOUS
<1>5. after[0] = AtFirstLine /\ \A i \in 1 .. Len(lines) : after[i] = ReadLine(after[i - 1], lines[i])
  BY <1>4, ParserReads
<1>6. n \in Nat /\ start[1] = 0 /\ start[n + 1] = Len(lines)
  BY <1>3, <1>4, FigureFacts DEF Layout
<1> DEFINE N == {b \in Nat : b <= n => ReadWhole(lib, file, b, after[start[b + 1]])}
<1>7. 0 \in N
  <2>1. KeptTo(lib, file, 0, Rows + 1, <<>>)
    <3>1. DOMAIN <<>> = {} /\ 1 .. 0 = {} /\ 1 .. 0 - 1 = {}
      OBVIOUS
    <3> QED
      BY <3>1 DEF KeptTo
  <2>2. ReadWhole(lib, file, 0, AtFirstLine)
    BY <2>1 DEF ReadWhole, AtFirstLine, Parser
  <2>3. after[start[0 + 1]] = AtFirstLine
    BY <1>5, <1>6
  <2> QED
    BY <2>2, <2>3
<1>8. \A b \in Nat : b \in N => b + 1 \in N
  <2> SUFFICES ASSUME NEW b \in Nat, b \in N, b + 1 <= n
               PROVE  ReadWhole(lib, file, b + 1, after[start[(b + 1) + 1]])
    OBVIOUS
  <2>1. PICK c : c = b + 1
    OBVIOUS
  <2>2. c \in 1 .. Len(figure.blocks) /\ c - 1 = b
    BY <1>4, <1>6, <2>1
  <2>3. ReadWhole(lib, file, c - 1, after[start[c]])
    <3>1. b <= n
      BY <1>6
    <3> QED
      BY <2>1, <2>2, <3>1
  <2>4. ReadWhole(lib, file, c, after[start[c + 1]])
    BY <1>3, <1>5, <2>2, <2>3, WholeBlockRead
  <2> QED
    BY <2>1, <2>4
<1>9. n \in N
  <2>1. PICK S : S = N
    OBVIOUS
  <2> HIDE DEF N
  <2>2. \A b \in Nat : b \in S
    BY <1>7, <1>8, <2>1, Induction
  <2> QED
    BY <1>6, <2>1, <2>2
<1>10. ReadWhole(lib, file, n, after[start[n + 1]])
  BY <1>6, <1>9
<1>11. p = after[start[n + 1]]
  BY <1>1, <1>4, <1>6 DEF parse
<1> QED
  BY <1>4, <1>10, <1>11

-----------------------------------------------------------------------------
(* The cells of a plot *)

\* No element of S is left out.
LEMMA ChosenCovers ==
  ASSUME NEW T, NEW s \in Seq(T), NEW S, NEW x \in 1 .. Len(s), s[x] \in S
  PROVE  \E j \in 1 .. Len(Chosen(s, S)) : Chosen(s, S)[j] = s[x]
<1>1. PICK f : /\ Chosen(s, S) = f[Len(s)] /\ f[0] = <<>>
               /\ \A i \in 1 .. Len(s) :
                    f[i] = IF s[i] \in S THEN Append(f[i - 1], s[i]) ELSE f[i - 1]
  BY ChosenStep
<1> DEFINE n == Len(s)
           P(i) == /\ f[i] \in Seq(T)
                   /\ x <= i => \E j \in 1 .. Len(f[i]) : f[i][j] = s[x]
           N == {i \in Nat : i <= n => P(i)}
<1>2. 0 \in N
  <2>1. f[0] \in Seq(T)
    BY <1>1
  <2> QED
    BY <2>1
<1>3. \A i \in Nat : i \in N => i + 1 \in N
  <2> SUFFICES ASSUME NEW i \in Nat, P(i), i + 1 <= n PROVE P(i + 1)
    <3>1. n \in Nat
      OBVIOUS
    <3> HIDE DEF P, n
    <3> QED
      BY <3>1
  <2>1. s[i + 1] \in T /\ n \in Nat /\ i + 1 \in 1 .. Len(s) /\ (i + 1) - 1 = i
    OBVIOUS
  <2>2. CASE s[i + 1] \in S
    <3>1. f[i + 1] = Append(f[i], s[i + 1])
      BY <1>1, <2>1, <2>2
    <3>2. /\ f[i + 1] \in Seq(T) /\ Len(f[i + 1]) = Len(f[i]) + 1 /\ Len(f[i]) \in Nat
          /\ (\A j \in 1 .. Len(f[i]) : f[i + 1][j] = f[i][j]) /\ f[i + 1][Len(f[i]) + 1] = s[i + 1]
      BY <2>1, <3>1
    <3>3. CASE x = i + 1
      <4>1. Len(f[i]) + 1 \in 1 .. Len(f[i + 1])
        BY <3>2
      <4> QED
        BY <3>2, <3>3, <4>1
    <3>4. CASE x <= i
      <4>1. PICK j \in 1 .. Len(f[i]) : f[i][j] = s[x]
        BY <3>4
      <4>2. j \in 1 .. Len(f[i + 1]) /\ f[i + 1][j] = s[x]
        BY <3>2, <4>1
      <4> QED
        BY <3>2, <4>2
    <3>5. CASE x > i + 1
      BY <3>2, <3>5
    <3> QED
      BY <3>3, <3>4, <3>5
  <2>3. CASE s[i + 1] \notin S
    <3>1. f[i + 1] = f[i]
      BY <1>1, <2>1, <2>3
    <3>2. x # i + 1
      BY <2>3
    <3>3. CASE x <= i
      BY <3>1, <3>3
    <3>4. CASE x > i + 1
      BY <3>1, <3>4
    <3> QED
      BY <3>2, <3>3, <3>4
  <2> QED
    BY <2>2, <2>3
<1>4. n \in N /\ n \in Nat
  <2>1. n \in Nat
    OBVIOUS
  <2> HIDE DEF N, n
  <2> QED
    BY <1>2, <1>3, <2>1, Induction
<1>5. P(n)
  BY <1>4
<1> HIDE DEF N
<1>6. x <= n
  OBVIOUS
<1> QED
  BY <1>1, <1>5, <1>6

HasRows(readers, lib, bench) == RowsOf(readers[lib].entries, bench) # <<>>
WithRows(readers, libs, bench) == {lib \in ToSet(libs) : HasRows(readers, lib, bench)}

\* A library and a benchmark that it has rows of.
IsCell(readers, libs, benchmarks, cell) ==
  /\ cell.bench \in ToSet(benchmarks) /\ cell.lib \in ToSet(libs)
  /\ cell.rows = RowsOf(readers[cell.lib].entries, cell.bench) /\ cell.rows # <<>>

\* The cells of one benchmark.
IsGroup(readers, libs, bench, cells, present) ==
  /\ present \in Seq(WithRows(readers, libs, bench)) /\ Len(cells) = Len(present)
  /\ cells = [i \in 1 .. Len(present) |-> cells[i]]
  /\ \A i \in 1 .. Len(present) :
       cells[i] = [bench |-> bench, lib |-> present[i], last |-> present[Len(present)],
                   rows |-> RowsOf(readers[present[i]].entries, bench)]
  /\ Len(libs) > 0 /\ libs[1] \in WithRows(readers, libs, bench) =>
       Len(present) > 0 /\ present[1] = libs[1]
  /\ \A lib \in WithRows(readers, libs, bench) : \E j \in 1 .. Len(present) : present[j] = lib

LEMMA Group ==
  ASSUME NEW readers, NEW libs \in Seq(STRING), NEW bench
  PROVE  \E present : IsGroup(readers, libs, bench, CellsOf(readers, libs, bench), present)
<1>1. PICK S : S = WithRows(readers, libs, bench)
  OBVIOUS
<1>2. PICK present : present = Chosen(libs, S)
  OBVIOUS
<1>3. S \subseteq STRING
  BY <1>1 DEF WithRows, ToSet
<1>4. STRING \cap S = S
  BY <1>3
<1>5. present \in Seq(S)
  <2>1. Chosen(libs, S) \in Seq(STRING \cap S)
    BY ChosenElements
  <2> QED
    BY <1>2, <1>4, <2>1
<1>6. Len(libs) > 0 /\ libs[1] \in S => Len(present) > 0 /\ present[1] = libs[1]
  BY <1>2, ChosenElements
<1>7. ASSUME NEW lib \in S PROVE \E j \in 1 .. Len(present) : present[j] = lib
  <2>1. PICK x \in 1 .. Len(libs) : libs[x] = lib
    BY <1>1 DEF WithRows, ToSet
  <2> QED
    BY <1>2, <2>1, ChosenCovers
<1>8. CellsOf(readers, libs, bench)
        = [i \in 1 .. Len(present) |->
             [bench |-> bench, lib |-> present[i], last |-> present[Len(present)],
              rows |-> RowsOf(readers[present[i]].entries, bench)]]
  <2>1. DOMAIN present = 1 .. Len(present)
    BY <1>5
  <2>2. S = {lib \in ToSet(libs) : RowsOf(readers[lib].entries, bench) # <<>>}
    BY <1>1 DEF WithRows, HasRows
  <2> QED
    BY <1>2, <2>1, <2>2 DEF CellsOf
<1>9. PICK cells : cells = CellsOf(readers, libs, bench)
  OBVIOUS
<1>10. Len(cells) = Len(present) /\ cells = [i \in 1 .. Len(present) |-> cells[i]]
  <2>1. DOMAIN cells = 1 .. Len(present) /\ Len(present) \in Nat
    BY <1>5, <1>8, <1>9
  <2>2. cells = [i \in 1 .. Len(present) |-> cells[i]]
    BY <1>8, <1>9
  <2> QED
    BY <2>1, <2>2
<1>11. \A i \in 1 .. Len(present) :
         cells[i] = [bench |-> bench, lib |-> present[i], last |-> present[Len(present)],
                     rows |-> RowsOf(readers[present[i]].entries, bench)]
  BY <1>8, <1>9
<1>12. IsGroup(readers, libs, bench, cells, present)
  BY <1>1, <1>5, <1>6, <1>7, <1>10, <1>11 DEF IsGroup
<1> QED
  BY <1>9, <1>12

\* What the cells of a plot are: cells of the configuration, in each benchmark
\* the first library first, and none left out.
LaidOut(readers, libs, benchmarks, cells) ==
  /\ Len(cells) \in Nat /\ DOMAIN cells = 1 .. Len(cells)
  /\ \A i \in 1 .. Len(cells) : IsCell(readers, libs, benchmarks, cells[i])
  /\ \A i \in 1 .. Len(cells) : \E j \in 1 .. Len(cells) :
       cells[j].bench = cells[i].bench /\ cells[j].lib = cells[i].last
  /\ \A i \in 1 .. Len(cells) :
       libs[1] \in WithRows(readers, libs, cells[i].bench) =>
         \E q \in 1 .. i : /\ cells[q].lib = libs[1]
                           /\ \A r \in q .. i : cells[r].bench = cells[i].bench
  /\ \A m \in 1 .. Len(benchmarks) : \A lib \in WithRows(readers, libs, benchmarks[m]) :
       \E i \in 1 .. Len(cells) : cells[i].bench = benchmarks[m] /\ cells[i].lib = lib

IsGroupCell(readers, libs, benchmarks, bench, cells, present, k) ==
  /\ IsCell(readers, libs, benchmarks, cells[k]) /\ cells[k].bench = bench
  /\ cells[k].lib = present[k] /\ cells[k].last = present[Len(present)]
  /\ Len(present) \in 1 .. Len(cells) /\ Len(present) = Len(cells)

LEMMA GroupCell ==
  ASSUME NEW readers, NEW libs, NEW benchmarks, NEW bench, bench \in ToSet(benchmarks),
         NEW cells, NEW present, IsGroup(readers, libs, bench, cells, present),
         NEW k, k \in 1 .. Len(cells)
  PROVE  IsGroupCell(readers, libs, benchmarks, bench, cells, present, k)
<1>1. PICK S : S = WithRows(readers, libs, bench)
  OBVIOUS
<1>2. present \in Seq(S) /\ Len(cells) = Len(present)
  BY <1>1 DEF IsGroup
<1>3. Len(present) \in Nat /\ k \in 1 .. Len(present) /\ Len(present) \in 1 .. Len(present)
  BY <1>2
<1>4. present[k] \in S /\ present[Len(present)] \in S
  BY <1>2, <1>3
<1>5. S \subseteq ToSet(libs) /\ RowsOf(readers[present[k]].entries, bench) # <<>>
  BY <1>1, <1>4 DEF WithRows, HasRows
<1>6. PICK cell, rows : cell = cells[k] /\ rows = RowsOf(readers[present[k]].entries, bench)
  OBVIOUS
<1>7. cell = [bench |-> bench, lib |-> present[k], last |-> present[Len(present)], rows |-> rows]
  BY <1>3, <1>6 DEF IsGroup
<1>8. cell.bench = bench /\ cell.lib = present[k] /\ cell.last = present[Len(present)] /\ cell.rows = rows
  BY <1>7
<1>9. IsCell(readers, libs, benchmarks, cell)
  BY <1>4, <1>5, <1>6, <1>8 DEF IsCell
<1> QED
  BY <1>2, <1>3, <1>6, <1>8, <1>9 DEF IsGroupCell

LEMMA CellsLaidOut ==
  ASSUME NEW readers, NEW libs \in Seq(STRING), NEW benchmarks \in Seq(STRING), Len(benchmarks) > 0,
         NEW cells, cells = Cells(readers, libs, benchmarks)
  PROVE  LaidOut(readers, libs, benchmarks, cells)
<1>1. PICK n, parts :
        n = Len(benchmarks) /\ parts = [b \in DOMAIN benchmarks |-> CellsOf(readers, libs, benchmarks[b])]
  OBVIOUS
<1>2. n \in Nat /\ n > 0 /\ DOMAIN benchmarks = 1 .. n
  BY <1>1
<1>3. /\ DOMAIN parts = 1 .. n /\ Len(parts) = n
      /\ \A m \in 1 .. n : parts[m] = CellsOf(readers, libs, benchmarks[m])
  <2>1. parts = [b \in 1 .. n |-> CellsOf(readers, libs, benchmarks[b])]
    BY <1>1, <1>2
  <2>2. parts = [b \in 1 .. n |-> parts[b]]
    BY <2>1
  <2> QED
    BY <1>2, <2>1, <2>2
<1>4. ASSUME NEW m \in 1 .. n
      PROVE  \E present : IsGroup(readers, libs, benchmarks[m], parts[m], present)
  BY <1>3, Group
<1> DEFINE T == {parts[m][k] : m \in 1 .. n, k \in Nat}
<1>5. \A m \in 1 .. Len(parts) : parts[m] \in Seq(T)
  <2> SUFFICES ASSUME NEW m \in 1 .. n PROVE parts[m] \in Seq(T)
    BY <1>3
  <2>1. PICK part : part = parts[m]
    OBVIOUS
  <2>2. PICK present : IsGroup(readers, libs, benchmarks[m], part, present)
    BY <1>4, <2>1
  <2>3. Len(present) \in Nat /\ part = [i \in 1 .. Len(present) |-> part[i]]
    BY <2>2 DEF IsGroup
  <2>4. \A i \in 1 .. Len(present) : part[i] \in T
    BY <2>1
  <2> HIDE DEF T
  <2> QED
    BY <2>1, <2>3, <2>4
<1> HIDE DEF T
<1>6. Len(parts) > 0 /\ cells = FlattenSeq(parts)
  BY <1>1, <1>2, <1>3 DEF Cells
<1>7. cells \in Seq(T) /\ \E start : Places(parts, cells, start)
  BY <1>5, <1>6, Flattened
<1>8. PICK start : Places(parts, cells, start)
  BY <1>7
<1>9. Len(cells) \in Nat /\ DOMAIN cells = 1 .. Len(cells)
  BY <1>7
<1>10. \A m \in 1 .. n : start[m] \in Nat /\ Len(parts[m]) \in Nat
  <2>1. \A m \in 1 .. n : m \in 1 .. n + 1
    BY <1>2
  <2>2. start \in [1 .. n + 1 -> Nat]
    BY <1>3, <1>8 DEF Places, Starts
  <2>3. \A m \in 1 .. n : parts[m] \in Seq(T)
    BY <1>3, <1>5
  <2> QED
    BY <2>1, <2>2, <2>3
<1>11. ASSUME NEW m \in 1 .. n, NEW k \in 1 .. Len(parts[m])
       PROVE  start[m] + k \in 1 .. Len(cells) /\ cells[start[m] + k] = parts[m][k]
  BY <1>3, <1>8 DEF Places
<1>12. ASSUME NEW i \in 1 .. Len(cells)
       PROVE  \E m \in 1 .. n : \E k \in 1 .. Len(parts[m]) : i = start[m] + k
  BY <1>3, <1>8 DEF Places
<1>13. ASSUME NEW i \in 1 .. Len(cells)
       PROVE  /\ IsCell(readers, libs, benchmarks, cells[i])
              /\ \E j \in 1 .. Len(cells) : cells[j].bench = cells[i].bench /\ cells[j].lib = cells[i].last
              /\ libs[1] \in WithRows(readers, libs, cells[i].bench) =>
                   \E q \in 1 .. i : /\ cells[q].lib = libs[1]
                                     /\ \A r \in q .. i : cells[r].bench = cells[i].bench
  <2>1. PICK m \in 1 .. n : \E k \in 1 .. Len(parts[m]) : i = start[m] + k
    BY <1>12
  <2>2. PICK k \in 1 .. Len(parts[m]) : i = start[m] + k
    BY <2>1
  <2>3. PICK part, len, s : part = parts[m] /\ len = Len(part) /\ s = start[m]
    OBVIOUS
  <2>4. PICK present : IsGroup(readers, libs, benchmarks[m], part, present)
    BY <1>4, <2>3
  <2>5. \A l \in 1 .. len : s + l \in 1 .. Len(cells) /\ cells[s + l] = part[l]
    BY <1>11, <2>3
  <2>6. PICK bench : bench = benchmarks[m]
    OBVIOUS
  <2>11. bench \in ToSet(benchmarks)
    BY <1>2, <2>6 DEF ToSet
  <2>12. \A l \in 1 .. Len(part) : IsGroupCell(readers, libs, benchmarks, bench, part, present, l)
    BY <2>4, <2>6, <2>11, GroupCell
  <2>7. \A l \in 1 .. len :
          /\ IsCell(readers, libs, benchmarks, part[l]) /\ part[l].bench = benchmarks[m]
          /\ part[l].lib = present[l] /\ part[l].last = present[Len(present)]
          /\ Len(present) \in 1 .. len /\ Len(present) = len
    BY <2>3, <2>6, <2>12 DEF IsGroupCell
  <2>8. s \in Nat /\ len \in Nat /\ k \in 1 .. len /\ i = s + k /\ cells[i] = part[k]
    BY <1>10, <2>2, <2>3, <2>5
  <2>9. \E j \in 1 .. Len(cells) : cells[j].bench = cells[i].bench /\ cells[j].lib = cells[i].last
    <3>1. len \in 1 .. len /\ len = Len(present)
      BY <2>7, <2>8
    <3>2. s + len \in 1 .. Len(cells) /\ cells[s + len] = part[len]
      BY <2>5, <3>1
    <3>3. part[len].bench = part[k].bench /\ part[len].lib = part[k].last
      BY <2>7, <2>8, <3>1
    <3> QED
      BY <2>8, <3>2, <3>3
  <2>10. ASSUME libs[1] \in WithRows(readers, libs, cells[i].bench)
         PROVE  \E q \in 1 .. i : /\ cells[q].lib = libs[1]
                                  /\ \A r \in q .. i : cells[r].bench = cells[i].bench
    <3>1. cells[i].bench = benchmarks[m]
      BY <2>7, <2>8
    <3>2. Len(libs) > 0
      <4>1. ToSet(libs) # {}
        BY <2>10 DEF WithRows
      <4> QED
        BY <4>1 DEF ToSet
    <3>3. present[1] = libs[1]
      BY <2>4, <2>10, <3>1, <3>2 DEF IsGroup
    <3>4. 1 \in 1 .. len /\ s + 1 \in 1 .. i /\ cells[s + 1] = part[1]
      <4>1. 1 \in 1 .. len /\ s + 1 \in 1 .. i
        BY <2>8
      <4> QED
        BY <2>5, <4>1
    <3>5. cells[s + 1].lib = libs[1]
      BY <2>7, <3>3, <3>4
    <3>6. ASSUME NEW r \in s + 1 .. i PROVE cells[r].bench = cells[i].bench
      <4>1. r - s \in 1 .. len /\ s + (r - s) = r
        BY <2>8
      <4>2. cells[r] = part[r - s]
        BY <2>5, <4>1
      <4> QED
        BY <2>7, <3>1, <4>1, <4>2
    <3> QED
      BY <3>4, <3>5, <3>6
  <2> QED
    BY <2>7, <2>8, <2>9, <2>10
<1>14. ASSUME NEW m \in 1 .. n, NEW lib \in WithRows(readers, libs, benchmarks[m])
       PROVE  \E i \in 1 .. Len(cells) : cells[i].bench = benchmarks[m] /\ cells[i].lib = lib
  <2>1. PICK part : part = parts[m]
    OBVIOUS
  <2>2. PICK present : IsGroup(readers, libs, benchmarks[m], part, present)
    BY <1>4, <2>1
  <2>3. PICK j \in 1 .. Len(present) : present[j] = lib
    BY <2>2 DEF IsGroup
  <2>4. j \in 1 .. Len(part)
    BY <2>2, <2>3 DEF IsGroup
  <2>5. PICK bench : bench = benchmarks[m]
    OBVIOUS
  <2>8. bench \in ToSet(benchmarks)
    BY <1>2, <2>5 DEF ToSet
  <2>9. IsGroupCell(readers, libs, benchmarks, bench, part, present, j)
    BY <2>2, <2>4, <2>5, <2>8, GroupCell
  <2>6. part[j].bench = benchmarks[m] /\ part[j].lib = present[j]
    BY <2>5, <2>9 DEF IsGroupCell
  <2>7. start[m] + j \in 1 .. Len(cells) /\ cells[start[m] + j] = part[j]
    BY <1>11, <2>1, <2>4
  <2> QED
    BY <2>3, <2>6, <2>7
<1> QED
  BY <1>1, <1>9, <1>13, <1>14 DEF LaidOut

-----------------------------------------------------------------------------
(* The invariant of the figures *)

\* What a result has of the blocks; what pmembench prints ends somewhere.
FileSet(n) ==
  {file \in [DOMAIN figure.blocks -> BlockSet] :
     \A b \in DOMAIN figure.blocks :
       /\ file[b].n <= n
       /\ figure.suite = "pmembench" => \E k \in 0 .. Rows : file[b].rows = 1 .. k}

\* Where the scripts are, and how much may still go wrong.
Counters ==
  /\ step \in {"idle", "run", "rotate", "copy", "generate", "draw", "clean"}
  /\ step \in {"idle", "generate", "clean"} => pos = 1
  /\ step = "run" => pos \in 1 .. Len(Pieces)
  /\ step = "draw" => pos \in 1 .. Len(figure.plots)
  /\ trouble \in 0 .. MaxTrouble /\ executions \in Nat
  /\ executions = 0 \/ executions + trouble <= MaxTrouble + 1
  /\ step # "idle" => executions > 0

\* The results are of executions that have begun.
ResultsExist ==
  /\ results = [lib \in Libs |-> results[lib]]
  /\ \A lib \in Libs : results[lib] = NoFile \/ results[lib] \in FileSet(executions)
  /\ figure.suite = "pmemkv" => \A lib \in Libs : results[lib] # NoFile
  /\ \A lib \in Libs : current[lib] = NoFile \/ current[lib] \in FileSet(executions)

LogsBounded ==
  /\ \A lib \in Libs : Len(log[lib]) <= MaxImports
  /\ step \in {"rotate", "copy"} =>
       \A q \in pos .. Len(figure.libs) : Len(log[figure.libs[q]]) < MaxImports

\* A result that is there has been imported, or will be.
Imported(lib) == results[lib] # NoFile => current[lib] = results[lib]
ImportsDone ==
  /\ step \in {"rotate", "copy"} => \A q \in 1 .. pos - 1 : Imported(figure.libs[q])
  /\ step \in {"generate", "draw", "clean"} => \A lib \in Libs : Imported(lib)

DiesFor(plot) ==
  \/ ~CanAnalyse
  \/ plot.slowdown /\ SlowdownDies(PlotCells, plot.legend)
  \/ ~plot.slowdown /\ AbsoluteDies(PlotCells, plot.legend)
BarsFor(plot) == IF plot.slowdown THEN SlowdownBars(PlotCells) ELSE AbsoluteBars(PlotCells)

\* What is saved is drawn from what is imported.
PlotsDrawn ==
  /\ step \in {"draw", "clean"} =>
       /\ parsed = Parsed /\ ~ParseDies
       /\ \E k \in 0 .. Len(figure.plots) :
            /\ k = IF step = "draw" THEN pos - 1 ELSE Len(figure.plots)
            /\ saved = [i \in 1 .. k |-> saved[i]]
            /\ \A i \in 1 .. k : ~DiesFor(figure.plots[i]) /\ saved[i] = BarsFor(figure.plots[i])
  /\ step \notin {"draw", "clean"} => saved = <<>>

PlotInv == IInv /\ Counters /\ ResultsExist /\ LogsBounded /\ ImportsDone /\ PlotsDrawn

-----------------------------------------------------------------------------
(* The pieces of an execution *)

LEMMA FourthChosen ==
  ASSUME NEW T, NEW s, NEW S, s \in Seq(T), Len(s) = 4, s[4] \in S
  PROVE  Len(Chosen(s, S)) > 0
<1>1. 4 \in 1 .. Len(s)
  OBVIOUS
<1>2. \E j \in 1 .. Len(Chosen(s, S)) : Chosen(s, S)[j] = s[4]
  BY <1>1, ChosenCovers
<1>3. Chosen(s, S) \in Seq(T \cap S)
  BY ChosenElements
<1> QED
  BY <1>2, <1>3

LEMMA PiecesFacts ==
  ASSUME figure \in Figures
  PROVE  /\ Len(Pieces) \in Nat /\ Len(Pieces) > 0
         /\ figure.suite = "pmembench" =>
              \A p \in 1 .. Len(Pieces) : Pieces[p].blocks = DOMAIN figure.blocks
<1>1. CASE figure.suite = "pmemkv"
  <2> DEFINE T == {Piece(lib, S) : lib \in {"pmdk", "asan", "safepm"}, S \in SUBSET (DOMAIN figure.blocks)}
  <2>1. \A lib \in {"pmdk", "asan", "safepm"} : run_all(lib) \in Seq(T) /\ Len(run_all(lib)) = 6
    <3> SUFFICES ASSUME NEW lib \in {"pmdk", "asan", "safepm"}
                 PROVE  run_all(lib) \in Seq(T) /\ Len(run_all(lib)) = 6
      OBVIOUS
    <3>1. PICK sections : sections = <<"read_seq", "read_random", "randomreadwrite50", "randomreadwrite95",
                                       "delete_seq", "delete_random">>
      OBVIOUS
    <3>2. DOMAIN sections = 1 .. 6
      BY <3>1
    <3> DEFINE at(i) == Piece(lib, {b \in DOMAIN figure.blocks : figure.blocks[b] = sections[i]})
    <3>3. run_all(lib) = [i \in 1 .. 6 |-> at(i)]
      BY <3>1, <3>2 DEF run_all
    <3>4. ASSUME NEW i \in 1 .. 6 PROVE at(i) \in T
      <4>1. PICK S : S = {b \in DOMAIN figure.blocks : figure.blocks[b] = sections[i]}
        OBVIOUS
      <4>2. S \in SUBSET (DOMAIN figure.blocks) /\ at(i) = Piece(lib, S)
        BY <4>1
      <4> HIDE DEF at
      <4> QED
        BY <4>2
    <3> HIDE DEF T, at
    <3>5. [i \in 1 .. 6 |-> at(i)] \in Seq(T) /\ Len([i \in 1 .. 6 |-> at(i)]) = 6
      BY <3>4
    <3> QED
      BY <3>3, <3>5
  <2> HIDE DEF T
  <2>2. PICK a, b, c : a = run_all("pmdk") /\ b = run_all("asan") /\ c = run_all("safepm")
    OBVIOUS
  <2>3. a \in Seq(T) /\ b \in Seq(T) /\ c \in Seq(T) /\ Len(a) = 6 /\ Len(b) = 6 /\ Len(c) = 6
    BY <2>1, <2>2
  <2>4. PICK ab, abc : ab = a \o b /\ abc = ab \o c
    OBVIOUS
  <2>5. ab \in Seq(T) /\ Len(ab) = 12
    <3>1. PICK U : U = T
      OBVIOUS
    <3>2. a \in Seq(U) /\ b \in Seq(U)
      BY <2>3, <3>1
    <3>3. ab \in Seq(U) /\ Len(ab) = Len(a) + Len(b)
      BY <2>4, <3>2
    <3> QED
      BY <2>3, <3>1, <3>3
  <2>6. Len(abc) = 18
    <3>1. PICK U : U = T
      OBVIOUS
    <3>2. ab \in Seq(U) /\ c \in Seq(U)
      BY <2>3, <2>5, <3>1
    <3> QED
      BY <2>3, <2>4, <2>5, <3>2
  <2>7. Pieces = abc
    BY <1>1, <2>2, <2>4 DEF Pieces, run_variants
  <2>8. Len(Pieces) = 18
    BY <2>6, <2>7
  <2>9. figure.suite # "pmembench"
    BY <1>1
  <2> QED
    BY <2>8, <2>9
<1>2. CASE figure.suite # "pmemkv"
  <2>1. PICK s, S, order :
          s = <<"safepm", "wrappers_only", "asan", "pmdk">> /\ S = Libs /\ order = Chosen(s, S)
    OBVIOUS
  <2>0. PICK T : T = {"safepm", "wrappers_only", "asan", "pmdk"}
    OBVIOUS
  <2>2. s \in Seq(T) /\ Len(s) = 4 /\ s[4] = "pmdk"
    BY <2>0, <2>1
  <2>3. order \in Seq(T \cap S)
    BY <2>1, <2>2, ChosenElements
  <2>4. Len(order) > 0
    <3>1. s[4] \in S
      BY <2>1, <2>2, FigureFacts
    <3> QED
      BY <2>1, <2>2, <3>1, FourthChosen
  <2>5. Pieces = [i \in DOMAIN order |-> Piece(order[i], DOMAIN figure.blocks)]
    BY <1>2, <2>1 DEF Pieces, inner_run
  <2>6. PICK n, pieces : n = Len(order) /\ pieces = Pieces
    OBVIOUS
  <2>7. n \in Nat /\ n > 0 /\ pieces = [i \in 1 .. n |-> Piece(order[i], DOMAIN figure.blocks)]
    BY <2>3, <2>4, <2>5, <2>6
  <2>8. \A i \in 1 .. n : pieces[i] = Piece(order[i], DOMAIN figure.blocks)
    BY <2>7
  <2>9. pieces = [i \in 1 .. n |-> pieces[i]]
    BY <2>7
  <2>10. Len(pieces) = n
    BY <2>7, <2>9
  <2>11. \A i \in 1 .. n : pieces[i].blocks = DOMAIN figure.blocks
    <3> SUFFICES ASSUME NEW i \in 1 .. n PROVE pieces[i].blocks = DOMAIN figure.blocks
      OBVIOUS
    <3>1. PICK piece, bs : piece = pieces[i] /\ bs = DOMAIN figure.blocks
      OBVIOUS
    <3>2. piece = [lib |-> order[i], blocks |-> bs]
      BY <2>8, <3>1 DEF Piece
    <3> QED
      BY <3>1, <3>2
  <2> QED
    BY <2>6, <2>7, <2>10, <2>11
<1> QED
  BY <1>1, <1>2

-----------------------------------------------------------------------------
(* Every step keeps the counters and the results *)

LEMMA NextLibrarySteps ==
  ASSUME IInv, step \in {"rotate", "copy"}, NextLib
  PROVE  \/ step' = "rotate" /\ pos' = pos + 1 /\ pos < Len(figure.libs)
         \/ step' = "generate" /\ pos' = 1 /\ pos = Len(figure.libs)
<1>1. pos \in 1 .. Len(figure.libs) /\ Len(figure.libs) \in Nat
  BY Libraries DEF IInv
<1> QED
  BY <1>1 DEF NextLib

LEMMA CountersStep == IInv /\ Counters /\ [Next]_vars => Counters'
<1> SUFFICES ASSUME IInv, Counters, [Next]_vars PROVE Counters'
  OBVIOUS
<1>1. figure \in Figures /\ MaxTrouble \in Nat
  BY BoundsAssumption DEF IInv
<1>2. figure' = figure
  BY DEF Next, vars, StartExecution, RunPiece, StopExecution, Start, SkipMissing, Rotate, Copy, Parse, Draw,
         Clean, Stopped
<1>3. PICK n, m : n = Len(Pieces) /\ m = Len(figure.plots)
  OBVIOUS
<1>4. n \in Nat /\ n > 0 /\ m \in Nat /\ m > 0 /\ Len(Pieces)' = n /\ Len(figure.plots)' = m
  <2>1. Pieces' = Pieces
    BY <1>2 DEF Pieces, inner_run, run_variants, run_all, Libs
  <2> QED
    BY <1>1, <1>2, <1>3, <2>1, PiecesFacts, FigureFacts
<1>5. /\ step \in {"idle", "run", "rotate", "copy", "generate", "draw", "clean"}
      /\ step \in {"idle", "generate", "clean"} => pos = 1
      /\ step = "run" => pos \in 1 .. n
      /\ step = "draw" => pos \in 1 .. m
      /\ trouble \in 0 .. MaxTrouble /\ executions \in Nat
      /\ executions = 0 \/ executions + trouble <= MaxTrouble + 1
      /\ step # "idle" => executions > 0
  BY <1>3 DEF Counters
<1> DEFINE Goal ==
      /\ step' \in {"idle", "run", "rotate", "copy", "generate", "draw", "clean"}
      /\ step' \in {"idle", "generate", "clean"} => pos' = 1
      /\ step' = "run" => pos' \in 1 .. n
      /\ step' = "draw" => pos' \in 1 .. m
      /\ trouble' \in 0 .. MaxTrouble /\ executions' \in Nat
      /\ executions' = 0 \/ executions' + trouble' <= MaxTrouble + 1
      /\ step' # "idle" => executions' > 0
<1>6. SUFFICES Goal
  BY <1>4 DEF Counters
<1>7. CASE StartExecution
  <2>1. /\ step' = "run" /\ pos' = 1 /\ executions' = executions + 1
        /\ \/ executions = 0 /\ trouble' = trouble
           \/ executions # 0 /\ trouble > 0 /\ trouble' = trouble - 1
    BY <1>7 DEF StartExecution
  <2> QED
    BY <1>1, <1>4, <1>5, <2>1
<1>8. CASE RunPiece
  <2>1. /\ step = "run" /\ executions' = executions
        /\ \/ trouble' = trouble
           \/ trouble > 0 /\ trouble' = trouble - 1
        /\ \/ pos < n /\ pos' = pos + 1 /\ step' = step
           \/ pos' = 1 /\ step' = "idle"
    BY <1>3, <1>8 DEF RunPiece
  <2> QED
    BY <1>1, <1>4, <1>5, <2>1
<1>9. CASE StopExecution
  <2>1. step' = "idle" /\ pos' = 1 /\ executions' = executions /\ trouble > 0 /\ trouble' = trouble - 1
    BY <1>9 DEF StopExecution
  <2> QED
    BY <1>1, <1>4, <1>5, <2>1
<1>10. CASE Start
  <2>1. step' = "rotate" /\ executions' = executions /\ trouble' = trouble /\ executions > 0
    BY <1>10 DEF Start
  <2> QED
    BY <1>5, <2>1
<1>11. CASE SkipMissing \/ Copy
  <2>1. /\ executions' = executions /\ trouble' = trouble /\ step # "idle"
        /\ \/ step' = "rotate"
           \/ step' = "generate" /\ pos' = 1
    <3>1. NextLib /\ step \in {"rotate", "copy"} /\ executions' = executions /\ trouble' = trouble
      BY <1>11 DEF SkipMissing, Copy
    <3> QED
      BY <3>1, NextLibrarySteps
  <2> QED
    BY <1>5, <2>1
<1>12. CASE Rotate
  <2>1. step # "idle" /\ step' = "copy" /\ executions' = executions /\ trouble' = trouble
    BY <1>12 DEF Rotate
  <2> QED
    BY <1>5, <2>1
<1>13. CASE Parse
  <2>1. /\ step = "generate" /\ executions' = executions /\ trouble' = trouble
        /\ \/ step' = "idle" /\ pos' = 1
           \/ step' = "draw" /\ pos' = pos
    BY <1>13 DEF Parse, Ended
  <2> QED
    BY <1>4, <1>5, <2>1
<1>14. CASE Draw
  <2>1. /\ step = "draw" /\ executions' = executions /\ trouble' = trouble
        /\ \/ step' = "idle" /\ pos' = 1
           \/ pos < m /\ pos' = pos + 1 /\ step' = step
           \/ pos' = 1 /\ step' = "clean"
    BY <1>3, <1>14 DEF Draw, Ended
  <2> QED
    BY <1>4, <1>5, <2>1
<1>15. CASE Clean \/ Stopped
  <2>1. step' = "idle" /\ pos' = 1 /\ executions' = executions /\ trouble' = trouble
    BY <1>15 DEF Clean, Stopped, Ended
  <2> QED
    BY <1>5, <2>1
<1>16. CASE UNCHANGED vars
  <2>1. step' = step /\ pos' = pos /\ executions' = executions /\ trouble' = trouble
    BY <1>16 DEF vars
  <2> QED
    BY <1>5, <2>1
<1> QED
  BY <1>7, <1>8, <1>9, <1>10, <1>11, <1>12, <1>13, <1>14, <1>15, <1>16 DEF Next

-----------------------------------------------------------------------------

\* What a piece of an execution may write.
BlocksOf(piece, blocks) ==
  \A b \in DOMAIN figure.blocks : b \in piece.blocks =>
    /\ blocks[b] \in BlockSet /\ blocks[b].n <= executions
    /\ figure.suite = "pmembench" => \E k \in 0 .. Rows : blocks[b].rows = 1 .. k

IsBlock(block) ==
  /\ block \in BlockSet /\ block.n = executions
  /\ figure.suite = "pmembench" => \E k \in 0 .. Rows : block.rows = 1 .. k

LEMMA NewBlocks ==
  ASSUME executions \in Nat
  PROVE  /\ IsBlock(Complete(executions)) /\ IsBlock(Block(executions, 0, {})) /\ IsBlock(Block(executions, 1, {}))
         /\ \A k \in 0 .. Rows - 1 : IsBlock(Block(executions, 2, 1 .. k))
         /\ figure.suite = "pmemkv" => \A xs \in SUBSET (1 .. Rows) : IsBlock(Block(executions, 2, xs))
<1>1. Rows \in Nat
  BY BoundsAssumption
<1>2. PICK B : B = [n : Nat, head : 0 .. 2, rows : SUBSET (1 .. Rows)]
  OBVIOUS
<1>3. ASSUME NEW head \in 0 .. 2, NEW xs \in SUBSET (1 .. Rows), head < 2 => xs = {}
      PROVE  /\ Block(executions, head, xs) \in BlockSet /\ Block(executions, head, xs).n = executions
             /\ Block(executions, head, xs).rows = xs
  <2>1. PICK block : block = Block(executions, head, xs)
    OBVIOUS
  <2>2. block = [n |-> executions, head |-> head, rows |-> xs]
    BY <2>1 DEF Block
  <2>3. block \in [n : Nat, head : 0 .. 2, rows : SUBSET (1 .. Rows)] /\ block.head = head /\ block.rows = xs
        /\ block.n = executions
    BY <2>2
  <2>4. block \in BlockSet
    BY <1>3, <2>3 DEF BlockSet
  <2> QED
    BY <2>1, <2>3, <2>4
<1>4. ASSUME NEW k \in 0 .. Rows PROVE 1 .. k \in SUBSET (1 .. Rows)
  BY <1>1
<1>5. 1 .. 0 = {} /\ 0 \in 0 .. Rows /\ Rows \in 0 .. Rows /\ {} \in SUBSET (1 .. Rows)
  BY <1>1
<1>6. ASSUME NEW k \in 0 .. Rows PROVE IsBlock(Block(executions, 2, 1 .. k))
  <2>1. 1 .. k \in SUBSET (1 .. Rows)
    BY <1>4
  <2> QED
    BY <1>3, <2>1 DEF IsBlock
<1>7. ASSUME NEW head \in 0 .. 1 PROVE IsBlock(Block(executions, head, {}))
  <2>1. \E k \in 0 .. Rows : {} = 1 .. k
    BY <1>5
  <2>2. head \in 0 .. 2
    OBVIOUS
  <2> QED
    BY <1>3, <1>5, <2>1, <2>2 DEF IsBlock
<1>8. IsBlock(Complete(executions))
  BY <1>5, <1>6 DEF Complete
<1>9. \A k \in 0 .. Rows - 1 : IsBlock(Block(executions, 2, 1 .. k))
  <2>1. \A k \in 0 .. Rows - 1 : k \in 0 .. Rows
    BY <1>1
  <2> QED
    BY <1>6, <2>1
<1>10. ASSUME figure.suite = "pmemkv", NEW xs \in SUBSET (1 .. Rows)
       PROVE  IsBlock(Block(executions, 2, xs))
  <2>1. figure.suite # "pmembench"
    BY <1>10
  <2> QED
    BY <1>3, <2>1 DEF IsBlock
<1> QED
  BY <1>7, <1>8, <1>9, <1>10

LEMMA DamagedBlocks ==
  ASSUME figure \in Figures, executions \in Nat, NEW piece, NEW blocks, blocks \in Damaged(piece)
  PROVE  BlocksOf(piece, blocks)
<1>1. Rows \in Nat
  BY BoundsAssumption
<1>2. SUFFICES ASSUME NEW b \in DOMAIN figure.blocks, b \in piece.blocks PROVE IsBlock(blocks[b])
  BY DEF BlocksOf, IsBlock
<1>3. CASE figure.suite = "pmemkv"
  <2>1. PICK block \in ShiftedBlocks(executions) : blocks = [c \in piece.blocks |-> block]
    BY <1>3 DEF Damaged
  <2>2. blocks[b] = block
    BY <1>2, <2>1
  <2>3. IsBlock(block)
    <3>1. CASE block = Block(executions, 1, {})
      BY <3>1, NewBlocks
    <3>2. CASE \E xs \in SUBSET (1 .. Rows) \ {{}, 1 .. Rows} : block = Block(executions, 2, xs)
      BY <1>3, <3>2, NewBlocks
    <3> QED
      BY <2>1, <3>1, <3>2 DEF ShiftedBlocks
  <2> QED
    BY <2>2, <2>3
<1>4. CASE figure.suite # "pmemkv"
  <2> DEFINE Stubs == {Block(executions, 0, {}), Block(executions, 1, {})}
                      \cup {Block(executions, 2, 1 .. k) : k \in 0 .. Rows - 1}
  <2> DEFINE cut(last, block) ==
               [c \in DOMAIN figure.blocks |->
                  IF c < last THEN Complete(executions) ELSE IF c = last THEN block
                  ELSE Block(executions, 0, {})]
  <2>1. blocks \in CutFiles(executions)
    BY <1>4 DEF Damaged
  <2>5. CutFiles(executions) = {cut(last, block) : last \in DOMAIN figure.blocks, block \in Stubs}
    BY DEF CutFiles
  <2>2. PICK last \in DOMAIN figure.blocks, block \in Stubs : blocks = cut(last, block)
    <3> HIDE DEF cut, Stubs
    <3> QED
      BY <2>1, <2>5
  <2>3. IsBlock(block)
    <3>1. CASE block \in {Block(executions, 0, {}), Block(executions, 1, {})}
      BY <3>1, NewBlocks
    <3>2. CASE \E k \in 0 .. Rows - 1 : block = Block(executions, 2, 1 .. k)
      BY <3>2, NewBlocks
    <3> QED
      BY <3>1, <3>2
  <2>4. blocks[b] = Complete(executions) \/ blocks[b] = block \/ blocks[b] = Block(executions, 0, {})
    BY <2>2
  <2> HIDE DEF Stubs
  <2> QED
    BY <2>3, <2>4, NewBlocks
<1> QED
  BY <1>3, <1>4

LEMMA WrittenResults ==
  ASSUME figure \in Figures, executions \in Nat, ResultsExist, NEW piece, NEW blocks, BlocksOf(piece, blocks),
         figure.suite = "pmembench" => piece.blocks = DOMAIN figure.blocks,
         NEW r, r = Written(piece, blocks)
  PROVE  /\ r = [lib \in Libs |-> r[lib]]
         /\ \A lib \in Libs : r[lib] = NoFile \/ r[lib] \in FileSet(executions)
         /\ figure.suite = "pmemkv" => \A lib \in Libs : r[lib] # NoFile
<1> DEFINE old == results[piece.lib]
           file == [b \in DOMAIN figure.blocks |-> IF b \in piece.blocks THEN blocks[b] ELSE old[b]]
<1>1. r = [results EXCEPT ![piece.lib] = file]
  BY DEF Written
<1>2. /\ results = [lib \in Libs |-> results[lib]]
      /\ \A lib \in Libs : results[lib] = NoFile \/ results[lib] \in FileSet(executions)
      /\ (figure.suite = "pmemkv" => \A lib \in Libs : results[lib] # NoFile)
  BY DEF ResultsExist
<1>3. piece.lib \in Libs => file \in FileSet(executions) /\ file # NoFile
  <2> SUFFICES ASSUME piece.lib \in Libs PROVE file \in FileSet(executions) /\ file # NoFile
    OBVIOUS
  <2>1. DOMAIN file # {}
    <3>1. 1 \in DOMAIN figure.blocks
      BY FigureFacts
    <3> QED
      BY <3>1
  <2>2. file # NoFile
    <3> HIDE DEF file
    <3>1. DOMAIN NoFile = {}
      BY DEF NoFile
    <3> QED
      BY <2>1, <3>1
  <2>3. ASSUME NEW b \in DOMAIN figure.blocks
        PROVE  /\ file[b] \in BlockSet /\ file[b].n <= executions
               /\ figure.suite = "pmembench" => \E k \in 0 .. Rows : file[b].rows = 1 .. k
    <3>1. CASE b \in piece.blocks
      <4>1. file[b] = blocks[b]
        BY <3>1
      <4> HIDE DEF file
      <4> QED
        BY <3>1, <4>1 DEF BlocksOf
    <3>2. CASE b \notin piece.blocks
      <4>1. figure.suite # "pmembench"
        BY <3>2
      <4>2. figure.suite = "pmemkv"
        BY <4>1, FigureFacts
      <4>3. old \in FileSet(executions)
        BY <1>2, <4>2
      <4>4. file[b] = old[b]
        BY <3>2
      <4> HIDE DEF file, old
      <4> QED
        BY <4>1, <4>3, <4>4 DEF FileSet
    <3> QED
      BY <3>1, <3>2
  <2>4. file = [b \in DOMAIN figure.blocks |-> file[b]]
    OBVIOUS
  <2> HIDE DEF file
  <2>5. file \in [DOMAIN figure.blocks -> BlockSet]
    BY <2>3, <2>4
  <2> QED
    BY <2>2, <2>3, <2>5 DEF FileSet
<1> HIDE DEF file
<1>4. r = [lib \in Libs |-> IF lib = piece.lib THEN file ELSE results[lib]]
  BY <1>1, <1>2
<1>5. r = [lib \in Libs |-> r[lib]] /\ \A lib \in Libs : r[lib] = IF lib = piece.lib THEN file ELSE results[lib]
  BY <1>4
<1> QED
  BY <1>2, <1>3, <1>5

LEMMA FigureStays == [Next]_vars => figure' = figure /\ Libs' = Libs
<1> SUFFICES ASSUME [Next]_vars PROVE figure' = figure
  BY DEF Libs
<1> QED
  BY DEF Next, vars, StartExecution, RunPiece, StopExecution, Start, SkipMissing, Rotate, Copy, Parse, Draw,
         Clean, Stopped

LEMMA FilesExist ==
  ASSUME figure \in Figures, executions \in Nat, executions' \in Nat, executions <= executions',
         figure' = figure, NEW file, file = NoFile \/ file \in FileSet(executions)
  PROVE  file = NoFile \/ file \in FileSet(executions)'
<1>1. \A b \in DOMAIN figure.blocks : file \in FileSet(executions) => file[b].n \in Nat
  BY DEF FileSet, BlockSet
<1> QED
  BY <1>1 DEF FileSet

\* The results a benchmark leaves behind, whatever becomes of it.
LEMMA ExecutionResults ==
  ASSUME figure \in Figures, Counters, ResultsExist, RunPiece \/ StopExecution
  PROVE  /\ results' = [lib \in Libs |-> results'[lib]]
         /\ \A lib \in Libs : results'[lib] = NoFile \/ results'[lib] \in FileSet(executions)
         /\ figure.suite = "pmemkv" => \A lib \in Libs : results'[lib] # NoFile
<1>1. executions \in Nat /\ pos \in 1 .. Len(Pieces)
  BY DEF Counters, RunPiece, StopExecution
<1>2. figure.suite = "pmembench" => Pieces[pos].blocks = DOMAIN figure.blocks
  BY <1>1, PiecesFacts
<1>3. \/ results' = results
      \/ results' = Written(Pieces[pos], [b \in Pieces[pos].blocks |-> Complete(executions)])
      \/ \E blocks \in Damaged(Pieces[pos]) : results' = Written(Pieces[pos], blocks)
  BY DEF RunPiece, StopExecution
<1>4. CASE results' = results
  BY <1>4 DEF ResultsExist
<1>5. CASE results' = Written(Pieces[pos], [b \in Pieces[pos].blocks |-> Complete(executions)])
  <2>1. PICK piece, blocks : piece = Pieces[pos] /\ blocks = [b \in Pieces[pos].blocks |-> Complete(executions)]
    OBVIOUS
  <2>2. PICK complete : complete = Complete(executions)
    OBVIOUS
  <2>3. blocks = [b \in piece.blocks |-> complete]
    BY <2>1, <2>2
  <2>4. IsBlock(complete)
    BY <1>1, <2>2, NewBlocks
  <2>5. BlocksOf(piece, blocks)
    BY <1>1, <2>3, <2>4 DEF BlocksOf, IsBlock
  <2>6. PICK r : r = results'
    OBVIOUS
  <2>7. r = Written(piece, blocks)
    BY <1>5, <2>1, <2>6
  <2>8. figure.suite = "pmembench" => piece.blocks = DOMAIN figure.blocks
    BY <1>2, <2>1
  <2>9. /\ r = [lib \in Libs |-> r[lib]]
        /\ \A lib \in Libs : r[lib] = NoFile \/ r[lib] \in FileSet(executions)
        /\ figure.suite = "pmemkv" => \A lib \in Libs : r[lib] # NoFile
    BY <1>1, <2>5, <2>7, <2>8, WrittenResults
  <2> QED
    BY <2>6, <2>9
<1>6. CASE \E blocks \in Damaged(Pieces[pos]) : results' = Written(Pieces[pos], blocks)
  <2>1. PICK blocks \in Damaged(Pieces[pos]) : results' = Written(Pieces[pos], blocks)
    BY <1>6
  <2>2. PICK piece, bs, r : piece = Pieces[pos] /\ bs = blocks /\ r = results'
    OBVIOUS
  <2>3. bs \in Damaged(piece) /\ r = Written(piece, bs)
    BY <2>1, <2>2
  <2>4. BlocksOf(piece, bs)
    BY <1>1, <2>3, DamagedBlocks
  <2>5. figure.suite = "pmembench" => piece.blocks = DOMAIN figure.blocks
    BY <1>2, <2>2
  <2>6. /\ r = [lib \in Libs |-> r[lib]]
        /\ \A lib \in Libs : r[lib] = NoFile \/ r[lib] \in FileSet(executions)
        /\ figure.suite = "pmemkv" => \A lib \in Libs : r[lib] # NoFile
    BY <1>1, <2>3, <2>4, <2>5, WrittenResults
  <2> QED
    BY <2>2, <2>6
<1> QED
  BY <1>3, <1>4, <1>5, <1>6

LEMMA NoResultsExist ==
  ASSUME figure \in Figures, NEW r, r = NoResults, NEW n \in Nat
  PROVE  /\ r = [lib \in Libs |-> r[lib]]
         /\ \A lib \in Libs : r[lib] = NoFile \/ r[lib] \in FileSet(n)
         /\ figure.suite = "pmemkv" => \A lib \in Libs : r[lib] # NoFile
<1> DEFINE file == [b \in DOMAIN figure.blocks |-> Block(0, 1, {})]
<1>1. r = [lib \in Libs |-> IF figure.suite = "pmemkv" THEN file ELSE NoFile]
  BY DEF NoResults
<1>2. figure.suite = "pmemkv" => file \in FileSet(n)
  <2> SUFFICES ASSUME figure.suite = "pmemkv" PROVE file \in FileSet(n)
    OBVIOUS
  <2>1. Block(0, 1, {}) \in BlockSet /\ Block(0, 1, {}).n = 0
    <3>1. PICK block : block = [n |-> 0, head |-> 1, rows |-> {}]
      OBVIOUS
    <3>2. block \in [n : Nat, head : 0 .. 2, rows : SUBSET (1 .. Rows)] /\ block.rows = {} /\ block.n = 0
      BY <3>1
    <3>3. block \in BlockSet
      BY <3>2 DEF BlockSet
    <3> QED
      BY <3>1, <3>2, <3>3 DEF Block
  <2>2. \A b \in DOMAIN figure.blocks : file[b] \in BlockSet /\ file[b].n <= n
    BY <2>1
  <2>3. file = [b \in DOMAIN figure.blocks |-> file[b]]
    OBVIOUS
  <2>4. figure.suite # "pmembench"
    OBVIOUS
  <2> HIDE DEF file
  <2>5. file \in [DOMAIN figure.blocks -> BlockSet]
    BY <2>2, <2>3
  <2> QED
    BY <2>2, <2>4, <2>5 DEF FileSet
<1>3. file # NoFile
  <2>1. 1 \in DOMAIN file
    BY FigureFacts
  <2> HIDE DEF file
  <2>2. DOMAIN NoFile = {}
    BY DEF NoFile
  <2> QED
    BY <2>1, <2>2
<1> HIDE DEF file
<1> QED
  BY <1>1, <1>2, <1>3

LEMMA ResultsStep == IInv /\ Counters /\ ResultsExist /\ [Next]_vars => ResultsExist'
<1> SUFFICES ASSUME IInv, Counters, ResultsExist, [Next]_vars PROVE ResultsExist'
  OBVIOUS
<1>1. figure \in Figures /\ figure' = figure /\ Libs' = Libs /\ executions \in Nat
  BY FigureStays DEF IInv, Counters
<1>2. /\ results = [lib \in Libs |-> results[lib]]
      /\ \A lib \in Libs : results[lib] = NoFile \/ results[lib] \in FileSet(executions)
      /\ figure.suite = "pmemkv" => \A lib \in Libs : results[lib] # NoFile
      /\ \A lib \in Libs : current[lib] = NoFile \/ current[lib] \in FileSet(executions)
  BY DEF ResultsExist
<1>3. executions' \in Nat /\ executions <= executions'
  <2>1. StartExecution => executions' = executions + 1
    BY DEF StartExecution
  <2>2. ~StartExecution => executions' = executions
    BY DEF Next, vars, RunPiece, StopExecution, Start, SkipMissing, Rotate, Copy, Parse, Draw, Clean, Stopped
  <2> QED
    BY <1>1, <2>1, <2>2
<1>4. \A file : file = NoFile \/ file \in FileSet(executions) => file = NoFile \/ file \in FileSet(executions)'
  BY <1>1, <1>3, FilesExist
<1>5. /\ results' = [lib \in Libs |-> results'[lib]]
      /\ \A lib \in Libs : results'[lib] = NoFile \/ results'[lib] \in FileSet(executions)'
      /\ figure.suite = "pmemkv" => \A lib \in Libs : results'[lib] # NoFile
  <2>1. CASE RunPiece \/ StopExecution
    BY <1>1, <1>4, <2>1, ExecutionResults
  <2>2. CASE StartExecution
    <3>1. CASE results' = results
      BY <1>2, <1>4, <3>1
    <3>2. CASE results' = NoResults
      <4>1. PICK r : r = results'
        OBVIOUS
      <4>2. r = NoResults
        BY <3>2, <4>1
      <4>3. /\ r = [lib \in Libs |-> r[lib]]
            /\ \A lib \in Libs : r[lib] = NoFile \/ r[lib] \in FileSet(executions)
            /\ figure.suite = "pmemkv" => \A lib \in Libs : r[lib] # NoFile
        BY <1>1, <4>2, NoResultsExist
      <4> QED
        BY <1>4, <4>1, <4>3
    <3> QED
      BY <2>2, <3>1, <3>2 DEF StartExecution
  <2>3. CASE ~(RunPiece \/ StopExecution \/ StartExecution)
    <3>1. results' = results
      BY <2>3 DEF Next, vars, Start, SkipMissing, Rotate, Copy, Parse, Draw, Clean, Stopped
    <3> QED
      BY <1>2, <1>4, <3>1
  <2> QED
    BY <2>1, <2>2, <2>3
<1>6. \A lib \in Libs : current'[lib] = NoFile \/ current'[lib] \in FileSet(executions)'
  <2>0. current = [lib \in Libs |-> current[lib]] /\ Lib \in {Lib}
    BY DEF IInv
  <2>1. CASE Rotate
    <3>1. \A lib \in Libs : current'[lib] = current[lib] \/ current'[lib] = NoFile
      <4>1. current' = current \/ current' = [current EXCEPT ![Lib] = NoFile]
        BY <2>1 DEF Rotate
      <4> QED
        BY <2>0, <4>1
    <3> QED
      BY <1>2, <1>4, <3>1
  <2>2. CASE Copy
    <3>1. current' = [current EXCEPT ![Lib] = results[Lib]]
      BY <2>2 DEF Copy
    <3>2. Lib \in Libs
      BY <2>2, Libraries DEF Copy, IInv, Lib
    <3>3. \A lib \in Libs : current'[lib] = current[lib] \/ current'[lib] = results[Lib]
      BY <2>0, <3>1
    <3> QED
      BY <1>2, <1>4, <3>2, <3>3
  <2>3. CASE Clean
    BY <2>3 DEF Clean, Nothing
  <2>4. CASE ~(Rotate \/ Copy \/ Clean)
    <3>1. current' = current
      BY <2>4 DEF Next, vars, StartExecution, RunPiece, StopExecution, Start, SkipMissing, Parse, Draw, Stopped
    <3> QED
      BY <1>2, <1>4, <3>1
  <2> QED
    BY <2>1, <2>2, <2>3, <2>4
<1> QED
  BY <1>1, <1>5, <1>6 DEF ResultsExist

-----------------------------------------------------------------------------
(* Every step keeps the log within its bound *)

LEMMA LengthOf ==
  ASSUME NEW n \in Nat, NEW files, files = [i \in 1 .. n |-> files[i]]
  PROVE  Len(files) = n
<1>1. DOMAIN files = 1 .. n
  OBVIOUS
<1> QED
  BY <1>1

LEMMA LogLength ==
  ASSUME IInv, NEW lib \in Libs
  PROVE  \E n \in Nat : log[lib] = [i \in 1 .. n |-> log[lib][i]] /\ Len(log[lib]) = n
<1>1. PICK n \in Nat : archived[lib] = [i \in 1 .. n |-> archived[lib][i]]
  BY DEF IInv, Numbered
<1>2. PICK files, file, whole : files = archived[lib] /\ file = current[lib] /\ whole = log[lib]
  OBVIOUS
<1>3. files = [i \in 1 .. n |-> files[i]]
  BY <1>1, <1>2
<1>4. whole = IF file = NoFile THEN files \o <<>> ELSE files \o <<file>>
  BY <1>2 DEF log
<1>5. /\ files \o <<file>> = [i \in 1 .. n + 1 |-> IF i = n + 1 THEN file ELSE files[i]]
      /\ files \o <<>> = files
  BY <1>3, Extended
<1>6. CASE file = NoFile
  <2>1. whole = files
    BY <1>4, <1>5, <1>6
  <2>2. Len(files) = n
    BY <1>3, LengthOf
  <2>3. whole = [i \in 1 .. n |-> whole[i]] /\ Len(whole) = n
    BY <1>3, <2>1, <2>2
  <2> QED
    BY <1>2, <2>3
<1>7. CASE file # NoFile
  <2>1. whole = [i \in 1 .. n + 1 |-> IF i = n + 1 THEN file ELSE files[i]]
    BY <1>4, <1>5, <1>7
  <2>2. whole = [i \in 1 .. n + 1 |-> whole[i]] /\ n + 1 \in Nat
    BY <2>1
  <2>3. PICK m \in Nat : m = n + 1
    BY <2>2
  <2>4. whole = [i \in 1 .. m |-> whole[i]]
    BY <2>2, <2>3
  <2>5. Len(whole) = m
    BY <2>4, LengthOf
  <2> QED
    BY <1>2, <2>4, <2>5
<1> QED
  BY <1>6, <1>7

LEMMA LogAppended ==
  ASSUME IInv, Copy
  PROVE  \A lib \in Libs :
           /\ lib = Lib => Len(log'[lib]) = Len(log[lib]) + 1
           /\ lib # Lib => log'[lib] = log[lib]
<1>1. Lib \in DOMAIN log /\ log' = [log EXCEPT ![Lib] = Append(@, results[Lib])]
  BY CopyStep DEF Archive!Import
<1>2. DOMAIN log = Libs
  BY DEF log
<1>3. PICK name, file, files : name = Lib /\ file = results[Lib] /\ files = log[Lib]
  OBVIOUS
<1>4. PICK n \in Nat : files = [i \in 1 .. n |-> files[i]] /\ Len(files) = n
  BY <1>1, <1>2, <1>3, LogLength
<1>5. Append(files, file) = [i \in 1 .. n + 1 |-> IF i = n + 1 THEN file ELSE files[i]]
  BY <1>4, Extended
<1>6. PICK m, new : m = n + 1 /\ new = Append(files, file)
  OBVIOUS
<1>7. new = [i \in 1 .. m |-> new[i]] /\ m \in Nat
  BY <1>5, <1>6
<1>8. Len(new) = m
  BY <1>7, LengthOf
<1>9. log'[name] = new /\ \A lib \in Libs : lib # name => log'[lib] = log[lib]
  BY <1>1, <1>2, <1>3, <1>6
<1> QED
  BY <1>3, <1>4, <1>6, <1>8, <1>9

LEMMA LogsStep == IInv /\ Counters /\ LogsBounded /\ [Next]_vars => LogsBounded'
<1> SUFFICES ASSUME IInv, Counters, LogsBounded, [Next]_vars PROVE LogsBounded'
  OBVIOUS
<1>1. figure \in Figures /\ figure' = figure /\ Libs' = Libs /\ MaxImports \in Nat
  BY FigureStays, BoundsAssumption DEF IInv
<1>2. PICK n, libs : n = Len(figure.libs) /\ libs = figure.libs
  OBVIOUS
<1>3. /\ n \in Nat /\ n > 0 /\ \A p \in 1 .. n : libs[p] \in Libs
      /\ \A p, q \in 1 .. n : p # q => libs[p] # libs[q]
      /\ \A lib \in Libs : \E p \in 1 .. n : lib = libs[p]
  BY <1>1, <1>2, FigureFacts, Libraries
<1>4. /\ \A lib \in Libs : Len(log[lib]) <= MaxImports
      /\ step \in {"rotate", "copy"} => \A q \in pos .. n : Len(log[libs[q]]) < MaxImports
      /\ step \in {"rotate", "copy"} => pos \in 1 .. n /\ Lib = libs[pos]
  BY <1>2 DEF LogsBounded, IInv, Lib
<1>5. SUFFICES /\ \A lib \in Libs : Len(log'[lib]) <= MaxImports
               /\ step' \in {"rotate", "copy"} => \A q \in pos' .. n : Len(log'[libs[q]]) < MaxImports
  BY <1>1, <1>2 DEF LogsBounded
<1>6. \A lib \in Libs : Len(log[lib]) \in Nat
  BY LogLength
<1>7. CASE Copy
  <2>1. step = "copy" /\ NextLib
    BY <1>7 DEF Copy
  <2>2. Len(log[Lib]) < MaxImports
    BY <1>3, <1>4, <2>1
  <2>3. \A lib \in Libs : Len(log'[lib]) <= MaxImports
    <3> SUFFICES ASSUME NEW lib \in Libs PROVE Len(log'[lib]) <= MaxImports
      OBVIOUS
    <3>1. CASE lib = Lib
      <4>1. Len(log'[lib]) = Len(log[lib]) + 1 /\ Len(log[lib]) \in Nat /\ Len(log[lib]) < MaxImports
        BY <1>6, <1>7, <2>2, <3>1, LogAppended
      <4> QED
        BY <1>1, <4>1
    <3>2. CASE lib # Lib
      BY <1>4, <1>7, <3>2, LogAppended
    <3> QED
      BY <3>1, <3>2
  <2>4. ASSUME step' \in {"rotate", "copy"}, NEW q \in pos' .. n
        PROVE  Len(log'[libs[q]]) < MaxImports
    <3>1. pos' = pos + 1 /\ pos \in 1 .. n /\ Lib = libs[pos]
      BY <1>4, <2>1, <2>4, NextLibrarySteps
    <3>2. q \in pos .. n /\ q \in 1 .. n /\ q # pos
      BY <1>3, <3>1
    <3>3. libs[q] \in Libs /\ libs[q] # Lib
      BY <1>3, <3>1, <3>2
    <3> QED
      BY <1>4, <1>7, <2>1, <3>2, <3>3, LogAppended
  <2> QED
    BY <2>3, <2>4
<1>8. CASE Rotate
  <2>1. log' = log /\ pos' = pos /\ step = "rotate"
    BY <1>8, RotateStep DEF Rotate
  <2> QED
    BY <1>4, <2>1
<1>9. CASE Clean
  <2>1. \A lib \in Libs : log'[lib] = <<>>
    <3>1. /\ current' = [lib \in Libs |-> NoFile] /\ archived' = [lib \in Libs |-> <<>>]
      BY <1>9 DEF Clean, Nothing
    <3>2. <<>> \o <<>> = <<>>
      OBVIOUS
    <3> QED
      BY <1>1, <3>1, <3>2 DEF log
  <2>2. step' = "idle" /\ Len(<<>>) = 0
    BY <1>9 DEF Clean, Ended
  <2> QED
    BY <1>1, <2>1, <2>2
<1>10. CASE ~(Copy \/ Rotate \/ Clean)
  <2>1. current' = current /\ archived' = archived
    BY <1>10 DEF Next, vars, StartExecution, RunPiece, StopExecution, Start, SkipMissing, Parse, Draw, Stopped
  <2>2. log' = log
    BY <1>1, <2>1 DEF log
  <2>3. CASE Start
    <3>1. \A lib \in Libs : Len(log[lib]) < MaxImports
      BY <2>3 DEF Start
    <3>2. pos' = 1
      BY <2>3 DEF Start
    <3> QED
      BY <1>3, <1>4, <2>2, <3>1, <3>2
  <2>4. CASE SkipMissing
    <3>1. step = "rotate" /\ NextLib
      BY <2>4 DEF SkipMissing
    <3>2. CASE pos' = pos + 1
      <4>1. \A q \in pos' .. n : q \in pos .. n
        BY <1>3, <1>4, <3>1, <3>2
      <4> QED
        BY <1>4, <2>2, <3>1, <4>1
    <3>3. CASE step' = "generate"
      BY <1>4, <2>2, <3>3
    <3> QED
      BY <3>1, <3>2, <3>3, NextLibrarySteps
  <2>5. CASE ~(Start \/ SkipMissing)
    <3>1. step' \in {"idle", "run", "draw", "clean"} \/ (step' = step /\ pos' = pos)
      BY <1>10, <2>5 DEF Next, vars, StartExecution, RunPiece, StopExecution, Parse, Draw, Stopped, Ended
    <3> QED
      BY <1>4, <2>2, <3>1
  <2> QED
    BY <2>3, <2>4, <2>5
<1> QED
  BY <1>7, <1>8, <1>9, <1>10

-----------------------------------------------------------------------------

LEMMA ImportsStep == IInv /\ Counters /\ ImportsDone /\ [Next]_vars => ImportsDone'
<1> SUFFICES ASSUME IInv, Counters, ImportsDone, [Next]_vars PROVE ImportsDone'
  OBVIOUS
<1>1. figure \in Figures /\ figure' = figure /\ Libs' = Libs
  BY FigureStays DEF IInv
<1>2. PICK n, libs : n = Len(figure.libs) /\ libs = figure.libs
  OBVIOUS
<1>3. /\ n \in Nat /\ n > 0 /\ \A p \in 1 .. n : libs[p] \in Libs
      /\ \A p, q \in 1 .. n : p # q => libs[p] # libs[q]
      /\ \A lib \in Libs : \E p \in 1 .. n : lib = libs[p]
  BY <1>1, <1>2, FigureFacts, Libraries
<1>4. /\ step \in {"rotate", "copy"} => \A q \in 1 .. pos - 1 : Imported(libs[q])
      /\ step \in {"generate", "draw", "clean"} => \A lib \in Libs : Imported(lib)
      /\ step \in {"rotate", "copy"} => pos \in 1 .. n /\ Lib = libs[pos]
      /\ current = [lib \in Libs |-> current[lib]]
  BY <1>2 DEF ImportsDone, IInv, Lib
<1>5. SUFFICES /\ step' \in {"rotate", "copy"} => \A q \in 1 .. pos' - 1 : Imported(libs[q])'
               /\ step' \in {"generate", "draw", "clean"} => \A lib \in Libs : Imported(lib)'
  BY <1>1, <1>2 DEF ImportsDone
<1>6. ASSUME step \in {"rotate", "copy"}, NextLib, results' = results,
             \A q \in 1 .. pos : Imported(libs[q])'
      PROVE  /\ step' \in {"rotate", "copy"} => \A q \in 1 .. pos' - 1 : Imported(libs[q])'
             /\ step' \in {"generate", "draw", "clean"} => \A lib \in Libs : Imported(lib)'
  <2>1. pos \in 1 .. n
    BY <1>4, <1>6
  <2>2. CASE step' = "rotate" /\ pos' = pos + 1
    <3>1. pos' - 1 = pos
      BY <2>1, <2>2
    <3> QED
      BY <1>6, <2>2, <3>1
  <2>3. CASE step' = "generate" /\ pos = n
    BY <1>3, <1>6, <2>3
  <2> QED
    BY <1>2, <1>6, <2>2, <2>3, NextLibrarySteps
<1>7. CASE SkipMissing
  <2>1. step = "rotate" /\ NextLib /\ results[Lib] = NoFile /\ results' = results /\ current' = current
    BY <1>7 DEF SkipMissing, Skipped
  <2>2. \A q \in 1 .. pos : Imported(libs[q])'
    <3> SUFFICES ASSUME NEW q \in 1 .. pos PROVE Imported(libs[q])'
      OBVIOUS
    <3>1. CASE q = pos
      BY <1>4, <2>1, <3>1 DEF Imported
    <3>2. CASE q # pos
      <4>1. q \in 1 .. pos - 1
        BY <1>3, <1>4, <2>1, <3>2
      <4> QED
        BY <1>4, <2>1, <4>1 DEF Imported
    <3> QED
      BY <3>1, <3>2
  <2> QED
    BY <1>6, <2>1, <2>2
<1>8. CASE Copy
  <2>1. step = "copy" /\ NextLib /\ results' = results /\ current' = [current EXCEPT ![Lib] = results[Lib]]
    BY <1>8 DEF Copy
  <2>2. \A lib \in Libs : current'[lib] = IF lib = Lib THEN results[Lib] ELSE current[lib]
    BY <1>4, <2>1
  <2>3. \A q \in 1 .. pos : Imported(libs[q])'
    <3> SUFFICES ASSUME NEW q \in 1 .. pos PROVE Imported(libs[q])'
      OBVIOUS
    <3>0. q \in 1 .. n /\ libs[q] \in Libs
      BY <1>3, <1>4, <2>1
    <3>1. CASE q = pos
      BY <1>4, <2>1, <2>2, <3>0, <3>1 DEF Imported
    <3>2. CASE q # pos
      <4>1. q \in 1 .. pos - 1 /\ libs[q] # Lib
        BY <1>3, <1>4, <2>1, <3>0, <3>2
      <4> QED
        BY <1>4, <2>1, <2>2, <3>0, <4>1 DEF Imported
    <3> QED
      BY <3>1, <3>2
  <2> QED
    BY <1>6, <2>1, <2>3
<1>9. CASE Rotate
  <2>1. /\ step = "rotate" /\ step' = "copy" /\ pos' = pos /\ results' = results
        /\ current' = current \/ current' = [current EXCEPT ![Lib] = NoFile]
    BY <1>9 DEF Rotate
  <2>2. ASSUME NEW q \in 1 .. pos' - 1 PROVE Imported(libs[q])'
    <3>1. q \in 1 .. pos - 1 /\ q \in 1 .. n /\ libs[q] # Lib /\ libs[q] \in Libs
      <4>1. q \in 1 .. pos - 1 /\ q \in 1 .. n /\ q # pos /\ pos \in 1 .. n
        BY <1>3, <1>4, <2>1
      <4> QED
        BY <1>3, <1>4, <2>1, <4>1
    <3>2. current'[libs[q]] = current[libs[q]]
      BY <1>4, <2>1, <3>1
    <3> QED
      BY <1>4, <2>1, <3>1, <3>2 DEF Imported
  <2> QED
    BY <2>1, <2>2
<1>10. CASE Start
  <2>1. step' = "rotate" /\ pos' = 1 /\ 1 .. 1 - 1 = {}
    BY <1>10 DEF Start
  <2> QED
    BY <2>1
<1>11. CASE Parse \/ Draw \/ UNCHANGED vars
  <2>1. results' = results /\ current' = current
    BY <1>11 DEF Parse, Draw, vars
  <2>2. \/ step' = "idle"
        \/ step' = step /\ pos' = pos
        \/ step \in {"generate", "draw"} /\ step' \in {"draw", "clean"}
    BY <1>11 DEF Parse, Draw, vars, Ended
  <2> QED
    BY <1>4, <2>1, <2>2 DEF Imported
<1>12. CASE StartExecution \/ RunPiece \/ StopExecution \/ Clean \/ Stopped
  <2>1. step' \in {"idle", "run"}
    BY <1>12 DEF StartExecution, RunPiece, StopExecution, Clean, Stopped, Ended
  <2> QED
    BY <2>1
<1> QED
  BY <1>7, <1>8, <1>9, <1>10, <1>11, <1>12 DEF Next

-----------------------------------------------------------------------------

LEMMA PlotsStep == IInv /\ Counters /\ PlotsDrawn /\ [Next]_vars => PlotsDrawn'
<1> SUFFICES ASSUME IInv, Counters, PlotsDrawn, [Next]_vars PROVE PlotsDrawn'
  OBVIOUS
<1>1. figure \in Figures /\ figure' = figure /\ Libs' = Libs
  BY FigureStays DEF IInv
<1>2. PICK m : m = Len(figure.plots)
  OBVIOUS
<1>3. m \in Nat /\ m > 0 /\ (step = "draw" => pos \in 1 .. m) /\ (step = "generate" => pos = 1)
  BY <1>1, <1>2, FigureFacts DEF Counters
<1>4. CASE Draw
  <2>1. /\ step = "draw" /\ parsed = Parsed /\ ~ParseDies /\ current' = current
    BY <1>4 DEF Draw, PlotsDrawn
  <2>2. PICK k \in 0 .. m :
          /\ k = pos - 1 /\ saved = [i \in 1 .. k |-> saved[i]]
          /\ \A i \in 1 .. k : ~DiesFor(figure.plots[i]) /\ saved[i] = BarsFor(figure.plots[i])
    BY <1>2, <2>1 DEF PlotsDrawn
  <2>3. CASE PlotDies
    <3>1. step' = "idle" /\ saved' = <<>>
      BY <1>4, <2>3 DEF Draw, Ended
    <3> QED
      BY <3>1 DEF PlotsDrawn
  <2>4. CASE ~PlotDies
    <3>1. /\ saved' = Append(saved, IF Plot.slowdown THEN SlowdownBars(PlotCells) ELSE AbsoluteBars(PlotCells))
          /\ parsed' = parsed
          /\ \/ pos < m /\ pos' = pos + 1 /\ step' = step
             \/ pos >= m /\ pos' = 1 /\ step' = "clean"
      <4>1. pos < m \/ pos >= m
        BY <1>3, <2>1
      <4> QED
        BY <1>2, <1>4, <2>4, <4>1 DEF Draw
    <3>2. PICK l \in 1 .. m : l = pos
      BY <1>3, <2>1
    <3>3. Plot = figure.plots[l]
      BY <3>2 DEF Plot
    <3>4. ~DiesFor(figure.plots[l])
      BY <2>4, <3>3 DEF PlotDies, DiesFor
    <3>5. PICK old, bars, new : old = saved /\ bars = BarsFor(figure.plots[l]) /\ new = saved'
      OBVIOUS
    <3>6. new = Append(old, bars)
      BY <3>1, <3>3, <3>5 DEF BarsFor
    <3>7. old = [i \in 1 .. k |-> old[i]] /\ k + 1 = l /\ k \in Nat
      BY <1>3, <2>2, <3>2, <3>5
    <3>8. new = [i \in 1 .. k + 1 |-> IF i = k + 1 THEN bars ELSE old[i]]
      BY <3>6, <3>7, Extended
    <3>9. new = [i \in 1 .. l |-> new[i]] /\ new[l] = bars /\ \A i \in 1 .. l - 1 : new[i] = old[i]
      BY <3>7, <3>8
    <3>10. \A i \in 1 .. l : ~DiesFor(figure.plots[i]) /\ new[i] = BarsFor(figure.plots[i])
      <4> SUFFICES ASSUME NEW i \in 1 .. l
                   PROVE  ~DiesFor(figure.plots[i]) /\ new[i] = BarsFor(figure.plots[i])
        OBVIOUS
      <4>1. CASE i = l
        BY <3>4, <3>5, <3>9, <4>1
      <4>2. CASE i # l
        <5>1. i \in 1 .. k /\ i \in 1 .. l - 1
          BY <3>7, <4>2
        <5> QED
          BY <2>2, <3>5, <3>9, <5>1
      <4> QED
        BY <4>1, <4>2
    <3>11. /\ Parsed' = Parsed /\ ParseDies' = ParseDies /\ PlotCells' = PlotCells /\ CanAnalyse' = CanAnalyse
      <4>0. current' = current
        BY <2>1
      <4>1. Parsed' = Parsed /\ ParseDies' = ParseDies
        BY <1>1, <4>0 DEF Parsed, ParseDies, Lines, BlockLines, Libs
      <4>2. PlotCells' = PlotCells
        BY <1>1, <3>1 DEF PlotCells
      <4>3. CanAnalyse' = CanAnalyse
        BY <1>1, <3>1 DEF CanAnalyse
      <4> QED
        BY <4>1, <4>2, <4>3
    <3>12. \A plot : DiesFor(plot)' = DiesFor(plot) /\ BarsFor(plot)' = BarsFor(plot)
      BY <3>11 DEF DiesFor, BarsFor
    <3>13. step' \in {"draw", "clean"} /\ l = IF step' = "draw" THEN pos' - 1 ELSE Len(figure'.plots)
      <4>1. CASE pos < m
        <5>1. step' = "draw" /\ pos' - 1 = l
          BY <1>3, <2>1, <3>1, <3>2, <4>1
        <5> QED
          BY <5>1
      <4>2. CASE pos >= m
        <5>1. step' = "clean" /\ l = m
          BY <1>3, <2>1, <3>1, <3>2, <4>2
        <5> QED
          BY <1>1, <1>2, <5>1
      <4> QED
        BY <1>3, <2>1, <4>1, <4>2
    <3>14. \A i \in 1 .. l : ~DiesFor(figure.plots[i])' /\ saved'[i] = BarsFor(figure.plots[i])'
      BY <1>1, <3>5, <3>10, <3>12
    <3>15. l \in 0 .. Len(figure'.plots) /\ saved' = [i \in 1 .. l |-> saved'[i]]
      BY <1>1, <1>2, <1>3, <3>5, <3>9
    <3> QED
      BY <2>1, <3>1, <3>11, <3>13, <3>14, <3>15 DEF PlotsDrawn
  <2> QED
    BY <2>3, <2>4
<1>5. CASE Parse
  <2>1. step = "generate" /\ saved = <<>> /\ figure' = figure /\ current' = current
    BY <1>1, <1>5 DEF Parse, PlotsDrawn
  <2>2. CASE ParseDies
    <3>1. step' = "idle" /\ saved' = <<>>
      BY <1>5, <2>2 DEF Parse, Ended
    <3> QED
      BY <3>1 DEF PlotsDrawn
  <2>3. CASE ~ParseDies
    <3>1. step' = "draw" /\ parsed' = Parsed /\ pos' = pos /\ saved' = <<>>
      BY <1>5, <2>1, <2>3 DEF Parse
    <3>2. Parsed' = Parsed /\ ParseDies' = ParseDies
      BY <1>1, <2>1 DEF Parsed, ParseDies, Lines, BlockLines, Libs
    <3>3. 0 \in 0 .. Len(figure'.plots) /\ 0 = pos' - 1 /\ 1 .. 0 = {}
      BY <1>1, <1>2, <1>3, <2>1, <3>1
    <3>4. saved' = [i \in 1 .. 0 |-> saved'[i]]
      BY <3>1
    <3> QED
      BY <2>3, <3>1, <3>2, <3>3, <3>4 DEF PlotsDrawn
  <2> QED
    BY <2>2, <2>3
<1>6. CASE Clean \/ Stopped
  <2>1. step' = "idle" /\ saved' = <<>>
    BY <1>6 DEF Clean, Stopped, Ended
  <2> QED
    BY <2>1 DEF PlotsDrawn
<1>7. CASE StartExecution \/ RunPiece \/ StopExecution \/ Start \/ SkipMissing \/ Rotate \/ Copy
  <2>1. /\ step \notin {"draw", "clean"} /\ saved' = saved
        /\ step' \notin {"draw", "clean"}
    BY <1>7 DEF StartExecution, RunPiece, StopExecution, Start, SkipMissing, Rotate, Copy, NextLib
  <2> QED
    BY <2>1 DEF PlotsDrawn
<1>8. CASE UNCHANGED vars
  <2>1. step' = step /\ pos' = pos /\ saved' = saved /\ parsed' = parsed /\ current' = current /\ figure' = figure
    BY <1>8 DEF vars
  <2>2. /\ Parsed' = Parsed /\ ParseDies' = ParseDies /\ PlotCells' = PlotCells /\ CanAnalyse' = CanAnalyse
    BY <1>1, <2>1 DEF Parsed, ParseDies, PlotCells, CanAnalyse, Lines, BlockLines, Libs
  <2>3. \A plot : DiesFor(plot)' = DiesFor(plot) /\ BarsFor(plot)' = BarsFor(plot)
    BY <2>2 DEF DiesFor, BarsFor
  <2> QED
    BY <2>1, <2>2, <2>3 DEF PlotsDrawn
<1> QED
  BY <1>4, <1>5, <1>6, <1>7, <1>8 DEF Next

-----------------------------------------------------------------------------
(* The invariant of the figures holds *)

LEMMA PlotInit == Init => PlotInv
<1> SUFFICES ASSUME Init PROVE PlotInv
  OBVIOUS
<1>1. /\ IInv /\ figure \in Figures /\ step = "idle" /\ pos = 1 /\ executions = 0
      /\ results = NoResults /\ trouble = MaxTrouble /\ saved = <<>>
      /\ current = [lib \in Libs |-> NoFile] /\ archived = [lib \in Libs |-> <<>>]
  BY InitHolds DEF Init, Nothing
<1>2. Counters
  BY <1>1, BoundsAssumption DEF Counters
<1>3. ResultsExist
  BY <1>1, NoResultsExist DEF ResultsExist
<1>4. LogsBounded
  <2>1. <<>> \o <<>> = <<>> /\ Len(<<>>) = 0
    OBVIOUS
  <2>2. \A lib \in Libs : log[lib] = <<>>
    BY <1>1, <2>1 DEF log
  <2> QED
    BY <1>1, <2>1, <2>2, BoundsAssumption DEF LogsBounded
<1>5. ImportsDone /\ PlotsDrawn
  BY <1>1 DEF ImportsDone, PlotsDrawn
<1> QED
  BY <1>1, <1>2, <1>3, <1>4, <1>5 DEF PlotInv

LEMMA PlotStep == PlotInv /\ [Next]_vars => PlotInv'
<1> SUFFICES ASSUME PlotInv, [Next]_vars PROVE PlotInv'
  OBVIOUS
<1>1. IInv /\ Counters /\ ResultsExist /\ LogsBounded /\ ImportsDone /\ PlotsDrawn
  BY DEF PlotInv
<1>2. IInv' /\ Counters' /\ ResultsExist' /\ LogsBounded' /\ ImportsDone' /\ PlotsDrawn'
  BY <1>1, StepHolds, CountersStep, ResultsStep, LogsStep, ImportsStep, PlotsStep
<1> QED
  BY <1>2 DEF PlotInv

\* At every step, what is saved is drawn from the results that the scripts
\* imported, and these are the results that the benchmarks left (all scripts).
THEOREM PlotsAreOfResults == Spec => []PlotInv
BY PlotInit, PlotStep, PTL DEF Spec

-----------------------------------------------------------------------------
(* What is parsed is of the files that were imported *)

LEMMA FilesParsed ==
  ASSUME figure \in Figures, ResultsExist, ~ParseDies, NEW lib \in Libs
  PROVE  /\ lib \in STRING /\ current[lib] \in [DOMAIN figure.blocks -> BlockSet]
         /\ current[lib] # NoFile /\ current[lib] \in FileSet(executions)
         /\ Parsed[lib] = parse(Lines(lib, current[lib]))
<1>1. current[lib] # NoFile
  BY DEF ParseDies
<1>2. current[lib] \in FileSet(executions)
  BY <1>1 DEF ResultsExist
<1>3. lib \in STRING
  BY FigureFacts
<1>4. current[lib] \in [DOMAIN figure.blocks -> BlockSet]
  BY <1>2 DEF FileSet
<1>5. Parsed[lib] = parse(Lines(lib, current[lib]))
  BY DEF Parsed
<1> QED
  BY <1>1, <1>2, <1>3, <1>4, <1>5

LEMMA EntriesBounded ==
  ASSUME figure \in Figures, ResultsExist, ~ParseDies, NEW lib \in Libs,
         NEW p, p = Parsed[lib], NEW name \in DOMAIN p.entries
  PROVE  Len(p.entries[name]) <= Rows + 1
<1>1. PICK file : file = current[lib]
  OBVIOUS
<1>2. PICK lines : lines = Lines(lib, file)
  OBVIOUS
<1>3. lib \in STRING /\ file \in [DOMAIN figure.blocks -> BlockSet] /\ p = parse(lines)
  BY <1>1, <1>2, FilesParsed
<1>4. Read(lines, Len(lines), p)
  BY <1>2, <1>3, FileRead
<1>5. PICK i, kept : i = Len(lines) /\ kept = p.entries[name]
  OBVIOUS
<1>6. Entry(lines, i, name, kept)
  BY <1>4, <1>5 DEF Read, Entries
<1>7. Len(kept) <= Rows + 1
  BY <1>6 DEF Entry
<1> QED
  BY <1>5, <1>7

LEMMA SavedLength ==
  ASSUME PlotInv
  PROVE  Len(saved) <= Len(figure.plots) /\ (step = "clean" => Len(saved) = Len(figure.plots))
<1>1. figure \in Figures /\ PlotsDrawn
  BY DEF PlotInv, IInv
<1>2. PICK m, plots : m = Len(figure.plots) /\ plots = saved
  OBVIOUS
<1>3. m \in Nat /\ m > 0
  BY <1>1, <1>2, FigureFacts
<1>4. CASE step \in {"draw", "clean"}
  <2>1. PICK k \in 0 .. m : plots = [i \in 1 .. k |-> plots[i]] /\ (step = "clean" => k = m)
    BY <1>1, <1>2, <1>4 DEF PlotsDrawn
  <2>2. k \in Nat /\ k <= m
    BY <1>3, <2>1
  <2>3. Len(plots) = k
    BY <2>1, <2>2, LengthOf
  <2> QED
    BY <1>2, <2>1, <2>2, <2>3
<1>5. CASE step \notin {"draw", "clean"}
  <2>1. plots = <<>>
    BY <1>1, <1>2, <1>5 DEF PlotsDrawn
  <2>2. Len(plots) = 0
    BY <2>1
  <2> QED
    BY <1>2, <1>3, <1>5, <2>2
<1> QED
  BY <1>4, <1>5

LEMMA PlotTypeOK == PlotInv => TypeOK
<1> SUFFICES ASSUME PlotInv PROVE TypeOK
  OBVIOUS
<1>1. IInv /\ Counters /\ ResultsExist /\ LogsBounded /\ PlotsDrawn /\ figure \in Figures
  BY DEF PlotInv, IInv
<1>2. pos \in 1 .. Len(figure.libs) \cup 1 .. Len(figure.plots) \cup 1 .. Len(Pieces)
  <2>1. step \in {"rotate", "copy"} => pos \in 1 .. Len(figure.libs)
    BY <1>1 DEF IInv
  <2>2. step = "run" => pos \in 1 .. Len(Pieces)
    BY <1>1 DEF Counters
  <2>3. step = "draw" => pos \in 1 .. Len(figure.plots)
    BY <1>1 DEF Counters
  <2>4. step \in {"idle", "generate", "clean"} => pos \in 1 .. Len(figure.libs)
    BY <1>1, Libraries DEF Counters
  <2>5. step \in {"idle", "run", "rotate", "copy", "generate", "draw", "clean"}
    BY <1>1 DEF Counters
  <2> QED
    BY <2>1, <2>2, <2>3, <2>4, <2>5
<1>3. executions \in 0 .. MaxTrouble + 1 /\ trouble \in 0 .. MaxTrouble
  <2>1. executions \in Nat /\ trouble \in 0 .. MaxTrouble /\ MaxTrouble \in Nat
        /\ (executions = 0 \/ executions + trouble <= MaxTrouble + 1)
    BY <1>1, BoundsAssumption DEF Counters
  <2> QED
    BY <2>1
<1>4. \A lib \in Libs : results[lib] = NoFile \/ DOMAIN results[lib] = DOMAIN figure.blocks
  BY <1>1 DEF ResultsExist, FileSet
<1>5. ASSUME step = "draw", NEW lib \in Libs, NEW bench \in DOMAIN parsed[lib].entries
      PROVE  Len(parsed[lib].entries[bench]) <= Rows + 1
  <2>1. parsed = Parsed /\ ~ParseDies
    BY <1>1, <1>5 DEF PlotsDrawn
  <2>2. PICK p : p = Parsed[lib]
    OBVIOUS
  <2>3. parsed[lib] = p
    BY <2>1, <2>2
  <2>4. PICK name : name = bench
    OBVIOUS
  <2>5. name \in DOMAIN p.entries
    BY <1>5, <2>3, <2>4
  <2>6. Len(p.entries[name]) <= Rows + 1
    BY <1>1, <2>1, <2>2, <2>5, EntriesBounded
  <2> QED
    BY <2>3, <2>4, <2>6
<1>6. \A lib \in Libs : Len(log[lib]) <= MaxImports
  BY <1>1 DEF LogsBounded
<1>7. step \in {"idle", "run", "rotate", "copy", "generate", "draw", "clean"}
  BY <1>1 DEF Counters
<1> QED
  BY <1>1, <1>2, <1>3, <1>4, <1>5, <1>6, <1>7, SavedLength DEF TypeOK

\* The scripts stay within the results, the plots and the rows there are, and
\* an earlier import is never taken for a log (all scripts).
THEOREM TypeCorrect == Spec => []TypeOK
BY PlotsAreOfResults, PlotTypeOK, PTL

-----------------------------------------------------------------------------
(* The rows of a cell *)

\* What a cell has of a block, without its labels: rows of the library and the
\* benchmark, in the order in which they are in the file.
CellOf(cell, file, b) ==
  /\ figure.blocks[b] = cell.bench /\ file[b].head = 2
  /\ Len(cell.rows) \in Nat \ {0} /\ DOMAIN cell.rows = 1 .. Len(cell.rows)
  /\ Len(cell.rows) <= Len(Sorted(file[b]))
  /\ \A x \in 1 .. Len(cell.rows) :
       cell.rows[x] = Line("row", cell.lib, file[b].n, cell.bench, Sorted(file[b])[x])

LEMMA RowsOfCell ==
  ASSUME NEW lib, NEW file, NEW b, NEW cell, NEW kept \in Seq(LineSet), Len(kept) > 0,
         RowsOfBlock(lib, file, cell.bench, kept, b), cell.lib = lib,
         cell.rows = Tail(kept), cell.rows # <<>>
  PROVE  CellOf(cell, file, b)
<1>1. PICK n, rows : n = Len(kept) /\ rows = cell.rows
  OBVIOUS
<1>2. /\ n \in Nat /\ n > 0 /\ rows \in Seq(LineSet) /\ Len(rows) = n - 1
      /\ \A x \in 1 .. n - 1 : rows[x] = kept[x + 1]
  BY <1>1
<1>3. Len(rows) \in Nat \ {0} /\ DOMAIN rows = 1 .. Len(rows)
  <2>1. rows # <<>>
    BY <1>1
  <2> QED
    BY <1>2, <2>1
<1>4. /\ figure.blocks[b] = cell.bench /\ file[b].head = 2
      /\ Len(rows) <= Len(Sorted(file[b]))
  BY <1>1, <1>2 DEF RowsOfBlock
<1>5. ASSUME NEW x \in 1 .. Len(rows)
      PROVE  rows[x] = Line("row", cell.lib, file[b].n, cell.bench, Sorted(file[b])[x])
  <2>1. x \in 1 .. n - 1 /\ x + 2 \in Nat \ {0} /\ x + 2 > 2 /\ (x + 2) - 2 = x
    BY <1>2, <1>5
  <2>2. kept[x + 1] = Its(lib, file, b, x + 2)
    BY <1>1, <2>1 DEF RowsOfBlock
  <2>3. Its(lib, file, b, x + 2) = Line("row", lib, file[b].n, figure.blocks[b], Sorted(file[b])[x])
    <3>1. PICK k : k = x + 2
      OBVIOUS
    <3>2. k \in Nat \ {0} /\ k > 2 /\ k - 2 = x
      BY <2>1, <3>1
    <3>3. Its(lib, file, b, k) = Line("row", lib, file[b].n, figure.blocks[b], Sorted(file[b])[k - 2])
      BY <3>2, ItsKind
    <3> QED
      BY <3>1, <3>2, <3>3
  <2> QED
    BY <1>2, <1>4, <2>1, <2>2, <2>3
<1> QED
  BY <1>1, <1>3, <1>4, <1>5 DEF CellOf

Drawable == figure \in Figures /\ ResultsExist /\ parsed = Parsed /\ ~ParseDies /\ CanAnalyse

LEMMA CellRows ==
  ASSUME Drawable, NEW cell, IsCell(parsed, figure.libs, figure.benchmarks, cell)
  PROVE  /\ cell.lib \in Libs /\ \E m \in 1 .. Len(figure.benchmarks) : cell.bench = figure.benchmarks[m]
         /\ \E b \in 1 .. Len(figure.blocks) : CellOf(cell, current[cell.lib], b)
<1>1. PICK lib, bench, file, p :
        lib = cell.lib /\ bench = cell.bench /\ file = current[cell.lib] /\ p = Parsed[cell.lib]
  OBVIOUS
<1>2. figure \in Figures /\ ResultsExist /\ ~ParseDies /\ CanAnalyse /\ parsed = Parsed
  BY DEF Drawable
<1>3. /\ lib \in Libs /\ bench \in ToSet(figure.benchmarks)
      /\ cell.rows = RowsOf(p.entries, bench) /\ cell.rows # <<>>
  BY <1>1, <1>2 DEF IsCell, Libs
<1>4. /\ bench \in DOMAIN p.entries /\ Len(p.entries[bench]) > 0
      /\ cell.rows = Tail(p.entries[bench])
  BY <1>3 DEF RowsOf
<1>5. PICK m \in 1 .. Len(figure.benchmarks) : bench = figure.benchmarks[m]
  BY <1>2, <1>3, FigureFacts DEF ToSet
<1>6. bench # NotAName
  <2>1. PICK b \in 1 .. Len(figure.blocks) : bench = figure.blocks[b]
    BY <1>2, <1>5, FigureFacts
  <2> QED
    BY <1>2, <2>1, FigureFacts
<1>7. lib \in STRING /\ file \in [DOMAIN figure.blocks -> BlockSet] /\ p = parse(Lines(lib, file))
  BY <1>1, <1>2, <1>3, FilesParsed
<1>8. Analysable(p.entries[bench])
  <2>1. bench \in Filtered(parsed[lib].entries, figure.benchmarks) /\ parsed[lib] = p
    BY <1>1, <1>2, <1>3, <1>4 DEF Filtered
  <2>2. Analysable(parsed[lib].entries[bench])
    BY <1>2, <1>3, <2>1 DEF CanAnalyse
  <2> QED
    BY <2>1, <2>2
<1>9. PICK kept : kept = p.entries[bench]
  OBVIOUS
<1>10. kept \in Seq(LineSet) /\ \E b \in 1 .. Len(figure.blocks) : RowsOfBlock(lib, file, bench, kept, b)
  BY <1>2, <1>4, <1>6, <1>7, <1>8, <1>9, AnalysableRows
<1>11. PICK b \in 1 .. Len(figure.blocks) : RowsOfBlock(lib, file, bench, kept, b)
  BY <1>10
<1>12. CellOf(cell, file, b)
  BY <1>1, <1>3, <1>4, <1>9, <1>10, <1>11, RowsOfCell
<1> QED
  BY <1>1, <1>3, <1>5, <1>12

-----------------------------------------------------------------------------
(* The bars *)

\* The columns of a bar.
LEMMA BarFields ==
  ASSUME NEW cells, NEW i, NEW p, NEW row, NEW reference, NEW bar, bar = Bar(cells, i, p, row, reference)
  PROVE  /\ bar.bench = cells[i].bench /\ bar.lib = cells[i].lib /\ bar.position = p
         /\ bar.row = row /\ bar.reference = reference
BY DEF Bar

\* Row q of cell i, drawn at p, relative to row q of cell j, the last pmdk.
SlowBar(cells, bar, i, j, p, q) ==
  /\ i \in 1 .. Len(cells) /\ j \in 1 .. i
  /\ ~IsPmdk(cells[i]) /\ IsPmdk(cells[j]) /\ \A k \in 1 .. i : IsPmdk(cells[k]) => k <= j
  /\ p \in DOMAIN cells[i].rows /\ q \in DOMAIN cells[i].rows /\ q \in DOMAIN cells[j].rows
  /\ q = IF Len(cells[j].rows) = 1 THEN 1 ELSE p
  /\ bar = Bar(cells, i, p, cells[i].rows[q], cells[j].rows[q])

LEMMA LastReference ==
  ASSUME NEW cells, Len(cells) \in Nat, NEW i \in 1 .. Len(cells), References(cells, i) # {}
  PROVE  \E j \in 1 .. i : /\ IsPmdk(cells[j]) /\ \A k \in 1 .. i : IsPmdk(cells[k]) => k <= j
                           /\ Reference(cells, i) = cells[j].rows
<1> DEFINE R == References(cells, i)
           T == {d \in 0 .. i : i - d \in R}
<1>1. R = {j \in 1 .. i : IsPmdk(cells[j])} /\ i \in Nat
  BY DEF References
<1>2. T # {} /\ T \subseteq Nat
  <2>1. PICK k \in 1 .. i : k \in R
    BY <1>1
  <2>2. i - k \in 0 .. i /\ i - (i - k) = k
    BY <1>1
  <2>3. i - k \in T
    BY <2>1, <2>2
  <2> HIDE DEF R
  <2>4. \A d \in T : d \in Nat
    BY <1>1
  <2> HIDE DEF T
  <2> QED
    BY <2>3, <2>4
<1>3. PICK d \in T : \A e \in T : d <= e
  BY <1>2, LeastNumber
<1>4. i - d \in R /\ \A k \in R : k <= i - d
  <2>1. i - d \in R /\ d \in Nat
    BY <1>2, <1>3
  <2>2. ASSUME NEW k \in R PROVE k <= i - d
    <3>1. k \in 1 .. i
      BY <1>1
    <3>2. i - k \in 0 .. i /\ i - (i - k) = k
      BY <1>1, <3>1
    <3>3. i - k \in T
      BY <2>2, <3>2
    <3>4. d <= i - k
      BY <1>3, <3>3
    <3> QED
      BY <1>1, <2>1, <3>1, <3>4
  <2> QED
    BY <2>1, <2>2
<1>5. PICK j \in R : \A k \in R : k <= j
  BY <1>4
<1>6. \A l \in R : (\A k \in R : k <= l) => l = j
  BY <1>1, <1>5
<1>7. (CHOOSE l \in R : \A k \in R : k <= l) = j
  <2> HIDE DEF R
  <2> QED
    BY <1>5, <1>6
<1>8. Reference(cells, i) = cells[j].rows
  BY <1>7 DEF Reference
<1> QED
  BY <1>1, <1>5, <1>8

\* The rows of cells have positions from 1 on.
WithPositions(cells) ==
  /\ Len(cells) \in Nat /\ DOMAIN cells = 1 .. Len(cells)
  /\ \A i \in 1 .. Len(cells) :
       Len(cells[i].rows) \in Nat \ {0} /\ DOMAIN cells[i].rows = 1 .. Len(cells[i].rows)

LEMMA SlowBars ==
  ASSUME NEW cells, WithPositions(cells), NEW legend, ~SlowdownDies(cells, legend),
         NEW bar \in SlowdownBars(cells)
  PROVE  \E i, j, p, q : SlowBar(cells, bar, i, j, p, q)
<1> DEFINE At(reference, p) == IF Len(reference) = 1 THEN 1 ELSE p
           Of(i) == {Bar(cells, i, p, cells[i].rows[At(Reference(cells, i), p)],
                         Reference(cells, i)[At(Reference(cells, i), p)]) : p \in DOMAIN cells[i].rows}
<1>1. SlowdownBars(cells) = UNION {Of(i) : i \in {j \in DOMAIN cells : ~IsPmdk(cells[j])}}
  BY DEF SlowdownBars
<1>2. PICK i \in DOMAIN cells : ~IsPmdk(cells[i]) /\ bar \in Of(i)
  <2> HIDE DEF Of
  <2> QED
    BY <1>1
<1>3. i \in 1 .. Len(cells) /\ Len(cells) \in Nat
  BY <1>2 DEF WithPositions
<1>4. References(cells, i) # {} /\ Fits(Reference(cells, i), cells[i].rows)
  BY <1>2 DEF SlowdownDies
<1>5. PICK j \in 1 .. i : /\ IsPmdk(cells[j]) /\ \A k \in 1 .. i : IsPmdk(cells[k]) => k <= j
                          /\ Reference(cells, i) = cells[j].rows
  BY <1>3, <1>4, LastReference
<1>6. PICK p \in DOMAIN cells[i].rows :
        bar = Bar(cells, i, p, cells[i].rows[At(cells[j].rows, p)], cells[j].rows[At(cells[j].rows, p)])
  BY <1>2, <1>5
<1>7. PICK q : q = At(cells[j].rows, p)
  OBVIOUS
<1>8. PICK n, m : n = Len(cells[i].rows) /\ m = Len(cells[j].rows)
  OBVIOUS
<1>9. /\ n \in Nat \ {0} /\ m \in Nat \ {0} /\ DOMAIN cells[i].rows = 1 .. n /\ DOMAIN cells[j].rows = 1 .. m
      /\ m >= n \/ m = 1
  <2>1. j \in 1 .. Len(cells)
    BY <1>3
  <2> QED
    BY <1>3, <1>4, <1>5, <1>8, <2>1 DEF WithPositions, Fits
<1>10. q \in 1 .. n /\ q \in 1 .. m
  BY <1>6, <1>7, <1>8, <1>9
<1> QED
  BY <1>2, <1>3, <1>5, <1>6, <1>7, <1>9, <1>10 DEF SlowBar

\* Row p of cell i, drawn at p.
AbsBar(cells, bar, i, p) ==
  i \in 1 .. Len(cells) /\ p \in DOMAIN cells[i].rows /\ bar = Bar(cells, i, p, cells[i].rows[p], NoLine)

LEMMA AbsBars ==
  ASSUME NEW cells, WithPositions(cells), NEW bar
  PROVE  bar \in AbsoluteBars(cells) <=> \E i, p : AbsBar(cells, bar, i, p)
<1> DEFINE Of(i) == {Bar(cells, i, p, cells[i].rows[p], NoLine) : p \in DOMAIN cells[i].rows}
<1>1. AbsoluteBars(cells) = UNION {Of(i) : i \in DOMAIN cells}
  BY DEF AbsoluteBars
<1>2. DOMAIN cells = 1 .. Len(cells)
  BY DEF WithPositions
<1>3. \A i : bar \in Of(i) <=> \E p \in DOMAIN cells[i].rows : bar = Bar(cells, i, p, cells[i].rows[p], NoLine)
  OBVIOUS
<1> HIDE DEF Of
<1>4. bar \in AbsoluteBars(cells) <=> \E i \in 1 .. Len(cells) : bar \in Of(i)
  BY <1>1, <1>2
<1> QED
  BY <1>3, <1>4 DEF AbsBar

\* What is drawn is of cells of the configuration.
LEMMA CellsDrawn ==
  ASSUME Drawable, NEW cells, cells = PlotCells
  PROVE  /\ LaidOut(parsed, figure.libs, figure.benchmarks, cells) /\ WithPositions(cells)
         /\ \A i \in 1 .. Len(cells) : \E b \in 1 .. Len(figure.blocks) :
              CellOf(cells[i], current[cells[i].lib], b)
         /\ \A i \in 1 .. Len(cells) : cells[i].lib \in Libs
<1>1. figure \in Figures
  BY DEF Drawable
<1>2. PICK readers, libs, benchmarks :
        readers = parsed /\ libs = figure.libs /\ benchmarks = figure.benchmarks
  OBVIOUS
<1>3. libs \in Seq(STRING) /\ benchmarks \in Seq(STRING) /\ Len(benchmarks) > 0
  <2>1. libs \in Seq(STRING)
    BY <1>1, <1>2, BoundsAssumption
  <2>2. /\ Len(benchmarks) \in Nat /\ DOMAIN benchmarks = 1 .. Len(benchmarks)
        /\ \A m \in 1 .. Len(benchmarks) : benchmarks[m] \in STRING
    <3>1. ASSUME NEW m \in 1 .. Len(benchmarks) PROVE benchmarks[m] \in STRING
      <4>1. PICK b \in 1 .. Len(figure.blocks) : benchmarks[m] = figure.blocks[b]
        BY <1>1, <1>2, FigureFacts
      <4> QED
        BY <1>1, <4>1, FigureFacts
    <3> QED
      BY <1>1, <1>2, <3>1, FigureFacts
  <2>3. benchmarks = [m \in 1 .. Len(benchmarks) |-> benchmarks[m]]
    <3>1. figure.benchmarks \in Seq(ToSet(figure.blocks))
      BY <1>1, FiguresAssumption
    <3> QED
      BY <1>2, <3>1
  <2>4. Len(benchmarks) > 0
    <3>1. 1 \in 1 .. Len(figure.plots)
      BY <1>1, FigureFacts
    <3>2. figure.plots[1].legend \in Nat /\ figure.plots[1].legend < Len(benchmarks)
      BY <1>1, <1>2, <3>1, FigureFacts
    <3> QED
      BY <2>2, <3>2
  <2> QED
    BY <2>1, <2>2, <2>3, <2>4
<1>4. LaidOut(readers, libs, benchmarks, cells)
  <2>1. cells = Cells(readers, libs, benchmarks)
    BY <1>2 DEF PlotCells, LibsInOrder
  <2> QED
    BY <1>3, <2>1, CellsLaidOut
<1>5. ASSUME NEW i \in 1 .. Len(cells)
      PROVE  /\ \E b \in 1 .. Len(figure.blocks) : CellOf(cells[i], current[cells[i].lib], b)
             /\ cells[i].lib \in Libs
  <2>1. PICK cell : cell = cells[i]
    OBVIOUS
  <2>2. IsCell(parsed, figure.libs, figure.benchmarks, cell)
    BY <1>2, <1>4, <2>1 DEF LaidOut
  <2> QED
    BY <2>1, <2>2, CellRows
<1>6. WithPositions(cells)
  BY <1>4, <1>5 DEF LaidOut, WithPositions, CellOf
<1> QED
  BY <1>2, <1>4, <1>5, <1>6

LEMMA BarsDrawn ==
  ASSUME PlotInv, NEW bar \in SavedBars
  PROVE  /\ Drawable /\ step \in {"draw", "clean"}
         /\ \E cells : /\ cells = PlotCells
                       /\ \/ \E i, p : AbsBar(cells, bar, i, p)
                          \/ \E i, j, p, q : SlowBar(cells, bar, i, j, p, q)
<1>1. figure \in Figures /\ ResultsExist /\ PlotsDrawn
  BY DEF PlotInv, IInv
<1>2. PICK k \in DOMAIN saved : bar \in saved[k]
  BY DEF SavedBars
<1>3. step \in {"draw", "clean"}
  <2>1. step \notin {"draw", "clean"} => saved = <<>>
    BY <1>1 DEF PlotsDrawn
  <2> QED
    BY <1>2, <2>1
<1>4. /\ parsed = Parsed /\ ~ParseDies
      /\ \E n \in 0 .. Len(figure.plots) :
           /\ saved = [i \in 1 .. n |-> saved[i]]
           /\ \A i \in 1 .. n : ~DiesFor(figure.plots[i]) /\ saved[i] = BarsFor(figure.plots[i])
  BY <1>1, <1>3 DEF PlotsDrawn
<1>5. ~DiesFor(figure.plots[k]) /\ saved[k] = BarsFor(figure.plots[k])
  BY <1>2, <1>4
<1>6. Drawable
  BY <1>1, <1>4, <1>5 DEF Drawable, DiesFor
<1>7. PICK cells, plot : cells = PlotCells /\ plot = figure.plots[k]
  OBVIOUS
<1>8. WithPositions(cells)
  BY <1>6, <1>7, CellsDrawn
<1>9. CASE plot.slowdown
  <2>1. ~SlowdownDies(cells, plot.legend) /\ bar \in SlowdownBars(cells)
    BY <1>2, <1>5, <1>7, <1>9 DEF DiesFor, BarsFor
  <2>2. \E i, j, p, q : SlowBar(cells, bar, i, j, p, q)
    BY <1>8, <2>1, SlowBars
  <2> QED
    BY <1>3, <1>6, <1>7, <2>2
<1>10. CASE ~plot.slowdown
  <2>1. bar \in AbsoluteBars(cells)
    BY <1>2, <1>5, <1>7, <1>10 DEF BarsFor
  <2>2. \E i, p : AbsBar(cells, bar, i, p)
    BY <1>8, <2>1, AbsBars
  <2> QED
    BY <1>3, <1>6, <1>7, <2>2
<1> QED
  BY <1>9, <1>10

\* Row q of a cell.
CellRow(cell, file, b, q) ==
  /\ cell.rows[q].kind = "row" /\ cell.rows[q].lib = cell.lib /\ cell.rows[q].bench = cell.bench
  /\ cell.rows[q].execution = file[b].n /\ figure.blocks[b] = cell.bench
  /\ cell.rows[q].x = Sorted(file[b])[q] /\ q \in 1 .. Len(cell.rows)

LEMMA RowOfCell ==
  ASSUME NEW cell, NEW file, NEW b, CellOf(cell, file, b), NEW q \in DOMAIN cell.rows
  PROVE  CellRow(cell, file, b, q)
<1>1. PICK row : row = cell.rows[q]
  OBVIOUS
<1>2. q \in 1 .. Len(cell.rows) /\ figure.blocks[b] = cell.bench
      /\ row = Line("row", cell.lib, file[b].n, cell.bench, Sorted(file[b])[q])
  BY <1>1 DEF CellOf
<1>3. /\ row.kind = "row" /\ row.lib = cell.lib /\ row.bench = cell.bench
      /\ row.execution = file[b].n /\ row.x = Sorted(file[b])[q]
  BY <1>2 DEF Line
<1> QED
  BY <1>1, <1>2, <1>3 DEF CellRow

\* A bar shows a row of its cell.
LEMMA BarIsOfCell ==
  ASSUME PlotInv, NEW bar \in SavedBars
  PROVE  \E cells, i, q :
           /\ cells = PlotCells /\ i \in 1 .. Len(cells) /\ q \in DOMAIN cells[i].rows
           /\ bar.lib = cells[i].lib /\ bar.bench = cells[i].bench /\ bar.row = cells[i].rows[q]
           /\ \/ bar.reference = NoLine
              \/ \E j \in 1 .. i : IsPmdk(cells[j]) /\ q \in DOMAIN cells[j].rows /\ bar.reference = cells[j].rows[q]
<1>1. PICK cells : /\ cells = PlotCells
                   /\ \/ \E i, p : AbsBar(cells, bar, i, p)
                      \/ \E i, j, p, q : SlowBar(cells, bar, i, j, p, q)
  BY BarsDrawn
<1>2. CASE \E i, p : AbsBar(cells, bar, i, p)
  <2>1. PICK i, p : AbsBar(cells, bar, i, p)
    BY <1>2
  <2>2. i \in 1 .. Len(cells) /\ p \in DOMAIN cells[i].rows /\ bar = Bar(cells, i, p, cells[i].rows[p], NoLine)
    BY <2>1 DEF AbsBar
  <2>3. /\ bar.lib = cells[i].lib /\ bar.bench = cells[i].bench /\ bar.row = cells[i].rows[p]
        /\ bar.reference = NoLine
    BY <2>2, BarFields
  <2> QED
    BY <1>1, <2>2, <2>3
<1>3. CASE \E i, j, p, q : SlowBar(cells, bar, i, j, p, q)
  <2>1. PICK i, j, p, q : SlowBar(cells, bar, i, j, p, q)
    BY <1>3
  <2>2. /\ i \in 1 .. Len(cells) /\ j \in 1 .. i /\ IsPmdk(cells[j])
        /\ q \in DOMAIN cells[i].rows /\ q \in DOMAIN cells[j].rows
        /\ bar = Bar(cells, i, p, cells[i].rows[q], cells[j].rows[q])
    BY <2>1 DEF SlowBar
  <2>3. /\ bar.lib = cells[i].lib /\ bar.bench = cells[i].bench /\ bar.row = cells[i].rows[q]
        /\ bar.reference = cells[j].rows[q]
    BY <2>2, BarFields
  <2> QED
    BY <1>1, <2>2, <2>3
<1> QED
  BY <1>1, <1>2, <1>3

LEMMA OwnBars == PlotInv => BarsAreOwn
<1> SUFFICES ASSUME PlotInv PROVE BarsAreOwn
  OBVIOUS
<1> SUFFICES ASSUME NEW bar \in SavedBars
             PROVE  /\ Own(bar, bar.row, bar.lib)
                    /\ bar \in Slowdowns => bar.reference.kind = "row" /\ bar.reference.lib = "pmdk"
  BY DEF BarsAreOwn
<1>1. Drawable
  BY BarsDrawn
<1>2. PICK cells, i, q :
        /\ cells = PlotCells /\ i \in 1 .. Len(cells) /\ q \in DOMAIN cells[i].rows
        /\ bar.lib = cells[i].lib /\ bar.bench = cells[i].bench /\ bar.row = cells[i].rows[q]
        /\ \/ bar.reference = NoLine
           \/ \E j \in 1 .. i : IsPmdk(cells[j]) /\ q \in DOMAIN cells[j].rows /\ bar.reference = cells[j].rows[q]
  BY BarIsOfCell
<1>3. \A j \in 1 .. Len(cells) : \E b \in 1 .. Len(figure.blocks) : CellOf(cells[j], current[cells[j].lib], b)
  BY <1>1, <1>2, CellsDrawn
<1>4. Own(bar, bar.row, bar.lib)
  <2>1. PICK cell, file : cell = cells[i] /\ file = current[cells[i].lib]
    OBVIOUS
  <2>2. PICK b \in 1 .. Len(figure.blocks) : CellOf(cell, file, b)
    BY <1>2, <1>3, <2>1
  <2>3. CellRow(cell, file, b, q)
    BY <1>2, <2>1, <2>2, RowOfCell
  <2> QED
    BY <1>2, <2>1, <2>3 DEF CellRow, Own
<1>5. ASSUME bar \in Slowdowns PROVE bar.reference.kind = "row" /\ bar.reference.lib = "pmdk"
  <2>1. PICK j \in 1 .. i : IsPmdk(cells[j]) /\ q \in DOMAIN cells[j].rows /\ bar.reference = cells[j].rows[q]
    BY <1>2, <1>5 DEF Slowdowns
  <2>2. j \in 1 .. Len(cells)
    <3>1. Len(cells) \in Nat
      BY <1>1, <1>2, CellsDrawn DEF WithPositions
    <3> QED
      BY <1>2, <2>1, <3>1
  <2>3. PICK cell, file : cell = cells[j] /\ file = current[cells[j].lib]
    OBVIOUS
  <2>4. PICK b \in 1 .. Len(figure.blocks) : CellOf(cell, file, b)
    BY <1>3, <2>2, <2>3
  <2>5. CellRow(cell, file, b, q)
    BY <2>1, <2>3, <2>4, RowOfCell
  <2> QED
    BY <2>1, <2>3, <2>5 DEF CellRow, IsPmdk
<1> QED
  BY <1>4, <1>5

\* However damaged the files are: every bar is of a row that its library
\* printed for its benchmark (parser.py:15-40, analyse.py:67-124,
\* plotters.py:486-496).
THEOREM BarsAlwaysOwn == Spec => []BarsAreOwn
BY PlotsAreOfResults, OwnBars, PTL

LEMMA BarsOfNewest == PlotInv => OldOnlyIfMissing
<1> SUFFICES ASSUME PlotInv PROVE OldOnlyIfMissing
  OBVIOUS
<1> SUFFICES ASSUME NEW bar \in SavedBars
             PROVE  bar.row.execution = executions \/ ExecutionOf(bar.lib, bar.bench) < executions
  BY DEF OldOnlyIfMissing
<1>1. Drawable /\ step \in {"draw", "clean"} /\ figure \in Figures /\ ResultsExist /\ Counters /\ ImportsDone
  BY BarsDrawn DEF PlotInv, IInv
<1>2. PICK cells, i, q :
        /\ cells = PlotCells /\ i \in 1 .. Len(cells) /\ q \in DOMAIN cells[i].rows
        /\ bar.lib = cells[i].lib /\ bar.bench = cells[i].bench /\ bar.row = cells[i].rows[q]
  BY BarIsOfCell
<1>3. PICK cell, lib, file : cell = cells[i] /\ lib = cells[i].lib /\ file = current[cells[i].lib]
  OBVIOUS
<1>4. lib \in Libs /\ \E b \in 1 .. Len(figure.blocks) : CellOf(cell, file, b)
  BY <1>1, <1>2, <1>3, CellsDrawn
<1>5. PICK b \in 1 .. Len(figure.blocks) : CellOf(cell, file, b)
  BY <1>4
<1>6. CellRow(cell, file, b, q)
  BY <1>2, <1>3, <1>5, RowOfCell
<1>7. bar.row.execution = file[b].n /\ figure.blocks[b] = bar.bench /\ bar.lib = lib
  BY <1>2, <1>3, <1>6 DEF CellRow
<1>8. executions \in Nat /\ executions > 0
  BY <1>1 DEF Counters
<1>9. CASE results[lib] = NoFile
  BY <1>7, <1>8, <1>9 DEF ExecutionOf
<1>10. CASE results[lib] # NoFile
  <2>1. file = results[lib] /\ file \in FileSet(executions)
    BY <1>1, <1>3, <1>4, <1>10 DEF ImportsDone, Imported, ResultsExist
  <2>2. (CHOOSE c \in DOMAIN figure.blocks : figure.blocks[c] = bar.bench) = b
    <3>1. \A c \in DOMAIN figure.blocks : figure.blocks[c] = bar.bench <=> c = b
      BY <1>1, <1>7, FigureFacts
    <3> QED
      BY <1>1, <3>1, FigureFacts
  <2>3. ExecutionOf(lib, bar.bench) = file[b].n
    BY <1>10, <2>1, <2>2 DEF ExecutionOf
  <2>4. file[b].n \in Nat /\ file[b].n <= executions
    <3>1. b \in DOMAIN figure.blocks
      BY <1>1, FigureFacts
    <3> QED
      BY <2>1, <3>1 DEF FileSet, BlockSet
  <2> QED
    BY <1>7, <1>8, <2>3, <2>4
<1> QED
  BY <1>9, <1>10

\* A bar of an earlier execution stands where the newest has no result,
\* wherever executions and imports are stopped (import_pmembench.sh:20-39,
\* inner_run.sh, import_pmemkv.sh:17-30).
THEOREM OldBarsOnlyIfMissing == Spec => []OldOnlyIfMissing
BY PlotsAreOfResults, BarsOfNewest, PTL

-----------------------------------------------------------------------------
(* What a file with all rows gives *)

LEMMA CompleteRows ==
  ASSUME figure \in Figures, NEW lib \in STRING, NEW file \in [DOMAIN figure.blocks -> BlockSet],
         AllRows(file), NEW p, p = parse(Lines(lib, file)), NEW b \in 1 .. Len(figure.blocks),
         NEW kept, kept = p.entries[figure.blocks[b]], NEW rows, rows = RowsOf(p.entries, figure.blocks[b])
  PROVE  /\ p.mode = "info" /\ figure.blocks[b] \in DOMAIN p.entries /\ Analysable(kept)
         /\ rows # <<>> /\ Len(rows) = Rows /\ DOMAIN rows = 1 .. Rows
         /\ \A x \in 1 .. Rows : rows[x] = Line("row", lib, file[b].n, figure.blocks[b], x)
<1>1. PICK m : m = Len(figure.blocks)
  OBVIOUS
<1>2. ReadWhole(lib, file, m, p) /\ m \in Nat
  BY <1>1, CompleteParse, FigureFacts
<1>3. p.mode = "info" /\ KeptTo(lib, file, m, Rows + 1, p.entries)
  BY <1>2 DEF ReadWhole
<1>4. figure.blocks[b] \in DOMAIN p.entries
  BY <1>1, <1>3 DEF KeptTo
<1>5. KeptOf(lib, file, b, Rows + 1, kept)
  <2>1. b \in 1 .. m - 1 \/ b = m
    BY <1>1, <1>2
  <2> QED
    BY <1>2, <1>3, <2>1 DEF KeptTo
<1>6. /\ kept \in Seq(LineSet) /\ Len(kept) = Rows + 1 /\ Rows \in Nat \ {0}
      /\ \A j \in 1 .. Rows + 1 : kept[j] = Its(lib, file, b, j + 1)
  BY <1>5, BoundsAssumption DEF KeptOf
<1>7. rows = Tail(kept)
  BY <1>4, <1>6 DEF RowsOf
<1>8. /\ rows \in Seq(LineSet) /\ Len(rows) = Rows /\ rows # <<>>
      /\ \A x \in 1 .. Rows : rows[x] = kept[x + 1]
  <2>1. PICK n : n = Len(kept)
    OBVIOUS
  <2>2. n \in Nat /\ n > 1 /\ n = Rows + 1 /\ n - 1 = Rows
    BY <1>6, <2>1
  <2>3. rows \in Seq(LineSet) /\ Len(rows) = n - 1 /\ \A x \in 1 .. n - 1 : rows[x] = kept[x + 1]
    BY <1>6, <1>7, <2>1, <2>2
  <2>4. Len(<<>>) = 0
    OBVIOUS
  <2> QED
    BY <2>2, <2>3, <2>4
<1>9. \A x \in 1 .. Rows : kept[x + 1] = Line("row", lib, file[b].n, figure.blocks[b], x)
  <2> SUFFICES ASSUME NEW x \in 1 .. Rows
               PROVE  kept[x + 1] = Line("row", lib, file[b].n, figure.blocks[b], x)
    OBVIOUS
  <2>1. PICK k : k = x + 2
    OBVIOUS
  <2>2. k \in Nat \ {0} /\ k > 2 /\ k - 2 = x /\ x + 1 \in 1 .. Rows + 1 /\ (x + 1) + 1 = k
    BY <1>6, <2>1
  <2>3. kept[x + 1] = Its(lib, file, b, k)
    BY <1>6, <2>2
  <2>4. Its(lib, file, b, k) = Line("row", lib, file[b].n, figure.blocks[b], Sorted(file[b])[k - 2])
    BY <2>2, ItsKind
  <2>5. Sorted(file[b])[x] = x
    BY CompleteSizes
  <2> QED
    BY <2>2, <2>3, <2>4, <2>5
<1>10. Analysable(kept)
  <2>1. 1 \in 1 .. Rows + 1 /\ kept[1] = Its(lib, file, b, 2)
    BY <1>6
  <2>2. kept[1].kind = "labels"
    <3>1. Its(lib, file, b, 2) = Line("labels", lib, file[b].n, figure.blocks[b], 0)
      BY DEF Its
    <3> QED
      BY <2>1, <3>1 DEF Line
  <2>3. ASSUME NEW i \in 2 .. Len(kept) PROVE kept[i].kind = "row"
    <3>1. i - 1 \in 1 .. Rows /\ (i - 1) + 1 = i
      BY <1>6
    <3>2. kept[i] = Line("row", lib, file[b].n, figure.blocks[b], i - 1)
      BY <1>9, <3>1
    <3> QED
      BY <3>2 DEF Line
  <2> QED
    BY <1>6, <2>2, <2>3 DEF Analysable
<1> QED
  BY <1>3, <1>4, <1>8, <1>9, <1>10

\* All rows of a library are drawn.
LEMMA CompleteCells ==
  ASSUME Drawable, NEW lib \in Libs, AllRows(current[lib]), NEW m \in 1 .. Len(figure.benchmarks)
  PROVE  /\ lib \in WithRows(parsed, figure.libs, figure.benchmarks[m])
         /\ \A cell : IsCell(parsed, figure.libs, figure.benchmarks, cell)
                      /\ cell.lib = lib /\ cell.bench = figure.benchmarks[m] =>
              Len(cell.rows) = Rows /\ DOMAIN cell.rows = 1 .. Rows
<1>1. PICK file, p, bench : file = current[lib] /\ p = Parsed[lib] /\ bench = figure.benchmarks[m]
  OBVIOUS
<1>2. figure \in Figures /\ ResultsExist /\ ~ParseDies /\ parsed = Parsed
  BY DEF Drawable
<1>3. lib \in STRING /\ file \in [DOMAIN figure.blocks -> BlockSet] /\ p = parse(Lines(lib, file)) /\ AllRows(file)
  BY <1>1, <1>2, FilesParsed
<1>4. PICK b \in 1 .. Len(figure.blocks) : bench = figure.blocks[b]
  BY <1>1, <1>2, FigureFacts
<1>5. PICK rows, kept : rows = RowsOf(p.entries, figure.blocks[b]) /\ kept = p.entries[figure.blocks[b]]
  OBVIOUS
<1>6. rows # <<>> /\ Len(rows) = Rows /\ DOMAIN rows = 1 .. Rows
  BY <1>2, <1>3, <1>5, CompleteRows
<1>7. RowsOf(parsed[lib].entries, bench) = rows
  BY <1>1, <1>2, <1>4, <1>5
<1> QED
  BY <1>1, <1>6, <1>7 DEF WithRows, HasRows, IsCell, Libs

\* pmembench loses rows at the end only.
LEMMA RowInPlace ==
  ASSUME figure \in Figures, figure.suite = "pmembench", NEW n, NEW file \in FileSet(n),
         NEW b \in 1 .. Len(figure.blocks), NEW cell, CellOf(cell, file, b),
         NEW q \in 1 .. Len(cell.rows)
  PROVE  cell.rows[q].x = q
<1>1. b \in DOMAIN figure.blocks
  BY FigureFacts
<1>2. PICK k \in 0 .. Rows : file[b].rows = 1 .. k
  BY <1>1 DEF FileSet
<1>3. file[b] \in BlockSet
  BY <1>1 DEF FileSet
<1>4. Len(Sorted(file[b])) = k /\ \A x \in 1 .. k : Sorted(file[b])[x] = x
  BY <1>2, <1>3, SortedPrefix
<1>5. q \in 1 .. k /\ q \in DOMAIN cell.rows
  BY <1>2, <1>4, BoundsAssumption DEF CellOf
<1>6. CellRow(cell, file, b, q)
  BY <1>5, RowOfCell
<1> QED
  BY <1>4, <1>5, <1>6 DEF CellRow

-----------------------------------------------------------------------------
(* The reference of a slowdown *)

LEMMA ImportedWhole ==
  ASSUME Drawable, ImportsDone, step \in {"draw", "clean"}, NEW lib \in Libs, HasAllRows(lib)
  PROVE  AllRows(current[lib])
<1>1. current[lib] = results[lib]
  BY DEF ImportsDone, Imported, HasAllRows
<1> QED
  BY <1>1 DEF HasAllRows, AllRows

\* A library that is drawn after pmdk has a pmdk of its benchmark before it.
LEMMA PmdkBefore ==
  ASSUME Drawable, AllRows(current["pmdk"]), NEW cells, cells = PlotCells, NEW i \in 1 .. Len(cells)
  PROVE  /\ \E m \in 1 .. Len(figure.benchmarks) : cells[i].bench = figure.benchmarks[m]
         /\ \E s \in 1 .. i : IsPmdk(cells[s]) /\ \A r \in s .. i : cells[r].bench = cells[i].bench
<1>1. figure \in Figures /\ figure.libs[1] = "pmdk" /\ "pmdk" \in Libs
  BY FigureFacts DEF Drawable
<1>2. PICK cell : cell = cells[i]
  OBVIOUS
<1>3. LaidOut(parsed, figure.libs, figure.benchmarks, cells)
  BY CellsDrawn
<1>4. IsCell(parsed, figure.libs, figure.benchmarks, cell)
  BY <1>2, <1>3 DEF LaidOut
<1>5. PICK m \in 1 .. Len(figure.benchmarks) : cell.bench = figure.benchmarks[m]
  BY <1>4, CellRows
<1>6. PICK lib : lib = "pmdk"
  OBVIOUS
<1>7. lib \in WithRows(parsed, figure.libs, figure.benchmarks[m])
  BY <1>1, <1>6, CompleteCells
<1>8. figure.libs[1] \in WithRows(parsed, figure.libs, cells[i].bench)
  BY <1>1, <1>2, <1>5, <1>6, <1>7
<1>9. \E s \in 1 .. i : /\ cells[s].lib = figure.libs[1]
                        /\ \A r \in s .. i : cells[r].bench = cells[i].bench
  BY <1>3, <1>8 DEF LaidOut
<1> QED
  BY <1>1, <1>2, <1>5, <1>9 DEF IsPmdk

\* The last pmdk is of the benchmark that is drawn, and has all rows.
LEMMA ReferenceIsPmdk ==
  ASSUME Drawable, AllRows(current["pmdk"]), NEW cells, cells = PlotCells, NEW i \in 1 .. Len(cells),
         NEW j \in 1 .. i, IsPmdk(cells[j]), \A k \in 1 .. i : IsPmdk(cells[k]) => k <= j
  PROVE  /\ j \in 1 .. Len(cells) /\ cells[j].bench = cells[i].bench
         /\ Len(cells[j].rows) = Rows
<1>1. Len(cells) \in Nat /\ LaidOut(parsed, figure.libs, figure.benchmarks, cells)
  BY CellsDrawn DEF WithPositions
<1>2. j \in 1 .. Len(cells)
  BY <1>1
<1>3. PICK s \in 1 .. i : IsPmdk(cells[s]) /\ \A r \in s .. i : cells[r].bench = cells[i].bench
  BY PmdkBefore
<1>4. j \in s .. i
  BY <1>1, <1>3
<1>5. cells[j].bench = cells[i].bench
  BY <1>3, <1>4
<1>6. PICK m \in 1 .. Len(figure.benchmarks) : cells[i].bench = figure.benchmarks[m]
  BY PmdkBefore
<1>7. PICK cell, lib : cell = cells[j] /\ lib = "pmdk"
  OBVIOUS
<1>8. IsCell(parsed, figure.libs, figure.benchmarks, cell)
  BY <1>1, <1>2, <1>7 DEF LaidOut
<1>9. cell.lib = lib /\ cell.bench = figure.benchmarks[m]
  BY <1>5, <1>6, <1>7 DEF IsPmdk
<1>10. lib \in Libs /\ AllRows(current[lib])
  BY <1>7, FigureFacts DEF Drawable
<1>11. Len(cell.rows) = Rows
  BY <1>8, <1>9, <1>10, CompleteCells
<1> QED
  BY <1>2, <1>5, <1>7, <1>11

\* The label of a position is that of the row of the last library there.
LEMMA Ticks ==
  ASSUME Drawable, figure.suite = "pmembench", NEW cells, cells = PlotCells, NEW i \in 1 .. Len(cells),
         NEW p \in Nat \ {0}, NEW row, NEW reference, NEW bar, bar = Bar(cells, i, p, row, reference)
  PROVE  bar.tick \in {0, p}
<1>1. /\ DOMAIN cells = 1 .. Len(cells) /\ LaidOut(parsed, figure.libs, figure.benchmarks, cells)
      /\ \A l \in 1 .. Len(cells) : /\ cells[l].lib \in Libs /\ Len(cells[l].rows) \in Nat
                                    /\ \E b \in 1 .. Len(figure.blocks) : CellOf(cells[l], current[cells[l].lib], b)
  BY CellsDrawn DEF WithPositions
<1>2. PICK l : l = CHOOSE j \in DOMAIN cells : cells[j].bench = cells[i].bench /\ cells[j].lib = cells[i].last
  OBVIOUS
<1>3. l \in 1 .. Len(cells)
  <2>0. LaidOut(parsed, figure.libs, figure.benchmarks, cells)
    BY <1>1
  <2>1. \E j \in 1 .. Len(cells) : cells[j].bench = cells[i].bench /\ cells[j].lib = cells[i].last
    BY <2>0 DEF LaidOut
  <2> QED
    BY <1>1, <1>2, <2>1
<1>4. bar.tick = IF p <= Len(cells[l].rows) THEN cells[l].rows[p].x ELSE 0
  BY <1>2 DEF Bar
<1>5. CASE p <= Len(cells[l].rows)
  <2>1. PICK cell, lib, file, n :
          cell = cells[l] /\ lib = cells[l].lib /\ file = current[cells[l].lib] /\ n = executions
    OBVIOUS
  <2>2. lib \in Libs /\ Len(cell.rows) \in Nat
    BY <1>1, <1>3, <2>1
  <2>3. PICK b \in 1 .. Len(figure.blocks) : CellOf(cell, file, b)
    BY <1>1, <1>3, <2>1
  <2>4. figure \in Figures /\ file \in FileSet(n)
    BY <2>1, <2>2, FilesParsed DEF Drawable
  <2>5. p \in 1 .. Len(cell.rows)
    BY <1>5, <2>1, <2>2
  <2>6. cell.rows[p].x = p
    BY <2>3, <2>4, <2>5, RowInPlace
  <2> QED
    BY <1>4, <1>5, <2>1, <2>6
<1>6. CASE ~(p <= Len(cells[l].rows))
  BY <1>4, <1>6
<1> QED
  BY <1>5, <1>6

LEMMA Comparable == PlotInv => ComparableToPmdk
<1> SUFFICES ASSUME PlotInv, HasAllRows("pmdk"), NEW bar \in Slowdowns
             PROVE  /\ bar.reference.bench = bar.bench
                    /\ figure.suite = "pmembench" =>
                         /\ bar.reference.x = bar.row.x /\ bar.row.x = bar.position
                         /\ bar.tick \in {0, bar.position}
  BY DEF ComparableToPmdk
<1>1. bar \in SavedBars /\ bar.reference # NoLine
  BY DEF Slowdowns
<1>2. Drawable /\ step \in {"draw", "clean"} /\ ImportsDone /\ figure \in Figures
  BY <1>1, BarsDrawn DEF PlotInv, Drawable
<1>3. PICK cells : /\ cells = PlotCells
                   /\ \/ \E i, p : AbsBar(cells, bar, i, p)
                      \/ \E i, j, p, q : SlowBar(cells, bar, i, j, p, q)
  BY <1>1, BarsDrawn
<1>4. \A i, p : ~AbsBar(cells, bar, i, p)
  <2> SUFFICES ASSUME NEW i, NEW p, AbsBar(cells, bar, i, p) PROVE FALSE
    OBVIOUS
  <2>1. bar = Bar(cells, i, p, cells[i].rows[p], NoLine)
    BY DEF AbsBar
  <2>2. bar.reference = NoLine
    BY <2>1, BarFields
  <2> QED
    BY <1>1, <2>2
<1>5. PICK i, j, p, q : SlowBar(cells, bar, i, j, p, q)
  BY <1>3, <1>4
<1>6. /\ i \in 1 .. Len(cells) /\ j \in 1 .. i
      /\ IsPmdk(cells[j]) /\ \A k \in 1 .. i : IsPmdk(cells[k]) => k <= j
      /\ p \in DOMAIN cells[i].rows /\ q \in DOMAIN cells[i].rows /\ q \in DOMAIN cells[j].rows
      /\ q = IF Len(cells[j].rows) = 1 THEN 1 ELSE p
      /\ bar = Bar(cells, i, p, cells[i].rows[q], cells[j].rows[q])
  BY <1>5 DEF SlowBar
<1>7. /\ bar.bench = cells[i].bench /\ bar.lib = cells[i].lib /\ bar.position = p
      /\ bar.row = cells[i].rows[q] /\ bar.reference = cells[j].rows[q]
  BY <1>6, BarFields
<1>8. "pmdk" \in Libs /\ \A l \in 1 .. Len(cells) : cells[l].lib \in Libs
  BY <1>2, <1>3, CellsDrawn, FigureFacts
<1>9. AllRows(current["pmdk"])
  <2>1. PICK lib : lib = "pmdk"
    OBVIOUS
  <2>2. AllRows(current[lib])
    BY <1>2, <1>8, <2>1, ImportedWhole
  <2> QED
    BY <2>1, <2>2
<1>10. j \in 1 .. Len(cells) /\ cells[j].bench = cells[i].bench /\ Len(cells[j].rows) = Rows
  BY <1>2, <1>3, <1>6, <1>9, ReferenceIsPmdk
<1>11. PICK ci, fi, cj, fj : /\ ci = cells[i] /\ fi = current[cells[i].lib]
                             /\ cj = cells[j] /\ fj = current[cells[j].lib]
  OBVIOUS
<1>12. /\ \E b \in 1 .. Len(figure.blocks) : CellOf(ci, fi, b)
       /\ \E b \in 1 .. Len(figure.blocks) : CellOf(cj, fj, b)
  BY <1>2, <1>3, <1>6, <1>10, <1>11, CellsDrawn
<1>13. PICK bi \in 1 .. Len(figure.blocks) : CellOf(ci, fi, bi)
  BY <1>12
<1>14. PICK bj \in 1 .. Len(figure.blocks) : CellOf(cj, fj, bj)
  BY <1>12
<1>15. bar.reference.bench = bar.bench
  <2>1. CellRow(cj, fj, bj, q)
    BY <1>6, <1>11, <1>14, RowOfCell
  <2> QED
    BY <1>7, <1>10, <1>11, <2>1 DEF CellRow
<1>16. ASSUME figure.suite = "pmembench"
       PROVE  /\ bar.reference.x = bar.row.x /\ bar.row.x = bar.position
              /\ bar.tick \in {0, bar.position}
  <2>1. PICK n, li, lj : n = executions /\ li = cells[i].lib /\ lj = cells[j].lib
    OBVIOUS
  <2>2. fi \in FileSet(n) /\ fj \in FileSet(n)
    <3>1. li \in Libs /\ lj \in Libs /\ fi = current[li] /\ fj = current[lj]
      BY <1>6, <1>8, <1>10, <1>11, <2>1
    <3> QED
      BY <1>2, <2>1, <3>1, FilesParsed DEF Drawable
  <2>3. /\ Len(ci.rows) \in Nat /\ q \in 1 .. Len(ci.rows) /\ q \in 1 .. Len(cj.rows) /\ p \in 1 .. Len(ci.rows)
        /\ Len(ci.rows) <= Len(Sorted(fi[bi]))
    BY <1>6, <1>11, <1>13, <1>14 DEF CellOf
  <2>4. ci.rows[q].x = q /\ cj.rows[q].x = q
    BY <1>2, <1>13, <1>14, <1>16, <2>2, <2>3, RowInPlace
  <2>5. p = q
    <3>1. Len(ci.rows) <= Rows
      <4>1. fi[bi] \in BlockSet
        BY <1>2, <1>13, <2>2, FigureFacts DEF FileSet
      <4>2. Len(Sorted(fi[bi])) <= Rows /\ Len(Sorted(fi[bi])) \in Nat
        BY <4>1, SortedRows
      <4> QED
        BY <2>3, <4>2, BoundsAssumption
    <3>2. CASE Rows = 1
      BY <1>6, <1>10, <2>3, <3>1, <3>2
    <3>3. CASE Rows # 1
      BY <1>6, <1>10, <3>3
    <3> QED
      BY <3>2, <3>3
  <2>6. bar.tick \in {0, p}
    <3>1. p \in Nat \ {0}
      BY <2>3
    <3>2. PICK row, reference : row = cells[i].rows[q] /\ reference = cells[j].rows[q]
      OBVIOUS
    <3>3. bar = Bar(cells, i, p, row, reference)
      BY <1>6, <3>2
    <3> QED
      BY <1>2, <1>3, <1>6, <1>16, <3>1, <3>3, Ticks
  <2> QED
    BY <1>7, <1>11, <2>4, <2>5, <2>6
<1> QED
  BY <1>15, <1>16

\* Relative to a complete result of pmdk, a slowdown is of one benchmark, and
\* in pmembench of one row, whatever is damaged in the other results
\* (plotters.py:486-496).
THEOREM SlowdownsComparable == Spec => []ComparableToPmdk
BY PlotsAreOfResults, Comparable, PTL

-----------------------------------------------------------------------------
(* The figure of results that have all rows *)

Whole ==
  /\ Drawable
  /\ \A lib \in Libs : results[lib] # NoFile /\ current[lib] = results[lib] /\ AllRows(current[lib])

LEMMA ExecutionIs ==
  ASSUME figure \in Figures, NEW lib, results[lib] # NoFile, NEW b \in 1 .. Len(figure.blocks),
         NEW bench, figure.blocks[b] = bench
  PROVE  ExecutionOf(lib, bench) = results[lib][b].n
<1>1. \A c \in DOMAIN figure.blocks : figure.blocks[c] = bench <=> c = b
  BY FigureFacts
<1>2. b \in DOMAIN figure.blocks
  BY FigureFacts
<1>3. (CHOOSE c \in DOMAIN figure.blocks : figure.blocks[c] = bench) = b
  BY <1>1, <1>2
<1> QED
  BY <1>3 DEF ExecutionOf

WholeRow(lib, bench, x) == Line("row", lib, ExecutionOf(lib, bench), bench, x)

LEMMA WholeCells ==
  ASSUME Whole, NEW cells, cells = PlotCells, NEW i \in 1 .. Len(cells)
  PROVE  /\ cells[i].lib \in Libs /\ \E m \in 1 .. Len(figure.benchmarks) : cells[i].bench = figure.benchmarks[m]
         /\ Len(cells[i].rows) = Rows /\ DOMAIN cells[i].rows = 1 .. Rows
         /\ \A x \in 1 .. Rows : cells[i].rows[x] = WholeRow(cells[i].lib, cells[i].bench, x)
<1>1. PICK cell, lib, bench, file :
        cell = cells[i] /\ lib = cells[i].lib /\ bench = cells[i].bench /\ file = current[cells[i].lib]
  OBVIOUS
<1>2. Drawable /\ figure \in Figures
  BY DEF Whole, Drawable
<1>3. LaidOut(parsed, figure.libs, figure.benchmarks, cells)
  BY <1>2, CellsDrawn
<1>4. IsCell(parsed, figure.libs, figure.benchmarks, cell)
  BY <1>1, <1>3 DEF LaidOut
<1>5. lib \in Libs /\ (\E m \in 1 .. Len(figure.benchmarks) : bench = figure.benchmarks[m])
      /\ \E b \in 1 .. Len(figure.blocks) : CellOf(cell, file, b)
  BY <1>1, <1>2, <1>4, CellRows
<1>6. PICK m \in 1 .. Len(figure.benchmarks) : bench = figure.benchmarks[m]
  BY <1>5
<1>7. PICK b \in 1 .. Len(figure.blocks) : CellOf(cell, file, b)
  BY <1>5
<1>8. results[lib] # NoFile /\ file = results[lib] /\ AllRows(current[lib]) /\ AllRows(file)
  BY <1>1, <1>5 DEF Whole
<1>9. cell.lib = lib /\ cell.bench = bench
  BY <1>1
<1>10. Len(cell.rows) = Rows /\ DOMAIN cell.rows = 1 .. Rows
  BY <1>2, <1>4, <1>5, <1>6, <1>8, <1>9, CompleteCells
<1>11. file \in [DOMAIN figure.blocks -> BlockSet]
  BY <1>1, <1>2, <1>5, FilesParsed DEF Drawable
<1>12. \A x \in 1 .. Rows : Sorted(file[b])[x] = x
  BY <1>2, <1>8, <1>11, CompleteSizes
<1>13. figure.blocks[b] = bench
  BY <1>7, <1>9 DEF CellOf
<1>14. ExecutionOf(lib, bench) = file[b].n
  BY <1>2, <1>8, <1>13, ExecutionIs
<1>15. \A x \in 1 .. Rows : cell.rows[x] = Line("row", cell.lib, file[b].n, cell.bench, Sorted(file[b])[x])
  BY <1>7, <1>10 DEF CellOf
<1>16. \A x \in 1 .. Rows : cell.rows[x] = WholeRow(lib, bench, x)
  BY <1>9, <1>12, <1>14, <1>15 DEF WholeRow
<1> QED
  BY <1>1, <1>5, <1>10, <1>16

\* The bar of a library at position x.
WholeBar(bench, lib, x, reference) ==
  [bench |-> bench, lib |-> lib, position |-> x, tick |-> x, row |-> WholeRow(lib, bench, x),
   reference |-> reference]

LEMMA WholeBars ==
  ASSUME Whole, NEW cells, cells = PlotCells, NEW i \in 1 .. Len(cells), NEW p \in 1 .. Rows, NEW reference
  PROVE  Bar(cells, i, p, cells[i].rows[p], reference) = WholeBar(cells[i].bench, cells[i].lib, p, reference)
<1>1. Drawable
  BY DEF Whole
<1>2. DOMAIN cells = 1 .. Len(cells) /\ LaidOut(parsed, figure.libs, figure.benchmarks, cells)
  BY <1>1, CellsDrawn DEF WithPositions
<1>3. PICK l : l = CHOOSE j \in DOMAIN cells : cells[j].bench = cells[i].bench /\ cells[j].lib = cells[i].last
  OBVIOUS
<1>4. l \in 1 .. Len(cells)
  <2>1. LaidOut(parsed, figure.libs, figure.benchmarks, cells)
    BY <1>2
  <2>2. \E j \in 1 .. Len(cells) : cells[j].bench = cells[i].bench /\ cells[j].lib = cells[i].last
    BY <2>1 DEF LaidOut
  <2> QED
    BY <1>2, <1>3, <2>2
<1>5. Len(cells[l].rows) = Rows /\ cells[l].rows[p] = WholeRow(cells[l].lib, cells[l].bench, p)
      /\ cells[i].rows[p] = WholeRow(cells[i].lib, cells[i].bench, p)
  BY <1>4, WholeCells
<1>6. PICK row, tick, bench, lib :
        /\ row = cells[i].rows[p] /\ tick = IF p <= Len(cells[l].rows) THEN cells[l].rows[p].x ELSE 0
        /\ bench = cells[i].bench /\ lib = cells[i].lib
  OBVIOUS
<1>7. cells[l].rows[p].x = p
  BY <1>5 DEF WholeRow, Line
<1>8. tick = p /\ row = WholeRow(lib, bench, p)
  <2>1. p <= Rows
    BY BoundsAssumption
  <2> QED
    BY <1>5, <1>6, <1>7, <2>1
<1>9. Bar(cells, i, p, row, reference)
        = [bench |-> bench, lib |-> lib, position |-> p, row |-> row, reference |-> reference, tick |-> tick]
  BY <1>3, <1>6 DEF Bar
<1>10. [bench |-> bench, lib |-> lib, position |-> p, row |-> row, reference |-> reference, tick |-> tick]
         = WholeBar(bench, lib, p, reference)
  BY <1>8 DEF WholeBar
<1> QED
  BY <1>6, <1>9, <1>10

LEMMA WholeCellOf ==
  ASSUME Whole, NEW cells, cells = PlotCells, NEW lib \in Libs, NEW bench \in ToSet(figure.benchmarks)
  PROVE  \E i \in 1 .. Len(cells) : cells[i].bench = bench /\ cells[i].lib = lib
<1>1. Drawable /\ figure \in Figures /\ AllRows(current[lib])
  BY DEF Whole, Drawable
<1>2. PICK m \in 1 .. Len(figure.benchmarks) : bench = figure.benchmarks[m]
  BY <1>1, FigureFacts DEF ToSet
<1>3. lib \in WithRows(parsed, figure.libs, figure.benchmarks[m])
  BY <1>1, CompleteCells
<1>4. LaidOut(parsed, figure.libs, figure.benchmarks, cells)
  BY <1>1, CellsDrawn
<1> QED
  BY <1>2, <1>3, <1>4 DEF LaidOut

WantedLibs(plot) == IF plot.slowdown THEN Libs \ {"pmdk"} ELSE Libs
WantedReference(plot, bench, x) == IF plot.slowdown THEN WholeRow("pmdk", bench, x) ELSE NoLine

LEMMA WantedBars ==
  ASSUME NEW plot, NEW bar
  PROVE  bar \in Wanted(plot) <=>
           \E bench \in ToSet(figure.benchmarks), x \in 1 .. Rows, lib \in WantedLibs(plot) :
             bar = WholeBar(bench, lib, x, WantedReference(plot, bench, x))
<1> DEFINE That(bench, x, lib) ==
             [bench |-> bench, lib |-> lib, position |-> x, tick |-> x,
              row |-> Line("row", lib, ExecutionOf(lib, bench), bench, x),
              reference |-> IF plot.slowdown THEN Line("row", "pmdk", ExecutionOf("pmdk", bench), bench, x)
                            ELSE NoLine]
<1>1. \A bench, x, lib : That(bench, x, lib) = WholeBar(bench, lib, x, WantedReference(plot, bench, x))
  BY DEF WholeBar, WholeRow, WantedReference
<1>2. Wanted(plot) = {That(bench, x, lib) : bench \in ToSet(figure.benchmarks), x \in 1 .. Rows,
                                            lib \in WantedLibs(plot)}
  BY DEF Wanted, WantedLibs
<1> HIDE DEF That
<1>3. bar \in Wanted(plot) <=>
        \E bench \in ToSet(figure.benchmarks), x \in 1 .. Rows, lib \in WantedLibs(plot) : bar = That(bench, x, lib)
  BY <1>2
<1> QED
  BY <1>1, <1>3

LEMMA WholeAbsolute ==
  ASSUME Whole, NEW cells, cells = PlotCells, NEW plot, ~plot.slowdown
  PROVE  AbsoluteBars(cells) = Wanted(plot)
<1>1. WithPositions(cells) /\ figure \in Figures /\ WantedLibs(plot) = Libs
      /\ \A bench, x : WantedReference(plot, bench, x) = NoLine
  BY CellsDrawn DEF Whole, Drawable, WantedLibs, WantedReference
<1>2. ASSUME NEW bar \in AbsoluteBars(cells) PROVE bar \in Wanted(plot)
  <2>1. PICK i, p : AbsBar(cells, bar, i, p)
    BY <1>1, <1>2, AbsBars
  <2>2. i \in 1 .. Len(cells) /\ p \in DOMAIN cells[i].rows /\ bar = Bar(cells, i, p, cells[i].rows[p], NoLine)
    BY <2>1 DEF AbsBar
  <2>3. cells[i].lib \in Libs /\ p \in 1 .. Rows /\ cells[i].bench \in ToSet(figure.benchmarks)
    <3>1. PICK m \in 1 .. Len(figure.benchmarks) : cells[i].bench = figure.benchmarks[m]
      BY <2>2, WholeCells
    <3>2. cells[i].bench \in ToSet(figure.benchmarks)
      BY <1>1, <3>1, FigureFacts DEF ToSet
    <3> QED
      BY <2>2, <3>2, WholeCells
  <2>4. bar = WholeBar(cells[i].bench, cells[i].lib, p, NoLine)
    BY <2>2, <2>3, WholeBars
  <2> QED
    BY <1>1, <2>3, <2>4, WantedBars
<1>3. ASSUME NEW bar \in Wanted(plot) PROVE bar \in AbsoluteBars(cells)
  <2>1. PICK bench \in ToSet(figure.benchmarks), x \in 1 .. Rows, lib \in Libs :
          bar = WholeBar(bench, lib, x, NoLine)
    BY <1>1, <1>3, WantedBars
  <2>2. PICK i \in 1 .. Len(cells) : cells[i].bench = bench /\ cells[i].lib = lib
    BY WholeCellOf
  <2>3. Bar(cells, i, x, cells[i].rows[x], NoLine) = bar /\ x \in DOMAIN cells[i].rows
    BY <2>1, <2>2, WholeBars, WholeCells
  <2>4. AbsBar(cells, bar, i, x)
    BY <2>2, <2>3 DEF AbsBar
  <2> QED
    BY <1>1, <2>4, AbsBars
<1> QED
  BY <1>2, <1>3

\* The reference of a library that is not pmdk.
LEMMA WholeReference ==
  ASSUME Whole, NEW cells, cells = PlotCells, NEW i \in 1 .. Len(cells)
  PROVE  /\ References(cells, i) # {} /\ Len(Reference(cells, i)) = Rows
         /\ \A x \in 1 .. Rows : Reference(cells, i)[x] = WholeRow("pmdk", cells[i].bench, x)
<1>1. Drawable /\ AllRows(current["pmdk"]) /\ Len(cells) \in Nat
  <2>1. "pmdk" \in Libs
    BY FigureFacts DEF Whole, Drawable
  <2> QED
    BY <2>1, CellsDrawn DEF Whole, WithPositions
<1>2. PICK s \in 1 .. i : IsPmdk(cells[s])
  BY <1>1, PmdkBefore
<1>3. References(cells, i) # {}
  BY <1>2 DEF References
<1>4. PICK j \in 1 .. i : /\ IsPmdk(cells[j]) /\ \A k \in 1 .. i : IsPmdk(cells[k]) => k <= j
                          /\ Reference(cells, i) = cells[j].rows
  BY <1>1, <1>3, LastReference
<1>5. j \in 1 .. Len(cells) /\ cells[j].bench = cells[i].bench /\ Len(cells[j].rows) = Rows
  BY <1>1, <1>4, ReferenceIsPmdk
<1>6. \A x \in 1 .. Rows : cells[j].rows[x] = WholeRow("pmdk", cells[i].bench, x)
  BY <1>4, <1>5, WholeCells DEF IsPmdk
<1> QED
  BY <1>3, <1>4, <1>5, <1>6

LEMMA WholeSlowdown ==
  ASSUME Whole, NEW cells, cells = PlotCells, NEW plot, plot.slowdown
  PROVE  SlowdownBars(cells) = Wanted(plot)
<1> DEFINE At(reference, p) == IF Len(reference) = 1 THEN 1 ELSE p
           Of(i) == {Bar(cells, i, p, cells[i].rows[At(Reference(cells, i), p)],
                         Reference(cells, i)[At(Reference(cells, i), p)]) : p \in DOMAIN cells[i].rows}
<1>1. SlowdownBars(cells) = UNION {Of(i) : i \in {j \in DOMAIN cells : ~IsPmdk(cells[j])}}
  BY DEF SlowdownBars
<1>2. DOMAIN cells = 1 .. Len(cells) /\ figure \in Figures /\ WantedLibs(plot) = Libs \ {"pmdk"}
      /\ \A bench, x : WantedReference(plot, bench, x) = WholeRow("pmdk", bench, x)
  BY CellsDrawn DEF Whole, Drawable, WithPositions, WantedLibs, WantedReference
<1>3. ASSUME NEW i \in 1 .. Len(cells), NEW bar
      PROVE  bar \in Of(i) <=> \E x \in 1 .. Rows :
               bar = WholeBar(cells[i].bench, cells[i].lib, x, WholeRow("pmdk", cells[i].bench, x))
  <2>1. PICK reference : reference = Reference(cells, i)
    OBVIOUS
  <2>2. /\ DOMAIN cells[i].rows = 1 .. Rows /\ Len(reference) = Rows
        /\ \A x \in 1 .. Rows : reference[x] = WholeRow("pmdk", cells[i].bench, x)
    BY <2>1, WholeCells, WholeReference
  <2>3. \A x \in 1 .. Rows : At(reference, x) = x
    BY <2>2
  <2>4. \A x \in 1 .. Rows :
          Bar(cells, i, x, cells[i].rows[At(reference, x)], reference[At(reference, x)])
            = WholeBar(cells[i].bench, cells[i].lib, x, WholeRow("pmdk", cells[i].bench, x))
    <3> SUFFICES ASSUME NEW x \in 1 .. Rows
                 PROVE  Bar(cells, i, x, cells[i].rows[At(reference, x)], reference[At(reference, x)])
                          = WholeBar(cells[i].bench, cells[i].lib, x, WholeRow("pmdk", cells[i].bench, x))
      OBVIOUS
    <3>1. PICK row : row = WholeRow("pmdk", cells[i].bench, x)
      OBVIOUS
    <3>2. Bar(cells, i, x, cells[i].rows[x], row) = WholeBar(cells[i].bench, cells[i].lib, x, row)
      BY WholeBars
    <3> QED
      BY <2>2, <2>3, <3>1, <3>2
  <2>5. bar \in Of(i) <=> \E x \in 1 .. Rows :
          bar = Bar(cells, i, x, cells[i].rows[At(reference, x)], reference[At(reference, x)])
    BY <2>1, <2>2
  <2> QED
    BY <2>4, <2>5
<1> HIDE DEF Of
<1>4. ASSUME NEW bar \in SlowdownBars(cells) PROVE bar \in Wanted(plot)
  <2>1. PICK i \in 1 .. Len(cells) : ~IsPmdk(cells[i]) /\ bar \in Of(i)
    BY <1>1, <1>2, <1>4
  <2>2. PICK x \in 1 .. Rows :
          bar = WholeBar(cells[i].bench, cells[i].lib, x, WholeRow("pmdk", cells[i].bench, x))
    BY <1>3, <2>1
  <2>3. cells[i].lib \in Libs \ {"pmdk"} /\ cells[i].bench \in ToSet(figure.benchmarks)
    <3>1. PICK m \in 1 .. Len(figure.benchmarks) : cells[i].bench = figure.benchmarks[m]
      BY WholeCells
    <3>2. cells[i].bench \in ToSet(figure.benchmarks)
      BY <1>2, <3>1, FigureFacts DEF ToSet
    <3> QED
      BY <2>1, <3>2, WholeCells DEF IsPmdk
  <2> QED
    BY <1>2, <2>2, <2>3, WantedBars
<1>5. ASSUME NEW bar \in Wanted(plot) PROVE bar \in SlowdownBars(cells)
  <2>1. PICK bench \in ToSet(figure.benchmarks), x \in 1 .. Rows, lib \in Libs \ {"pmdk"} :
          bar = WholeBar(bench, lib, x, WholeRow("pmdk", bench, x))
    BY <1>2, <1>5, WantedBars
  <2>2. PICK i \in 1 .. Len(cells) : cells[i].bench = bench /\ cells[i].lib = lib
    BY WholeCellOf
  <2>3. bar \in Of(i) /\ ~IsPmdk(cells[i])
    BY <1>3, <2>1, <2>2 DEF IsPmdk
  <2> QED
    BY <1>1, <1>2, <2>2, <2>3
<1> QED
  BY <1>4, <1>5

-----------------------------------------------------------------------------
(* Results that have all rows end no plot *)

LEMMA DistinctElements ==
  ASSUME NEW T, NEW s \in Seq(T), IsInjective(s)
  PROVE  IsFiniteSet(ToSet(s)) /\ Cardinality(ToSet(s)) = Len(s)
<1>1. PICK n, S : n = Len(s) /\ S = ToSet(s)
  OBVIOUS
<1>2. n \in Nat /\ DOMAIN s = 1 .. n /\ S = {s[i] : i \in 1 .. n}
  BY <1>1 DEF ToSet
<1>3. s \in [1 .. n -> S] /\ (\A x \in S : \E i \in 1 .. n : s[i] = x)
      /\ \A i, j \in 1 .. n : s[i] = s[j] => i = j
  <2>1. s = [i \in 1 .. n |-> s[i]] /\ \A i \in 1 .. n : s[i] \in S
    BY <1>1, <1>2
  <2>2. s \in [1 .. n -> S]
    BY <2>1
  <2>3. \A x \in S : \E i \in 1 .. n : s[i] = x
    BY <1>2
  <2>4. \A i, j \in 1 .. n : s[i] = s[j] => i = j
    BY <1>2 DEF IsInjective
  <2> QED
    BY <2>2, <2>3, <2>4
<1>4. s \in Bijection(1 .. n, S)
  BY <1>3 DEF Bijection, Injection, Surjection, IsInjective
<1>5. ExistsBijection(1 .. n, S)
  BY <1>4 DEF ExistsBijection
<1>6. IsFiniteSet(1 .. n) /\ Cardinality(1 .. n) = n
  <2>1. 1 \in Int /\ n \in Int
    BY <1>2
  <2>2. IsFiniteSet(1 .. n) /\ Cardinality(1 .. n) = IF 1 > n THEN 0 ELSE n - 1 + 1
    BY <2>1, FS_Interval
  <2> QED
    BY <1>2, <2>2
<1>7. IsFiniteSet(S) /\ Cardinality(S) = n
  BY <1>5, <1>6, FS_Bijection
<1> QED
  BY <1>1, <1>7

LEMMA WholeDrawn ==
  ASSUME Whole, NEW cells, cells = PlotCells
  PROVE  Cardinality(Drawn(cells)) = Len(figure.benchmarks)
<1>1. figure \in Figures /\ DOMAIN cells = 1 .. Len(cells)
  BY CellsDrawn DEF Whole, Drawable, WithPositions
<1>2. PICK T, s : T = ToSet(figure.blocks) /\ s = figure.benchmarks
  OBVIOUS
<1>3. s \in Seq(T) /\ IsInjective(s)
  BY <1>1, <1>2, FiguresAssumption
<1>4. Cardinality(ToSet(s)) = Len(s)
  BY <1>3, DistinctElements
<1>5. \A bench : bench \in Drawn(cells) <=> bench \in ToSet(s)
  <2> SUFFICES ASSUME NEW bench PROVE bench \in Drawn(cells) <=> bench \in ToSet(s)
    OBVIOUS
  <2>1. ASSUME bench \in Drawn(cells) PROVE bench \in ToSet(s)
    <3>1. PICK i \in 1 .. Len(cells) : bench = cells[i].bench
      BY <1>1, <2>1 DEF Drawn
    <3>2. PICK m \in 1 .. Len(figure.benchmarks) : cells[i].bench = figure.benchmarks[m]
      BY WholeCells
    <3> QED
      BY <1>1, <1>2, <3>1, <3>2, FigureFacts DEF ToSet
  <2>2. ASSUME bench \in ToSet(s) PROVE bench \in Drawn(cells)
    <3>1. PICK lib : lib = "pmdk" /\ lib \in Libs
      BY <1>1, FigureFacts
    <3>2. PICK i \in 1 .. Len(cells) : cells[i].bench = bench
      BY <1>2, <2>2, <3>1, WholeCellOf
    <3> QED
      BY <1>1, <3>2 DEF Drawn
  <2> QED
    BY <2>1, <2>2
<1>6. Drawn(cells) = ToSet(s)
  BY <1>5
<1> QED
  BY <1>2, <1>4, <1>6

\* No benchmark has the axes for pmdk alone.
LEMMA WholeGroups ==
  ASSUME Whole, NEW cells, cells = PlotCells, NEW bench \in Drawn(cells)
  PROVE  Cardinality({i \in DOMAIN cells : cells[i].bench = bench}) # 1
<1>1. /\ figure \in Figures /\ Len(cells) \in Nat /\ DOMAIN cells = 1 .. Len(cells)
      /\ bench \in ToSet(figure.benchmarks)
  <2>1. figure \in Figures /\ Len(cells) \in Nat /\ DOMAIN cells = 1 .. Len(cells)
    BY CellsDrawn DEF Whole, Drawable, WithPositions
  <2>2. PICK i \in 1 .. Len(cells) : bench = cells[i].bench
    BY <2>1 DEF Drawn
  <2>3. PICK m \in 1 .. Len(figure.benchmarks) : cells[i].bench = figure.benchmarks[m]
    BY WholeCells
  <2> QED
    BY <2>1, <2>2, <2>3, FigureFacts DEF ToSet
<1>2. PICK n, S : n = Len(cells) /\ S = {i \in DOMAIN cells : cells[i].bench = bench}
  OBVIOUS
<1>3. S \subseteq 1 .. n /\ IsFiniteSet(S)
  <2>1. S \subseteq 1 .. n /\ n \in Int /\ 1 \in Int
    BY <1>1, <1>2
  <2>2. IsFiniteSet(1 .. n)
    BY <2>1, FS_Interval
  <2>3. IsFiniteSet(S)
    BY <2>1, <2>2, FS_Subset
  <2> QED
    BY <2>1, <2>3
<1>4. PICK a, b : a = figure.libs[1] /\ b = figure.libs[2] /\ a # b /\ a \in Libs /\ b \in Libs
  <2>1. 1 \in 1 .. Len(figure.libs) /\ 2 \in 1 .. Len(figure.libs) /\ 1 # 2
    BY <1>1, FigureFacts
  <2>2. figure.libs[1] # figure.libs[2]
    BY <1>1, <2>1, FigureFacts
  <2>3. figure.libs[1] \in Libs /\ figure.libs[2] \in Libs
    BY <1>1, <2>1, Libraries
  <2> QED
    BY <2>2, <2>3
<1>5. PICK i \in 1 .. n : cells[i].bench = bench /\ cells[i].lib = a
  BY <1>1, <1>2, <1>4, WholeCellOf
<1>6. PICK j \in 1 .. n : cells[j].bench = bench /\ cells[j].lib = b
  BY <1>1, <1>2, <1>4, WholeCellOf
<1>7. i \in S /\ j \in S /\ i # j
  BY <1>1, <1>2, <1>4, <1>5, <1>6
<1>8. ~\E x : S = {x}
  BY <1>7
<1>9. Cardinality(S) # 1
  BY <1>3, <1>8, FS_Singleton
<1> QED
  BY <1>2, <1>9

LEMMA WholeSurvives ==
  ASSUME Whole, NEW k \in 1 .. Len(figure.plots)
  PROVE  ~DiesFor(figure.plots[k])
<1>1. PICK cells, plot : cells = PlotCells /\ plot = figure.plots[k]
  OBVIOUS
<1>2. figure \in Figures /\ CanAnalyse
  BY DEF Whole, Drawable
<1>3. plot.legend \in Nat /\ plot.legend < Len(figure.benchmarks) /\ Len(figure.benchmarks) \in Nat
  BY <1>1, <1>2, FigureFacts
<1>4. ~(Cardinality(Drawn(cells)) <= plot.legend)
  <2>1. Cardinality(Drawn(cells)) = Len(figure.benchmarks)
    BY <1>1, WholeDrawn
  <2> QED
    BY <1>3, <2>1
<1>5. ASSUME NEW bench \in Drawn(cells) PROVE Cardinality({i \in DOMAIN cells : cells[i].bench = bench}) # 1
  BY <1>1, <1>5, WholeGroups
<1>6. ASSUME NEW i \in DOMAIN cells
      PROVE  References(cells, i) # {} /\ Fits(Reference(cells, i), cells[i].rows)
  <2>1. i \in 1 .. Len(cells)
    BY <1>1, <1>6, CellsDrawn DEF Whole, WithPositions
  <2>2. References(cells, i) # {} /\ Len(Reference(cells, i)) = Rows /\ Len(cells[i].rows) = Rows
    BY <1>1, <2>1, WholeReference, WholeCells
  <2> QED
    BY <2>2, BoundsAssumption DEF Fits
<1>7. ~SlowdownDies(cells, plot.legend) /\ ~AbsoluteDies(cells, plot.legend)
  BY <1>4, <1>5, <1>6 DEF SlowdownDies, AbsoluteDies
<1> QED
  BY <1>1, <1>2, <1>7 DEF DiesFor

LEMMA WholeParsed ==
  ASSUME figure \in Figures, ResultsExist,
         \A lib \in Libs : current[lib] # NoFile /\ AllRows(current[lib])
  PROVE  ~ParseDies /\ (parsed = Parsed => CanAnalyse)
<1>1. ASSUME NEW lib \in Libs, NEW p, p = Parsed[lib], NEW b \in 1 .. Len(figure.blocks)
      PROVE  p.mode = "info" /\ Analysable(p.entries[figure.blocks[b]])
  <2>1. PICK file : file = current[lib]
    OBVIOUS
  <2>2. lib \in STRING /\ file \in [DOMAIN figure.blocks -> BlockSet] /\ AllRows(file)
    <3>1. file \in FileSet(executions)
      BY <2>1 DEF ResultsExist
    <3>2. lib \in STRING
      BY FigureFacts
    <3>3. file \in [DOMAIN figure.blocks -> BlockSet]
      BY <3>1 DEF FileSet
    <3> QED
      BY <2>1, <3>2, <3>3
  <2>3. p = parse(Lines(lib, file))
    BY <1>1, <2>1 DEF Parsed
  <2>4. PICK kept : kept = p.entries[figure.blocks[b]]
    OBVIOUS
  <2>5. p.mode = "info" /\ Analysable(kept)
    <3>1. PICK rows : rows = RowsOf(p.entries, figure.blocks[b])
      OBVIOUS
    <3> QED
      BY <2>2, <2>3, <2>4, <3>1, CompleteRows
  <2> QED
    BY <2>4, <2>5
<1>2. ~ParseDies
  <2> SUFFICES ASSUME NEW lib \in Libs PROVE current[lib] # NoFile /\ Parsed[lib].mode # "died"
    BY DEF ParseDies
  <2>1. PICK p : p = Parsed[lib]
    OBVIOUS
  <2>2. 1 \in 1 .. Len(figure.blocks)
    BY FigureFacts
  <2>3. p.mode = "info"
    BY <1>1, <2>1, <2>2
  <2> QED
    BY <2>1, <2>3
<1>3. ASSUME parsed = Parsed PROVE CanAnalyse
  <2> SUFFICES ASSUME NEW lib \in Libs, NEW bench \in Filtered(parsed[lib].entries, figure.benchmarks)
               PROVE  Analysable(parsed[lib].entries[bench])
    BY DEF CanAnalyse
  <2>1. PICK p : p = Parsed[lib]
    OBVIOUS
  <2>2. PICK m \in 1 .. Len(figure.benchmarks) : bench = figure.benchmarks[m]
    BY FigureFacts DEF Filtered, ToSet
  <2>3. PICK b \in 1 .. Len(figure.blocks) : bench = figure.blocks[b]
    BY <2>2, FigureFacts
  <2>4. Analysable(p.entries[figure.blocks[b]])
    BY <1>1, <2>1
  <2> QED
    BY <1>3, <2>1, <2>3, <2>4
<1> QED
  BY <1>2, <1>3

LEMMA CompleteFigures == PlotInv => CompleteFigure
<1> SUFFICES ASSUME PlotInv, \A lib \in Libs : HasAllRows(lib)
             PROVE  /\ \A i \in DOMAIN saved : saved[i] = Wanted(figure.plots[i])
                    /\ step = "generate" => ~ParseDies
                    /\ step = "draw" => ~PlotDies
                    /\ step = "clean" => Len(saved) = Len(figure.plots)
  BY DEF CompleteFigure
<1>1. /\ figure \in Figures /\ ResultsExist /\ PlotsDrawn
      /\ step \in {"generate", "draw", "clean"} => \A lib \in Libs : Imported(lib)
  BY DEF PlotInv, IInv, ImportsDone
<1>2. ASSUME step \in {"generate", "draw", "clean"}
      PROVE  /\ \A lib \in Libs : results[lib] # NoFile /\ current[lib] = results[lib] /\ AllRows(current[lib])
             /\ ~ParseDies /\ (parsed = Parsed => CanAnalyse)
  <2>1. ASSUME NEW lib \in Libs
        PROVE  results[lib] # NoFile /\ current[lib] = results[lib] /\ AllRows(current[lib])
    <3>1. HasAllRows(lib) /\ Imported(lib)
      BY <1>1, <1>2
    <3>2. results[lib] # NoFile /\ current[lib] = results[lib]
      BY <3>1 DEF HasAllRows, Imported
    <3> QED
      BY <3>1, <3>2 DEF HasAllRows, AllRows
  <2>2. \A lib \in Libs : current[lib] # NoFile /\ AllRows(current[lib])
    BY <2>1
  <2> QED
    BY <1>1, <2>1, <2>2, WholeParsed
<1>3. ASSUME step \in {"draw", "clean"} PROVE Whole
  <2>1. parsed = Parsed
    BY <1>1, <1>3 DEF PlotsDrawn
  <2> QED
    BY <1>1, <1>2, <1>3, <2>1 DEF Whole, Drawable
<1>4. ASSUME step = "draw" PROVE ~PlotDies
  <2>1. PICK k \in 1 .. Len(figure.plots) : k = pos
    BY <1>4 DEF PlotInv, Counters
  <2>2. ~DiesFor(figure.plots[k])
    BY <1>3, <1>4, WholeSurvives
  <2> QED
    BY <2>1, <2>2 DEF PlotDies, DiesFor, Plot
<1>5. ASSUME NEW i \in DOMAIN saved PROVE saved[i] = Wanted(figure.plots[i])
  <2>1. step \in {"draw", "clean"}
    <3>1. step \notin {"draw", "clean"} => saved = <<>>
      BY <1>1 DEF PlotsDrawn
    <3> QED
      BY <1>5, <3>1
  <2>2. saved[i] = BarsFor(figure.plots[i])
    BY <1>1, <1>5, <2>1 DEF PlotsDrawn
  <2>3. PICK cells, plot : cells = PlotCells /\ plot = figure.plots[i]
    OBVIOUS
  <2>4. Whole
    BY <1>3, <2>1
  <2>5. CASE plot.slowdown
    <3>1. SlowdownBars(cells) = Wanted(plot)
      BY <2>3, <2>4, <2>5, WholeSlowdown
    <3> QED
      BY <2>2, <2>3, <2>5, <3>1 DEF BarsFor
  <2>6. CASE ~plot.slowdown
    <3>1. AbsoluteBars(cells) = Wanted(plot)
      BY <2>3, <2>4, <2>6, WholeAbsolute
    <3> QED
      BY <2>2, <2>3, <2>6, <3>1 DEF BarsFor
  <2> QED
    BY <2>5, <2>6
<1> QED
  BY <1>2, <1>4, <1>5, SavedLength

\* From results that have all rows, every plot is drawn, with all of their
\* bars and no others (figure_3.sh:3-11, generate_plots.py:44-58).
THEOREM CompleteFiguresDrawn == Spec => []CompleteFigure
BY PlotsAreOfResults, CompleteFigures, PTL

=============================================================================
