------------------------- MODULE RecoveryRunProofs -------------------------
(***************************************************************************)
(* A row of the recovery benchmark is what its place and its size say, for *)
(* all lists of variants and log sizes, every number of repeats and every  *)
(* number of failures.                                                     *)
(***************************************************************************)
EXTENDS RecoveryRun, SequenceTheorems, TLAPS

Total == Repeats * Len(LogSizes)
SizeAt(k) == LogSizes[((k - 1) \div Repeats) + 1]
NewRow(k) == Row(SizeAt(k), SizeAt(k), FALSE)

Lines == [kind : {"text", "row"}, size : Nat, applied : Nat, old : BOOLEAN]
PCs == {"none", "remove", "create", "alloc", "begin", "snapshot", "open", "print",
        "exit", "dead"}

Stages == {"none", "work", "onabort", "failed", "done"}
Oids == Seq({"null", "valid", "stale"})
Outs == Seq(Lines)
Procs == [pc : PCs, i : Nat, snap : Nat, stage : Stages, oid : Oids, applied : Nat, out : Outs]

\* The types of all variables, deeper than TypeOK.
Shapes ==
  /\ script \in {"run", "end", "stopped"}
  /\ position \in [variant : 1 .. Len(Variants), size : 1 .. Len(LogSizes), rep : 1 .. Repeats]
  /\ proc \in Procs
  /\ proc.i \in 1 .. Len(proc.oid) + 1 /\ proc.snap \in 0 .. Len(proc.oid)
  /\ pool \in [exists : BOOLEAN, log : Nat]
  /\ results \in [ToSet(Variants) -> Outs]
  /\ failures \in 0 .. MaxFailures

TextOnly(lines) == \A k \in DOMAIN lines : lines[k] = Text

\* An allocation that was not reached: its identifier is still null.
Missing(from) == \E j \in from .. Len(proc.oid) : proc.oid[j] = "null"

\* What recovery_run knows at each point.  A run that printed anything before
\* its row, or lost its transaction, has no way to the row.
Progress ==
  /\ proc.pc \notin {"none", "dead"} => Len(proc.oid) = ulog_size
  /\ proc.pc = "none" => position.size = 1 /\ position.rep = 1 /\ script = "run"
  /\ proc.pc = "remove" => proc.out = <<>> /\ proc.i = 1 /\ proc.snap = 0
                           /\ \A j \in DOMAIN proc.oid : proc.oid[j] = "null"
  /\ proc.pc = "create" => (pool.exists \/ proc.out = <<>>) /\ proc.i = 1 /\ proc.snap = 0
                           /\ TextOnly(proc.out)
                           /\ \A j \in DOMAIN proc.oid : proc.oid[j] = "null"
  /\ proc.pc = "alloc" =>
       /\ proc.out = <<>> /\ pool.log = 0 /\ proc.snap = 0
       /\ \A j \in DOMAIN proc.oid : j >= proc.i => proc.oid[j] = "null"
  /\ proc.pc = "begin" =>
       /\ pool.log = 0 /\ proc.snap = 0 /\ TextOnly(proc.out)
       /\ proc.out = <<>> \/ Missing(1)
  /\ proc.pc = "snapshot" =>
       /\ TextOnly(proc.out)
       /\ \/ /\ proc.stage = "work" /\ proc.snap = proc.i - 1 /\ pool.log = proc.snap
             /\ proc.out = <<>> \/ Missing(proc.i)
          \/ proc.stage = "onabort" /\ proc.snap < Len(proc.oid)
  /\ proc.pc = "open" => proc.out = <<>> /\ pool.log = ulog_size
  /\ proc.pc = "print" => proc.out = <<>> /\ proc.applied = ulog_size
  /\ proc.pc = "exit" =>
       \/ proc.stage = "done" /\ proc.out = <<Row(ulog_size, ulog_size, FALSE)>>
       \/ proc.stage = "failed" /\ TextOnly(proc.out)
  /\ script # "run" => proc.pc \in {"exit", "dead"}

\* The runs that ended before this one, of the same variant.
Finished == (position.size - 1) * Repeats + (position.rep - 1)

NewFile == [k \in 1 .. Total |-> NewRow(k)]

\* The file of the variant that is being measured.
Current(f) ==
  /\ Len(f) >= Finished
  /\ \A k \in 1 .. Finished : f[k] = NewRow(k)
  /\ \A k \in DOMAIN f : k > Finished => f[k] = Text
  /\ script = "run" => Len(f) = Finished

\* The files of this run grow in the order of the loops.
FileRight(w) ==
  LET f == results[Variants[w]] IN
  IF w < position.variant \/ script = "end" THEN f = NewFile
  ELSE IF w = position.variant /\ proc.pc # "none" THEN Current(f)
  ELSE f \in {<<>>, OldFile}
Files == \A w \in 1 .. Len(Variants) : FileRight(w)

\* The inductive invariant.  The properties of the rows are not inductive: a
\* row is right because of what every step before it left in the log, and in
\* its place because of the files and the counters together.
IInv == Shapes /\ Progress /\ Files

-----------------------------------------------------------------------------
(* Places in a result file *)

LEMMA Constants ==
  /\ Repeats \in Nat \ {0} /\ Len(LogSizes) \in Nat \ {0} /\ Len(Variants) \in Nat \ {0}
  /\ \A s \in 1 .. Len(LogSizes) : LogSizes[s] \in Nat \ {0}
BY ScriptAssumption

\* The place of a run is that of its round of the loops.
LEMMA Place ==
  ASSUME NEW s \in 1 .. Len(LogSizes), NEW r \in 1 .. Repeats
  PROVE  LET k == (s - 1) * Repeats + (r - 1) IN
         /\ k \in 0 .. Total - 1
         /\ SizeAt(k + 1) = LogSizes[s]
<1> DEFINE a == s - 1
           b == r - 1
           L == Len(LogSizes)
           x == a * Repeats + b
<1>1. /\ a \in Nat /\ b \in Nat /\ b < Repeats /\ L \in Nat /\ a + 1 <= L
      /\ Repeats \in Nat /\ Repeats > 0
  BY Constants
<1> HIDE DEF a, b, L
<1>2. a * Repeats \in Nat /\ L * Repeats \in Nat /\ x \in Nat
  BY <1>1
<1>3. (a + 1) * Repeats <= L * Repeats
  BY <1>1
<1>4. (a + 1) * Repeats = a * Repeats + Repeats
  BY <1>1
<1>5. x < L * Repeats
  BY <1>1, <1>2, <1>3, <1>4
<1>6. x \div Repeats = a
  BY <1>1, <1>2
<1>7. Total = L * Repeats
  BY <1>1 DEF Total, L
<1>8. SizeAt(x + 1) = LogSizes[a + 1]
  BY <1>2, <1>6 DEF SizeAt
<1> QED
  BY <1>2, <1>5, <1>7, <1>8 DEF a, b

\* Every place has a size.
LEMMA SizeAtType ==
  /\ Total \in Nat
  /\ \A k \in 1 .. Total : SizeAt(k) \in Nat \ {0}
<1>1. Total \in Nat
  BY Constants DEF Total
<1>2. ASSUME NEW k \in 1 .. Total
      PROVE  ((k - 1) \div Repeats) + 1 \in 1 .. Len(LogSizes)
  <2> DEFINE q == (k - 1) \div Repeats
             L == Len(LogSizes)
  <2>1. k - 1 \in Nat /\ k - 1 < L * Repeats /\ Repeats \in Nat /\ Repeats > 0 /\ L \in Nat
    BY Constants, <1>1 DEF Total
  <2> HIDE DEF L
  <2>2. q \in Nat /\ q * Repeats <= k - 1
    BY <2>1
  <2>3. q < L
    BY <2>1, <2>2
  <2> QED
    BY <2>1, <2>2, <2>3 DEF L
<1> QED
  BY <1>1, <1>2, Constants DEF SizeAt

LEMMA FileTypes == NewFile \in Outs /\ OldFile \in Outs
<1>1. OldFile = [k \in 1 .. Total |-> Row(SizeAt(k), SizeAt(k), TRUE)]
  BY DEF OldFile, Total, SizeAt
<1> QED
  BY <1>1, SizeAtType DEF NewFile, NewRow, Row, Lines, Outs

LEMMA VariantIn ==
  /\ \A w \in 1 .. Len(Variants) : Variants[w] \in ToSet(Variants)
  /\ \A v \in ToSet(Variants) : \E w \in 1 .. Len(Variants) : v = Variants[w]
BY ScriptAssumption DEF ToSet

-----------------------------------------------------------------------------
(* The initial states *)

THEOREM InitHolds == Init => IInv
<1> SUFFICES ASSUME Init PROVE IInv
  OBVIOUS
<1>1. proc = [pc |-> "none", i |-> 1, snap |-> 0, stage |-> "none", oid |-> <<>>,
              applied |-> 0, out |-> <<>>]
  BY DEF Init, Launched
<1>2. proc \in Procs
  BY <1>1 DEF Procs, PCs, Stages, Oids, Outs
<1>3. pool \in [exists : BOOLEAN, log : Nat]
  <2>1. \A n \in {0} \cup ToSet(LogSizes) : n \in Nat
    BY Constants DEF ToSet
  <2>2. \A n \in Nat : [Fresh EXCEPT !.log = n] \in [exists : BOOLEAN, log : Nat]
    BY DEF Fresh
  <2>3. NoPool \in [exists : BOOLEAN, log : Nat]
    BY DEF NoPool
  <2> QED
    BY <2>1, <2>2, <2>3 DEF Init
<1>4. Shapes
  <2>1. results \in [ToSet(Variants) -> Outs]
    <3>1. <<>> \in Outs
      BY DEF Outs
    <3> QED
      BY <3>1, FileTypes DEF Init
  <2>2. /\ position.variant \in 1 .. Len(Variants) /\ position.size \in 1 .. Len(LogSizes)
        /\ position.rep \in 1 .. Repeats
    BY Constants DEF Init
  <2>3. /\ script \in {"run", "end", "stopped"} /\ failures \in 0 .. MaxFailures
        /\ position \in [variant : 1 .. Len(Variants), size : 1 .. Len(LogSizes), rep : 1 .. Repeats]
    BY <2>2, ScriptAssumption DEF Init
  <2>4. proc.i \in 1 .. Len(proc.oid) + 1 /\ proc.snap \in 0 .. Len(proc.oid)
    BY <1>1
  <2> QED
    BY <1>2, <1>3, <2>1, <2>3, <2>4 DEF Shapes
<1>5. Progress
  BY <1>1 DEF Init, Progress
<1>6. Files
  BY <1>1, VariantIn, Constants DEF Init, Files, FileRight
<1> QED
  BY <1>4, <1>5, <1>6 DEF IInv

-----------------------------------------------------------------------------
(* The steps of recovery_run *)

\* While a run goes on the files stay as they are.
LEMMA FilesKept ==
  ASSUME Files, UNCHANGED <<script, position, results>>,
         proc.pc # "none", proc'.pc # "none"
  PROVE  Files'
BY DEF Files, FileRight, Current, Finished

LEMMA FewerFailures ==
  ASSUME Shapes, UNCHANGED failures \/ Fails
  PROVE  failures' \in 0 .. MaxFailures
BY ScriptAssumption DEF Shapes, Fails

LEMMA LaunchedFacts ==
  ASSUME NEW n \in Nat, NEW q, q = Launched(n)
  PROVE  /\ q \in Procs /\ q.pc = "remove" /\ q.i = 1 /\ q.snap = 0 /\ q.out = <<>>
         /\ Len(q.oid) = n /\ \A j \in DOMAIN q.oid : q.oid[j] = "null"
<1> DEFINE oids == [j \in 1 .. n |-> "null"]
<1>1. oids \in Oids /\ Len(oids) = n /\ \A j \in DOMAIN oids : oids[j] = "null"
  BY DEF Oids
<1>2. q = [pc |-> "remove", i |-> 1, snap |-> 0, stage |-> "none", oid |-> oids,
           applied |-> 0, out |-> <<>>]
  BY DEF Launched
<1>3. <<>> \in Outs
  BY DEF Outs
<1> HIDE DEF oids
<1> QED
  BY <1>1, <1>2, <1>3 DEF Procs, PCs, Stages

LEMMA MoreText ==
  ASSUME NEW lines \in Outs
  PROVE  /\ Append(lines, Text) \in Outs
         /\ TextOnly(lines) => TextOnly(Append(lines, Text))
         /\ TextOnly(<<>>)
<1>1. Text \in Lines
  BY DEF Text, Lines
<1> QED
  BY <1>1 DEF TextOnly, Outs

LEMMA OidsType ==
  ASSUME NEW q \in Oids, NEW k \in 1 .. Len(q), NEW r, r = [q EXCEPT ![k] = "valid"]
  PROVE  r \in Oids /\ Len(r) = Len(q) /\ \A j \in DOMAIN q : j # k => r[j] = q[j]
BY DEF Oids

\* return 1 leaves nothing but text.
LEMMA FailHolds ==
  ASSUME IInv, Alive, TextOnly(proc.out), Fail,
         UNCHANGED <<script, position, results, pool>>, failures' \in 0 .. MaxFailures
  PROVE  IInv'
<1> USE DEF IInv
<1>1. proc \in Procs /\ proc.out \in Outs
  BY DEF Shapes, Procs
<1>2. /\ proc'.pc = "exit" /\ proc'.stage = "failed" /\ proc'.out = Append(proc.out, Text)
      /\ proc'.i = proc.i /\ proc'.snap = proc.snap /\ proc'.oid = proc.oid
  BY <1>1 DEF Fail, Procs
<1>3. proc' \in Procs
  BY <1>1, MoreText DEF Fail, Procs, PCs, Stages
<1>4. Shapes'
  BY <1>2, <1>3 DEF Shapes
<1>5. Progress'
  BY <1>1, <1>2, MoreText DEF Progress, Alive, ulog_size
<1> QED
  BY <1>2, <1>4, <1>5, FilesKept DEF Alive

\* A process that dies leaves nothing.
LEMMA DieHolds ==
  ASSUME IInv, Alive, Die,
         UNCHANGED <<script, position, results, pool>>, failures' \in 0 .. MaxFailures
  PROVE  IInv'
<1> USE DEF IInv
<1>1. proc \in Procs
  BY DEF Shapes
<1>2. /\ proc'.pc = "dead" /\ proc' \in Procs
      /\ proc'.i = proc.i /\ proc'.snap = proc.snap /\ proc'.oid = proc.oid
  BY <1>1 DEF Die, Procs, PCs
<1>3. Shapes'
  BY <1>2 DEF Shapes
<1>4. Progress'
  BY <1>2 DEF Progress, Alive
<1> QED
  BY <1>2, <1>3, <1>4, FilesKept DEF Alive

LEMMA RemoveStep == IInv /\ safe_remove => IInv'
<1> SUFFICES ASSUME IInv, safe_remove PROVE IInv'
  OBVIOUS
<1> USE DEF IInv
<1>1. /\ proc \in Procs /\ proc.pc = "remove" /\ proc.out \in Outs /\ TextOnly(proc.out)
      /\ proc.out = <<>> /\ script = "run"
  BY MoreText DEF Shapes, Procs, Progress, safe_remove, At, Alive
<1>2. /\ proc' \in Procs /\ proc'.pc = "create" /\ proc'.i = proc.i /\ proc'.snap = proc.snap
      /\ proc'.oid = proc.oid
      /\ proc'.out = proc.out \/ (proc'.out = Append(proc.out, Text) /\ pool'.exists)
  BY <1>1, MoreText DEF safe_remove, Procs, PCs
<1>3. Shapes'
  <2>1. pool' \in [exists : BOOLEAN, log : Nat]
    <3>1. pool \in [exists : BOOLEAN, log : Nat] /\ NoPool \in [exists : BOOLEAN, log : Nat]
      BY DEF Shapes, NoPool
    <3>2. pool' = pool \/ pool' = NoPool
      BY DEF safe_remove
    <3> QED
      BY <3>1, <3>2
  <2>2. failures' \in 0 .. MaxFailures
    BY FewerFailures DEF safe_remove
  <2> QED
    BY <1>2, <2>1, <2>2 DEF Shapes, safe_remove
<1>4. Progress'
  <2>1. position' = position /\ script' = script /\ Len(proc'.oid) = ulog_size'
    BY <1>1, <1>2 DEF Progress, safe_remove, ulog_size
  <2>2. TextOnly(proc'.out) /\ (pool'.exists \/ proc'.out = <<>>)
    BY <1>1, <1>2, MoreText
  <2> QED
    BY <1>1, <1>2, <2>1, <2>2 DEF Progress
<1> QED
  BY <1>1, <1>2, <1>3, <1>4, FilesKept DEF safe_remove

LEMMA CreateStep == IInv /\ Create => IInv'
<1> SUFFICES ASSUME IInv, Create PROVE IInv'
  OBVIOUS
<1> USE DEF IInv
<1>1. /\ proc \in Procs /\ proc.pc = "create" /\ TextOnly(proc.out) /\ Alive
      /\ UNCHANGED <<script, position, results>>
  BY DEF Shapes, Progress, Create, At
<1>2. CASE ~pool.exists /\ pool' = Fresh /\ proc' = [proc EXCEPT !.pc = "alloc"]
           /\ UNCHANGED failures
  <2>1. /\ proc' \in Procs /\ proc'.pc = "alloc" /\ proc'.i = proc.i /\ proc'.snap = proc.snap
        /\ proc'.oid = proc.oid /\ proc'.out = proc.out
    BY <1>1, <1>2 DEF Procs, PCs
  <2>2. Shapes'
    BY <1>1, <1>2, <2>1 DEF Shapes, Fresh
  <2>3. Progress'
    BY <1>1, <1>2, <2>1 DEF Progress, Fresh, ulog_size, Alive
  <2> QED
    BY <1>1, <2>1, <2>2, <2>3, FilesKept
<1>3. CASE Fail /\ pool' = pool /\ (UNCHANGED failures \/ Fails)
  BY <1>1, <1>3, FailHolds, FewerFailures
<1> QED
  BY <1>2, <1>3 DEF Create

LEMMA AllocStep == IInv /\ (AllocObject \/ AllocAborts \/ CommitObjects) => IInv'
<1> SUFFICES ASSUME IInv, AllocObject \/ AllocAborts \/ CommitObjects PROVE IInv'
  OBVIOUS
<1> USE DEF IInv
<1>1. /\ proc \in Procs /\ proc.pc = "alloc" /\ proc.out = <<>> /\ proc.out \in Outs
      /\ proc.oid \in Oids /\ Len(proc.oid) = ulog_size /\ ulog_size \in Nat
      /\ pool.log = 0 /\ proc.snap = 0 /\ proc.i \in 1 .. Len(proc.oid) + 1
      /\ \A j \in DOMAIN proc.oid : j >= proc.i => proc.oid[j] = "null"
      /\ DOMAIN proc.oid = 1 .. Len(proc.oid)
      /\ script = "run" /\ UNCHANGED <<script, position, results, pool>>
  BY Constants DEF Shapes, Procs, Oids, Progress, AllocObject, AllocAborts, CommitObjects,
                   ulog_size, At, Alive
<1>2. CASE AllocObject
  <2>1. proc.i \in 1 .. Len(proc.oid) /\ UNCHANGED failures
    BY <1>1, <1>2 DEF AllocObject, objects_num
  <2>2. proc' = [proc EXCEPT !.oid = [proc.oid EXCEPT ![proc.i] = "valid"], !.i = @ + 1]
    BY <1>1, <1>2 DEF AllocObject, Procs
  <2>3. /\ proc'.pc = "alloc" /\ proc'.i = proc.i + 1 /\ proc'.snap = 0 /\ proc'.out = <<>>
        /\ proc'.oid = [proc.oid EXCEPT ![proc.i] = "valid"]
        /\ proc'.stage = proc.stage /\ proc'.applied = proc.applied
    BY <1>1, <2>2 DEF Procs
  <2>4. /\ proc'.oid \in Oids /\ Len(proc'.oid) = Len(proc.oid)
        /\ \A j \in DOMAIN proc.oid : j # proc.i => proc'.oid[j] = proc.oid[j]
    BY <1>1, <2>1, <2>3, OidsType
  <2>5. proc' \in Procs
    <3>1. proc.i + 1 \in Nat
      BY <2>1
    <3> QED
      BY <1>1, <2>2, <2>3, <2>4, <3>1 DEF Procs
  <2>6. Shapes'
    BY <1>1, <2>1, <2>3, <2>4, <2>5 DEF Shapes
  <2>7. DOMAIN proc'.oid = DOMAIN proc.oid
    BY <2>3
  <2>8. \A j \in DOMAIN proc'.oid : j >= proc'.i => proc'.oid[j] = "null"
    BY <1>1, <2>1, <2>3, <2>4, <2>7
  <2>9. Progress'
    BY <1>1, <2>3, <2>4, <2>8 DEF Progress, ulog_size
  <2> QED
    BY <1>1, <2>3, <2>6, <2>9, FilesKept
<1>3. CASE AllocAborts
  <2> DEFINE q == [j \in DOMAIN proc.oid |-> IF proc.oid[j] = "valid" THEN "stale" ELSE proc.oid[j]]
  <2>1. /\ proc.i \in 1 .. Len(proc.oid) /\ failures' \in 0 .. MaxFailures
        /\ proc' = [proc EXCEPT !.oid = q, !.pc = "begin", !.out = Append(@, Text)]
    BY <1>1, <1>3, FewerFailures DEF AllocAborts, objects_num, Procs
  <2>2. /\ q \in Oids /\ Len(q) = Len(proc.oid) /\ q[proc.i] = "null"
    BY <1>1, <2>1 DEF Oids
  <2> HIDE DEF q
  <2>3. /\ proc'.pc = "begin" /\ proc'.i = proc.i /\ proc'.snap = 0 /\ proc'.oid = q
        /\ proc'.out = Append(proc.out, Text)
    BY <1>1, <2>1 DEF Procs
  <2>4. proc' \in Procs
    BY <1>1, <2>1, <2>2, MoreText DEF Procs, PCs
  <2>5. Shapes'
    BY <1>1, <2>1, <2>2, <2>3, <2>4 DEF Shapes
  <2>6. Missing(1)'
    BY <1>1, <2>1, <2>2, <2>3 DEF Missing
  <2>7. Progress'
    BY <1>1, <2>2, <2>3, <2>6, MoreText DEF Progress, ulog_size
  <2> QED
    BY <1>1, <2>3, <2>5, <2>7, FilesKept
<1>4. CASE CommitObjects
  <2>1. /\ proc' \in Procs /\ proc'.pc = "begin" /\ proc'.i = proc.i /\ proc'.snap = 0
        /\ proc'.oid = proc.oid /\ proc'.out = <<>> /\ UNCHANGED failures
    BY <1>1, <1>4 DEF CommitObjects, Procs, PCs
  <2>2. Shapes'
    BY <1>1, <2>1 DEF Shapes
  <2>3. Progress'
    BY <1>1, <2>1, MoreText DEF Progress, ulog_size
  <2> QED
    BY <1>1, <2>1, <2>2, <2>3, FilesKept
<1> QED
  BY <1>2, <1>3, <1>4

LEMMA BeginStep == IInv /\ BeginSnapshot => IInv'
<1> SUFFICES ASSUME IInv, BeginSnapshot PROVE IInv'
  OBVIOUS
<1> USE DEF IInv
<1>1. /\ proc \in Procs /\ proc.pc = "begin" /\ TextOnly(proc.out) /\ script = "run"
      /\ proc.out = <<>> \/ Missing(1)
      /\ Len(proc.oid) = ulog_size /\ ulog_size \in Nat \ {0}
      /\ pool.log = 0 /\ proc.snap = 0 /\ UNCHANGED <<script, position, results, pool>>
  BY Constants DEF Shapes, Progress, BeginSnapshot, ulog_size, At, Alive
<1>2. /\ proc' \in Procs /\ proc'.pc = "snapshot" /\ proc'.i = 1 /\ proc'.snap = 0
      /\ proc'.oid = proc.oid /\ proc'.out = proc.out /\ proc'.stage \in {"work", "onabort"}
      /\ failures' \in 0 .. MaxFailures
  <2>1. PICK stage \in {"work", "onabort"} :
          proc' = [proc EXCEPT !.pc = "snapshot", !.i = 1, !.stage = stage]
    BY DEF BeginSnapshot
  <2>2. failures' \in 0 .. MaxFailures
    BY FewerFailures DEF BeginSnapshot
  <2> QED
    BY <1>1, <2>1, <2>2 DEF Procs, PCs, Stages
<1>3. Shapes'
  BY <1>1, <1>2 DEF Shapes
<1>4. Progress'
  BY <1>1, <1>2 DEF Progress, ulog_size, Missing, TextOnly
<1> QED
  BY <1>1, <1>2, <1>3, <1>4, FilesKept

LEMMA SnapshotStep == IInv /\ (AddRange \/ AddRangeFails) => IInv'
<1> SUFFICES ASSUME IInv, AddRange \/ AddRangeFails PROVE IInv'
  OBVIOUS
<1> USE DEF IInv
<1>1. /\ proc \in Procs /\ proc.out \in Outs /\ proc.pc = "snapshot" /\ TextOnly(proc.out)
      /\ Len(proc.oid) = ulog_size /\ ulog_size \in Nat /\ proc.i \in 1 .. Len(proc.oid)
      /\ proc.snap = proc.i - 1 /\ pool.log = proc.snap /\ (proc.out = <<>> \/ Missing(proc.i))
      /\ pool \in [exists : BOOLEAN, log : Nat]
      /\ script = "run" /\ UNCHANGED <<script, position, results>>
  BY Constants DEF Shapes, Procs, Progress, AddRange, AddRangeFails, ulog_size, objects_num,
                   At, Alive
<1> DEFINE i == proc.i + 1
           n == proc.snap + 1
<1>0. i \in Nat /\ n \in Nat /\ i \in 1 .. Len(proc.oid) + 1 /\ n \in 0 .. Len(proc.oid)
      /\ n = i - 1 /\ proc.snap < Len(proc.oid)
  <2>1. ASSUME NEW p, NEW s, NEW L \in Nat, p \in 1 .. L, s = p - 1
        PROVE  p + 1 \in Nat /\ s + 1 \in Nat /\ p + 1 \in 1 .. L + 1 /\ s + 1 \in 0 .. L
               /\ s + 1 = (p + 1) - 1 /\ s < L
    BY <2>1
  <2>2. Len(proc.oid) \in Nat /\ proc.i \in 1 .. Len(proc.oid) /\ proc.snap = proc.i - 1
    BY Constants DEF Shapes, Procs, Progress, AddRange, AddRangeFails, ulog_size, objects_num,
                     At, Alive
  <2> QED
    BY ONLY <2>1, <2>2 DEF i, n
<1> HIDE DEF i, n
<1>2. CASE AddRange
  <2>0. /\ proc' = [proc EXCEPT !.i = i, !.snap = n] /\ pool' = [pool EXCEPT !.log = n]
        /\ proc.oid[proc.i] # "null" /\ proc.stage = "work" /\ UNCHANGED failures
    <3>1. proc' = [proc EXCEPT !.i = i, !.snap = n]
      BY <1>2 DEF AddRange, i, n
    <3>2. pool' = [pool EXCEPT !.log = n]
      <4>1. pool \in [exists : BOOLEAN, log : Nat] /\ pool.log = proc.snap
        BY <1>2 DEF Shapes, Progress, AddRange, At
      <4> QED
        BY <1>2, <4>1 DEF AddRange, n
    <3> QED
      BY <1>2, <3>1, <3>2 DEF AddRange
  <2>1. /\ proc' \in Procs /\ proc'.pc = "snapshot" /\ proc'.i = i
        /\ proc'.snap = n /\ proc'.stage = "work"
        /\ proc'.oid = proc.oid /\ proc'.out = proc.out
    BY <1>1, <1>0, <2>0 DEF Procs
  <2>2. pool' \in [exists : BOOLEAN, log : Nat] /\ pool'.log = proc'.snap
    BY <1>1, <1>0, <2>0, <2>1
  <2>3. Shapes'
    BY <1>1, <1>0, <2>0, <2>1, <2>2 DEF Shapes
  <2>4. Missing(proc.i) => \E j \in i .. Len(proc.oid) : proc.oid[j] = "null"
    BY <1>1, <2>0 DEF Missing, i
  <2>5. proc'.out = <<>> \/ \E j \in proc'.i .. Len(proc'.oid) : proc'.oid[j] = "null"
    BY <1>1, <2>1, <2>4
  <2>6. Progress'
    BY <1>1, <1>0, <2>1, <2>2, <2>5 DEF Progress, ulog_size, Missing
  <2> QED
    BY <1>1, <2>1, <2>3, <2>6, FilesKept
<1>3. CASE AddRangeFails
  <2>1. /\ proc' \in Procs /\ proc'.pc = "snapshot" /\ proc'.i = i
        /\ proc'.snap = proc.snap /\ proc'.stage = "onabort"
        /\ proc'.oid = proc.oid /\ proc'.out = Append(proc.out, Text)
    <3>1. proc' = [proc EXCEPT !.i = i, !.stage = "onabort", !.out = Append(@, Text)]
      BY <1>1, <1>3 DEF AddRangeFails, Procs, i
    <3> QED
      BY <1>1, <1>0, <3>1, MoreText DEF Procs, Stages
  <2>2. pool' \in [exists : BOOLEAN, log : Nat] /\ failures' \in 0 .. MaxFailures
    BY <1>1, <1>3, FewerFailures DEF AddRangeFails
  <2>3. Shapes'
    BY <1>1, <1>0, <2>1, <2>2 DEF Shapes
  <2>4. proc'.snap < Len(proc'.oid)
    BY <1>0, <2>1
  <2>5. Progress'
    BY <1>1, <2>1, <2>4, MoreText DEF Progress, ulog_size
  <2> QED
    BY <1>1, <2>1, <2>3, <2>5, FilesKept
<1> QED
  BY <1>2, <1>3

LEMMA DyingStep == IInv /\ (AddRangeDies \/ Killed) => IInv'
<1> SUFFICES ASSUME IInv, AddRangeDies \/ Killed PROVE IInv'
  OBVIOUS
<1>1. Alive /\ Die /\ UNCHANGED <<script, position, results, pool>>
  BY DEF AddRangeDies, Killed, At
<1>2. failures' \in 0 .. MaxFailures
  BY FewerFailures DEF AddRangeDies, Killed, IInv
<1> QED
  BY <1>1, <1>2, DieHolds

\* The assertion lets only a complete log through.
LEMMA CloseStep == IInv /\ CloseInsideTx => IInv'
<1> SUFFICES ASSUME IInv, CloseInsideTx PROVE IInv'
  OBVIOUS
<1> USE DEF IInv
<1>1. /\ proc \in Procs /\ proc.pc = "snapshot" /\ Alive
      /\ Len(proc.oid) = ulog_size /\ ulog_size \in Nat /\ proc.i \in Nat /\ proc.i > ulog_size
      /\ UNCHANGED <<script, position, results, pool, failures>>
  BY Constants DEF Shapes, Procs, Progress, CloseInsideTx, ulog_size, objects_num, At, Alive
<1>2. CASE proc.snap = ulog_size
  <2>1. /\ proc' \in Procs /\ proc'.pc = "open" /\ proc'.i = proc.i
        /\ proc'.snap = proc.snap /\ proc'.oid = proc.oid /\ proc'.out = proc.out
    BY <1>1, <1>2 DEF CloseInsideTx, Procs, PCs
  <2>2. pool.log = ulog_size /\ proc.out = <<>>
    BY <1>1, <1>2 DEF Progress, Missing
  <2>3. Shapes'
    BY <1>1, <2>1 DEF Shapes
  <2>4. Progress'
    BY <1>1, <2>1, <2>2 DEF Progress, Alive, ulog_size
  <2> QED
    BY <1>1, <2>1, <2>3, <2>4, FilesKept DEF Alive
<1>3. CASE proc.snap # ulog_size
  <2>1. Die /\ failures' \in 0 .. MaxFailures
    BY <1>1, <1>3 DEF CloseInsideTx, Shapes
  <2> QED
    BY <1>1, <2>1, DieHolds
<1> QED
  BY <1>2, <1>3

LEMMA OpenStep == IInv /\ Open => IInv'
<1> SUFFICES ASSUME IInv, Open PROVE IInv'
  OBVIOUS
<1> USE DEF IInv
<1>1. /\ proc \in Procs /\ proc.pc = "open" /\ Alive /\ proc.out = <<>> /\ TextOnly(<<>>)
      /\ Len(proc.oid) = ulog_size /\ ulog_size \in Nat /\ pool.log = ulog_size
      /\ pool \in [exists : BOOLEAN, log : Nat]
      /\ UNCHANGED <<script, position, results>>
  BY Constants DEF Shapes, Progress, Open, At, Alive, ulog_size, TextOnly
<1>2. CASE proc' = [proc EXCEPT !.pc = "print", !.applied = pool.log]
           /\ pool' = [pool EXCEPT !.log = 0] /\ UNCHANGED failures
  <2>1. /\ proc' \in Procs /\ proc'.pc = "print" /\ proc'.i = proc.i /\ proc'.snap = proc.snap
        /\ proc'.oid = proc.oid /\ proc'.out = proc.out /\ proc'.applied = ulog_size
    BY <1>1, <1>2 DEF Procs, PCs
  <2>2. pool' \in [exists : BOOLEAN, log : Nat]
    BY <1>1, <1>2
  <2>3. Shapes'
    BY <1>1, <1>2, <2>1, <2>2 DEF Shapes
  <2>4. Progress'
    BY <1>1, <2>1 DEF Progress, Alive, ulog_size
  <2> QED
    BY <1>1, <2>1, <2>3, <2>4, FilesKept
<1>3. CASE Fails /\ Fail /\ UNCHANGED pool
  <2>1. TextOnly(proc.out) /\ UNCHANGED <<script, position, results, pool>>
    BY <1>1, <1>3
  <2> QED
    BY <1>1, <1>3, <2>1, FailHolds, FewerFailures
<1> QED
  BY <1>1, <1>2, <1>3 DEF Open

LEMMA PrintStep == IInv /\ print_recovery_results => IInv'
<1> SUFFICES ASSUME IInv, print_recovery_results PROVE IInv'
  OBVIOUS
<1> USE DEF IInv
<1>1. /\ proc \in Procs /\ proc.pc = "print" /\ Alive /\ proc.out = <<>>
      /\ proc.applied = ulog_size /\ Len(proc.oid) = ulog_size /\ ulog_size \in Nat
      /\ UNCHANGED <<script, position, results, pool, failures>>
  BY Constants DEF Shapes, Progress, print_recovery_results, At, Alive, ulog_size
<1>2. <<Row(ulog_size, ulog_size, FALSE)>> \in Outs
  BY <1>1 DEF Outs, Lines, Row
<1>3. /\ proc' \in Procs /\ proc'.pc = "exit" /\ proc'.stage = "done" /\ proc'.i = proc.i
      /\ proc'.snap = proc.snap /\ proc'.oid = proc.oid
      /\ proc'.out = <<Row(ulog_size, ulog_size, FALSE)>>
  <2>1. proc' = [proc EXCEPT !.pc = "exit", !.stage = "done",
                   !.out = <<Row(ulog_size, ulog_size, FALSE)>>]
    BY <1>1 DEF print_recovery_results, Procs
  <2> QED
    BY <1>1, <1>2, <2>1 DEF Procs, PCs, Stages
<1>4. Shapes'
  BY <1>1, <1>3 DEF Shapes
<1>5. Progress'
  BY <1>1, <1>3 DEF Progress, Alive, ulog_size
<1> QED
  BY <1>1, <1>3, <1>4, <1>5, FilesKept

-----------------------------------------------------------------------------
(* The steps of inner_run.sh *)

LEMMA StartStep == IInv /\ StartVariant => IInv'
<1> SUFFICES ASSUME IInv, StartVariant PROVE IInv'
  OBVIOUS
<1> DEFINE n == LogSizes[1]
<1>1. /\ script = "run" /\ proc.pc = "none" /\ position.size = 1 /\ position.rep = 1
      /\ position.variant \in 1 .. Len(Variants) /\ results \in [ToSet(Variants) -> Outs]
      /\ UNCHANGED <<script, position, pool, failures>>
  BY DEF IInv, Shapes, Progress, StartVariant
<1>2. n \in Nat /\ ulog_size = n /\ ulog_size' = n
  BY <1>1, Constants DEF ulog_size
<1> HIDE DEF n
<1>5. /\ proc' \in Procs /\ proc'.pc = "remove" /\ proc'.i = 1 /\ proc'.snap = 0
      /\ proc'.out = <<>> /\ Len(proc'.oid) = n
      /\ \A j \in DOMAIN proc'.oid : proc'.oid[j] = "null"
  BY <1>2, LaunchedFacts DEF StartVariant, objects_num
<1>6. results' = [results EXCEPT ![variant] = <<>>] /\ variant \in ToSet(Variants)
  BY <1>1, VariantIn DEF StartVariant, variant
<1>7. Shapes'
  <2>2. results' \in [ToSet(Variants) -> Outs]
    BY <1>1, <1>6 DEF Outs
  <2>3. proc'.i \in 1 .. Len(proc'.oid) + 1 /\ proc'.snap \in 0 .. Len(proc'.oid)
    BY <1>2, <1>5
  <2> QED
    BY <1>1, <1>5, <2>2, <2>3 DEF IInv, Shapes
<1>8. Progress'
  BY <1>1, <1>2, <1>5 DEF Progress
<1>9. Files'
  <2> SUFFICES ASSUME NEW w \in 1 .. Len(Variants) PROVE FileRight(w)'
    BY DEF Files
  <2> USE DEF FileRight
  <2>1. CASE w = position.variant
    <3>1. results'[Variants[w]] = <<>>
      BY <1>1, <1>6, <2>1 DEF variant
    <3>2. Finished = 0 /\ Finished' = 0
      BY <1>1, Constants DEF Finished
    <3>3. Current(<<>>)'
      BY <3>2 DEF Current
    <3> QED
      BY <1>1, <1>5, <2>1, <3>1, <3>3
  <2>2. CASE w # position.variant
    <3>1. Variants[w] # variant
      BY <1>1, <2>2, ScriptAssumption DEF variant
    <3>2. results'[Variants[w]] = results[Variants[w]]
      BY <1>1, <1>6, <3>1, VariantIn
    <3> QED
      BY <1>1, <2>2, <3>2 DEF IInv, Files, FileRight
  <2> QED
    BY <2>1, <2>2
<1> QED
  BY <1>7, <1>8, <1>9 DEF IInv

\* The next round of the loops is the next place, or the file is full.
LEMMA FollowingPlace ==
  ASSUME position \in [variant : 1 .. Len(Variants), size : 1 .. Len(LogSizes), rep : 1 .. Repeats],
         NEW p, p = Following(position)
  PROVE  \/ /\ p \in [variant : 1 .. Len(Variants), size : 1 .. Len(LogSizes), rep : 1 .. Repeats]
            /\ p.variant = position.variant
            /\ (p.size - 1) * Repeats + (p.rep - 1) = Finished + 1
         \/ /\ p = [variant |-> position.variant + 1, size |-> 1, rep |-> 1]
            /\ Finished + 1 = Total
<1> DEFINE s == position.size
           r == position.rep
           L == Len(LogSizes)
<1>1. /\ s \in 1 .. L /\ r \in 1 .. Repeats /\ position.variant \in 1 .. Len(Variants)
      /\ Repeats \in Nat \ {0} /\ L \in Nat \ {0}
  BY Constants
<1>2. Finished = (s - 1) * Repeats + (r - 1)
  BY DEF Finished
<1>3. CASE r < Repeats
  <2>1. p = [position EXCEPT !.rep = r + 1] /\ r + 1 \in 1 .. Repeats
    BY <1>1, <1>3 DEF Following
  <2>2. p.variant = position.variant /\ p.size = s /\ p.rep = r + 1
    BY <2>1
  <2>3. (s - 1) * Repeats \in Nat
    BY <1>1
  <2>4. (p.size - 1) * Repeats + (p.rep - 1) = Finished + 1
    BY <1>1, <1>2, <2>2, <2>3
  <2>5. p \in [variant : 1 .. Len(Variants), size : 1 .. Len(LogSizes), rep : 1 .. Repeats]
    BY <1>1, <2>1
  <2> QED
    BY <2>2, <2>4, <2>5
<1>4. CASE r = Repeats /\ s < L
  <2>1. p = [position EXCEPT !.rep = 1, !.size = s + 1] /\ s + 1 \in 1 .. L /\ 1 \in 1 .. Repeats
    BY <1>1, <1>4 DEF Following
  <2>2. p.variant = position.variant /\ p.size = s + 1 /\ p.rep = 1
    BY <2>1
  <2>3. s * Repeats = (s - 1) * Repeats + Repeats /\ (s - 1) * Repeats \in Nat
    BY <1>1
  <2>4. (p.size - 1) * Repeats + (p.rep - 1) = s * Repeats
    BY <1>1, <2>2
  <2>5. Finished + 1 = s * Repeats
    BY <1>1, <1>2, <1>4, <2>3
  <2>6. p \in [variant : 1 .. Len(Variants), size : 1 .. Len(LogSizes), rep : 1 .. Repeats]
    BY <2>1
  <2> QED
    BY <2>2, <2>4, <2>5, <2>6
<1>5. CASE r = Repeats /\ s = L
  <2>1. p = [variant |-> position.variant + 1, size |-> 1, rep |-> 1]
    BY <1>1, <1>5 DEF Following
  <2>2. s * Repeats = (s - 1) * Repeats + Repeats /\ (s - 1) * Repeats \in Nat
    BY <1>1
  <2>3. Total = s * Repeats
    BY <1>1, <1>5 DEF Total
  <2>4. Finished + 1 = Total
    BY <1>1, <1>2, <1>5, <2>2, <2>3
  <2> QED
    BY <2>1, <2>4
<1> QED
  BY <1>1, <1>3, <1>4, <1>5

\* A run that failed or died adds text and stops the script.
LEMMA StopStep ==
  ASSUME IInv, NextRun, ~Succeeded
  PROVE  IInv'
<1> USE DEF IInv
<1> DEFINE f == results[variant]
<1>1. /\ script = "run" /\ script' = "stopped" /\ UNCHANGED <<position, proc, pool, failures>>
      /\ proc.pc \in {"exit", "dead"}
      /\ results \in [ToSet(Variants) -> Outs] /\ proc \in Procs
      /\ position.variant \in 1 .. Len(Variants) /\ variant \in ToSet(Variants)
  BY VariantIn DEF NextRun, Shapes, variant
<1>2. proc.pc = "exit" => TextOnly(proc.out)
  BY DEF Progress, Succeeded
<1>3. PICK t \in Outs : TextOnly(t) /\ results' = [results EXCEPT ![variant] = @ \o t]
  <2>1. <<>> \in Outs /\ TextOnly(<<>>) /\ \A q \in Outs : q \o <<>> = q
    BY DEF Outs, TextOnly
  <2>2. proc.out \in Outs
    BY <1>1 DEF Procs
  <2>3. f \in Outs
    BY <1>1
  <2> QED
    BY <1>1, <1>2, <2>1, <2>2, <2>3 DEF NextRun
<1>4. f \in Outs /\ f \o t \in Outs
  BY <1>1 DEF Outs
<1>5. PICK g \in Outs : g = f \o t /\ results'[variant] = g
  BY <1>1, <1>3, <1>4
<1>11. \A v \in ToSet(Variants) : v # variant => results'[v] = results[v]
  BY <1>1, <1>3
<1>6. Shapes'
  <2>1. results' \in [ToSet(Variants) -> Outs]
    BY <1>1, <1>3, <1>4
  <2> QED
    BY <1>1, <2>1 DEF Shapes
<1>7. Progress'
  BY <1>1 DEF Progress, ulog_size
<1>8. Current(f)
  BY <1>1 DEF Files, FileRight, variant
<1>9. Current(g)'
  <2>1. Finished' = Finished /\ Finished \in Nat
    BY <1>1, Constants DEF Finished, Shapes
  <2> HIDE DEF f
  <2>2. Len(g) = Len(f) + Len(t) /\ \A k \in 1 .. Len(g) : g[k] = IF k <= Len(f) THEN f[k] ELSE t[k - Len(f)]
    BY <1>4, <1>5 DEF Outs
  <2>3. \A k \in DOMAIN g : k > Finished => g[k] = Text
    BY <1>1, <1>3, <1>4, <1>5, <1>8, <2>1, <2>2 DEF Current, TextOnly, Outs
  <2> QED
    <3>1. Len(f) \in Nat /\ Len(t) \in Nat /\ Len(f) >= Finished
      BY <1>4, <1>8 DEF Current, Outs
    <3>2. \A k \in 1 .. Finished : k \in 1 .. Len(g) /\ g[k] = NewRow(k)
      BY <1>8, <2>1, <2>2, <3>1 DEF Current
    <3> QED
      BY <1>1, <2>1, <2>2, <2>3, <3>1, <3>2 DEF Current
<1>10. Files'
  <2> HIDE DEF f
  <2> SUFFICES ASSUME NEW w \in 1 .. Len(Variants) PROVE FileRight(w)'
    BY DEF Files
  <2> USE DEF FileRight
  <2>1. CASE w = position.variant
    <3>1. results'[Variants[w]] = g /\ position'.variant = w /\ proc'.pc # "none"
      BY <1>1, <1>5, <2>1 DEF variant
    <3>2. Current(results[Variants[w]])'
      BY <1>9, <3>1 DEF Current
    <3> QED
      BY <1>1, <3>1, <3>2
  <2>2. CASE w # position.variant
    <3>1. Variants[w] # variant
      BY <1>1, <2>2, ScriptAssumption DEF variant
    <3>2. results'[Variants[w]] = results[Variants[w]]
      BY <1>11, <3>1, VariantIn
    <3> QED
      BY <1>1, <2>2, <3>2 DEF Files, FileRight
  <2> QED
    BY <2>1, <2>2
<1> QED
  BY <1>6, <1>7, <1>10

\* A row goes to its place, and the loops move on.
LEMMA GoOnStep ==
  ASSUME IInv, NextRun, Succeeded
  PROVE  IInv'
<1> USE DEF IInv
<1> DEFINE Positions == [variant : 1 .. Len(Variants), size : 1 .. Len(LogSizes), rep : 1 .. Repeats]
           V == position.variant
           f == results[variant]
           row == Row(ulog_size, ulog_size, FALSE)
<1>1. /\ script = "run" /\ proc.pc = "exit" /\ GoOn /\ UNCHANGED <<pool, failures>>
      /\ results' = [results EXCEPT ![variant] = @ \o proc.out]
      /\ results \in [ToSet(Variants) -> Outs] /\ position \in Positions /\ V \in 1 .. Len(Variants)
      /\ variant \in ToSet(Variants) /\ variant = Variants[V]
  BY VariantIn DEF NextRun, Succeeded, Shapes, variant
<1>2. proc.out = <<row>> /\ row \in Lines
  <2>1. ulog_size \in Nat
    BY <1>1, Constants DEF ulog_size
  <2> QED
    BY <1>1, <2>1 DEF Progress, Succeeded, Row, Lines
<1>3. f \in Outs /\ Current(f)
  BY <1>1 DEF Files, FileRight, variant
<1>4. Finished \in 0 .. Total - 1 /\ NewRow(Finished + 1) = row
  BY <1>1, Place DEF Finished, NewRow, ulog_size
<1>5. PICK g \in Outs : /\ results' = [results EXCEPT ![variant] = g]
                        /\ Len(g) = Finished + 1 /\ \A k \in 1 .. Finished + 1 : g[k] = NewRow(k)
  <2> HIDE DEF f, row
  <2>1. f \o <<row>> \in Outs /\ results' = [results EXCEPT ![variant] = f \o <<row>>]
    BY <1>1, <1>2, <1>3 DEF Outs, f
  <2>2. Len(f) = Finished /\ Finished \in Nat /\ \A k \in 1 .. Finished : f[k] = NewRow(k)
    BY <1>1, <1>3, <1>4, SizeAtType DEF Current
  <2>3. Len(f \o <<row>>) = Finished + 1
    BY <1>2, <1>3, <2>2 DEF Outs
  <2>4. \A k \in 1 .. Finished + 1 : (f \o <<row>>)[k] = NewRow(k)
    BY <1>2, <1>3, <1>4, <2>2 DEF Outs
  <2> QED
    BY <2>1, <2>3, <2>4
<1>6. /\ results' \in [ToSet(Variants) -> Outs] /\ results'[Variants[V]] = g
      /\ \A w \in 1 .. Len(Variants) : w # V => results'[Variants[w]] = results[Variants[w]]
  <2>1. results' \in [ToSet(Variants) -> Outs] /\ results'[variant] = g
    <3>1. results \in [ToSet(Variants) -> Outs] /\ variant \in ToSet(Variants)
      BY <1>1
    <3> QED
      BY <1>5, <3>1
  <2>2. ASSUME NEW w \in 1 .. Len(Variants), w # V
        PROVE  results'[Variants[w]] = results[Variants[w]]
    <3>1. Variants[w] # variant /\ Variants[w] \in ToSet(Variants)
      BY <1>1, <2>2, VariantIn, ScriptAssumption
    <3> QED
      BY <1>1, <1>5, <3>1
  <2> QED
    BY <1>1, <2>1, <2>2
<1>7. Len(g) = Total => g = NewFile
  BY <1>4, <1>5 DEF NewFile, Outs
<1> HIDE DEF f, row
<1>8. PICK p : p = Following(position)
  OBVIOUS
<1>9. \/ p \in Positions /\ p.variant = V /\ (p.size - 1) * Repeats + (p.rep - 1) = Finished + 1
      \/ p = [variant |-> V + 1, size |-> 1, rep |-> 1] /\ Finished + 1 = Total
  BY <1>1, <1>8, FollowingPlace
<1>10. CASE p.variant > Len(Variants)
  <2>1. script' = "end" /\ UNCHANGED <<position, proc>>
    BY <1>1, <1>8, <1>10 DEF GoOn
  <2>2. V = Len(Variants) /\ g = NewFile
    BY <1>1, <1>5, <1>7, <1>9, <1>10
  <2>3. Shapes'
    BY <1>1, <1>6, <2>1 DEF Shapes
  <2>4. Progress'
    BY <1>1, <2>1 DEF Progress, ulog_size
  <2>5. \A w \in 1 .. Len(Variants) : results'[Variants[w]] = NewFile
    <3> SUFFICES ASSUME NEW w \in 1 .. Len(Variants) PROVE results'[Variants[w]] = NewFile
      OBVIOUS
    <3>1. CASE w = V
      BY <1>6, <2>2, <3>1
    <3>2. CASE w # V
      <4>1. w < V
        BY <1>1, <2>2, <3>2
      <4> QED
        BY <1>6, <3>2, <4>1 DEF Files, FileRight
    <3> QED
      BY <3>1, <3>2
  <2> QED
    BY <2>1, <2>3, <2>4, <2>5 DEF Files, FileRight
<1>11. CASE p \in Positions /\ p.variant = V /\ (p.size - 1) * Repeats + (p.rep - 1) = Finished + 1
  <2>1. p.size \in 1 .. Len(LogSizes) /\ ~(p.variant > Len(Variants))
    BY <1>1, <1>11
  <2>2. position' = p /\ UNCHANGED script /\ proc' = Launched(LogSizes[p.size])
    BY <1>1, <1>8, <1>11, <2>1 DEF GoOn
  <2>3. LogSizes[p.size] \in Nat /\ ulog_size' = LogSizes[p.size]
    BY <2>1, <2>2, Constants DEF ulog_size
  <2>4. /\ proc' \in Procs /\ proc'.pc = "remove" /\ proc'.i = 1 /\ proc'.snap = 0
        /\ proc'.out = <<>> /\ Len(proc'.oid) = LogSizes[p.size]
        /\ \A j \in DOMAIN proc'.oid : proc'.oid[j] = "null"
    BY <2>2, <2>3, LaunchedFacts
  <2>5. Shapes'
    BY <1>1, <1>6, <1>11, <2>2, <2>3, <2>4 DEF Shapes
  <2>6. Progress'
    BY <1>1, <2>2, <2>3, <2>4 DEF Progress
  <2>7. Current(g)'
    <3>1. Finished' = Finished + 1
      BY <1>11, <2>2 DEF Finished
    <3> QED
      BY <1>4, <1>5, <3>1, SizeAtType DEF Current, Outs
  <2>8. Files'
    <3> SUFFICES ASSUME NEW w \in 1 .. Len(Variants) PROVE FileRight(w)'
      BY DEF Files
    <3> USE DEF FileRight
    <3>1. CASE w = V
      <4>1. Current(results[Variants[w]])'
        BY <1>6, <2>7, <3>1 DEF Current
      <4>2. position'.variant = w /\ ~(w < w) /\ script' = "run" /\ proc'.pc = "remove"
        BY <1>1, <1>11, <2>2, <2>4, <3>1
      <4> QED
        BY <4>1, <4>2
    <3>2. CASE w # V
      BY <1>1, <1>6, <1>11, <2>2, <3>2 DEF Files, FileRight
    <3> QED
      BY <3>1, <3>2
  <2> QED
    BY <2>5, <2>6, <2>8
<1>12. CASE p = [variant |-> V + 1, size |-> 1, rep |-> 1] /\ Finished + 1 = Total
            /\ ~(p.variant > Len(Variants))
  <2>1. p.variant = V + 1 /\ p.size = 1 /\ p.rep = 1 /\ p.variant # V /\ p \in Positions
    BY <1>1, <1>12, Constants
  <2>2. position' = p /\ UNCHANGED script /\ proc' = [Launched(0) EXCEPT !.pc = "none"]
    BY <1>1, <1>8, <1>12, <2>1 DEF GoOn
  <2>3. /\ proc' \in Procs /\ proc'.pc = "none" /\ proc'.i = 1 /\ proc'.snap = 0
        /\ Len(proc'.oid) = 0
    BY <2>2, LaunchedFacts DEF Procs, PCs
  <2>4. Shapes'
    BY <1>1, <1>6, <2>1, <2>2, <2>3 DEF Shapes
  <2>5. Progress'
    BY <1>1, <2>1, <2>2, <2>3 DEF Progress
  <2>6. g = NewFile
    BY <1>5, <1>7, <1>12
  <2>7. Files'
    <3> SUFFICES ASSUME NEW w \in 1 .. Len(Variants) PROVE FileRight(w)'
      BY DEF Files
    <3> USE DEF FileRight
    <3>1. CASE w = V
      <4>1. position'.variant = V + 1 /\ w < V + 1 /\ results'[Variants[w]] = NewFile
        <5>1. results'[Variants[w]] = NewFile
          BY <1>6, <2>6, <3>1
        <5>2. w < V + 1
          BY <3>1
        <5> QED
          BY <2>1, <2>2, <5>1, <5>2
      <4>2. NewFile' = NewFile
        BY DEF NewFile, NewRow, SizeAt, Total
      <4> QED
        BY <4>1, <4>2
    <3>2. CASE w # V
      <4>1. results'[Variants[w]] = results[Variants[w]] /\ (w < V + 1 <=> w < V)
        BY <1>1, <1>6, <3>2
      <4>2. script' = "run" /\ proc'.pc = "none" /\ position'.variant = V + 1
        BY <1>1, <2>1, <2>2, <2>3
      <4>3. IF w < V THEN results[Variants[w]] = NewFile
            ELSE results[Variants[w]] \in {<<>>, OldFile}
        BY <1>1, <3>2 DEF Files, FileRight
      <4> QED
        BY <4>1, <4>2, <4>3
    <3> QED
      BY <3>1, <3>2
  <2> QED
    BY <2>4, <2>5, <2>7
<1> QED
  BY <1>9, <1>10, <1>11, <1>12

-----------------------------------------------------------------------------
(* The theorems *)

\* Every step keeps the invariant.
THEOREM StepHolds == IInv /\ [Next]_vars => IInv'
<1> SUFFICES ASSUME IInv, [Next]_vars PROVE IInv'
  OBVIOUS
<1>1. CASE Process
  BY <1>1, RemoveStep, CreateStep, AllocStep, BeginStep, SnapshotStep, DyingStep, CloseStep,
     OpenStep, PrintStep DEF Process
<1>2. CASE StartVariant
  BY <1>2, StartStep
<1>3. CASE NextRun
  BY <1>3, StopStep, GoOnStep
<1>4. CASE UNCHANGED vars
  <2>1. UNCHANGED <<script, position, proc, pool, results, failures>>
    BY <1>4 DEF vars
  <2>2. Shapes'
    BY <2>1 DEF IInv, Shapes
  <2>3. Progress'
    BY <2>1 DEF IInv, Progress, Missing, ulog_size
  <2>4. Files'
    BY <2>1 DEF IInv, Files, FileRight, Current, Finished
  <2> QED
    BY <2>2, <2>3, <2>4 DEF IInv
<1> QED
  BY <1>1, <1>2, <1>3, <1>4 DEF Next

\* recovery_run and inner_run.sh stay within their types.
THEOREM TypeCorrect == Spec => []TypeOK
<1>1. IInv => TypeOK
  BY DEF IInv, Shapes, Procs, Stages, TypeOK
<1> QED
  BY InitHolds, StepHolds, <1>1, PTL DEF Spec

\* What a row of any result file is, and where it is.
LEMMA RowFacts ==
  ASSUME IInv, NEW v \in ToSet(Variants), NEW k \in RowsOf(v)
  PROVE  /\ k \in 1 .. Total
         /\ results[v][k].size = SizeAt(k) /\ results[v][k].applied = SizeAt(k)
<1> DEFINE f == results[v]
<1>1. PICK w \in 1 .. Len(Variants) : v = Variants[w]
  BY VariantIn
<1>2. f \in Outs /\ k \in DOMAIN f /\ f[k].kind = "row"
  BY DEF IInv, Shapes, RowsOf
<1>3. Finished \in 0 .. Total - 1
  BY Place DEF Finished, IInv, Shapes
<1>4. Text.kind # "row"
  BY DEF Text
<1>5. \A n, old : Row(n, n, old).size = n /\ Row(n, n, old).applied = n
  BY DEF Row
<1>6. CASE f = NewFile
  BY <1>2, <1>5, <1>6 DEF NewFile, NewRow
<1>7. CASE Current(f)
  <2>1. k \in Nat /\ k >= 1 /\ k <= Finished
    <3>1. k \in 1 .. Len(f)
      BY <1>2 DEF Outs
    <3>2. ~(k > Finished)
      BY <1>2, <1>4, <1>7 DEF Current
    <3> QED
      BY <1>3, <3>1, <3>2
  <2>2. f[k] = NewRow(k)
    BY <1>3, <1>7, <2>1 DEF Current
  <2>3. k \in 1 .. Total
    BY <1>3, <2>1, SizeAtType
  <2> QED
    BY <1>5, <2>2, <2>3 DEF NewRow
<1>8. CASE f = OldFile
  <2>1. OldFile = [j \in 1 .. Total |-> Row(SizeAt(j), SizeAt(j), TRUE)]
    BY DEF OldFile, Total, SizeAt
  <2>2. k \in 1 .. Total /\ f[k] = Row(SizeAt(k), SizeAt(k), TRUE)
    BY <1>2, <1>8, <2>1
  <2> QED
    BY <1>5, <2>2
<1>9. f # <<>>
  BY <1>2
<1> QED
  BY <1>1, <1>6, <1>7, <1>8, <1>9 DEF IInv, Files, FileRight

\* A row of a result file is the time of an open that applied a log of the size
\* the row names, whatever failed before.
THEOREM RowsMeanReplay == Spec => []RowMeansReplay
<1>1. IInv => RowMeansReplay
  BY RowFacts DEF RowMeansReplay
<1> QED
  BY InitHolds, StepHolds, <1>1, PTL DEF Spec

\* The rows of a column of recovery_table.sh are of that column's size.
THEOREM ColumnsAreAligned == Spec => []ColumnsAligned
<1>1. IInv => ColumnsAligned
  BY RowFacts, SizeAtType DEF ColumnsAligned, SizeAt, Total
<1> QED
  BY InitHolds, StepHolds, <1>1, PTL DEF Spec

\* A benchmark that reaches its end leaves all rows of this run, and no other.
THEOREM CompleteFiles == Spec => []CompleteAtEnd
<1>1. ASSUME IInv PROVE CompleteAtEnd
  <2> SUFFICES ASSUME script = "end", NEW v \in ToSet(Variants)
               PROVE  /\ Len(results[v]) = Repeats * Len(LogSizes)
                      /\ \A k \in DOMAIN results[v] : results[v][k].kind = "row" /\ ~results[v][k].old
    BY DEF CompleteAtEnd
  <2>1. results[v] = NewFile
    BY <1>1, VariantIn DEF IInv, Files, FileRight
  <2>2. Len(NewFile) = Total
    BY SizeAtType DEF NewFile
  <2>3. \A k \in DOMAIN NewFile : NewFile[k].kind = "row" /\ ~NewFile[k].old
    BY DEF NewFile, NewRow, Row
  <2> QED
    BY <2>1, <2>2, <2>3 DEF Total
<1> QED
  BY InitHolds, StepHolds, <1>1, PTL DEF Spec

=============================================================================
