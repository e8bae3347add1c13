---------------------------- MODULE RecoveryRun ----------------------------
(***************************************************************************)
(* The recovery benchmark: inner_run.sh runs recovery_run Repeats times    *)
(* for each size of the undo log and each variant of the library, and      *)
(* recovery_table.sh averages the lines it left behind.                    *)
(*                                                                         *)
(* recovery_run allocates one object per KB, opens a transaction,          *)
(* snapshots every object, closes the pool inside the transaction and      *)
(* times the next open, which has to apply the log.  Times are data: a     *)
(* line of a result file is modelled by what the open of that run applied. *)
(***************************************************************************)
EXTENDS Integers, Sequences, SequencesExt

CONSTANTS Variants,      \* the variants in the order of inner_run.sh
          LogSizes,      \* the log sizes in KB, in the order of the loop
          Repeats,       \* runs per log size
          MaxFailures    \* library or system calls that may fail

ASSUME ScriptAssumption ==
  /\ Variants \in Seq(STRING) /\ Len(Variants) > 0
  /\ \A i, j \in 1 .. Len(Variants) : Variants[i] = Variants[j] => i = j
  /\ LogSizes \in Seq(Nat \ {0}) /\ Len(LogSizes) > 0
  /\ Repeats \in Nat \ {0}
  /\ MaxFailures \in Nat

VARIABLES script,     \* "run", "end", or "stopped" by set -e
          position,   \* counters of the three loops of inner_run.sh
          proc,       \* the running recovery_run
          pool,       \* the pool file
          results,    \* variant -> lines of its result file after the header
          failures    \* calls that may still fail

vars == <<script, position, proc, pool, results, failures>>

-----------------------------------------------------------------------------

\* A line that is no row, and a row: the size asked for, the KB of log the open
\* applied, and whether an earlier run of the script wrote it.
Text == [kind |-> "text", size |-> 0, applied |-> 0, old |-> FALSE]
Row(size, applied, old) == [kind |-> "row", size |-> size, applied |-> applied, old |-> old]

NoPool == [exists |-> FALSE, log |-> 0]
Fresh == [exists |-> TRUE, log |-> 0]

\* An object identifier is null (the mapping is zeroed), valid, or stale:
\* assigned by a transaction that was rolled back.
Launched(n) ==
  [pc |-> "remove", i |-> 1, snap |-> 0, stage |-> "none",
   oid |-> [j \in 1 .. n |-> "null"], applied |-> 0, out |-> <<>>]

ulog_size == LogSizes[position.size]
objects_num == ulog_size
Alive == script = "run" /\ proc.pc \notin {"none", "exit", "dead"}
At(pc) == Alive /\ proc.pc = pc

Fails == failures > 0 /\ failures' = failures - 1

\* The process ends without flushing what it printed: abort, a report of
\* AddressSanitizer, or a signal.
Die == proc' = [proc EXCEPT !.pc = "dead"]

\* return 1, after a message.
Fail == proc' = [proc EXCEPT !.pc = "exit", !.stage = "failed", !.out = Append(@, Text)]

-----------------------------------------------------------------------------
(* recovery_run *)

\* A pool of an earlier run, whose log may be active, is removed first.
safe_remove ==
  /\ At("remove")
  /\ \/ ~pool.exists /\ proc' = [proc EXCEPT !.pc = "create"] /\ UNCHANGED <<pool, failures>>
     \/ /\ pool.exists /\ pool' = NoPool
        /\ proc' = [proc EXCEPT !.pc = "create"] /\ UNCHANGED failures
     \/ /\ pool.exists /\ Fails
        /\ proc' = [proc EXCEPT !.pc = "create", !.out = Append(@, Text)] /\ UNCHANGED pool
  /\ UNCHANGED <<script, position, results>>

Create ==
  /\ At("create")
  /\ \/ /\ ~pool.exists /\ pool' = Fresh
        /\ proc' = [proc EXCEPT !.pc = "alloc"] /\ UNCHANGED failures
     \/ pool.exists /\ Fail /\ UNCHANGED <<pool, failures>>
     \/ ~pool.exists /\ Fails /\ Fail /\ UNCHANGED pool
  /\ UNCHANGED <<script, position, results>>

\* One round of the loop inside TX_BEGIN .. TX_END.
AllocObject ==
  /\ At("alloc") /\ proc.i <= objects_num
  /\ proc' = [proc EXCEPT !.oid[proc.i] = "valid", !.i = @ + 1]
  /\ UNCHANGED <<script, position, pool, results, failures>>

\* The transaction aborts; TX_ONABORT only prints, and main goes on.
AllocAborts ==
  /\ At("alloc") /\ proc.i <= objects_num /\ Fails
  /\ proc' = [proc EXCEPT
       !.oid = [j \in DOMAIN @ |-> IF @[j] = "valid" THEN "stale" ELSE @[j]],
       !.pc = "begin", !.out = Append(@, Text)]
  /\ UNCHANGED <<script, position, pool, results>>

CommitObjects ==
  /\ At("alloc") /\ proc.i > objects_num
  /\ proc' = [proc EXCEPT !.pc = "begin"]
  /\ UNCHANGED <<script, position, pool, results, failures>>

\* pmemobj_tx_begin without a jump buffer; its result is not looked at.
BeginSnapshot ==
  /\ At("begin")
  /\ \/ proc' = [proc EXCEPT !.pc = "snapshot", !.i = 1, !.stage = "work"] /\ UNCHANGED failures
     \/ Fails /\ proc' = [proc EXCEPT !.pc = "snapshot", !.i = 1, !.stage = "onabort"]
  /\ UNCHANGED <<script, position, pool, results>>

\* pmemobj_tx_add_range: without a jump buffer a failure aborts the
\* transaction and returns.
AddRange ==
  /\ At("snapshot") /\ proc.i <= objects_num /\ proc.stage = "work"
  /\ proc.oid[proc.i] # "null"
  /\ pool' = [pool EXCEPT !.log = @ + 1]
  /\ proc' = [proc EXCEPT !.i = @ + 1, !.snap = @ + 1]
  /\ UNCHANGED <<script, position, results, failures>>

AddRangeFails ==
  /\ At("snapshot") /\ proc.i <= objects_num /\ proc.stage = "work"
  /\ (proc.oid[proc.i] = "null" /\ UNCHANGED failures) \/ Fails
  /\ pool' = [pool EXCEPT !.log = 0]
  /\ proc' = [proc EXCEPT !.i = @ + 1, !.stage = "onabort", !.out = Append(@, Text)]
  /\ UNCHANGED <<script, position, results>>

\* SafePM reports a range that is no object; outside of a transaction the
\* call ends the process.
AddRangeDies ==
  /\ At("snapshot") /\ proc.i <= objects_num
  /\ proc.stage = "onabort" \/ proc.oid[proc.i] = "stale"
  /\ Die
  /\ UNCHANGED <<script, position, pool, results, failures>>

\* Deviation: the assertion is compiled away.
CloseUnchecked ==
  /\ At("snapshot") /\ proc.i > objects_num
  /\ proc' = [proc EXCEPT !.pc = "open"]
  /\ UNCHANGED <<script, position, pool, results, failures>>

\* assert(snapshot_obj_size == ulog_size * KB), and pmemobj_close inside the
\* transaction.
CloseInsideTx ==
  /\ At("snapshot") /\ proc.i > objects_num
  /\ IF proc.snap = ulog_size THEN proc' = [proc EXCEPT !.pc = "open"] ELSE Die
  /\ UNCHANGED <<script, position, pool, results, failures>>

\* The timed open applies the log.
Open ==
  /\ At("open")
  /\ \/ /\ proc' = [proc EXCEPT !.pc = "print", !.applied = pool.log]
        /\ pool' = [pool EXCEPT !.log = 0] /\ UNCHANGED failures
     \/ Fails /\ Fail /\ UNCHANGED pool
  /\ UNCHANGED <<script, position, results>>

print_recovery_results ==
  /\ At("print")
  /\ proc' = [proc EXCEPT !.pc = "exit", !.stage = "done",
                !.out = Append(@, Row(ulog_size, proc.applied, FALSE))]
  /\ UNCHANGED <<script, position, pool, results, failures>>

\* The process is killed, or the machine goes down under it.
Killed ==
  /\ Alive /\ Fails /\ Die
  /\ UNCHANGED <<script, position, pool, results>>

-----------------------------------------------------------------------------
(* inner_run.sh *)

variant == Variants[position.variant]

\* Deviation: the result file is not removed first.
StartVariantAppends ==
  /\ script = "run" /\ proc.pc = "none"
  /\ proc' = Launched(objects_num)
  /\ UNCHANGED <<script, position, pool, results, failures>>

\* rm -f of the result file, and a new header.
StartVariant ==
  /\ script = "run" /\ proc.pc = "none"
  /\ results' = [results EXCEPT ![variant] = <<>>]
  /\ proc' = Launched(objects_num)
  /\ UNCHANGED <<script, position, pool, failures>>

\* Deviation: the loop over the repeats runs once too often.
FollowingOneMore(p) ==
  IF p.rep <= Repeats THEN [p EXCEPT !.rep = @ + 1]
  ELSE IF p.size < Len(LogSizes) THEN [p EXCEPT !.rep = 1, !.size = @ + 1]
  ELSE [variant |-> p.variant + 1, size |-> 1, rep |-> 1]

\* Deviation: the last variant is followed by the first.
FollowingAround(p) ==
  IF p.rep < Repeats THEN [p EXCEPT !.rep = @ + 1]
  ELSE IF p.size < Len(LogSizes) THEN [p EXCEPT !.rep = 1, !.size = @ + 1]
  ELSE [variant |-> (p.variant % Len(Variants)) + 1, size |-> 1, rep |-> 1]

\* The next position of the three nested loops.
Following(p) ==
  IF p.rep < Repeats THEN [p EXCEPT !.rep = @ + 1]
  ELSE IF p.size < Len(LogSizes) THEN [p EXCEPT !.rep = 1, !.size = @ + 1]
  ELSE [variant |-> p.variant + 1, size |-> 1, rep |-> 1]

GoOn ==
  LET p == Following(position) IN
  IF p.variant > Len(Variants) THEN script' = "end" /\ UNCHANGED <<position, proc>>
  ELSE /\ position' = p /\ UNCHANGED script
       /\ proc' = IF p.variant = position.variant THEN Launched(LogSizes[p.size])
                  ELSE [Launched(0) EXCEPT !.pc = "none"]

Succeeded == proc.pc = "exit" /\ proc.stage = "done"

\* Deviation: the script does not start with set -e.
NextRunAlways ==
  /\ script = "run" /\ proc.pc \in {"exit", "dead"}
  /\ results' = [results EXCEPT ![variant] =
                   IF proc.pc = "exit" THEN @ \o proc.out ELSE @]
  /\ GoOn
  /\ UNCHANGED <<pool, failures>>

\* What the process printed is in the file; set -e ends the script unless it
\* succeeded.
NextRun ==
  /\ script = "run" /\ proc.pc \in {"exit", "dead"}
  /\ results' = [results EXCEPT ![variant] =
                   IF proc.pc = "exit" THEN @ \o proc.out ELSE @]
  /\ IF Succeeded THEN GoOn ELSE script' = "stopped" /\ UNCHANGED <<position, proc>>
  /\ UNCHANGED <<pool, failures>>

-----------------------------------------------------------------------------
(* recovery_table.sh *)

\* Every Repeats lines of a result file, whatever they say, make one column.
dumped(lines) ==
  [k \in 1 .. Len(lines) \div Repeats |-> SubSeq(lines, (k - 1) * Repeats + 1, k * Repeats)]

-----------------------------------------------------------------------------

\* The result file of a complete earlier run; no file counts as no lines.
OldFile ==
  [k \in 1 .. Repeats * Len(LogSizes) |->
     LET n == LogSizes[((k - 1) \div Repeats) + 1] IN Row(n, n, TRUE)]

Init ==
  /\ script = "run"
  /\ position = [variant |-> 1, size |-> 1, rep |-> 1]
  /\ proc = [Launched(0) EXCEPT !.pc = "none"]
  /\ pool \in {NoPool} \cup {[Fresh EXCEPT !.log = n] : n \in {0} \cup ToSet(LogSizes)}
  /\ \E file \in {<<>>, OldFile} : results = [v \in ToSet(Variants) |-> file]
  /\ failures = MaxFailures

Process ==
  \/ safe_remove \/ Create \/ AllocObject \/ AllocAborts \/ CommitObjects \/ BeginSnapshot
  \/ AddRange \/ AddRangeFails \/ AddRangeDies \/ CloseInsideTx \/ Open
  \/ print_recovery_results \/ Killed

Next == Process \/ StartVariant \/ NextRun

Spec == Init /\ [][Next]_vars

\* A program that is running goes on, and the shell that waits for it goes on
\* when it has ended.
FairSpec == Spec /\ WF_vars(Next)

-----------------------------------------------------------------------------
(* Properties *)

RowsOf(v) == {k \in DOMAIN results[v] : results[v][k].kind = "row"}

\* Type invariant.
TypeOK ==
  /\ script \in {"run", "end", "stopped"}
  /\ position.variant \in 1 .. Len(Variants)
  /\ position.size \in 1 .. Len(LogSizes)
  /\ position.rep \in 1 .. Repeats
  /\ proc.stage \in {"none", "work", "onabort", "failed", "done"}
  /\ proc.i \in 1 .. Len(proc.oid) + 1 /\ proc.snap \in 0 .. Len(proc.oid)
  /\ pool.exists \in BOOLEAN /\ pool.log \in Nat
  /\ failures \in 0 .. MaxFailures

\* A row of a result file is the time of an open that applied a log of the
\* size the row names, not less: whatever failed before, and although no
\* result of the snapshot loop stops it (recovery_run.c:105-114).
RowMeansReplay ==
  \A v \in ToSet(Variants) : \A k \in RowsOf(v) :
    results[v][k].applied = results[v][k].size

\* recovery_table.sh knows the log size of a line from its place alone: the
\* rows of a column are of that column's size (recovery_table.sh:18-31), even
\* when the benchmark stopped half way.
ColumnsAligned ==
  \A v \in ToSet(Variants) : \A k \in RowsOf(v) :
    /\ k <= Repeats * Len(LogSizes)
    /\ results[v][k].size = LogSizes[((k - 1) \div Repeats) + 1]

\* A benchmark that reaches its end leaves all rows of this run in each file,
\* and nothing of an earlier one.
CompleteAtEnd ==
  script = "end" =>
    \A v \in ToSet(Variants) :
      /\ Len(results[v]) = Repeats * Len(LogSizes)
      /\ \A k \in DOMAIN results[v] : results[v][k].kind = "row" /\ ~results[v][k].old

\* Whatever fails, the benchmark comes to its end or is stopped by set -e: no
\* step of recovery_run and no round of the loops of inner_run.sh is waited for
\* for ever, and the loops terminate (inner_run.sh:9-18).
ScriptEnds == <>(script # "run")

\* recovery_table.sh:19, "acc the repeats values": an average printed after a
\* run of the benchmark is one of Repeats recovery times.
AveragesAreOfValues ==
  script # "run" =>
    \A v \in ToSet(Variants) : \A k \in DOMAIN dumped(results[v]) :
      \A line \in ToSet(dumped(results[v])[k]) : line.kind = "row"

=============================================================================
