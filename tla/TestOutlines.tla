----------------------------- MODULE TestOutlines -----------------------------
(***************************************************************************)
(* Proof outlines of the test programs: what each line may rely on when    *)
(* the library has all its protections.  An outline says of each pointer   *)
(* of the program in what state the object behind it is, line by line, and *)
(* how crowded the heap is.  Lawful is what makes a program respect its    *)
(* outline; TestSuiteProofs shows that each program is lawful and that     *)
(* lawful programs keep to their outlines on every run.  The last section  *)
(* is about libraries that lack a protection: which test notices, and what *)
(* keeps that test from ending as it should.                               *)
(***************************************************************************)
EXTENDS TestSuite

\* Something the environment did may excuse a program: a call failed, or the
\* heap is too small for the objects.
Spoiled == failures # MaxFailures \/ ~Roomy

\* The pointers an outline speaks of: the variables of a program, and the
\* value oid had at TX_BEGIN.
Slots == Locals \cup {"saved"}
Pointer(v) == IF v = "saved" THEN proc.saved["oid"] ELSE proc.env[v]

\* p points to the start of an object of n bytes, or to where one was.
\* A is what the transaction allocated, F what it freed, B the objects.
Behind(kind, p, n, B, A, F) ==
  \/ kind = "any"
  \/ kind = "none" /\ p = Unassigned
  \/ \E b \in Granules :
       /\ p = 8 * b /\ B[b] = n
       /\ \/ kind = "old" /\ b \notin A /\ b \notin F
          \/ kind = "new" /\ b \in A /\ b \notin F
          \/ kind = "held" /\ b \notin A
          \/ kind = "going" /\ b \in F
  \/ /\ kind = "stale"
     /\ \/ p = Unassigned
        \/ \E b \in Granules :
             /\ p = 8 * b
             /\ \A c \in Granules : B[c] > 0 /\ c \notin F => b \notin Space(c, B[c])

\* Without a root object, or after a failed allocation, there is none.
Nowhere(kind, p) ==
  kind \in {"old", "new", "held", "going", "stale"} /\ p \in {Null, Unassigned}

Meets(kind, p, n) == Behind(kind, p, n, blk, added, freed) \/ (Spoiled /\ Nowhere(kind, p))

\* How crowded the heap is: without objects, with one small object, with
\* the object oid points to, or with objects whose free is not committed.
Crowd(c) ==
  \/ c = "any"
  \/ c = "empty" /\ Blocks = {}
  \/ c = "few" /\ \E b \in Granules : Blocks \subseteq {b} /\ blk[b] <= 16
  \/ c = "only" /\ \A b \in Blocks : proc.env["oid"] = 8 * b
  \/ c = "leaving" /\ Blocks \subseteq freed

-----------------------------------------------------------------------------
(* The outlines of process s of test t *)

\* Bytes of the object v points to.
Bytes(t, v) ==
  IF v = "root" THEN IF t = 12 THEN 4 ELSE IF t = 15 THEN 24 ELSE 16
  ELSE IF t = 16 THEN BigDummy
  ELSE IF v = "oid2" THEN Stretch
  ELSE IF t = 1 THEN 40 ELSE IF t \in 2 .. 5 THEN 8 ELSE 16

\* The seven lines of WithDummy.
WithDummyKnows(k, v) ==
  IF v = "root" /\ k \in 3 .. 5 THEN "old"
  ELSE IF v = "oid" /\ k \in 5 .. 6 THEN "new"
  ELSE IF v = "obj" /\ k = 7 THEN "new"
  ELSE "any"

\* Line r of a round of zalloc, the last being 0.
Round(k) == (k + 4) % 6

\* What v points to before line k: "never" where control only comes with the
\* transaction aborted.
Known(t, s, k, v) ==
  IF t = 1 THEN IF v = "obj" /\ k \in 8 .. 10 THEN "old" ELSE WithDummyKnows(k, v)
  ELSE IF t \in {2, 4} THEN
    IF v = "obj" /\ k \in 8 .. 9 THEN "old"
    ELSE IF v = "obj" /\ k \in 10 .. 11 THEN "going" ELSE WithDummyKnows(k, v)
  ELSE IF t = 7 THEN IF v = "obj" /\ k \in 8 .. 11 THEN "old" ELSE WithDummyKnows(k, v)
  ELSE IF t \in {3, 5} THEN
    IF v = "obj" /\ k \in 4 .. 5 THEN "old"
    ELSE IF v = "toid" /\ k = 5 THEN "twin"
    ELSE IF v = "toid" /\ k \in 6 .. 7 THEN "stale" ELSE "any"
  ELSE IF t = 8 THEN IF v = "obj" /\ k \in 4 .. 7 THEN "old" ELSE "any"
  ELSE IF t = 6 THEN
    IF v = "oid1" /\ k = 4 THEN "new"
    ELSE IF v = "oid1" /\ k \in 5 .. 6 THEN "old"
    ELSE IF v = "oid1" /\ k \in 7 .. 9 THEN "going"
    ELSE IF v = "oid2" /\ k = 7 THEN "new" ELSE "any"
  ELSE IF t \in {9, 11, 15} \/ (t = 10 /\ s = 2) THEN
    IF v = "root" /\ k \in 3 .. 6 THEN "old" ELSE "any"
  ELSE IF t = 12 THEN IF v = "root" /\ k \in 3 .. 5 THEN "old" ELSE "any"
  ELSE IF t = 13 THEN
    IF v = "oid" /\ k \in 1 .. 3 THEN "none"
    ELSE IF v = "saved" /\ k \in 3 .. 4 THEN "none"
    ELSE IF v = "oid" /\ k = 4 THEN "new"
    ELSE IF v = "oid" /\ k = 5 THEN "never"
    ELSE IF v = "oid" /\ k \in 6 .. 7 THEN "stale" ELSE "any"
  ELSE IF t = 14 THEN
    IF v = "oid" /\ k \in 1 .. 3 THEN "none"
    ELSE IF v = "saved" /\ k = 3 THEN "none"
    ELSE IF v = "oid" /\ k = 4 THEN "new"
    ELSE IF (v = "oid" /\ k \in {5, 6, 9}) \/ (v = "saved" /\ k = 6) THEN "old"
    ELSE IF v \in {"oid", "saved"} /\ k = 7 THEN "held"
    ELSE IF v = "oid" /\ k = 8 THEN "never" ELSE "any"
  ELSE IF t = 16 THEN
    IF v = "oid" /\ Round(k) = 2 THEN "new"
    ELSE IF v = "oid" /\ Round(k) \in {3, 4} THEN "old" ELSE "any"
  ELSE "any"

\* The heap before line k.
Crowded(t, s, k) ==
  IF s = 2 THEN "any"
  ELSE IF k = 2 THEN "empty"
  ELSE IF t \in {1, 2, 4, 7} /\ k \in 3 .. 4 THEN "few"
  ELSE IF t \in {3, 5, 8} /\ k = 3 THEN "few"
  ELSE IF t = 6 THEN IF k = 3 THEN "empty" ELSE IF k \in 4 .. 6 THEN "few" ELSE "any"
  ELSE IF t \in {13, 14} /\ k = 3 THEN "empty"
  ELSE IF t = 16 THEN IF Round(k) \in {0, 1} THEN "empty"
                      ELSE IF Round(k) = 5 THEN "leaving" ELSE "only"
  ELSE "any"

-----------------------------------------------------------------------------
(* Lawful programs: line k of process s of test t is the instruction i. *)

\* The library has room for n bytes in a heap that is c crowded.
RoomFor(c, n) == c = "empty" \/ (c = "few" /\ n \in {8, 16, 40, Stretch})

\* What an instruction does to the object behind a pointer it does not assign.
Becomes(op, kind, next) ==
  \/ next = "any" \/ kind = "never"
  \/ next = "none" /\ kind = "none"
  \/ next = kind /\ kind # "twin" /\ op \in {"begin", "range", "copy", "write", "flag"}
  \/ next = "old" /\ kind = "old" /\ op \in {"alloc", "end"}
  \/ next = "old" /\ kind = "new" /\ op = "end"
  \/ next = "held" /\ kind = "old" /\ op = "free"

\* What ends the life of the object behind pointer v.
Ends(i, v, kind, next) ==
  \/ i.op = "free" /\ v = i.v /\ kind = "old" /\ next = "going"
  \/ i.op = "realloc" /\ v = i.u /\ kind = "old" /\ next = "going"
  \/ i.op = "delete" /\ i.v = "obj" /\ v = "toid" /\ kind = "twin" /\ next = "stale"

\* The pointer an instruction assigns, and what it points to then.
Assigns(i, v) ==
  \/ i.op = "root" /\ v = "root"
  \/ i.op = "begin" /\ v = "saved"
  \/ i.op \in {"alloc", "realloc", "new", "delete", "copy"} /\ v = i.v

Yields(t, s, k, i, next) ==
  \/ next = "any"
  \/ i.op = "root" /\ next = "old"
  \/ i.op = "begin" /\ next = Known(t, s, k, "oid") /\ next # "twin"
  \/ i.op \in {"alloc", "realloc"} /\ next = "new"
  \/ i.op = "new" /\ next = "old"
  \/ i.op = "copy" /\ next = Known(t, s, k, i.u) /\ next # "twin" /\ Bytes(t, i.v) = Bytes(t, i.u)
  \/ i.op = "copy" /\ i.v = "toid" /\ i.u = "obj" /\ next = "twin"

\* What an instruction relies on.
Legal(t, s, k, i) ==
  /\ i.op = "write" => /\ Known(t, s, k, i.v) \in {"old", "new"}
                       /\ i.off \in Nat /\ i.w \in Nat \ {0} /\ i.off + i.w <= Bytes(t, i.v)
  /\ i.op = "range" => /\ Known(t, s, k, i.v) = "old"
                       /\ i.n \in Nat \ {0} /\ i.n <= Bytes(t, i.v)
  /\ i.op = "free" => Known(t, s, k, i.v) = "old" /\ i.off = 0
  /\ i.op = "delete" => Known(t, s, k, i.v) = "old" /\ i.v = "obj"
  /\ i.op = "realloc" => i.u \in Locals /\ Known(t, s, k, i.u) = "old" /\ i.u # i.v
  /\ i.op \in {"alloc", "realloc", "new"} =>
       i.v \in Locals \ {"root"} /\ i.n = Bytes(t, i.v) /\ RoomFor(Crowded(t, s, k), i.n)
  /\ i.op \in {"copy", "write", "range", "free", "delete"} => i.v \in Locals
  /\ i.op = "root" => i.n = Bytes(t, "root")

\* What it does to the crowd.
Crowds(i, c, next) ==
  \/ next = "any"
  \/ next = c /\ c # "only" /\ i.op \in {"begin", "range", "write", "flag"}
  \/ next = c /\ i.op = "begin"
  \/ next = "empty" /\ i.op = "create"
  \/ next = "few" /\ c = "empty" /\ i.op \in {"root", "alloc"} /\ i.n <= 16
  \/ next = "few" /\ c = "few" /\ i.op = "end"
  \/ next = "only" /\ c = "empty" /\ i.op = "alloc" /\ i.v = "oid"
  \/ next = "only" /\ c = "only" /\ i.op = "end"
  \/ next = "leaving" /\ c = "only" /\ i.op = "free" /\ i.v = "oid"
  \/ next = "empty" /\ c = "leaving" /\ i.op = "end"

\* What an abort makes of the object behind a pointer.
Restores(op, kind, next) ==
  \/ next = "any"
  \/ next = "old" /\ kind \in {"old", "held"}
  \/ next = "stale" /\ kind \in {"new", "none"}
  \/ next = "old" /\ kind = "none" /\ op # "abort"

\* The faulty line, the object it is about and the report it must end with.
Trapped(t, s, k, i) ==
  LET kind == Known(t, s, k, i.v)
      n == Bytes(t, i.v)
      snippet == Suite[t].snippet
  IN
  /\ i.v \in Locals
  /\ \/ i.op = "free" /\ kind = "old" /\ i.off = 8 /\ n = 40 /\ snippet = "Invalid free"
     \/ i.op = "free" /\ kind = "going" /\ i.off = 0 /\ snippet = "Invalid free|palloc"
     \/ i.op = "delete" /\ kind = "stale" /\ snippet = "Invalid free|palloc"
     \/ i.op = "write" /\ kind \in {"going", "stale"} /\ i.off = 0 /\ i.w = 8 /\ snippet = "[fd]"
     \/ i.op = "write" /\ kind = "old" /\ n = 16 /\ i.off = 16 /\ i.w = 8 /\ snippet = "00[fa]"
     \/ i.op = "write" /\ kind = "old" /\ n = 16 /\ i.off = -8 /\ i.w = 8 /\ snippet = "[fa]"
     \/ i.op = "write" /\ kind = "old" /\ n = 4 /\ i.off = 0 /\ i.w = 8 /\ snippet = "[04]"
     \/ i.op = "range" /\ kind = "old" /\ n = 24 /\ i.n = 25 /\ snippet = "00[fa]"

AtFault(t, s, k) == k > 1 /\ Suite[t].stages[s][k - 1] = print_pass_flag

\* The line keeps to the outline when control goes on to the next one.
GoesLawfully(t, s, k, i) ==
  /\ Legal(t, s, k, i)
  /\ Crowds(i, Crowded(t, s, k), Crowded(t, s, k + 1))
  /\ \A v \in Slots :
       LET next == Known(t, s, k + 1, v) IN
       IF Assigns(i, v) THEN Yields(t, s, k, i, next)
       ELSE Becomes(i.op, Known(t, s, k, v), next) \/ Ends(i, v, Known(t, s, k, v), next)

\* And when the transaction aborts and control goes to the TX_END at j.
AbortsLawfully(t, s, k, i, j) ==
  IF Suite[t].stages[s][j].handler = "none"
  THEN /\ Crowded(t, s, j + 1) = "any"
       /\ \A v \in Slots : v # "oid" => Known(t, s, j + 1, v) = "any"
       /\ \A v \in {"oid", "saved"} :
            Restores(i.op, Known(t, s, k, v), Known(t, s, j + 1, "oid"))
  ELSE i.op # "abort"

Lawful(t, s, k) ==
  LET P == Suite[t].stages[s]
      i == P[k]
  IN
  /\ i.op = "create" <=> k = 1 /\ s = 1
  /\ i.op = "open" <=> k = 1 /\ s = 2
  /\ i.op = "root" => k = 2
  /\ k = 2 => i.op \in {"root", "begin", "close"}
  /\ i.op = "abort" => P[k + 1].op = "end"
  /\ IF AtFault(t, s, k) THEN Trapped(t, s, k, i)
     ELSE i.op \notin {"abort", "close"} => GoesLawfully(t, s, k, i)
  /\ i.op \in {"alloc", "free", "realloc", "range", "abort"} =>
       \A j \in k + 1 .. Len(P) : P[j].op = "end" => AbortsLawfully(t, s, k, i, j)

-----------------------------------------------------------------------------
(* What the outlines promise of a run *)

\* The state is as the outline says for line k.
Outlined(k) ==
  /\ \A v \in Slots :
       IF Known(test, stage, k, v) = "twin" THEN Pointer(v) = proc.env["obj"]
       ELSE Meets(Known(test, stage, k, v), Pointer(v), Bytes(test, v))
  /\ proc.pool => Crowd(Crowded(test, stage, k))

\* The process is in front of a line, or at the TX_END its aborted transaction
\* jumped to.
KeepsToOutline ==
  proc.status = "run" =>
    /\ proc.pool => proc.pc # 1
    /\ ~proc.pool => proc.pc = 1 \/ (proc.pc = 2 /\ Spoiled)
    /\ proc.pool /\ stage = 1 /\ proc.pc = 2 => root = NoRoot
    /\ ~proc.aborted => Outlined(proc.pc)
    /\ proc.aborted => /\ Instr.op = "end"
                       /\ IF Instr.handler = "none" THEN Outlined(proc.pc + 1) ELSE Spoiled

\* Where the faulty line of a crash test is.
FaultLine == <<10, 11, 7, 11, 7, 9, 11, 7, 6, 6, 6, 5, 7, 0, 6, 0>>

\* Unless the environment spoiled it, a process of a crash test gets as far as
\* its faulty line and no further.
StaysBeforeFault ==
  Suite[test].kind = "crash" /\ LastStage /\ ~Spoiled =>
    /\ proc.pc <= FaultLine[test]
    /\ proc.status = "run" \/ proc.pc = FaultLine[test]
    /\ out = IF proc.pc = FaultLine[test] THEN {"PASS"} ELSE {}

\* A process ends with the report of its faulty line, or for an excuse.
EndsWell ==
  /\ proc.status = "dead" =>
       \/ Spoiled /\ proc.report \in {"segv", "abort"}
       \/ AtFaultLine /\ proc.report \in Shows[Suite[test].snippet]
  /\ proc.status = "exit" => Spoiled \/ Suite[test].kind = "run" \/ ~LastStage

\* overflow_persistence.sh: the root object of the first process is there, with
\* no undo log, until the second process has found it.
RootKept ==
  test = 10 =>
    /\ proc.pool => file
    /\ \/ stage = 1 /\ (proc.pc > 1 \/ proc.status # "run")
       \/ stage = 2 /\ proc.pc <= 2
       => /\ file \/ Spoiled
          /\ file => ~tx /\ (root # NoRoot => blk[root] = 16)

RunsOutlined ==
  features = Features /\ ~indet /\ test <= 16 =>
    ~proc.wild /\ KeepsToOutline /\ StaysBeforeFault /\ EndsWell /\ RootKept

-----------------------------------------------------------------------------
(* Which test notices that the library lacks a protection, and what that   *)
(* test may rely on then.                                                  *)

\* The protection whose absence a test notices, if it is one of its own.
Notices == <<"freecheck", "none", "none", "eager", "poison", "move", "none", "atomic", "right",
             "persist", "left", "partial", "undoalloc", "undofree", "rangecheck", "reclaim">>

\* Test t is to notice what the library lacks.
Telling(t) ==
  /\ Notices[t] \in Features \ features
  /\ Notices[t] \in Maskable =>
       Features \ features \subseteq Maskable /\ failures = MaxFailures

\* The pointer to the memory that the faulty line accesses unnoticed, from
\* the line on that follows its allocation.
Culprit(t, s, k) ==
  IF t = 4 THEN IF k \in 5 .. 6 THEN "oid" ELSE IF k \in 7 .. 11 THEN "obj" ELSE "none"
  ELSE IF t = 5 THEN IF k = 4 THEN "obj" ELSE IF k \in 5 .. 7 THEN "toid" ELSE "none"
  ELSE IF t = 6 THEN IF k \in 4 .. 9 THEN "oid1" ELSE "none"
  ELSE IF t = 8 THEN IF k \in 4 .. 7 THEN "obj" ELSE "none"
  ELSE IF t \in {9, 11} \/ (t = 10 /\ s = 2) THEN IF k \in 3 .. 6 THEN "root" ELSE "none"
  ELSE IF t = 12 THEN IF k \in 3 .. 5 THEN "root" ELSE "none"
  ELSE "none"

\* The granule accessed, counted from the object's first.
Reach(t) == IF t \in 8 .. 10 THEN 2 ELSE IF t = 11 THEN -1 ELSE 0

\* No check stops an access to granule d of what p points to.
Bare(p, d) ==
  \/ p \in {Null, Unassigned}
  \/ \E b \in Granules : p = 8 * b /\ b + d \in Granules /\ shadow[b + d] = 0

\* A process begins without a pool, creates an empty one, and its aborted
\* transactions go to their TX_END.
Orderly ==
  test <= 16 /\ proc.status = "run" =>
    /\ proc.pc = 1 => ~proc.pool
    /\ proc.pc >= 3 => proc.pool
    /\ proc.aborted => Instr.op = "end"
    /\ stage = 1 /\ proc.pc = 2 /\ proc.pool =>
         root = NoRoot /\ blk = NoBlocks /\ ~tx /\ freed = {} /\ file

\* The tests that end on an access find the memory accessible.
LeftBare ==
  proc.status = "run" /\ ~proc.aborted /\ Culprit(test, stage, proc.pc) # "none" =>
    Bare(proc.env[Culprit(test, stage, proc.pc)], Reach(test))

\* overflow_persistence.sh: the root object outlives the first process, and is
\* all zeroes in the shadow the second one finds.
Planted == file /\ ~tx /\ root \in Granules /\ root + 2 \in Granules

PersistenceMissed ==
  /\ stage = 1 => /\ ~proc.wild
                  /\ proc.status = "run" /\ proc.pc = 2 => proc.pool
                  /\ proc.pc = 3 \/ proc.status # "run" => Planted
  /\ stage = 2 /\ proc.status = "run" =>
       /\ proc.pc = 1 => Planted
       /\ proc.pc = 2 => root \in Granules /\ root + 2 \in Granules /\ shadow[root + 2] = 0

\* alloc_tx_abort: oid is unassigned before the allocation and after an abort
\* that forgets it, and no free is undone.
AllocNotUndone ==
  proc.status = "run" =>
    /\ proc.pc \in 1 .. 3 => proc.env["oid"] = Unassigned
    /\ proc.pc \in 3 .. 4 => proc.saved["oid"] = Unassigned /\ freed = {}
    /\ proc.pc \in 4 .. 7 => Bare(proc.env["oid"], 0)
    /\ proc.pc = 5 => proc.aborted

\* free_tx_abort: the object whose free was undone stays poisoned, so the
\* process never gets past its write.
Sealed(p) == \E b \in Granules : p = 8 * b /\ shadow[b] = FD

FreeNotUndone ==
  /\ proc.status # "exit"
  /\ proc.status = "run" =>
       /\ proc.pc # 10
       /\ proc.pc = 3 => blk = NoBlocks
       /\ proc.pc \in 4 .. 6 => \E b \in Granules : proc.env["oid"] = 8 * b
       /\ proc.pc \in 6 .. 7 => proc.saved["oid"] = proc.env["oid"]
       /\ proc.pc \in 7 .. 9 => Sealed(proc.env["oid"])

\* zalloc: what it frees is never given back, so that each round takes its
\* share of the heap and the last one finds it full.
Share == Units(BigDummy) + 2 * Redzone
Used == UNION {Taken(b) : b \in Blocks}
Allocated(k) == (k - 2) \div 6 + (IF (k - 2) % 6 >= 2 THEN 1 ELSE 0)

NothingReclaimed ==
  /\ proc.status # "exit"
  /\ proc.status = "run" /\ ~proc.aborted /\ proc.pc >= 2 /\ proc.pool =>
       Used \subseteq Granules /\ Cardinality(Used) = Share * Allocated(proc.pc)

\* The process of test t does not end as the test would have it, its faulty
\* line at least shows nothing.
Unnoticed(t) ==
  /\ t \notin {14, 16} /\ LastStage /\ proc.status = "dead" /\ proc.pc = FaultLine[t] =>
       proc.report \notin Shows[Suite[t].snippet]
  /\ t \in {4, 5, 6, 8, 9, 10, 11, 12} => LeftBare
  /\ t = 10 => PersistenceMissed
  /\ t = 13 => AllocNotUndone
  /\ t = 14 => FreeNotUndone
  /\ t = 16 => NothingReclaimed

\* What a library lacks was noticed, or the test that tells is not over.
TellsInTime ==
  ~indet => \A t \in 1 .. 16 : Telling(t) =>
    /\ test = t => Unnoticed(t)
    /\ test > t => ~allOK

=============================================================================
