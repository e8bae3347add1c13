------------------------------ MODULE TestSuite ------------------------------
(***************************************************************************)
(* test.sh running the test programs against one build of the library.     *)
(* Each test is one process (two for overflow_persistence.sh) that         *)
(* executes its program on the heap of PMHeap, one instruction a step, and *)
(* ends by itself or dies with a report; should_crash or should_not_crash  *)
(* then judges what it printed and how it ended.                           *)
(*                                                                         *)
(* The environment may let at most MaxFailures library calls fail (pool    *)
(* creation and opening, allocation, logging), and reading a pointer that  *)
(* was never assigned yields anything.                                     *)
(***************************************************************************)
EXTENDS PMHeap, TestPrograms, FiniteSetsExt

CONSTANTS MaxFailures,   \* library calls that may fail for want of a resource
          Libraries      \* the builds of the library under test: sets of features

\* No library under test checks ranges while what belongs to no object may be
\* accessed on both sides of a redzone, and there is a redzone on one side only.
ASSUME SuiteAssumption ==
  /\ MaxFailures \in Nat
  /\ \A f \in Libraries :
       /\ f \subseteq Features
       /\ "rangecheck" \in f => "right" \in f \/ "poison" \in f \/ "left" \notin f

\* The heap has room for two objects of a program wherever the first one lies,
\* and for zalloc's.
Roomy ==
  /\ \A n \in {40, Stretch} : HeapSize >= 2 * Units(n) + Units(16) + 6 * Redzone - 1
  /\ HeapSize >= Units(BigDummy) + 2 * Redzone

\* The programs create pools of 10 MB or more for their few objects.
ASSUME RoomAssumption == Roomy

\* All that zalloc allocates, 2600 objects of 8 KB, is more than its pool holds.
ASSUME CrampedAssumption == HeapSize < 2 * Rounds * (Units(BigDummy) + 2 * Redzone)

VARIABLES build,      \* "Debug", or "RelWithDebInfo" when NDEBUG=1
          test,       \* position in Suite, one past it at the end of the script
          stage,      \* process of the test
          proc,       \* the running process
          out,        \* flags the test printed
          allOK,      \* every verdict so far was OK
          rc,         \* exit status of the last command of the script
          file,       \* a pool file exists
          failures,   \* calls that may still fail
          indet       \* an unassigned pointer was used

suiteVars == <<build, test, stage, allOK, rc>>
vars == <<heapVars, suiteVars, proc, out, file, failures, indet>>

-----------------------------------------------------------------------------
(* Processes *)

Null == -1000
Unassigned == -2000

\* obj is a field of the root object, which the library zeroes.
Launched == [pc |-> 1, status |-> "run", report |-> "none",
             pool |-> FALSE, aborted |-> FALSE, wild |-> FALSE,
             env |-> [v \in Locals |-> IF v = "obj" THEN Null ELSE Unassigned],
             saved |-> [v \in Locals |-> Unassigned]]

Program == Suite[test].stages[stage]
Running == test <= Len(Suite) /\ proc.status = "run"
At(op) == Running /\ Program[proc.pc].op = op
Instr == Program[proc.pc]

Goto(pc) == proc' = [proc EXCEPT !.pc = pc]
Advance == Goto(proc.pc + 1)
AdvanceWith(v, p) == proc' = [proc EXCEPT !.pc = @ + 1, !.env[v] = p]
AdvanceWild == proc' = [proc EXCEPT !.pc = @ + 1, !.wild = TRUE]

Die(r) ==
  /\ proc' = [proc EXCEPT !.status = "dead", !.report = r]
  /\ IF open THEN Detach ELSE UNCHANGED heapVars
  /\ UNCHANGED <<suiteVars, out, file>>

\* One call fails for want of a resource.
Fails == failures > 0 /\ failures' = failures - 1 /\ UNCHANGED indet
Ordinary == UNCHANGED <<suiteVars, out, file, failures, indet>>

\* assert is compiled away by -DNDEBUG, the explicit if is not.
Checked == Instr.check = "abort" \/ build = "Debug"

\* Deviation: control stays at the call that failed.
UnwindInPlace ==
  /\ TxAbort
  /\ proc' = [proc EXCEPT !.aborted = TRUE]
  /\ UNCHANGED <<suiteVars, out, file>>

\* The transaction aborts and control jumps to TX_END.  The undo log restores
\* obj; a local assigned since TX_BEGIN keeps its value in a Debug build and is
\* indeterminate in an optimised one, as setjmp says of locals not volatile.
Unwind ==
  /\ TxAbort
  /\ \E keep \in {TRUE} \cup {build = "Debug"} :
       LET env == IF keep THEN proc.env ELSE proc.saved IN
       proc' = [proc EXCEPT
         !.pc = CHOOSE j \in proc.pc .. Len(Program) :
                  /\ Program[j].op = "end"
                  /\ \A k \in proc.pc .. (j - 1) : Program[k].op # "end",
         !.aborted = TRUE,
         !.env = [env EXCEPT !["obj"] = proc.saved["obj"]]]
  /\ UNCHANGED <<suiteVars, out, file>>

-----------------------------------------------------------------------------
(* Accesses *)

\* What the report of an access to granule g shows around the shadow byte.
ReportOf(g) ==
  CASE g \notin Granules -> "segv"
    [] g \in Granules /\ shadow[g] = FD -> "[fd]"
    [] g \in Granules /\ shadow[g] = FA ->
         IF g - 1 \in Granules /\ shadow[g - 1] = 0 THEN "00[fa]" ELSE "[fa]"
    [] OTHER -> IF shadow[g] = 4 THEN "[04]" ELSE "[0k]"

\* The bytes are those of one object, possibly one whose free is not yet
\* committed: touching them damages nothing.
Harmless(a, w) ==
  \E b \in Blocks : 8 * b <= a /\ a + w <= 8 * b + blk[b]

\* w bytes at a are accessed, or checked for an access, by an instrumented
\* program: the lowest granule that may not be accessed ends it.
Touch(a, w) ==
  LET bad == Faults(a, w) IN
  /\ UNCHANGED <<failures, indet>>
  /\ \/ bad # {} /\ Die(ReportOf(Min(bad)))
     \/ /\ bad = {}
        /\ IF Harmless(a, w) THEN Advance ELSE AdvanceWild
        /\ UNCHANGED <<heapVars, suiteVars, out, file>>

\* The pointer read was never assigned: the address is arbitrary.
TouchAnywhere ==
  /\ indet' = TRUE /\ UNCHANGED failures
  /\ \/ \E r \in {"segv", "[fd]", "[fa]"} : Die(r)
     \/ AdvanceWild /\ UNCHANGED <<heapVars, suiteVars, out, file>>

Write ==
  /\ At("write")
  /\ LET p == proc.env[Instr.v] IN
     \/ p = Null /\ Die("segv") /\ UNCHANGED <<failures, indet>>
     \/ p = Unassigned /\ TouchAnywhere
     \/ p >= 0 /\ Touch(p + Instr.off, Instr.w)

-----------------------------------------------------------------------------
(* Pool and root object *)

NoPool ==
  \/ Checked /\ Die("abort")
  \/ ~Checked /\ Advance /\ UNCHANGED <<heapVars, suiteVars, out, file>>

Create ==
  /\ At("create")
  /\ \/ /\ Format
        /\ proc' = [proc EXCEPT !.pc = @ + 1, !.pool = TRUE]
        /\ file' = TRUE
        /\ UNCHANGED <<suiteVars, out, failures, indet>>
     \/ /\ Fails /\ file' = FALSE      \* the old file is unlinked before
        /\ proc' = IF Checked THEN [proc EXCEPT !.status = "dead", !.report = "abort"]
                   ELSE [proc EXCEPT !.pc = @ + 1]
        /\ UNCHANGED <<heapVars, suiteVars, out>>

OpenPool ==
  /\ At("open")
  /\ \/ /\ file /\ Reopen
        /\ proc' = [proc EXCEPT !.pc = @ + 1, !.pool = TRUE]
        /\ Ordinary
     \/ file /\ Fails /\ NoPool
     \/ ~file /\ NoPool /\ UNCHANGED <<failures, indet>>

\* A call on the NULL pool that a missing assert let through.
UseNoPool ==
  /\ Running /\ ~proc.pool /\ Instr.op \in {"root", "begin", "new"}
  /\ Die("segv") /\ UNCHANGED <<failures, indet>>

RootObj ==
  /\ At("root") /\ proc.pool
  /\ \/ root # NoRoot /\ AdvanceWith("root", 8 * root) /\ UNCHANGED heapVars /\ Ordinary
     \/ \E b \in Granules :
          RootAlloc(b, Instr.n) /\ AdvanceWith("root", 8 * b) /\ Ordinary
     \/ /\ Fails
        /\ \/ Checked /\ Die("abort")
           \/ ~Checked /\ AdvanceWith("root", Null) /\ UNCHANGED <<heapVars, suiteVars, out, file>>

-----------------------------------------------------------------------------
(* Transactions *)

Begin ==
  /\ At("begin") /\ proc.pool
  /\ TxBegin
  /\ proc' = [proc EXCEPT !.pc = @ + 1, !.saved = proc.env]
  /\ Ordinary

\* No place for n bytes, or an allocator that fails for another reason.
Full(n) == \A b \in Granules : ~Fits(b, n)
AllocFails(n) == IF Full(n) THEN UNCHANGED <<failures, indet>> ELSE Fails

Alloc ==
  /\ At("alloc")
  /\ \/ \E b \in Granules :
          TxAlloc(b, Instr.n) /\ AdvanceWith(Instr.v, 8 * b) /\ Ordinary
     \/ AllocFails(Instr.n) /\ Unwind

\* An address that is no object: SafePM reports it, without the check the
\* heap is damaged.
BadFree ==
  /\ UNCHANGED <<failures, indet>>
  /\ IF "freecheck" \in features THEN Die("Invalid free")
     ELSE AdvanceWild /\ UNCHANGED <<heapVars, suiteVars, out, file>>

Freeable(a) == a % 8 = 0 /\ a \div 8 \in Live

Free ==
  /\ At("free")
  /\ LET p == proc.env[Instr.v]
         a == p + Instr.off IN
     \/ p >= 0 /\ Freeable(a) /\ TxFree(a \div 8) /\ Advance /\ Ordinary
     \/ p >= 0 /\ Freeable(a) /\ Fails /\ Unwind
     \/ p >= 0 /\ ~Freeable(a) /\ BadFree
     \/ /\ p = Unassigned /\ indet' = TRUE /\ UNCHANGED failures
        /\ \/ \E r \in {"segv", "Invalid free"} : Die(r)
           \/ Unwind

\* The program gives up when the object stayed where it was.
Realloc ==
  /\ At("realloc")
  /\ LET b == proc.env[Instr.u] \div 8 IN
     \/ \E c \in Granules :
          TxMove(b, c, Instr.n) /\ AdvanceWith(Instr.v, 8 * c) /\ Ordinary
     \/ AllocFails(Instr.n) /\ Unwind
     \/ Fails /\ Die("abort")

AddRange ==
  /\ At("range")
  /\ LET p == proc.env[Instr.v] IN
     \/ p = Null /\ Die("segv") /\ UNCHANGED <<failures, indet>>
     \/ p = Null /\ Unwind /\ UNCHANGED <<failures, indet>>
     \/ p >= 0 /\ Fails /\ Unwind
     \/ p >= 0 /\ "rangecheck" \in features /\ Touch(p, Instr.n)
     \/ /\ p >= 0 /\ "rangecheck" \notin features
        /\ Advance /\ UNCHANGED heapVars /\ Ordinary

AbortTx == At("abort") /\ Unwind /\ UNCHANGED <<failures, indet>>

End ==
  /\ At("end") /\ UNCHANGED <<failures, indet>>
  /\ \/ /\ ~proc.aborted
        /\ TxCommit /\ Advance /\ UNCHANGED <<suiteVars, out, file>>
     \/ /\ proc.aborted /\ Instr.handler = "none"
        /\ proc' = [proc EXCEPT !.pc = @ + 1, !.aborted = FALSE]
        /\ UNCHANGED <<heapVars, suiteVars, out, file>>
     \/ /\ proc.aborted /\ Instr.handler # "none"
        /\ proc' = [proc EXCEPT !.status = "dead", !.report = "abort"]
        /\ out' = IF Instr.handler = "failabort" THEN out \cup {"FAIL"} ELSE out
        /\ Detach /\ UNCHANGED <<suiteVars, file>>

-----------------------------------------------------------------------------
(* Atomic operations and the rest of the instructions *)

New ==
  /\ At("new") /\ proc.pool
  /\ \/ \E b \in Granules :
          AtomicAlloc(b, Instr.n) /\ AdvanceWith(Instr.v, 8 * b) /\ Ordinary
     \/ AllocFails(Instr.n) /\ Die("abort")

Delete ==
  /\ At("delete")
  /\ LET p == proc.env[Instr.v] IN
     \/ p >= 0 /\ Freeable(p) /\ AtomicFree(p \div 8) /\ AdvanceWith(Instr.v, Null) /\ Ordinary
     \/ p >= 0 /\ ~Freeable(p) /\ BadFree
     \/ /\ p >= 0 /\ ~Freeable(p) /\ "freecheck" \notin features /\ build = "Debug"
        /\ Die("palloc") /\ UNCHANGED <<failures, indet>>

Copy ==
  /\ At("copy")
  /\ AdvanceWith(Instr.v, proc.env[Instr.u])
  /\ UNCHANGED heapVars /\ Ordinary

Flag ==
  /\ At("flag")
  /\ out' = out \cup {Instr.f} /\ Advance
  /\ UNCHANGED <<heapVars, suiteVars, file, failures, indet>>

Close ==
  /\ At("close")
  /\ Detach
  /\ proc' = [proc EXCEPT !.status = "exit"]
  /\ Ordinary

\* A library call finds what was damaged unnoticed: it crashes, runs into
\* poisoned memory, or fails the assertion of a debug build.
Derail ==
  /\ Running /\ proc.wild /\ Instr.op \notin {"write", "flag", "copy"}
  /\ \E r \in {"segv"} \cup (IF build = "Debug" THEN {"palloc"} ELSE {})
               \cup {ReportOf(g) : g \in {h \in Granules : shadow[h] # 0}} : Die(r)
  /\ UNCHANGED <<failures, indet>>

-----------------------------------------------------------------------------
(* test.sh *)

Shows == [s \in {"Invalid free", "Invalid free|palloc", "[fd]", "00[fa]", "[fa]", "[04]"} |->
  CASE s = "Invalid free|palloc" -> {"Invalid free", "palloc"}
    [] s = "[fa]" -> {"[fa]", "00[fa]"}
    [] OTHER -> {s}]

\* The exit status of a test is that of its last process.
Ended == test <= Len(Suite) /\ proc.status # "run"
LastStage == stage = Len(Suite[test].stages)

\* Deviation: the flag printed after the faulty line is not looked for.
verdict_without_fail_flag ==
  IF proc.status = "exit" THEN "did not crash"
  ELSE IF "PASS" \notin out THEN "failed early"
  ELSE IF proc.report \in Shows[Suite[test].snippet] THEN "OK"
  ELSE "failed"

should_crash_verdict ==
  IF proc.status = "exit" THEN "did not crash"
  ELSE IF "PASS" \notin out THEN "failed early"
  ELSE IF "FAIL" \in out THEN "failed late"
  ELSE IF proc.report \in Shows[Suite[test].snippet] THEN "OK"
  ELSE "failed"

should_not_crash_verdict == IF proc.status = "exit" THEN "OK" ELSE "crashed"

Verdict == IF Suite[test].kind = "crash" THEN should_crash_verdict ELSE should_not_crash_verdict

\* The last command of should_crash is an echo: a missing snippet returns 0.
NextStage ==
  /\ Ended /\ ~LastStage
  /\ stage' = stage + 1 /\ proc' = Launched
  /\ UNCHANGED <<heapVars, build, test, allOK, rc, out, file, failures, indet>>

\* Deviation: the script counts its failures in the status.
JudgeAndCount ==
  /\ Ended /\ LastStage
  /\ allOK' = (allOK /\ Verdict = "OK")
  /\ rc' = IF Verdict \in {"OK", "failed"} THEN rc ELSE rc + 1
  /\ test' = test + 1 /\ stage' = 1 /\ proc' = Launched /\ out' = {}
  /\ UNCHANGED <<heapVars, build, file, failures, indet>>

Judge ==
  /\ Ended /\ LastStage
  /\ allOK' = (allOK /\ Verdict = "OK")
  /\ rc' = IF Verdict \in {"OK", "failed"} THEN 0 ELSE 1
  /\ test' = test + 1 /\ stage' = 1 /\ proc' = Launched /\ out' = {}
  /\ UNCHANGED <<heapVars, build, file, failures, indet>>

Done == test > Len(Suite)

-----------------------------------------------------------------------------

Init ==
  /\ \E f \in Libraries : HeapInit(f)
  /\ open = FALSE
  /\ build \in {"Debug", "RelWithDebInfo"}
  /\ test = 1 /\ stage = 1 /\ proc = Launched /\ out = {}
  /\ allOK = TRUE /\ rc = 0
  /\ file \in BOOLEAN            \* a pool of an earlier run may be there
  /\ failures = MaxFailures /\ indet = FALSE

Process ==
  \/ Create \/ OpenPool \/ UseNoPool \/ RootObj
  \/ Begin \/ Alloc \/ Free \/ Realloc \/ AddRange \/ AbortTx \/ End
  \/ New \/ Delete \/ Copy \/ Write \/ Flag \/ Close \/ Derail

Next == Process \/ NextStage \/ Judge

Spec == Init /\ [][Next]_vars

FairSpec == Spec /\ WF_vars(Next)

-----------------------------------------------------------------------------
(* Properties *)

\* Type invariant.
TypeOK ==
  /\ features \in Libraries
  /\ shadow \in [Granules -> (0 .. 7) \cup {FA, FD}]
  /\ test \in 1 .. Len(Suite) + 1
  /\ stage \in 1 .. 2
  /\ proc.status \in {"run", "exit", "dead"}
  /\ out \subseteq Flags
  /\ rc \in {0, 1}
  /\ failures \in 0 .. MaxFailures

\* The process stands at the line after print_pass_flag, the one the comments
\* say should crash.
AtFaultLine == proc.pc > 1 /\ Program[proc.pc - 1] = print_pass_flag

\* should_crash says OK only of a test whose process ended on the faulty line
\* itself, or in the assertion a damaged heap meets in a debug build of PMDK,
\* whatever the library, failing calls or garbage pointers (test.sh:22-42,73).
OKMeansCaught ==
  Ended /\ LastStage /\ Suite[test].kind = "crash" /\ Verdict = "OK" =>
    proc.status = "dead" /\ (AtFaultLine \/ proc.report = "palloc")

\* Protections whose absence a failing library call can hide: the root object
\* that the first process of overflow_persistence.sh could not allocate is
\* allocated by the second, and the free that free_tx_abort.cpp:27 could not
\* log is not undone because it never happened.
Maskable == {"persist", "undofree"}

\* A library that lacks a protection, or several, does not get through the
\* suite: some verdict is not OK, even when calls fail for want of resources,
\* Maskable aside (test.sh:72-87; Readme.md:51 suggests the run on upstream).
DefectsNoticed ==
  /\ Done /\ features # Features /\ ~indet
  /\ Features \ features \subseteq Maskable => failures = MaxFailures
  => ~allOK

\* overflow_persistence.sh:4, "Start a new process to really make sure the
\* persistent shadow memory is persistent": a verdict OK on that script says
\* that the library keeps its shadow across a close.
PersistenceReallyTested ==
  Ended /\ stage = 2 /\ Verdict = "OK" => "persist" \in features

\* With SafePM complete and no failing call every verdict is OK, wherever the
\* allocator places objects and in both builds.
SoundBuildPasses ==
  features = Features /\ failures = MaxFailures /\ ~indet /\ Ended /\ LastStage => Verdict = "OK"

\* With SafePM complete no process is stopped by a memory report before its
\* faulty line: legal accesses, undone frees and reused memory are left alone.
NoFalseAlarm ==
  features = Features /\ ~indet /\ proc.status = "dead" /\ proc.report \notin {"segv", "abort"} =>
    AtFaultLine

\* Each process comes to an end and the script reaches its last test.
SuiteEnds == <>Done

\* Readme.md:49: test.sh makes sure that the tests crash the way they are
\* supposed to.  An exit status of 0 would say that each did.
StatusIsVerdict == Done /\ rc = 0 => allOK

=============================================================================
