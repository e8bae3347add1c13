--------------------------- MODULE TestSuiteProofs ---------------------------
(***************************************************************************)
(* The test suite, wherever the allocator places objects, whichever calls  *)
(* fail and in both builds.  For whatever library: a verdict OK of         *)
(* should_crash says that the faulty line was caught.  For the complete    *)
(* library: each program is lawful, a lawful program keeps to its outline  *)
(* on every run, and so nothing but the faulty line stops it and every     *)
(* verdict is OK.  For a library that lacks a protection: the test of that *)
(* protection never ends as it should, so that some verdict is not OK.     *)
(***************************************************************************)
EXTENDS TestOutlines, FiniteSetTheorems, TLAPS

-----------------------------------------------------------------------------
(* What all programs have in common.  These facts are all that most of the *)
(* proof knows of them.                                                    *)

\* The calls that may abort the transaction.
Leaving == {"alloc", "free", "realloc", "range", "abort"}

Sized == {"root", "alloc", "realloc", "new"}

NextEnd(P, k, j) == P[j].op = "end" /\ \A m \in k .. j - 1 : P[m].op # "end"

\* A program ends with its close and nowhere else, and behind a call that may
\* abort there is a TX_END to jump to.
Form(P) ==
  /\ Len(P) \in Nat \ {0}
  /\ \A k \in 1 .. Len(P) : P[k].op = "close" <=> k = Len(P)
  /\ \A k \in 1 .. Len(P) : P[k].op = "flag" => P[k].f \in Flags
  /\ \A k \in 1 .. Len(P) : P[k].op \in Sized => P[k].n \in Nat \ {0}
  /\ \A k \in 1 .. Len(P) : P[k].op = "copy" => P[k].u \in Locals
  /\ \A k \in 1 .. Len(P) : P[k].op \in Leaving => \E j \in k + 1 .. Len(P) : NextEnd(P, k, j)

\* The flag before the faulty line F is PASS, the flag at L is FAIL, there are
\* no others, and between F and L there is at most the end of a transaction.
CrashForm(P, F, L) ==
  /\ F \in 2 .. Len(P) /\ L \in F + 1 .. F + 2 /\ L <= Len(P)
  /\ P[F - 1] = print_pass_flag /\ P[L] = print_fail_flag
  /\ \A k \in 1 .. Len(P) : P[k].op = "flag" => k \in {F - 1, L}
  /\ L = F + 2 => P[F + 1] = end("none")
  /\ P[F].op \in Leaving => L = F + 2

NoFlags(P) == \A k \in 1 .. Len(P) : P[k].op # "flag"

USE DEF create, openPool, rootObj, begin, alloc, free, realloc, addRange, abortTx, end, new, delete,
        copy, write, flag, close, print_pass_flag, print_fail_flag, Flags, Locals, Leaving, Sized, NextEnd

LEMMA MismatchedFreeForm == Form(mismatched_free) /\ CrashForm(mismatched_free, 10, 12)
<1>1. /\ Len(mismatched_free) = 13
      /\ \A k \in 1 .. 13 :
           mismatched_free[k] = <<create("assert"), rootObj(16, "assert"), begin,
                                 alloc("oid", 40), addRange("root", 16), copy("obj", "oid"),
                                 end("abort"), begin, print_pass_flag, free("obj", 8),
                                 end("none"), print_fail_flag, close>>[k]
  BY DEF mismatched_free, WithDummy, Rooted, Finish
<1>2. \A k \in 1 .. 13 : k \in {1, 2, 3, 4, 5, 6, 7, 8, 9, 10, 11, 12, 13}
  OBVIOUS
<1>3. Form(mismatched_free)
  BY <1>1, <1>2 DEF Form
<1>4. CrashForm(mismatched_free, 10, 12)
  BY <1>1, <1>2 DEF CrashForm
<1> QED
  BY <1>3, <1>4

LEMMA DoubleFreeForm == Form(double_free) /\ CrashForm(double_free, 11, 13)
<1>1. /\ Len(double_free) = 14
      /\ \A k \in 1 .. 14 :
           double_free[k] = <<create("assert"), rootObj(16, "assert"), begin, alloc("oid", 8),
                             addRange("root", 16), copy("obj", "oid"), end("abort"), begin,
                             free("obj", 0), print_pass_flag, free("obj", 0), end("none"),
                             print_fail_flag, close>>[k]
  BY DEF double_free, WithDummy, Rooted, Finish
<1>2. \A k \in 1 .. 14 : k \in {1, 2, 3, 4, 5, 6, 7, 8, 9, 10, 11, 12, 13, 14}
  OBVIOUS
<1>3. Form(double_free)
  BY <1>1, <1>2 DEF Form
<1>4. CrashForm(double_free, 11, 13)
  BY <1>1, <1>2 DEF CrashForm
<1> QED
  BY <1>3, <1>4

LEMMA DoubleFreeNtxForm == Form(double_free_ntx) /\ CrashForm(double_free_ntx, 7, 8)
<1>1. /\ Len(double_free_ntx) = 9
      /\ \A k \in 1 .. 9 :
           double_free_ntx[k] = <<create("abort"), rootObj(16, "abort"), new("obj", 8),
                                 copy("toid", "obj"), delete("obj"), print_pass_flag,
                                 delete("toid"), print_fail_flag, close>>[k]
  BY DEF double_free_ntx, WithDummyNtx, Finish
<1>2. \A k \in 1 .. 9 : k \in {1, 2, 3, 4, 5, 6, 7, 8, 9}
  OBVIOUS
<1>3. Form(double_free_ntx)
  BY <1>1, <1>2 DEF Form
<1>4. CrashForm(double_free_ntx, 7, 8)
  BY <1>1, <1>2 DEF CrashForm
<1> QED
  BY <1>3, <1>4

LEMMA UseAfterFreeForm == Form(use_after_free) /\ CrashForm(use_after_free, 11, 13)
<1>1. /\ Len(use_after_free) = 14
      /\ \A k \in 1 .. 14 :
           use_after_free[k] = <<create("assert"), rootObj(16, "assert"), begin,
                                alloc("oid", 8), addRange("root", 16), copy("obj", "oid"),
                                end("abort"), begin, free("obj", 0), print_pass_flag,
                                write("obj", 0, 8), end("none"), print_fail_flag, close>>[k]
  BY DEF use_after_free, WithDummy, Rooted, Finish
<1>2. \A k \in 1 .. 14 : k \in {1, 2, 3, 4, 5, 6, 7, 8, 9, 10, 11, 12, 13, 14}
  OBVIOUS
<1>3. Form(use_after_free)
  BY <1>1, <1>2 DEF Form
<1>4. CrashForm(use_after_free, 11, 13)
  BY <1>1, <1>2 DEF CrashForm
<1> QED
  BY <1>3, <1>4

LEMMA UseAfterFreeNtxForm == Form(use_after_free_ntx) /\ CrashForm(use_after_free_ntx, 7, 8)
<1>1. /\ Len(use_after_free_ntx) = 9
      /\ \A k \in 1 .. 9 :
           use_after_free_ntx[k] = <<create("assert"), rootObj(16, "assert"), new("obj", 8),
                                    copy("toid", "obj"), delete("obj"), print_pass_flag,
                                    write("toid", 0, 8), print_fail_flag, close>>[k]
  BY DEF use_after_free_ntx, Rooted, Finish
<1>2. \A k \in 1 .. 9 : k \in {1, 2, 3, 4, 5, 6, 7, 8, 9}
  OBVIOUS
<1>3. Form(use_after_free_ntx)
  BY <1>1, <1>2 DEF Form
<1>4. CrashForm(use_after_free_ntx, 7, 8)
  BY <1>1, <1>2 DEF CrashForm
<1> QED
  BY <1>3, <1>4

LEMMA UseAfterReallocForm == Form(use_after_realloc) /\ CrashForm(use_after_realloc, 9, 10)
<1>1. /\ Len(use_after_realloc) = 12
      /\ \A k \in 1 .. 12 :
           use_after_realloc[k] = <<create("assert"), begin, alloc("oid1", 16), end("abort"),
                                   begin, realloc("oid2", "oid1", Stretch),
                                   write("oid2", 0, 8), print_pass_flag, write("oid1", 0, 8),
                                   print_fail_flag, end("failabort"), close>>[k]
  BY DEF use_after_realloc
<1>2. \A k \in 1 .. 12 : k \in {1, 2, 3, 4, 5, 6, 7, 8, 9, 10, 11, 12}
  OBVIOUS
<1>3. Form(use_after_realloc)
  BY <1>1, <1>2, SizesAssumption DEF Form
<1>4. CrashForm(use_after_realloc, 9, 10)
  BY <1>1, <1>2 DEF CrashForm
<1> QED
  BY <1>3, <1>4

LEMMA OverflowForm == Form(overflow) /\ CrashForm(overflow, 11, 12)
<1>1. /\ Len(overflow) = 13
      /\ \A k \in 1 .. 13 :
           overflow[k] = <<create("assert"), rootObj(16, "assert"), begin, alloc("oid", 16),
                          addRange("root", 16), copy("obj", "oid"), end("abort"),
                          write("obj", 0, 8), write("obj", 8, 8), print_pass_flag,
                          write("obj", 16, 8), print_fail_flag, close>>[k]
  BY DEF overflow, WithDummy, Rooted, Finish
<1>2. \A k \in 1 .. 13 : k \in {1, 2, 3, 4, 5, 6, 7, 8, 9, 10, 11, 12, 13}
  OBVIOUS
<1>3. Form(overflow)
  BY <1>1, <1>2 DEF Form
<1>4. CrashForm(overflow, 11, 12)
  BY <1>1, <1>2 DEF CrashForm
<1> QED
  BY <1>3, <1>4

LEMMA OverflowNtxForm == Form(overflow_ntx) /\ CrashForm(overflow_ntx, 7, 8)
<1>1. /\ Len(overflow_ntx) = 9
      /\ \A k \in 1 .. 9 :
           overflow_ntx[k] = <<create("assert"), rootObj(16, "abort"), new("obj", 16),
                              write("obj", 0, 8), write("obj", 8, 8), print_pass_flag,
                              write("obj", 16, 8), print_fail_flag, close>>[k]
  BY DEF overflow_ntx, Finish
<1>2. \A k \in 1 .. 9 : k \in {1, 2, 3, 4, 5, 6, 7, 8, 9}
  OBVIOUS
<1>3. Form(overflow_ntx)
  BY <1>1, <1>2 DEF Form
<1>4. CrashForm(overflow_ntx, 7, 8)
  BY <1>1, <1>2 DEF CrashForm
<1> QED
  BY <1>3, <1>4

LEMMA RootOverflowForm == Form(root_overflow) /\ CrashForm(root_overflow, 6, 7)
<1>1. /\ Len(root_overflow) = 8
      /\ \A k \in 1 .. 8 :
           root_overflow[k] = <<create("assert"), rootObj(16, "assert"), write("root", 0, 8),
                               write("root", 8, 8), print_pass_flag, write("root", 16, 8),
                               print_fail_flag, close>>[k]
  BY DEF root_overflow, Rooted, Finish
<1>2. \A k \in 1 .. 8 : k \in {1, 2, 3, 4, 5, 6, 7, 8}
  OBVIOUS
<1>3. Form(root_overflow)
  BY <1>1, <1>2 DEF Form
<1>4. CrashForm(root_overflow, 6, 7)
  BY <1>1, <1>2 DEF CrashForm
<1> QED
  BY <1>3, <1>4

LEMMA CreatePoolForm == Form(createPool) /\ NoFlags(createPool)
<1>1. /\ Len(createPool) = 3
      /\ \A k \in 1 .. 3 :
           createPool[k] = <<create("assert"), rootObj(16, "assert"), close>>[k]
  BY DEF createPool, Rooted
<1>2. \A k \in 1 .. 3 : k \in {1, 2, 3}
  OBVIOUS
<1>3. Form(createPool)
  BY <1>1, <1>2 DEF Form
<1>4. NoFlags(createPool)
  BY <1>1, <1>2 DEF NoFlags
<1> QED
  BY <1>3, <1>4

LEMMA CreatePoolOps == \A k \in 1 .. Len(createPool) : createPool[k].op # "end"
<1>1. /\ Len(createPool) = 3
      /\ \A k \in 1 .. 3 :
           createPool[k] = <<create("assert"), rootObj(16, "assert"), close>>[k]
  BY DEF createPool, Rooted
<1>2. \A k \in 1 .. 3 : k \in {1, 2, 3}
  OBVIOUS
<1> QED
  BY <1>1, <1>2

LEMMA AttemptOverflowForm == Form(attemptOverflow) /\ CrashForm(attemptOverflow, 6, 7)
<1>1. /\ Len(attemptOverflow) = 8
      /\ \A k \in 1 .. 8 :
           attemptOverflow[k] = <<openPool("assert"), rootObj(16, "assert"),
                                 write("root", 0, 8), write("root", 8, 8), print_pass_flag,
                                 write("root", 16, 8), print_fail_flag, close>>[k]
  BY DEF attemptOverflow, Finish
<1>2. \A k \in 1 .. 8 : k \in {1, 2, 3, 4, 5, 6, 7, 8}
  OBVIOUS
<1>3. Form(attemptOverflow)
  BY <1>1, <1>2 DEF Form
<1>4. CrashForm(attemptOverflow, 6, 7)
  BY <1>1, <1>2 DEF CrashForm
<1> QED
  BY <1>3, <1>4

LEMMA RootUnderflowForm == Form(root_underflow) /\ CrashForm(root_underflow, 6, 7)
<1>1. /\ Len(root_underflow) = 8
      /\ \A k \in 1 .. 8 :
           root_underflow[k] = <<create("assert"), rootObj(16, "assert"), write("root", 0, 8),
                                write("root", 8, 8), print_pass_flag, write("root", -8, 8),
                                print_fail_flag, close>>[k]
  BY DEF root_underflow, Rooted, Finish
<1>2. \A k \in 1 .. 8 : k \in {1, 2, 3, 4, 5, 6, 7, 8}
  OBVIOUS
<1>3. Form(root_underflow)
  BY <1>1, <1>2 DEF Form
<1>4. CrashForm(root_underflow, 6, 7)
  BY <1>1, <1>2 DEF CrashForm
<1> QED
  BY <1>3, <1>4

LEMMA Int32Form == Form(int32) /\ CrashForm(int32, 5, 6)
<1>1. /\ Len(int32) = 7
      /\ \A k \in 1 .. 7 :
           int32[k] = <<create("assert"), rootObj(4, "assert"), write("root", 0, 4),
                       print_pass_flag, write("root", 0, 8), print_fail_flag, close>>[k]
  BY DEF int32, Rooted, Finish
<1>2. \A k \in 1 .. 7 : k \in {1, 2, 3, 4, 5, 6, 7}
  OBVIOUS
<1>3. Form(int32)
  BY <1>1, <1>2 DEF Form
<1>4. CrashForm(int32, 5, 6)
  BY <1>1, <1>2 DEF CrashForm
<1> QED
  BY <1>3, <1>4

LEMMA AllocTxAbortForm == Form(alloc_tx_abort) /\ CrashForm(alloc_tx_abort, 7, 8)
<1>1. /\ Len(alloc_tx_abort) = 9
      /\ \A k \in 1 .. 9 :
           alloc_tx_abort[k] = <<create("assert"), begin, alloc("oid", 16), abortTx,
                                end("none"), print_pass_flag, write("oid", 0, 8),
                                print_fail_flag, close>>[k]
  BY DEF alloc_tx_abort, Finish
<1>2. \A k \in 1 .. 9 : k \in {1, 2, 3, 4, 5, 6, 7, 8, 9}
  OBVIOUS
<1>3. Form(alloc_tx_abort)
  BY <1>1, <1>2 DEF Form
<1>4. CrashForm(alloc_tx_abort, 7, 8)
  BY <1>1, <1>2 DEF CrashForm
<1> QED
  BY <1>3, <1>4

LEMMA FreeTxAbortForm == Form(free_tx_abort) /\ NoFlags(free_tx_abort)
<1>1. /\ Len(free_tx_abort) = 10
      /\ \A k \in 1 .. 10 :
           free_tx_abort[k] = <<create("assert"), begin, alloc("oid", 16), end("none"), begin,
                               free("oid", 0), abortTx, end("none"), write("oid", 0, 8), close>>[k]
  BY DEF free_tx_abort
<1>2. \A k \in 1 .. 10 : k \in {1, 2, 3, 4, 5, 6, 7, 8, 9, 10}
  OBVIOUS
<1>3. Form(free_tx_abort)
  BY <1>1, <1>2 DEF Form
<1>4. NoFlags(free_tx_abort)
  BY <1>1, <1>2 DEF NoFlags
<1> QED
  BY <1>3, <1>4

LEMMA TxAddOverflowForm == Form(tx_add_overflow) /\ CrashForm(tx_add_overflow, 6, 8)
<1>1. /\ Len(tx_add_overflow) = 9
      /\ \A k \in 1 .. 9 :
           tx_add_overflow[k] = <<create("assert"), rootObj(24, "assert"), begin,
                                 addRange("root", 24), print_pass_flag, addRange("root", 25),
                                 end("none"), print_fail_flag, close>>[k]
  BY DEF tx_add_overflow, Rooted, Finish
<1>2. \A k \in 1 .. 9 : k \in {1, 2, 3, 4, 5, 6, 7, 8, 9}
  OBVIOUS
<1>3. Form(tx_add_overflow)
  BY <1>1, <1>2 DEF Form
<1>4. CrashForm(tx_add_overflow, 6, 8)
  BY <1>1, <1>2 DEF CrashForm
<1> QED
  BY <1>3, <1>4

LEMMA AllocFreeSteps ==
  /\ Len(AllocFree) = 6
  /\ AllocFree[1] = begin /\ AllocFree[2] = alloc("oid", BigDummy) /\ AllocFree[3] = end("abort")
  /\ AllocFree[4] = begin /\ AllocFree[5] = free("oid", 0) /\ AllocFree[6] = end("abort")
  BY DEF AllocFree

\* The only program with a loop.
LEMMA ZallocLines ==
  /\ 12 * Rounds \in Nat /\ Len(zalloc) = 12 * Rounds + 2
  /\ zalloc[1] = create("assert") /\ zalloc[12 * Rounds + 2] = close
  /\ \A k \in 2 .. 12 * Rounds + 1 : zalloc[k] = AllocFree[((k - 2) % 6) + 1]
<1> DEFINE body == [i \in 1 .. 2 * Rounds * Len(AllocFree) |->
                     AllocFree[((i - 1) % Len(AllocFree)) + 1]]
           n == 12 * Rounds
<1>1. n \in Nat /\ 2 * Rounds * Len(AllocFree) = n
  BY SizesAssumption, AllocFreeSteps
<1>2. /\ body = [i \in 1 .. n |-> AllocFree[((i - 1) % 6) + 1]]
      /\ body \in Seq({AllocFree[j] : j \in 1 .. 6}) /\ Len(body) = n
  BY <1>1, AllocFreeSteps, n \in Nat
<1> HIDE DEF n
<1>3. zalloc = (<<create("assert")>> \o body) \o <<close>>
  BY DEF zalloc
<1> HIDE DEF body
<1> DEFINE front == <<create("assert")>> \o body
<1>4. /\ front \in Seq({create("assert")} \cup {AllocFree[j] : j \in 1 .. 6})
      /\ Len(front) = n + 1 /\ front[1] = create("assert")
      /\ \A k \in 2 .. n + 1 : front[k] = body[k - 1]
  BY <1>1, <1>2
<1> HIDE DEF front
<1>5. zalloc = front \o <<close>>
  BY <1>3 DEF front
<1>6. /\ Len(zalloc) = n + 2 /\ zalloc[n + 2] = close
      /\ \A k \in 1 .. n + 1 : zalloc[k] = front[k]
  BY <1>1, <1>4, <1>5
<1>7. \A k \in 2 .. n + 1 : zalloc[k] = AllocFree[((k - 2) % 6) + 1]
  <2> SUFFICES ASSUME NEW k \in 2 .. n + 1
               PROVE  zalloc[k] = AllocFree[((k - 2) % 6) + 1]
    OBVIOUS
  <2>1. zalloc[k] = body[k - 1]
    BY <1>1, <1>4, <1>6
  <2>2. k - 1 \in 1 .. n /\ (k - 1) - 1 = k - 2
    BY <1>1
  <2>3. body[k - 1] = AllocFree[(((k - 1) - 1) % 6) + 1]
    BY <1>2, <2>2
  <2> QED
    BY <2>1, <2>2, <2>3
<1>8. zalloc[1] = create("assert")
  BY <1>1, <1>4, <1>6
<1> QED
  BY <1>1, <1>6, <1>7, <1>8 DEF n

LEMMA ZallocForm == Form(zalloc) /\ NoFlags(zalloc)
<1> DEFINE n == 12 * Rounds
<1>1. n \in Nat
  BY ZallocLines
<1>2. /\ Len(zalloc) = n + 2 /\ zalloc[1] = create("assert") /\ zalloc[n + 2] = close
      /\ \A k \in 2 .. n + 1 : zalloc[k] = AllocFree[((k - 2) % 6) + 1]
  BY ZallocLines
<1> HIDE DEF n
<1>3. \A k \in 2 .. n + 1 : zalloc[k].op \in {"begin", "alloc", "free", "end"}
  BY <1>1, <1>2, AllocFreeSteps
<1>4. \A k \in 2 .. n + 1 : zalloc[k].op = "alloc" => zalloc[k].n \in Nat \ {0}
  BY <1>1, <1>2, AllocFreeSteps, SizesAssumption
<1>5. \A k \in 2 .. n + 1 : zalloc[k].op \in Leaving =>
        k + 1 \in 2 .. n + 1 /\ zalloc[k + 1].op = "end"
  <2> SUFFICES ASSUME NEW k \in 2 .. n + 1, zalloc[k].op \in Leaving
               PROVE  k + 1 \in 2 .. n + 1 /\ zalloc[k + 1].op = "end"
    OBVIOUS
  <2> DEFINE r == (k - 2) % 6
  <2>1. k \in Int /\ r \in 0 .. 5
    BY <1>1
  <2>2. zalloc[k] = AllocFree[r + 1]
    BY <1>2
  <2>3. r = 1 \/ r = 4
    BY <2>1, <2>2, AllocFreeSteps
  <2>4. (k - 1) % 6 = r + 1
    BY <2>1, <2>3
  <2>5. k # n + 1
    BY <1>1, <2>3, SizesAssumption DEF n
  <2>6. k + 1 \in 2 .. n + 1
    BY <1>1, <2>1, <2>5
  <2>7. zalloc[k + 1] = AllocFree[(((k + 1) - 2) % 6) + 1] /\ (k + 1) - 2 = k - 1
    BY <1>2, <2>1, <2>6
  <2> QED
    BY <2>3, <2>4, <2>6, <2>7, AllocFreeSteps
<1>6. \A k \in 1 .. n + 2 : k = 1 \/ k \in 2 .. n + 1 \/ k = n + 2
  BY <1>1
<1>7. Len(zalloc) = n + 2 /\ n + 2 \in Nat \ {0} /\ NoFlags(zalloc)
  BY <1>1, <1>2, <1>3, <1>6 DEF NoFlags
<1>8. /\ \A k \in 1 .. n + 2 : zalloc[k].op = "close" <=> k = n + 2
      /\ \A k \in 1 .. n + 2 : zalloc[k].op \notin {"flag", "copy", "root", "realloc", "new"}
  <2> SUFFICES ASSUME NEW k \in 1 .. n + 2
               PROVE  /\ zalloc[k].op = "close" <=> k = n + 2
                      /\ zalloc[k].op \notin {"flag", "copy", "root", "realloc", "new"}
    OBVIOUS
  <2>1. CASE k = 1
    BY <1>1, <1>2, <2>1
  <2>2. CASE k \in 2 .. n + 1
    BY <1>1, <1>3, <2>2
  <2>3. CASE k = n + 2
    BY <1>1, <1>2, <2>3
  <2> QED
    BY <1>6, <2>1, <2>2, <2>3
<1>9. \A k \in 1 .. n + 2 : zalloc[k].op \in Sized => zalloc[k].n \in Nat \ {0}
  BY <1>2, <1>4, <1>6, <1>8
<1>10. \A k \in 1 .. n + 2 : zalloc[k].op \in Leaving =>
         \E j \in k + 1 .. n + 2 : NextEnd(zalloc, k, j)
  <2> SUFFICES ASSUME NEW k \in 1 .. n + 2, zalloc[k].op \in Leaving
               PROVE  k + 1 \in k + 1 .. n + 2 /\ NextEnd(zalloc, k, k + 1)
    OBVIOUS
  <2>1. k \in 2 .. n + 1
    BY <1>2, <1>6
  <2> QED
    BY <1>1, <1>5, <2>1
<1> QED
  BY <1>7, <1>8, <1>9, <1>10 DEF Form

HIDE DEF create, openPool, rootObj, begin, alloc, free, realloc, addRange, abortTx, end, new, delete,
         copy, write, flag, close, print_pass_flag, print_fail_flag, Flags, Locals, Leaving, Sized, NextEnd

-----------------------------------------------------------------------------
(* The list of test.sh *)

\* Where the flag after the faulty line of a test is.
FailLine == <<12, 13, 8, 13, 8, 10, 12, 8, 7, 7, 7, 6, 8, 0, 8, 0>>

LEMMA LineFacts ==
  /\ FaultLine[1] = 10 /\ FailLine[1] = 12
  /\ FaultLine[2] = 11 /\ FailLine[2] = 13
  /\ FaultLine[3] = 7 /\ FailLine[3] = 8
  /\ FaultLine[4] = 11 /\ FailLine[4] = 13
  /\ FaultLine[5] = 7 /\ FailLine[5] = 8
  /\ FaultLine[6] = 9 /\ FailLine[6] = 10
  /\ FaultLine[7] = 11 /\ FailLine[7] = 12
  /\ FaultLine[8] = 7 /\ FailLine[8] = 8
  /\ FaultLine[9] = 6 /\ FailLine[9] = 7
  /\ FaultLine[10] = 6 /\ FailLine[10] = 7
  /\ FaultLine[11] = 6 /\ FailLine[11] = 7
  /\ FaultLine[12] = 5 /\ FailLine[12] = 6
  /\ FaultLine[13] = 7 /\ FailLine[13] = 8
  /\ FaultLine[15] = 6 /\ FailLine[15] = 8
  BY DEF FaultLine, FailLine

LEMMA SuiteFacts ==
  /\ Len(Suite) = 16
  /\ Suite[1].stages[1] = mismatched_free /\ Len(Suite[1].stages) = 1
  /\ Suite[2].stages[1] = double_free /\ Len(Suite[2].stages) = 1
  /\ Suite[3].stages[1] = double_free_ntx /\ Len(Suite[3].stages) = 1
  /\ Suite[4].stages[1] = use_after_free /\ Len(Suite[4].stages) = 1
  /\ Suite[5].stages[1] = use_after_free_ntx /\ Len(Suite[5].stages) = 1
  /\ Suite[6].stages[1] = use_after_realloc /\ Len(Suite[6].stages) = 1
  /\ Suite[7].stages[1] = overflow /\ Len(Suite[7].stages) = 1
  /\ Suite[8].stages[1] = overflow_ntx /\ Len(Suite[8].stages) = 1
  /\ Suite[9].stages[1] = root_overflow /\ Len(Suite[9].stages) = 1
  /\ Suite[10].stages[1] = createPool /\ Len(Suite[10].stages) = 2
  /\ Suite[11].stages[1] = root_underflow /\ Len(Suite[11].stages) = 1
  /\ Suite[12].stages[1] = int32 /\ Len(Suite[12].stages) = 1
  /\ Suite[13].stages[1] = alloc_tx_abort /\ Len(Suite[13].stages) = 1
  /\ Suite[14].stages[1] = free_tx_abort /\ Len(Suite[14].stages) = 1
  /\ Suite[15].stages[1] = tx_add_overflow /\ Len(Suite[15].stages) = 1
  /\ Suite[16].stages[1] = zalloc /\ Len(Suite[16].stages) = 1
  /\ Suite[10].stages[2] = attemptOverflow
  /\ Suite[14].kind = "run" /\ Suite[16].kind = "run"
  /\ Suite[1].snippet = "Invalid free" /\ Suite[2].snippet = "Invalid free|palloc"
  /\ Suite[4].snippet = "[fd]" /\ Suite[15].snippet = "00[fa]"
  BY DEF Suite, should_crash, should_not_crash, overflow_persistence

LEMMA Tests ==
  \A t \in 1 .. 16 : t \in {1, 2, 3, 4, 5, 6, 7, 8, 9, 10, 11, 12, 13, 14, 15, 16}
  OBVIOUS

LEMMA StageCount ==
  \A t \in 1 .. 16 : Len(Suite[t].stages) = IF t = 10 THEN 2 ELSE 1
  BY SuiteFacts, Tests

LEMMA Forms ==
  \A t \in 1 .. 16 : \A s \in 1 .. Len(Suite[t].stages) : Form(Suite[t].stages[s])
<1>1. \A t \in 1 .. 16 : Form(Suite[t].stages[1])
  BY SuiteFacts, Tests, MismatchedFreeForm, DoubleFreeForm, DoubleFreeNtxForm, UseAfterFreeForm,
     UseAfterFreeNtxForm, UseAfterReallocForm, OverflowForm, OverflowNtxForm, RootOverflowForm,
     RootUnderflowForm, Int32Form, AllocTxAbortForm, FreeTxAbortForm, TxAddOverflowForm,
     ZallocForm, CreatePoolForm
<1>2. Form(Suite[10].stages[2])
  BY SuiteFacts, AttemptOverflowForm
<1> SUFFICES ASSUME NEW t \in 1 .. 16, NEW s \in 1 .. Len(Suite[t].stages)
             PROVE  Form(Suite[t].stages[s])
  OBVIOUS
<1>3. CASE t = 10
  <2>1. Len(Suite[t].stages) = 2
    BY <1>3, SuiteFacts
  <2>2. s = 1 \/ s = 2
    BY <2>1
  <2> QED
    BY <1>1, <1>2, <1>3, <2>2
<1>4. CASE t # 10
  <2>1. Len(Suite[t].stages) = 1
    BY <1>4, StageCount
  <2>2. s = 1
    BY <2>1
  <2> QED
    BY <1>1, <2>2
<1> QED
  BY <1>3, <1>4

LEMMA CrashForms ==
  \A t \in 1 .. 16 : Suite[t].kind = "crash" =>
    CrashForm(Suite[t].stages[Len(Suite[t].stages)], FaultLine[t], FailLine[t])
<1>1. \A t \in 1 .. 16 : t \notin {10, 14, 16} =>
        CrashForm(Suite[t].stages[1], FaultLine[t], FailLine[t])
  <2>1. \A t \in {1, 2, 3, 4} : CrashForm(Suite[t].stages[1], FaultLine[t], FailLine[t])
    BY SuiteFacts, LineFacts, MismatchedFreeForm, DoubleFreeForm, DoubleFreeNtxForm, UseAfterFreeForm
  <2>2. \A t \in {5, 6, 7, 8} : CrashForm(Suite[t].stages[1], FaultLine[t], FailLine[t])
    BY SuiteFacts, LineFacts, UseAfterFreeNtxForm, UseAfterReallocForm, OverflowForm, OverflowNtxForm
  <2>3. \A t \in {9, 11, 12} : CrashForm(Suite[t].stages[1], FaultLine[t], FailLine[t])
    BY SuiteFacts, LineFacts, RootOverflowForm, RootUnderflowForm, Int32Form
  <2>4. \A t \in {13, 15} : CrashForm(Suite[t].stages[1], FaultLine[t], FailLine[t])
    BY SuiteFacts, LineFacts, AllocTxAbortForm, TxAddOverflowForm
  <2> QED
    BY <2>1, <2>2, <2>3, <2>4
<1>2. CrashForm(Suite[10].stages[2], FaultLine[10], FailLine[10])
  BY SuiteFacts, LineFacts, AttemptOverflowForm
<1>3. \A t \in 1 .. 16 : Suite[t].kind = "crash" => t \notin {14, 16}
  BY SuiteFacts
<1> QED
  BY <1>1, <1>2, <1>3, StageCount

\* Only the first process of overflow_persistence.sh is not the last of its test.
LEMMA FirstStages ==
  \A t \in 1 .. 16 : \A s \in 1 .. Len(Suite[t].stages) :
    s # Len(Suite[t].stages) => NoFlags(Suite[t].stages[s])
<1>1. NoFlags(Suite[10].stages[1])
  BY SuiteFacts, CreatePoolForm
<1> SUFFICES ASSUME NEW t \in 1 .. 16, NEW s \in 1 .. Len(Suite[t].stages),
                    s # Len(Suite[t].stages)
             PROVE  NoFlags(Suite[t].stages[s])
  OBVIOUS
<1>2. CASE t = 10
  <2>1. Len(Suite[t].stages) = 2
    BY <1>2, SuiteFacts
  <2>2. s = 1
    BY <2>1
  <2> QED
    BY <1>1, <1>2, <2>2
<1>3. CASE t # 10
  <2>1. Len(Suite[t].stages) = 1
    BY <1>3, StageCount
  <2> QED
    BY <2>1
<1> QED
  BY <1>2, <1>3

-----------------------------------------------------------------------------
(* The heap and the process keep their types, and a step of a process is   *)
(* one of four kinds.                                                      *)

Shadows == (0 .. 7) \cup {FA, FD}
HeapTyped ==
  /\ features \in Libraries
  /\ shadow \in [Granules -> Shadows] /\ blk \in [Granules -> Nat]
  /\ freed \subseteq Granules /\ root \in Granules \cup {NoRoot}

GranuleReports == {"segv", "[fd]", "00[fa]", "[fa]", "[04]", "[0k]"}
Reports == GranuleReports \cup {"none", "Invalid free", "palloc", "abort"}
Procs == [pc : Nat, status : {"run", "exit", "dead"}, report : Reports, pool : BOOLEAN,
          aborted : BOOLEAN, wild : BOOLEAN, env : [Locals -> Int], saved : [Locals -> Int]]

\* What a process is reported for when a library call finds earlier damage.
Derailings ==
  {"segv", "palloc"} \cup {ReportOf(g) : g \in {h \in Granules : shadow[h] # 0}}

\* A process at an instruction.
Ready ==
  /\ HeapTyped /\ proc \in Procs /\ failures \in 0 .. MaxFailures
  /\ Form(Program) /\ proc.pc \in 1 .. Len(Program) /\ Running

GoesOn ==
  /\ Instr.op # "close"
  /\ proc'.status = "run" /\ proc'.pc = proc.pc + 1
  /\ out' = IF Instr.op = "flag" THEN out \cup {Instr.f} ELSE out

\* To the next TX_END.
Jumps ==
  /\ Instr.op \in Leaving
  /\ proc'.status = "run" /\ out' = out
  /\ proc'.pc \in proc.pc + 1 .. Len(Program) /\ NextEnd(Program, proc.pc, proc'.pc)

\* At the end of a transaction without handler, only for earlier damage.
Dies ==
  /\ Instr.op # "flag"
  /\ proc'.status = "dead" /\ proc'.pc = proc.pc /\ proc'.wild = proc.wild /\ UNCHANGED shadow
  /\ out' = out \/ (Instr.op = "end" /\ Instr.handler = "failabort" /\ out' = out \cup {"FAIL"})
  /\ Instr.op = "end" /\ Instr.handler = "none" => proc.wild /\ proc'.report \in Derailings

Exits ==
  /\ Instr.op = "close"
  /\ proc'.status = "exit" /\ proc'.pc = proc.pc /\ out' = out

Proper ==
  /\ HeapTyped' /\ proc' \in Procs /\ UNCHANGED suiteVars
  /\ GoesOn \/ Jumps \/ Dies \/ Exits

LEMMA TagTyped ==
  ASSUME NEW b, NEW n \in Nat, NEW g
  PROVE  Tag(b, n, g) \in Shadows
  BY DEF Tag, FullTag, Shadows

LEMMA HeapOperations ==
  ASSUME HeapTyped, NEW b \in Granules, NEW c \in Granules, NEW n \in Nat,
         \/ Format \/ TxBegin \/ TxAlloc(b, n) \/ TxFree(b) \/ TxMove(b, c, n)
         \/ TxCommit \/ TxAbort \/ AtomicAlloc(b, n) \/ AtomicFree(b) \/ RootAlloc(b, n)
         \/ Detach \/ Reopen \/ UNCHANGED heapVars
  PROVE  HeapTyped'
<1> USE DEF HeapTyped
<1>1. Painted(b, n) \in [Granules -> Shadows] /\ Painted(c, n) \in [Granules -> Shadows]
  BY TagTyped DEF Painted
<1>2. \A s \in [Granules -> Shadows] : \A B : Wiped(s, B) \in [Granules -> Shadows]
  BY DEF Wiped, Shadows
<1>3. \A f : EmptyShadow(f) \in [Granules -> Shadows] /\ NoBlocks \in [Granules -> Nat]
  BY DEF EmptyShadow, NoBlocks, Shadows
<1>4. ASSUME RolledBack
      PROVE  /\ shadow' \in [Granules -> Shadows] /\ blk' \in [Granules -> Nat]
             /\ freed' \subseteq Granules
  <2>1. ASSUME NEW g \in Granules, \E d \in freed : g \in Taken(d)
        PROVE  LET d == CHOOSE e \in freed : g \in Taken(e) IN Tag(d, blk[d], g) \in Shadows
    BY <2>1, TagTyped
  <2> QED
    BY <1>4, <2>1 DEF RolledBack, Shadows
<1>5. CASE Format
  BY <1>3, <1>5 DEF Format
<1>6. CASE TxBegin \/ Detach \/ UNCHANGED heapVars
  BY <1>6 DEF TxBegin, Detach, heapVars
<1>7. CASE TxAlloc(b, n) \/ RootAlloc(b, n)
  BY <1>1, <1>7 DEF TxAlloc, RootAlloc
<1>8. CASE AtomicAlloc(b, n)
  BY <1>1, <1>8 DEF AtomicAlloc, Shadows
<1>9. CASE TxFree(b) \/ AtomicFree(b)
  BY <1>2, <1>9 DEF TxFree, AtomicFree
<1>10. CASE TxMove(b, c, n)
  BY <1>1, <1>2, <1>10 DEF TxMove
<1>11. CASE TxCommit
  BY <1>2, <1>11 DEF TxCommit
<1>12. CASE TxAbort
  BY <1>4, <1>12 DEF TxAbort
<1>13. CASE Reopen
  BY <1>4, <1>13 DEF Reopen, Shadows
<1> QED
  BY <1>5, <1>6, <1>7, <1>8, <1>9, <1>10, <1>11, <1>12, <1>13

LEMMA ReportTyped == \A g : ReportOf(g) \in GranuleReports
  BY DEF ReportOf, GranuleReports

LEMMA Somewhere == 0 \in Granules /\ 0 \in Nat
  BY HeapAssumption DEF Granules

\* The death of a process.
LEMMA Deaths ==
  ASSUME Ready, NEW r \in Reports, Die(r), Instr.op # "flag",
         Instr.op = "end" /\ Instr.handler = "none" => proc.wild /\ r \in Derailings
  PROVE  Proper
<1>1. HeapTyped'
  BY Somewhere, HeapOperations DEF Ready, Die
<1>2. proc' = [proc EXCEPT !.status = "dead", !.report = r] /\ UNCHANGED <<suiteVars, out>>
  BY DEF Die
<1>3. proc' \in Procs
  BY <1>2 DEF Ready, Procs
<1>4. Dies
  <2>1. UNCHANGED shadow /\ proc'.wild = proc.wild
    BY <1>2 DEF Die, Detach, heapVars, Ready, Procs
  <2> QED
    BY <1>2, <2>1 DEF Ready, Procs, Dies
<1> QED
  BY <1>1, <1>2, <1>3, <1>4 DEF Proper

\* The jump of an aborted transaction.
LEMMA Unwinding ==
  ASSUME Ready, Instr.op \in Leaving, Unwind
  PROVE  Proper /\ Jumps
<1>1. HeapTyped'
  BY Somewhere, HeapOperations DEF Ready, Unwind
<1>2. PICK keep \in BOOLEAN :
        LET env == IF keep THEN proc.env ELSE proc.saved IN
        proc' = [proc EXCEPT
          !.pc = CHOOSE j \in proc.pc .. Len(Program) :
                   /\ Program[j].op = "end"
                   /\ \A k \in proc.pc .. (j - 1) : Program[k].op # "end",
          !.aborted = TRUE,
          !.env = [env EXCEPT !["obj"] = proc.saved["obj"]]]
  BY DEF Unwind
<1> DEFINE target == CHOOSE j \in proc.pc .. Len(Program) :
                       /\ Program[j].op = "end"
                       /\ \A k \in proc.pc .. (j - 1) : Program[k].op # "end"
<1>3. /\ target \in proc.pc .. Len(Program) /\ NextEnd(Program, proc.pc, target)
  <2>1. \E j \in proc.pc + 1 .. Len(Program) : NextEnd(Program, proc.pc, j)
    BY DEF Ready, Form, Instr
  <2>2. \E j \in proc.pc .. Len(Program) :
          /\ Program[j].op = "end" /\ \A k \in proc.pc .. (j - 1) : Program[k].op # "end"
    BY <2>1 DEF Ready, Procs, NextEnd
  <2> QED
    BY <2>2 DEF NextEnd
<1>4. target # proc.pc
  BY <1>3 DEF NextEnd, Leaving, Instr
<1>5. target \in proc.pc + 1 .. Len(Program)
  BY <1>3, <1>4 DEF Ready, Procs, Form
<1>6. "obj" \in Locals
  BY DEF Locals
<1> HIDE DEF target
<1>7. proc' \in Procs /\ proc'.pc = target /\ proc'.status = "run"
  <2>1. target \in Nat
    BY <1>5 DEF Ready, Procs, Form
  <2>2. proc' = [proc EXCEPT !.pc = target, !.aborted = TRUE,
                   !.env = [IF keep THEN proc.env ELSE proc.saved
                              EXCEPT !["obj"] = proc.saved["obj"]]]
    BY <1>2 DEF target
  <2>3. proc.status = "run"
    BY DEF Ready, Running
  <2> QED
    BY <1>6, <2>1, <2>2, <2>3 DEF Ready, Procs
<1>8. UNCHANGED <<suiteVars, out>>
  BY DEF Unwind
<1>9. Jumps
  BY <1>3, <1>5, <1>7, <1>8 DEF Jumps
<1> QED
  BY <1>1, <1>7, <1>8, <1>9 DEF Proper

\* Control advances by one instruction, out as the instruction says.
LEMMA Advancing ==
  ASSUME Ready, HeapTyped', Instr.op # "close", UNCHANGED suiteVars,
         out' = IF Instr.op = "flag" THEN out \cup {Instr.f} ELSE out,
         proc' \in Procs, proc'.status = "run", proc'.pc = proc.pc + 1
  PROVE  Proper
  BY DEF Proper, GoesOn

LEMMA Assigning ==
  ASSUME Ready, NEW v, NEW p \in Int, AdvanceWith(v, p)
  PROVE  proc' \in Procs /\ proc'.status = "run" /\ proc'.pc = proc.pc + 1
<1>1. proc' = [proc EXCEPT !.pc = proc.pc + 1, !.env = [proc.env EXCEPT ![v] = p]]
  BY DEF AdvanceWith, Ready, Procs
<1>2. proc \in Procs /\ proc.status = "run"
  BY DEF Ready, Running
<1>3. proc.pc + 1 \in Nat /\ [proc.env EXCEPT ![v] = p] \in [Locals -> Int]
  <2>1. proc.pc \in Nat /\ proc.env \in [Locals -> Int]
    BY <1>2 DEF Procs
  <2>2. \A f \in [Locals -> Int] : [f EXCEPT ![v] = p] \in [Locals -> Int]
    OBVIOUS
  <2> QED
    BY <2>1, <2>2
<1> QED
  BY <1>1, <1>2, <1>3 DEF Procs

LEMMA Moving ==
  ASSUME Ready, Advance \/ AdvanceWild
  PROVE  proc' \in Procs /\ proc'.status = "run" /\ proc'.pc = proc.pc + 1
<1>1. CASE Advance
  BY <1>1 DEF Advance, Goto, Ready, Running, Procs
<1>2. CASE AdvanceWild
  <2>1. proc \in Procs /\ proc.status = "run"
    BY DEF Ready, Running
  <2>2. proc' = [proc EXCEPT !.pc = proc.pc + 1, !.wild = TRUE]
    BY <1>2, <2>1 DEF AdvanceWild, Procs
  <2>3. proc.pc + 1 \in Nat
    BY <2>1 DEF Procs
  <2> QED
    BY <2>1, <2>2, <2>3 DEF Procs
<1> QED
  BY <1>1, <1>2

\* An access, or the check of one.
LEMMA Touching ==
  ASSUME Ready, NEW a, NEW w, Touch(a, w), Instr.op \in {"write", "range"}
  PROVE  Proper
<1>1. CASE Die(ReportOf(Min(Faults(a, w))))
  <2>1. ReportOf(Min(Faults(a, w))) \in Reports
    BY ReportTyped DEF Reports
  <2> QED
    BY <1>1, <2>1, Deaths
<1>2. CASE (Advance \/ AdvanceWild) /\ UNCHANGED <<heapVars, suiteVars, out, file>>
  <2>1. HeapTyped'
    BY <1>2, Somewhere, HeapOperations DEF Ready
  <2> QED
    BY <1>2, <2>1, Moving, Advancing
<1> QED
  BY <1>1, <1>2 DEF Touch

LEMMA Budget ==
  ASSUME Ready, Fails \/ UNCHANGED failures
  PROVE  failures' \in 0 .. MaxFailures
  BY SuiteAssumption DEF Ready, Fails

\* Process by process, step by step.
LEMMA StepKinds ==
  ASSUME Ready, Process
  PROVE  Proper /\ failures' \in 0 .. MaxFailures
<1> USE DEF At
<1>0. /\ Instr = Program[proc.pc] /\ HeapTyped /\ proc \in Procs
      /\ \A v \in Locals : proc.env[v] \in Int
  BY DEF Ready, Instr, Procs
<1>1. ASSUME HeapTyped', Instr.op # "close", Instr.op # "flag", UNCHANGED <<suiteVars, out>>,
             \/ Advance \/ AdvanceWild
             \/ \E v : \E p \in Int : AdvanceWith(v, p)
      PROVE  Proper
  BY <1>1, Moving, Assigning, Advancing
<1>2. ASSUME UNCHANGED heapVars
      PROVE  HeapTyped'
  BY <1>0, <1>2, Somewhere, HeapOperations
<1>3. Instr.op \in Sized => Instr.n \in Nat
  BY <1>0 DEF Ready, Form
<1>4. \A b \in Granules : 8 * b \in Int
  BY HeapAssumption DEF Granules
<1>5. \A b \in Live : b \in Granules
  BY DEF Live, Blocks
<1>6. CASE Create
  <2>1. Instr.op = "create"
    BY <1>0, <1>6 DEF Create
  <2>2. CASE /\ Format
             /\ proc' = [proc EXCEPT !.pc = @ + 1, !.pool = TRUE]
             /\ UNCHANGED <<suiteVars, out, failures, indet>>
    <3>1. HeapTyped'
      BY <1>0, <2>2, Somewhere, HeapOperations
    <3>2. proc' \in Procs /\ proc'.status = "run" /\ proc'.pc = proc.pc + 1
      <4>1. proc \in Procs /\ proc.status = "run"
        BY DEF Ready, Running
      <4>2. proc' = [proc EXCEPT !.pc = proc.pc + 1, !.pool = TRUE] /\ proc.pc + 1 \in Nat
        BY <2>2, <4>1 DEF Procs
      <4> QED
        BY <4>1, <4>2 DEF Procs
    <3> QED
      BY <2>1, <2>2, <3>1, <3>2, Advancing, Budget
  <2>3. CASE /\ Fails /\ Checked
             /\ proc' = [proc EXCEPT !.status = "dead", !.report = "abort"]
             /\ UNCHANGED <<heapVars, suiteVars, out>>
    <3>1. HeapTyped'
      BY <1>2, <2>3
    <3>2. /\ proc' \in Procs /\ proc'.status = "dead"
          /\ proc'.pc = proc.pc /\ proc'.wild = proc.wild
      BY <2>3 DEF Ready, Procs, Reports
    <3>3. Dies
      BY <2>1, <2>3, <3>2 DEF Dies, heapVars
    <3> QED
      BY <2>3, <3>1, <3>2, <3>3, Budget DEF Proper
  <2>4. CASE /\ Fails /\ ~Checked
             /\ proc' = [proc EXCEPT !.pc = @ + 1]
             /\ UNCHANGED <<heapVars, suiteVars, out>>
    <3>1. Advance
      BY <2>4 DEF Advance, Goto, Ready, Procs
    <3> QED
      BY <1>1, <1>2, <2>1, <2>4, <3>1, Budget
  <2> QED
    BY <1>6, <2>2, <2>3, <2>4 DEF Create
<1>7. CASE OpenPool
  <2>1. Instr.op = "open"
    BY <1>0, <1>7 DEF OpenPool
  <2>2. CASE /\ Reopen /\ Ordinary
             /\ proc' = [proc EXCEPT !.pc = @ + 1, !.pool = TRUE]
    <3>1. HeapTyped'
      BY <1>0, <2>2, Somewhere, HeapOperations
    <3>2. proc' \in Procs /\ proc'.status = "run" /\ proc'.pc = proc.pc + 1
      <4>1. proc \in Procs /\ proc.status = "run"
        BY DEF Ready, Running
      <4>2. proc' = [proc EXCEPT !.pc = proc.pc + 1, !.pool = TRUE] /\ proc.pc + 1 \in Nat
        BY <2>2, <4>1 DEF Procs
      <4> QED
        BY <4>1, <4>2 DEF Procs
    <3> QED
      BY <2>1, <2>2, <3>1, <3>2, Advancing, Budget DEF Ordinary
  <2>3. CASE NoPool /\ (Fails \/ UNCHANGED failures)
    <3>1. CASE Die("abort")
      BY <2>1, <2>3, <3>1, Deaths, Budget DEF Reports
    <3>2. CASE Advance /\ UNCHANGED <<heapVars, suiteVars, out, file>>
      BY <1>1, <1>2, <2>1, <2>3, <3>2, Budget
    <3> QED
      BY <2>3, <3>1, <3>2 DEF NoPool
  <2> QED
    BY <1>7, <2>2, <2>3 DEF OpenPool
<1>8. CASE UseNoPool
  <2>1. Instr.op \notin {"flag", "end"} /\ Die("segv") /\ UNCHANGED failures
    BY <1>8 DEF UseNoPool
  <2> QED
    BY <2>1, Deaths, Budget DEF Reports, GranuleReports
<1>9. CASE RootObj
  <2>1. Instr.op = "root" /\ Instr.n \in Nat
    BY <1>0, <1>3, <1>9 DEF RootObj, Sized
  <2>2. CASE root # NoRoot /\ AdvanceWith("root", 8 * root) /\ UNCHANGED heapVars /\ Ordinary
    <3>1. 8 * root \in Int
      BY <1>0, <1>4, <2>2 DEF HeapTyped
    <3> QED
      BY <1>1, <1>2, <2>1, <2>2, <3>1, Budget DEF Ordinary
  <2>3. ASSUME NEW b \in Granules, RootAlloc(b, Instr.n), AdvanceWith("root", 8 * b), Ordinary
        PROVE  Proper /\ failures' \in 0 .. MaxFailures
    <3>1. HeapTyped'
      BY <1>0, <2>1, <2>3, HeapOperations
    <3> QED
      BY <1>1, <1>4, <2>1, <2>3, <3>1, Budget DEF Ordinary
  <2>4. CASE Fails /\ Die("abort")
    BY <2>1, <2>4, Deaths, Budget DEF Reports
  <2>5. CASE Fails /\ AdvanceWith("root", Null) /\ UNCHANGED <<heapVars, suiteVars, out, file>>
    BY <1>1, <1>2, <2>1, <2>5, Budget DEF Null
  <2> QED
    BY <1>9, <2>2, <2>3, <2>4, <2>5 DEF RootObj
<1>10. CASE Begin
  <2>1. Instr.op = "begin" /\ TxBegin /\ Ordinary
    BY <1>0, <1>10 DEF Begin
  <2>2. HeapTyped'
    BY <1>0, <2>1, Somewhere, HeapOperations
  <2>3. proc' \in Procs /\ proc'.status = "run" /\ proc'.pc = proc.pc + 1
    <3>1. proc \in Procs /\ proc.status = "run" /\ proc.env \in [Locals -> Int]
      BY DEF Ready, Running, Procs
    <3>2. /\ proc' = [proc EXCEPT !.pc = proc.pc + 1, !.saved = proc.env]
          /\ proc.pc + 1 \in Nat
      BY <1>10, <3>1 DEF Begin, Procs
    <3> QED
      BY <3>1, <3>2 DEF Procs
  <2> QED
    BY <2>1, <2>2, <2>3, Advancing, Budget DEF Ordinary
<1>11. CASE Alloc
  <2>1. Instr.op = "alloc" /\ Instr.n \in Nat
    BY <1>0, <1>3, <1>11 DEF Alloc, Sized
  <2>2. ASSUME NEW b \in Granules, TxAlloc(b, Instr.n), AdvanceWith(Instr.v, 8 * b), Ordinary
        PROVE  Proper /\ failures' \in 0 .. MaxFailures
    <3>1. HeapTyped'
      BY <1>0, <2>1, <2>2, HeapOperations
    <3> QED
      BY <1>1, <1>4, <2>1, <2>2, <3>1, Budget DEF Ordinary
  <2>3. CASE AllocFails(Instr.n) /\ Unwind
    BY <2>1, <2>3, Unwinding, Budget DEF AllocFails, Leaving
  <2> QED
    BY <1>11, <2>2, <2>3 DEF Alloc
<1>12. ASSUME BadFree, Instr.op \in {"free", "delete"}
       PROVE  Proper /\ failures' \in 0 .. MaxFailures
  <2>1. CASE Die("Invalid free")
    BY <1>12, <2>1, Deaths, Budget DEF BadFree, Reports
  <2>2. CASE AdvanceWild /\ UNCHANGED <<heapVars, suiteVars, out, file>>
    BY <1>1, <1>2, <1>12, <2>2, Budget DEF BadFree
  <2> QED
    BY <1>12, <2>1, <2>2 DEF BadFree
<1>13. CASE Free
  <2> DEFINE b == (proc.env[Instr.v] + Instr.off) \div 8
  <2>1. Instr.op = "free" /\ Instr.op \in Leaving
    BY <1>0, <1>13 DEF Free, Leaving
  <2>2. CASE b \in Live /\ TxFree(b) /\ Advance /\ Ordinary
    <3>1. b \in Granules
      BY <1>5, <2>2
    <3> HIDE DEF b
    <3>2. HeapTyped'
      BY <1>0, <2>2, <3>1, Somewhere, HeapOperations
    <3> QED
      BY <1>1, <2>1, <2>2, <3>2, Budget DEF Ordinary
  <2>3. CASE Unwind /\ (Fails \/ UNCHANGED failures)
    BY <2>1, <2>3, Unwinding, Budget
  <2>4. CASE BadFree
    BY <1>12, <2>1, <2>4
  <2>5. CASE UNCHANGED failures /\ \E r \in {"segv", "Invalid free"} : Die(r)
    BY <2>1, <2>5, Deaths, Budget DEF Reports, GranuleReports
  <2> QED
    BY <1>13, <2>2, <2>3, <2>4, <2>5 DEF Free, Freeable
<1>14. CASE Realloc
  <2> DEFINE b == proc.env[Instr.u] \div 8
  <2>1. Instr.op = "realloc" /\ Instr.op \in Leaving /\ Instr.n \in Nat
    BY <1>0, <1>3, <1>14 DEF Realloc, Sized, Leaving
  <2>2. ASSUME NEW c \in Granules, TxMove(b, c, Instr.n), AdvanceWith(Instr.v, 8 * c), Ordinary
        PROVE  Proper /\ failures' \in 0 .. MaxFailures
    <3>1. b \in Granules
      BY <1>5, <2>2 DEF TxMove
    <3> HIDE DEF b
    <3>2. HeapTyped'
      BY <1>0, <2>1, <2>2, <3>1, HeapOperations
    <3> QED
      BY <1>1, <1>4, <2>1, <2>2, <3>2, Budget DEF Ordinary
  <2>3. CASE AllocFails(Instr.n) /\ Unwind
    BY <2>1, <2>3, Unwinding, Budget DEF AllocFails
  <2>4. CASE Fails /\ Die("abort")
    BY <2>1, <2>4, Deaths, Budget DEF Reports
  <2> QED
    BY <1>14, <2>2, <2>3, <2>4 DEF Realloc
<1>15. CASE AddRange
  <2>1. Instr.op = "range" /\ Instr.op \in Leaving
    BY <1>0, <1>15 DEF AddRange, Leaving
  <2>2. CASE Die("segv") /\ UNCHANGED failures
    BY <2>1, <2>2, Deaths, Budget DEF Reports, GranuleReports
  <2>3. CASE Unwind /\ (Fails \/ UNCHANGED failures)
    BY <2>1, <2>3, Unwinding, Budget
  <2>4. CASE Touch(proc.env[Instr.v], Instr.n)
    BY <2>1, <2>4, Touching, Budget DEF Touch
  <2>5. CASE Advance /\ UNCHANGED heapVars /\ Ordinary
    BY <1>1, <1>2, <2>1, <2>5, Budget DEF Ordinary
  <2> QED
    BY <1>15, <2>2, <2>3, <2>4, <2>5 DEF AddRange
<1>16. CASE AbortTx
  BY <1>0, <1>16, Unwinding, Budget DEF AbortTx, Leaving
<1>17. CASE End
  <2>1. Instr.op = "end" /\ UNCHANGED failures
    BY <1>0, <1>17 DEF End
  <2>2. CASE TxCommit /\ Advance /\ UNCHANGED <<suiteVars, out, file>>
    <3>1. HeapTyped'
      BY <1>0, <2>2, Somewhere, HeapOperations
    <3> QED
      BY <1>1, <2>1, <2>2, <3>1, Budget
  <2>3. CASE /\ proc' = [proc EXCEPT !.pc = @ + 1, !.aborted = FALSE]
             /\ UNCHANGED <<heapVars, suiteVars, out, file>>
    <3>1. proc \in Procs /\ proc.status = "run"
      BY DEF Ready, Running
    <3>2. proc' = [proc EXCEPT !.pc = proc.pc + 1, !.aborted = FALSE] /\ proc.pc + 1 \in Nat
      BY <2>3, <3>1 DEF Procs
    <3>3. proc' \in Procs /\ proc'.status = "run" /\ proc'.pc = proc.pc + 1
      BY <3>1, <3>2 DEF Procs
    <3> QED
      BY <1>2, <2>1, <2>3, <3>3, Advancing, Budget
  <2>4. CASE /\ Instr.handler # "none"
             /\ proc' = [proc EXCEPT !.status = "dead", !.report = "abort"]
             /\ out' = IF Instr.handler = "failabort" THEN out \cup {"FAIL"} ELSE out
             /\ Detach /\ UNCHANGED <<suiteVars, file>>
    <3>1. HeapTyped'
      BY <1>0, <2>4, Somewhere, HeapOperations
    <3>2. /\ proc' \in Procs /\ proc'.status = "dead"
          /\ proc'.pc = proc.pc /\ proc'.wild = proc.wild
      BY <2>4 DEF Ready, Procs, Reports
    <3>3. Dies
      BY <2>1, <2>4, <3>2 DEF Dies, Detach
    <3> QED
      BY <2>1, <2>4, <3>1, <3>2, <3>3, Budget DEF Proper
  <2> QED
    BY <1>17, <2>1, <2>2, <2>3, <2>4 DEF End
<1>18. CASE New
  <2>1. Instr.op = "new" /\ Instr.n \in Nat
    BY <1>0, <1>3, <1>18 DEF New, Sized
  <2>2. ASSUME NEW b \in Granules, AtomicAlloc(b, Instr.n), AdvanceWith(Instr.v, 8 * b), Ordinary
        PROVE  Proper /\ failures' \in 0 .. MaxFailures
    <3>1. HeapTyped'
      BY <1>0, <2>1, <2>2, HeapOperations
    <3> QED
      BY <1>1, <1>4, <2>1, <2>2, <3>1, Budget DEF Ordinary
  <2>3. CASE AllocFails(Instr.n) /\ Die("abort")
    BY <2>1, <2>3, Deaths, Budget DEF AllocFails, Reports
  <2> QED
    BY <1>18, <2>2, <2>3 DEF New
<1>19. CASE Delete
  <2> DEFINE b == proc.env[Instr.v] \div 8
  <2>1. Instr.op = "delete"
    BY <1>0, <1>19 DEF Delete
  <2>2. CASE b \in Live /\ AtomicFree(b) /\ AdvanceWith(Instr.v, Null) /\ Ordinary
    <3>1. b \in Granules
      BY <1>5, <2>2
    <3> HIDE DEF b
    <3>2. HeapTyped'
      BY <1>0, <2>2, <3>1, Somewhere, HeapOperations
    <3> QED
      BY <1>1, <2>1, <2>2, <3>2, Budget DEF Ordinary, Null
  <2>3. CASE BadFree
    BY <1>12, <2>1, <2>3
  <2>4. CASE Die("palloc") /\ UNCHANGED failures
    BY <2>1, <2>4, Deaths, Budget DEF Reports
  <2> QED
    BY <1>19, <2>2, <2>3, <2>4 DEF Delete, Freeable
<1>20. CASE Copy
  <2>1. /\ Instr.op = "copy" /\ UNCHANGED heapVars /\ Ordinary
        /\ AdvanceWith(Instr.v, proc.env[Instr.u])
    BY <1>0, <1>20 DEF Copy
  <2>2. proc.env[Instr.u] \in Int
    BY <1>0, <2>1 DEF Ready, Form
  <2> QED
    BY <1>1, <1>2, <2>1, <2>2, Budget DEF Ordinary
<1>21. CASE Write
  <2>1. Instr.op = "write"
    BY <1>0, <1>21 DEF Write
  <2>2. CASE Die("segv") /\ UNCHANGED failures
    BY <2>1, <2>2, Deaths, Budget DEF Reports, GranuleReports
  <2>3. CASE TouchAnywhere
    <3>1. CASE \E r \in {"segv", "[fd]", "[fa]"} : Die(r)
      BY <2>1, <2>3, <3>1, Deaths, Budget DEF TouchAnywhere, Reports, GranuleReports
    <3>2. CASE AdvanceWild /\ UNCHANGED <<heapVars, suiteVars, out, file>>
      BY <1>1, <1>2, <2>1, <2>3, <3>2, Budget DEF TouchAnywhere
    <3> QED
      BY <2>3, <3>1, <3>2 DEF TouchAnywhere
  <2>4. CASE Touch(proc.env[Instr.v] + Instr.off, Instr.w)
    BY <2>1, <2>4, Touching, Budget DEF Touch
  <2> QED
    BY <1>21, <2>2, <2>3, <2>4 DEF Write
<1>22. CASE Flag
  <2>1. Instr.op = "flag" /\ Advance /\ UNCHANGED <<heapVars, suiteVars, failures>>
    BY <1>0, <1>22 DEF Flag
  <2>2. out' = out \cup {Instr.f}
    BY <1>22 DEF Flag
  <2> QED
    BY <1>2, <2>1, <2>2, Moving, Advancing, Budget
<1>23. CASE Close
  <2>1. /\ Instr.op = "close" /\ Detach /\ Ordinary
        /\ proc' = [proc EXCEPT !.status = "exit"]
    BY <1>0, <1>23 DEF Close
  <2>2. HeapTyped'
    BY <1>0, <2>1, Somewhere, HeapOperations
  <2>3. proc' \in Procs /\ proc'.status = "exit" /\ proc'.pc = proc.pc
    BY <2>1 DEF Ready, Procs
  <2>4. Exits
    BY <2>1, <2>3 DEF Exits, Ordinary
  <2> QED
    BY <2>1, <2>2, <2>3, <2>4, Budget DEF Proper, Ordinary
<1>24. CASE Derail
  <2>1. proc.wild /\ Instr.op # "flag" /\ UNCHANGED failures
    BY <1>24 DEF Derail
  <2>2. PICK r : Die(r) /\ r \in Derailings
    BY <1>24 DEF Derail, Derailings
  <2>3. r \in Reports
    BY <2>2, ReportTyped DEF Derailings, Reports, GranuleReports
  <2> QED
    BY <2>1, <2>2, <2>3, Deaths, Budget
<1> QED
  BY <1>6, <1>7, <1>8, <1>9, <1>10, <1>11, <1>13, <1>14, <1>15, <1>16, <1>17, <1>18, <1>19,
     <1>20, <1>21, <1>22, <1>23, <1>24 DEF Process

-----------------------------------------------------------------------------
(* Where the script and its process are.                                   *)

Shapes ==
  /\ HeapTyped /\ proc \in Procs /\ failures \in 0 .. MaxFailures
  /\ test \in 1 .. 17 /\ stage \in 1 .. 2 /\ rc \in {0, 1} /\ out \subseteq Flags
  /\ test <= 16 => /\ stage \in 1 .. Len(Suite[test].stages)
                   /\ proc.pc \in 1 .. Len(Program)
                   /\ ~LastStage => out = {}

LEMMA LaunchedTyped == Launched \in Procs
<1>1. /\ [v \in Locals |-> IF v = "obj" THEN Null ELSE Unassigned] \in [Locals -> Int]
      /\ [v \in Locals |-> Unassigned] \in [Locals -> Int]
  BY DEF Null, Unassigned
<1> QED
  BY <1>1 DEF Launched, Procs, Reports

LEMMA ShapesInit == Init => Shapes
<1> SUFFICES ASSUME Init PROVE Shapes
  OBVIOUS
<1>1. HeapTyped
  <2>1. PICK f \in Libraries : HeapInit(f)
    BY DEF Init
  <2> QED
    BY <2>1 DEF HeapInit, HeapTyped, EmptyShadow, NoBlocks, Shadows
<1>2. test = 1 /\ stage = 1 /\ proc = Launched /\ out = {} /\ rc = 0 /\ failures = MaxFailures
  BY DEF Init
<1>3. Len(Suite[1].stages) = 1 /\ Form(Suite[1].stages[1])
  BY SuiteFacts, MismatchedFreeForm
<1> QED
  BY <1>1, <1>2, <1>3, LaunchedTyped, SuiteAssumption DEF Shapes, Program, Form, Launched

LEMMA WithinSuite == \A t \in 1 .. 17 : t <= Len(Suite) <=> t \in 1 .. 16 /\ t <= 16
<1>1. Len(Suite) = 16
  BY SuiteFacts
<1> QED
  BY <1>1

\* A step of a process is one of the four kinds.
LEMMA ProcessSteps ==
  ASSUME Shapes, Process
  PROVE  Ready /\ Proper /\ failures' \in 0 .. MaxFailures
<1>1. Running
  BY DEF Process, Create, OpenPool, UseNoPool, RootObj, Begin, Alloc, Free, Realloc, AddRange,
         AbortTx, End, New, Delete, Copy, Write, Flag, Close, Derail, At
<1>2. test \in 1 .. 16 /\ test <= 16
  BY <1>1, WithinSuite DEF Shapes, Running
<1>3. Form(Program)
  BY <1>2, Forms DEF Shapes, Program
<1> QED
  BY <1>1, <1>2, <1>3, StepKinds DEF Ready, Shapes

\* The same program goes on running.
LEMMA SameProgram ==
  ASSUME UNCHANGED suiteVars
  PROVE  Program' = Program /\ (LastStage' <=> LastStage) /\ UNCHANGED <<test, stage, rc>>
  BY DEF suiteVars, Program, LastStage

LEMMA ShapesStep == Shapes /\ [Next]_vars => Shapes'
<1> SUFFICES ASSUME Shapes, [Next]_vars PROVE Shapes'
  OBVIOUS
<1>1. CASE UNCHANGED vars
  BY <1>1 DEF vars, heapVars, suiteVars, Shapes, HeapTyped, Program, LastStage
<1>2. CASE Process
  <2>1. Ready /\ Proper /\ failures' \in 0 .. MaxFailures /\ test \in 1 .. 16
    BY <1>2, ProcessSteps, WithinSuite DEF Ready, Running, Shapes
  <2>2. Program' = Program /\ (LastStage' <=> LastStage) /\ UNCHANGED <<test, stage, rc>>
    BY <2>1, SameProgram DEF Proper
  <2>3. proc'.pc \in 1 .. Len(Program)
    <3>1. CASE GoesOn
      BY <2>1, <3>1 DEF GoesOn, Ready, Form, Procs, Instr
    <3>2. CASE Jumps
      BY <2>1, <3>2 DEF Jumps, Ready, Form, Procs
    <3> QED
      BY <2>1, <3>1, <3>2 DEF Proper, Ready, Dies, Exits
  <2>4. out' = out \/ (Instr.op = "flag" /\ out' = out \cup {Instr.f}) \/ out' = out \cup {"FAIL"}
    BY <2>1 DEF Proper, GoesOn, Jumps, Dies, Exits
  <2>5. out' \subseteq Flags
    BY <2>1, <2>4 DEF Ready, Form, Shapes, Instr, Flags
  <2>6. ~LastStage => out' = {}
    <3> SUFFICES ASSUME ~LastStage PROVE out' = {}
      OBVIOUS
    <3>1. NoFlags(Program) /\ out = {}
      <4>1. stage \in 1 .. Len(Suite[test].stages) /\ stage # Len(Suite[test].stages) /\ out = {}
        BY <2>1 DEF Shapes, LastStage
      <4> QED
        BY <2>1, <4>1, FirstStages DEF Program
    <3>2. test = 10 /\ stage = 1
      <4>1. Len(Suite[test].stages) = IF test = 10 THEN 2 ELSE 1
        BY <2>1, StageCount
      <4>2. stage \in 1 .. Len(Suite[test].stages) /\ stage # Len(Suite[test].stages)
        BY <2>1 DEF Shapes, LastStage
      <4> QED
        BY <4>1, <4>2
    <3>3. \A k \in 1 .. Len(Program) : Program[k].op # "end"
      BY <3>2, SuiteFacts, CreatePoolOps DEF Program
    <3> QED
      BY <2>1, <3>1, <3>3 DEF Proper, GoesOn, Jumps, Dies, Exits, NoFlags, Ready, Instr
  <2> QED
    BY <2>1, <2>2, <2>3, <2>5, <2>6 DEF Shapes, Proper
<1>3. CASE NextStage
  <2>1. test \in 1 .. 16 /\ ~LastStage
    BY <1>3, WithinSuite DEF NextStage, Ended, Shapes
  <2>2. Len(Suite[test].stages) = IF test = 10 THEN 2 ELSE 1
    BY <2>1, StageCount
  <2>3. test = 10 /\ stage = 1
    BY <2>1, <2>2 DEF Shapes, LastStage
  <2>4. test' = 10 /\ stage' = 2 /\ proc' = Launched /\ out' = {} /\ UNCHANGED <<rc, failures>>
    BY <1>3, <2>1, <2>3 DEF NextStage, Shapes
  <2>5. HeapTyped'
    BY <1>3 DEF NextStage, Shapes, heapVars, HeapTyped
  <2>6. Program' = attemptOverflow /\ 1 \in 1 .. Len(attemptOverflow)
    <3>1. Suite[10].stages[2] = attemptOverflow
      BY SuiteFacts
    <3>2. 1 \in 1 .. Len(attemptOverflow)
      BY AttemptOverflowForm DEF Form
    <3> QED
      BY <2>4, <3>1, <3>2 DEF Program
  <2>7. Launched.pc = 1
    BY DEF Launched
  <2>8. Len(Suite[10].stages) = 2 /\ 2 \in 1 .. 2
    BY <2>2, <2>3
  <2> QED
    BY <2>4, <2>5, <2>6, <2>7, <2>8, LaunchedTyped DEF Shapes
<1>4. CASE Judge
  <2>1. test \in 1 .. 16 /\ test' = test + 1 /\ stage' = 1 /\ proc' = Launched /\ out' = {}
        /\ rc' \in {0, 1} /\ UNCHANGED failures
    BY <1>4, WithinSuite DEF Judge, Ended, Shapes
  <2>2. HeapTyped'
    BY <1>4 DEF Judge, Shapes, heapVars, HeapTyped
  <2>3. Launched.pc = 1
    BY DEF Launched
  <2>4. test' <= 16 => 1 \in 1 .. Len(Suite[test'].stages) /\ 1 \in 1 .. Len(Suite[test'].stages[1])
    <3> SUFFICES ASSUME test' <= 16
                 PROVE  1 \in 1 .. Len(Suite[test'].stages) /\ 1 \in 1 .. Len(Suite[test'].stages[1])
      OBVIOUS
    <3>1. test' \in 1 .. 16
      BY <2>1
    <3> DEFINE t == test'
    <3> HIDE DEF t
    <3>2. t \in 1 .. 16
      BY <3>1 DEF t
    <3>3. Len(Suite[t].stages) = 1 \/ Len(Suite[t].stages) = 2
      BY <3>2, StageCount
    <3>4. 1 \in 1 .. Len(Suite[t].stages)
      <4>1. 1 \in 1 .. 1 /\ 1 \in 1 .. 2
        OBVIOUS
      <4> QED
        BY <3>3, <4>1, Zenon
    <3>5. Form(Suite[t].stages[1])
      BY <3>2, <3>4, Forms
    <3>6. 1 \in 1 .. Len(Suite[t].stages[1])
      BY <3>5 DEF Form
    <3> QED
      BY <3>4, <3>6 DEF t
  <2> QED
    BY <2>1, <2>2, <2>3, <2>4, LaunchedTyped DEF Shapes, Program
<1> QED
  BY <1>1, <1>2, <1>3, <1>4 DEF Next

\* TypeOK: whatever library, placement and failing calls, the script, its
\* process and the shadow memory keep their types.
THEOREM TypeCorrect == Spec => []TypeOK
<1>1. Shapes => TypeOK
  <2>1. Len(Suite) + 1 = 17
    <3>1. Len(Suite) = 16
      BY SuiteFacts
    <3> QED
      BY <3>1
  <2>2. Shapes => proc.status \in {"run", "exit", "dead"}
    BY DEF Shapes, Procs
  <2> QED
    BY <2>1, <2>2 DEF Shapes, TypeOK, HeapTyped, Shadows
<1> QED
  BY <1>1, ShapesInit, ShapesStep, PTL DEF Spec

-----------------------------------------------------------------------------
(* A process that has printed PASS and not FAIL stands between the two     *)
(* flags, and if it is dead it died on the faulty line, or right behind it *)
(* from the damage an unnoticed access had done.                           *)

Caught ==
  test <= 16 /\ LastStage /\ Suite[test].kind = "crash" =>
    /\ "PASS" \in out => proc.pc >= FaultLine[test]
    /\ "PASS" \in out /\ "FAIL" \notin out =>
         /\ proc.pc <= FailLine[test]
         /\ proc.status = "dead" =>
              \/ proc.pc = FaultLine[test]
              \/ /\ proc.pc = FaultLine[test] + 1 /\ FailLine[test] = FaultLine[test] + 2
                 /\ proc.wild /\ proc.report \in Derailings

LEMMA CaughtStep == Shapes /\ Caught /\ [Next]_vars => Caught'
<1> SUFFICES ASSUME Shapes, Caught, [Next]_vars PROVE Caught'
  OBVIOUS
<1>1. CASE UNCHANGED vars
  BY <1>1 DEF vars, heapVars, suiteVars, Caught, LastStage, Derailings, ReportOf
<1>2. CASE NextStage
  <2>1. test \in 1 .. 16 /\ ~LastStage /\ UNCHANGED out
    BY <1>2, WithinSuite DEF NextStage, Ended, Shapes
  <2>2. "PASS" \notin out'
    BY <2>1 DEF Shapes
  <2> QED
    BY <2>2 DEF Caught
<1>3. CASE Judge
  BY <1>3 DEF Judge, Caught
<1>4. CASE Process
  <2> SUFFICES ASSUME LastStage', Suite[test'].kind = "crash"
               PROVE  Caught'
    BY DEF Caught
  <2>1. Ready /\ Proper
    BY <1>4, ProcessSteps
  <2>2. Program' = Program /\ LastStage /\ UNCHANGED <<test, stage>>
    BY <2>1, SameProgram DEF Proper
  <2>3. test \in 1 .. 16 /\ test <= 16 /\ Suite[test].kind = "crash"
    BY <2>1, <2>2, WithinSuite DEF Ready, Running, Shapes
  <2> DEFINE P == Program
             F == FaultLine[test]
             L == FailLine[test]
  <2>4. CrashForm(P, F, L)
    <3>1. Program = Suite[test].stages[Len(Suite[test].stages)]
      BY <2>2 DEF Program, LastStage
    <3> QED
      BY <2>3, <3>1, CrashForms
  <2> HIDE DEF P, F, L
  <2>5. /\ "PASS" \in out => proc.pc >= F
        /\ "PASS" \in out /\ "FAIL" \notin out => proc.pc <= L
    BY <2>2, <2>3 DEF Caught, F, L
  <2>6. /\ F \in Nat /\ L \in Nat /\ (L = F + 1 \/ L = F + 2) /\ proc.pc \in Nat
        /\ Instr = P[proc.pc] /\ proc.pc \in 1 .. Len(P) /\ Len(P) \in Nat
    BY <2>1, <2>4 DEF CrashForm, Ready, Procs, Form, Instr, P
  <2>7. /\ Instr.op = "flag" => (proc.pc = F - 1 /\ Instr.f = "PASS") \/ (proc.pc = L /\ Instr.f = "FAIL")
        /\ proc.pc = L => Instr.op = "flag"
        /\ proc.pc = F + 1 /\ L = F + 2 => Instr.op = "end" /\ Instr.handler = "none"
        /\ proc.pc = F /\ Instr.op \in Leaving => L = F + 2 /\ P[F + 1].op = "end"
    BY <2>4, <2>6 DEF CrashForm, print_pass_flag, print_fail_flag, flag, end
  <2> SUFFICES /\ "PASS" \in out' => proc'.pc >= F
               /\ "PASS" \in out' /\ "FAIL" \notin out' =>
                    /\ proc'.pc <= L
                    /\ proc'.status = "dead" =>
                         \/ proc'.pc = F
                         \/ /\ proc'.pc = F + 1 /\ L = F + 2
                            /\ proc'.wild /\ proc'.report \in Derailings'
    BY <2>2 DEF Caught, F, L
  <2>8. CASE GoesOn
    <3>1. proc'.pc = proc.pc + 1 /\ proc'.status = "run"
          /\ out' = IF Instr.op = "flag" THEN out \cup {Instr.f} ELSE out
      BY <2>8 DEF GoesOn
    <3>2. CASE Instr.op # "flag"
      BY <2>5, <2>6, <2>7, <3>1, <3>2
    <3>3. CASE Instr.op = "flag" /\ proc.pc = F - 1
      BY <2>6, <3>1, <3>3
    <3>4. CASE Instr.op = "flag" /\ proc.pc = L /\ Instr.f = "FAIL"
      BY <2>5, <2>6, <3>1, <3>4
    <3> QED
      BY <2>7, <3>2, <3>3, <3>4
  <2>9. CASE Jumps
    <3>1. /\ Instr.op \in Leaving /\ proc'.status = "run" /\ out' = out
          /\ proc'.pc \in proc.pc + 1 .. Len(P) /\ NextEnd(P, proc.pc, proc'.pc)
      BY <2>9 DEF Jumps, P
    <3>2. proc'.pc \in Nat /\ proc'.pc > proc.pc
      BY <2>6, <3>1
    <3>3. ASSUME "PASS" \in out, "FAIL" \notin out
          PROVE  proc'.pc <= L
      <4>1. proc.pc = F /\ L = F + 2
        BY <2>5, <2>6, <2>7, <3>1, <3>3 DEF Leaving
      <4>2. ~(F + 1 \in proc.pc .. proc'.pc - 1)
        BY <2>7, <3>1, <4>1 DEF NextEnd
      <4> QED
        BY <2>6, <3>2, <4>1, <4>2
    <3> QED
      BY <2>5, <2>6, <3>1, <3>2, <3>3
  <2>10. CASE Dies
    <3>1. Derailings' = Derailings
      BY <2>10 DEF Dies, Derailings, ReportOf
    <3>2. /\ Instr.op # "flag" /\ proc'.pc = proc.pc /\ proc'.wild = proc.wild
          /\ "PASS" \in out' => "PASS" \in out
          /\ "FAIL" \notin out' => "FAIL" \notin out
          /\ Instr.op = "end" /\ Instr.handler = "none" => proc.wild /\ proc'.report \in Derailings
      BY <2>10 DEF Dies
    <3> QED
      BY <2>5, <2>6, <2>7, <3>1, <3>2
  <2>11. CASE Exits
    BY <2>5, <2>6, <2>11 DEF Exits
  <2> QED
    BY <2>1, <2>8, <2>9, <2>10, <2>11 DEF Proper
<1> QED
  BY <1>1, <1>2, <1>3, <1>4 DEF Next

-----------------------------------------------------------------------------
(* Steps in detail, for the two programs whose transaction has a line      *)
(* between the faulty one and the flag FAIL.                               *)

\* p is the address of an object of n bytes.
Holds(p, n) == \E b \in Granules : p = 8 * b /\ blk[b] = n

LEMMA Inside == \A b \in Granules : \A n \in Nat : b \in Space(b, n)
<1> SUFFICES ASSUME NEW b \in Granules, NEW n \in Nat PROVE b \in Space(b, n)
  OBVIOUS
<1>1. Units(n) \in Nat
  BY DEF Units
<1>2. b \in Int
  BY HeapAssumption DEF Granules
<1> QED
  BY <1>1, <1>2, HeapAssumption DEF Space

\* A new object is not where one is.
LEMMA Apart ==
  ASSUME HeapTyped, NEW b \in Granules, NEW n \in Nat, Fits(b, n), NEW c \in Granules, blk[c] > 0
  PROVE  c # b
<1> SUFFICES ASSUME c = b PROVE FALSE
  OBVIOUS
<1>1. b \in Space(b, n) /\ b \in Taken(b)
  BY Inside DEF Taken, HeapTyped
<1>2. b \in Blocks
  BY DEF Blocks
<1> QED
  BY <1>1, <1>2 DEF Fits

LEMMA StillHolds ==
  ASSUME HeapTyped,
         \E b \in Granules : \E n \in Nat : Fits(b, n) /\ blk' = [blk EXCEPT ![b] = n]
  PROVE  \A m \in Nat \ {0} : \A p : Holds(p, m) => \E c \in Granules : p = 8 * c /\ blk'[c] = m
<1> SUFFICES ASSUME NEW p, NEW m \in Nat \ {0}, Holds(p, m)
             PROVE  \E c \in Granules : p = 8 * c /\ blk'[c] = m
  OBVIOUS
<1>1. PICK c \in Granules : p = 8 * c /\ blk[c] = m
  BY DEF Holds
<1>2. ASSUME NEW b \in Granules, NEW n \in Nat, Fits(b, n), blk' = [blk EXCEPT ![b] = n]
      PROVE  blk'[c] = m
  <2>1. c # b
    BY <1>1, <1>2, Apart
  <2> QED
    BY <1>1, <1>2, <2>1 DEF HeapTyped
<1> QED
  BY <1>1, <1>2

\* What is accessed within an object does no damage.
LEMMA HoldsHarmless ==
  ASSUME HeapTyped, NEW p, NEW n \in Nat \ {0}, Holds(p, n)
  PROVE  Harmless(p, n) /\ p \in Nat /\ p % 8 = 0 /\ p \div 8 \in Blocks
<1>1. PICK b \in Granules : p = 8 * b /\ blk[b] = n
  BY DEF Holds
<1>2. b \in Nat /\ b \in Blocks
  BY <1>1, HeapAssumption DEF Granules, Blocks
<1>3. p \in Nat /\ p % 8 = 0 /\ p \div 8 = b
  BY <1>1, <1>2
<1>4. 8 * b <= p /\ p + n <= 8 * b + blk[b]
  BY <1>1, <1>2
<1> QED
  BY <1>2, <1>3, <1>4 DEF Harmless

LEMMA Dead ==
  ASSUME proc \in Procs, NEW r, Die(r)
  PROVE  proc'.status = "dead" /\ proc'.pc = proc.pc /\ proc'.wild = proc.wild /\ UNCHANGED <<shadow, test>>
  BY DEF Die, Procs, Detach, heapVars, suiteVars

LEMMA Unwound ==
  ASSUME Ready, Instr.op \in Leaving, Unwind
  PROVE  /\ proc'.status = "run" /\ proc'.wild = proc.wild /\ UNCHANGED test
         /\ proc'.pc \in proc.pc + 1 .. Len(Program) /\ NextEnd(Program, proc.pc, proc'.pc)
<1>1. Jumps
  BY Unwinding
<1>2. proc'.wild = proc.wild /\ UNCHANGED test
  BY DEF Unwind, Ready, Procs, suiteVars
<1> QED
  BY <1>1, <1>2 DEF Jumps

LEMMA Assigned ==
  ASSUME proc \in Procs, NEW v \in Locals, NEW p, AdvanceWith(v, p)
  PROVE  /\ proc'.status = proc.status /\ proc'.pc = proc.pc + 1 /\ proc'.wild = proc.wild
         /\ (proc'.aborted <=> proc.aborted) /\ (proc'.pool <=> proc.pool)
         /\ proc'.env[v] = p /\ \A u \in Locals : u # v => proc'.env[u] = proc.env[u]
  BY DEF AdvanceWith, Procs

LEMMA Moved ==
  ASSUME proc \in Procs, Advance
  PROVE  /\ proc'.status = proc.status /\ proc'.pc = proc.pc + 1 /\ proc'.wild = proc.wild
         /\ (proc'.aborted <=> proc.aborted) /\ (proc'.pool <=> proc.pool) /\ proc'.env = proc.env
  BY DEF Advance, Goto, Procs

\* use_after_free never writes outside an object: its faulty write goes to one
\* whose free is not committed, so nothing is found behind it.
LEMMA UseAfterFreeSteps ==
  /\ Len(use_after_free) = 14
  /\ \A k \in 1 .. 14 : LET i == use_after_free[k] IN
       /\ i.op \notin {"open", "realloc", "abort", "new", "delete"}
       /\ i.op = "create" <=> k = 1
       /\ i.op = "root" <=> k = 2
       /\ i.op = "root" => i.n = 16
       /\ i.op = "begin" => k \in {3, 8}
       /\ i.op = "alloc" => k = 4 /\ i.v = "oid" /\ i.n = 8
       /\ i.op = "range" => k = 5 /\ i.v = "root" /\ i.n = 16
       /\ i.op = "copy" => k = 6 /\ i.v = "obj" /\ i.u = "oid"
       /\ i.op = "end" <=> k \in {7, 12}
       /\ i.op = "end" /\ k = 7 => i.handler = "abort"
       /\ i.op = "free" => k = 9 /\ i.v = "obj" /\ i.off = 0
       /\ i.op = "write" => k = 11 /\ i.v = "obj" /\ i.off = 0 /\ i.w = 8
       /\ i.op = "flag" => k \in {10, 13}
       /\ i.op = "close" => k = 14
<1> USE DEF create, rootObj, begin, alloc, free, addRange, end, copy, write, flag, close,
            print_pass_flag, print_fail_flag
<1>1. /\ Len(use_after_free) = 14
      /\ \A k \in 1 .. 14 :
           use_after_free[k] = <<create("assert"), rootObj(16, "assert"), begin,
                                alloc("oid", 8), addRange("root", 16), copy("obj", "oid"),
                                end("abort"), begin, free("obj", 0), print_pass_flag,
                                write("obj", 0, 8), end("none"), print_fail_flag, close>>[k]
  BY DEF use_after_free, WithDummy, Rooted, Finish
<1>2. \A k \in 1 .. 14 : k \in {1, 2, 3, 4, 5, 6, 7, 8, 9, 10, 11, 12, 13, 14}
  OBVIOUS
<1> QED
  BY <1>1, <1>2

UseAfterFreeTame ==
  test = 4 =>
    /\ ~proc.wild
    /\ proc.status = "run" =>
         /\ proc.aborted => proc.pc \in {7, 12}
         /\ proc.pc = 1 => ~proc.pool
         /\ proc.pc = 2 /\ proc.pool => root = NoRoot
         /\ proc.pc \in 2 .. 9 /\ proc.pool /\ ~proc.aborted => freed = {}
         /\ proc.pc \in 3 .. 9 => proc.pool
         /\ proc.pc \in 3 .. 5 => proc.env["root"] = Null \/ Holds(proc.env["root"], 16)
         /\ proc.pc \in 5 .. 6 => Holds(proc.env["oid"], 8)
         /\ proc.pc \in 7 .. 11 /\ ~proc.aborted => Holds(proc.env["obj"], 8)

LEMMA UseAfterFreeTameStep ==
  Shapes /\ UseAfterFreeTame /\ [Next]_vars => UseAfterFreeTame'
<1> SUFFICES ASSUME Shapes, UseAfterFreeTame, [Next]_vars, test' = 4 PROVE UseAfterFreeTame'
  BY DEF UseAfterFreeTame
<1> USE DEF At
<1>1. CASE UNCHANGED vars
  BY <1>1 DEF vars, heapVars, suiteVars, UseAfterFreeTame, Holds
<1>2. CASE NextStage
  <2>1. test = 4 /\ stage \in 1 .. Len(Suite[test].stages) /\ ~LastStage
    BY <1>2 DEF NextStage, Shapes
  <2>2. Len(Suite[4].stages) = 1
    BY SuiteFacts
  <2> QED
    BY <2>1, <2>2 DEF LastStage
<1>3. CASE Judge
  <2>1. proc' = Launched
    BY <1>3 DEF Judge
  <2> QED
    BY <2>1 DEF Launched, UseAfterFreeTame
<1>4. CASE Process
  <2>1. Ready /\ UNCHANGED suiteVars /\ test = 4 /\ HeapTyped /\ proc \in Procs /\ HeapTyped'
    BY <1>4, ProcessSteps DEF Proper, Ready, suiteVars
  <2>2. Program = use_after_free
    <3>1. stage \in 1 .. Len(Suite[test].stages) /\ Len(Suite[4].stages) = 1
      <4>1. test <= 16
        BY <2>1
      <4>2. Len(Suite[4].stages) = 1
        BY SuiteFacts
      <4> QED
        BY <4>1, <4>2 DEF Shapes
    <3>2. stage = 1
      BY <2>1, <3>1
    <3> QED
      BY <2>1, <3>2, SuiteFacts DEF Program
  <2>3. /\ proc.pc \in 1 .. 14 /\ Instr = use_after_free[proc.pc] /\ proc.status = "run"
        /\ Instr = Program[proc.pc]
    BY <2>1, <2>2, UseAfterFreeSteps DEF Ready, Running, Instr
  <2>4. /\ Instr.op \notin {"open", "realloc", "abort", "new", "delete"}
        /\ Instr.op = "create" => proc.pc = 1
        /\ Instr.op = "root" => proc.pc = 2 /\ Instr.n = 16
        /\ Instr.op = "begin" => proc.pc \in {3, 8}
        /\ Instr.op = "alloc" => proc.pc = 4 /\ Instr.v = "oid" /\ Instr.n = 8
        /\ Instr.op = "range" => proc.pc = 5 /\ Instr.v = "root" /\ Instr.n = 16
        /\ Instr.op = "copy" => proc.pc = 6 /\ Instr.v = "obj" /\ Instr.u = "oid"
        /\ Instr.op = "end" => proc.pc \in {7, 12} /\ (proc.pc = 7 => Instr.handler = "abort")
        /\ Instr.op = "free" => proc.pc = 9 /\ Instr.v = "obj" /\ Instr.off = 0
        /\ Instr.op = "write" => proc.pc = 11 /\ Instr.v = "obj" /\ Instr.off = 0 /\ Instr.w = 8
        /\ Instr.op = "flag" => proc.pc \in {10, 13}
        /\ Instr.op = "close" => proc.pc = 14
    <3> DEFINE k == proc.pc
    <3> HIDE DEF k
    <3>1. k \in 1 .. 14 /\ Instr = use_after_free[k]
      BY <2>3 DEF k
    <3> QED
      BY <3>1, UseAfterFreeSteps DEF k
  <2>5. /\ ~proc.wild /\ (proc.aborted => proc.pc \in {7, 12})
        /\ proc.pc = 1 => ~proc.pool
        /\ proc.pc = 2 /\ proc.pool => root = NoRoot
        /\ proc.pc \in 2 .. 9 /\ proc.pool /\ ~proc.aborted => freed = {}
        /\ proc.pc \in 3 .. 9 => proc.pool
        /\ proc.pc \in 3 .. 5 => proc.env["root"] = Null \/ Holds(proc.env["root"], 16)
        /\ proc.pc \in 5 .. 6 => Holds(proc.env["oid"], 8)
        /\ proc.pc \in 7 .. 11 /\ ~proc.aborted => Holds(proc.env["obj"], 8)
    BY <2>1, <2>3 DEF UseAfterFreeTame
  <2>6. ASSUME NEW r, Die(r) PROVE UseAfterFreeTame'
    BY <2>1, <2>5, <2>6, Dead DEF UseAfterFreeTame
  <2>7. {"root", "obj", "oid"} \subseteq Locals
    BY DEF Locals
  \* The jump leads to 7 or 12.
  <2>8. ASSUME Unwind, Instr.op \in Leaving PROVE UseAfterFreeTame'
    <3>1. /\ proc'.status = "run" /\ proc'.wild = proc.wild
          /\ proc'.pc \in proc.pc + 1 .. 14 /\ NextEnd(use_after_free, proc.pc, proc'.pc)
      BY <2>1, <2>2, <2>8, UseAfterFreeSteps, Unwound
    <3>2. proc.pc \in {4, 5, 9}
      BY <2>4, <2>8 DEF Leaving
    <3>3. proc'.pc \in {7, 12}
      <4>1. proc'.pc \in 1 .. 14
        BY <3>1, <3>2
      <4> QED
        BY <3>1, <4>1, UseAfterFreeSteps DEF NextEnd
    <3>4. proc'.pc = 7 \/ proc.pc = 9
      <4>1. use_after_free[7].op = "end"
        BY UseAfterFreeSteps
      <4> QED
        BY <3>1, <3>2, <3>3, <4>1 DEF NextEnd
    <3>5. proc'.aborted
      BY <2>1, <2>8 DEF Unwind, Procs
    <3>6. proc'.pc = 7 => proc'.pool
      BY <2>1, <2>5, <2>8, <3>2 DEF Unwind, Procs
    <3> QED
      BY <2>5, <3>1, <3>3, <3>5, <3>6 DEF UseAfterFreeTame
  <2>9. CASE Create
    <3>1. proc.pc = 1 /\ ~proc.aborted
      BY <2>3, <2>4, <2>5, <1>4, <2>9 DEF Create
    <3>2. CASE Format /\ proc' = [proc EXCEPT !.pc = @ + 1, !.pool = TRUE]
      <4>1. proc'.pc = 2 /\ ~proc'.wild /\ ~proc'.aborted /\ root' = NoRoot /\ freed' = {}
        BY <2>1, <2>5, <3>1, <3>2 DEF Format, Procs
      <4> QED
        BY <4>1 DEF UseAfterFreeTame
    <3>3. CASE proc' = [proc EXCEPT !.status = "dead", !.report = "abort"]
      BY <2>1, <2>5, <3>3 DEF UseAfterFreeTame, Procs
    <3>4. CASE proc' = [proc EXCEPT !.pc = @ + 1]
      <4>1. proc'.pc = 2 /\ ~proc'.wild /\ ~proc'.aborted /\ ~proc'.pool
        BY <2>1, <2>5, <3>1, <3>4 DEF Procs
      <4> QED
        BY <4>1 DEF UseAfterFreeTame
    <3> QED
      BY <2>9, <3>2, <3>3, <3>4 DEF Create
  <2>10. CASE UseNoPool \/ Derail
    BY <2>6, <2>10 DEF UseNoPool, Derail
  <2>11. CASE RootObj
    <3>1. proc.pc = 2 /\ proc.pool /\ ~proc.aborted /\ root = NoRoot /\ freed = {} /\ Instr.n = 16
      BY <2>3, <2>4, <2>5, <2>11 DEF RootObj
    <3>2. ASSUME NEW p, AdvanceWith("root", p), UNCHANGED freed,
                 p = Null \/ \E b \in Granules : p = 8 * b /\ blk'[b] = 16
          PROVE  UseAfterFreeTame'
      <4>1. /\ proc'.pc = 3 /\ ~proc'.wild /\ ~proc'.aborted /\ proc'.pool
            /\ proc'.env["root"] = p /\ freed' = {}
        BY <2>1, <2>5, <2>7, <3>1, <3>2, Assigned
      <4> QED
        BY <3>2, <4>1 DEF UseAfterFreeTame, Holds
    <3>3. ASSUME NEW b \in Granules, RootAlloc(b, Instr.n), AdvanceWith("root", 8 * b)
          PROVE  UseAfterFreeTame'
      <4>1. blk'[b] = 16 /\ freed' = freed
        BY <2>1, <3>1, <3>3 DEF RootAlloc, HeapTyped
      <4> QED
        BY <3>2, <3>3, <4>1
    <3>4. CASE AdvanceWith("root", Null) /\ UNCHANGED heapVars
      BY <3>2, <3>4 DEF heapVars
    <3>5. CASE Die("abort")
      BY <2>6, <3>5
    <3> QED
      BY <2>11, <3>1, <3>3, <3>4, <3>5 DEF RootObj
  <2>12. CASE Begin
    <3>1. proc.pc \in {3, 8} /\ ~proc.aborted
      BY <2>3, <2>4, <2>5, <2>12 DEF Begin
    <3>2. /\ proc'.pc = proc.pc + 1 /\ ~proc'.wild /\ ~proc'.aborted /\ proc'.pool = proc.pool
          /\ proc'.env = proc.env
      BY <2>1, <2>5, <2>12, <3>1 DEF Begin, Procs
    <3>3. UNCHANGED <<blk, freed>>
      BY <2>12 DEF Begin, TxBegin
    <3> QED
      BY <2>5, <3>1, <3>2, <3>3 DEF UseAfterFreeTame, Holds
  <2>13. CASE Alloc
    <3>1. Instr.op = "alloc" /\ proc.pc = 4 /\ ~proc.aborted /\ proc.pool /\ Instr.v = "oid" /\ Instr.n = 8
      BY <2>3, <2>4, <2>5, <2>13 DEF Alloc
    <3>2. ASSUME NEW b \in Granules, TxAlloc(b, 8), AdvanceWith("oid", 8 * b)
          PROVE  UseAfterFreeTame'
      <4>1. /\ proc'.pc = 5 /\ ~proc'.wild /\ ~proc'.aborted /\ proc'.pool
            /\ proc'.env["oid"] = 8 * b /\ proc'.env["root"] = proc.env["root"]
        BY <2>1, <2>5, <2>7, <3>1, <3>2, Assigned
      <4>2. blk' = [blk EXCEPT ![b] = 8] /\ Fits(b, 8) /\ freed' = freed /\ blk'[b] = 8
        BY <2>1, <3>2 DEF TxAlloc, HeapTyped
      <4>3. Holds(proc.env["root"], 16) =>
              \E c \in Granules : proc.env["root"] = 8 * c /\ blk'[c] = 16
        <5>1. \E d \in Granules : \E n \in Nat : Fits(d, n) /\ blk' = [blk EXCEPT ![d] = n]
          BY <4>2
        <5>2. \A m \in Nat \ {0} : \A p : Holds(p, m) => \E c \in Granules : p = 8 * c /\ blk'[c] = m
          BY <2>1, <5>1, StillHolds
        <5> QED
          BY <5>2
      <4> QED
        BY <2>5, <3>1, <4>1, <4>2, <4>3 DEF UseAfterFreeTame, Holds
    <3>3. CASE Unwind
      BY <2>8, <3>1, <3>3 DEF Leaving
    <3> QED
      BY <2>13, <3>1, <3>2, <3>3 DEF Alloc
  <2>14. CASE AddRange
    <3>1. /\ Instr.op = "range" /\ proc.pc = 5 /\ ~proc.aborted /\ proc.pool
          /\ Instr.v = "root" /\ Instr.n = 16
      BY <2>3, <2>4, <2>5, <2>14 DEF AddRange
    <3>2. CASE Advance /\ UNCHANGED heapVars
      <4>1. /\ proc'.pc = 6 /\ ~proc'.wild /\ ~proc'.aborted /\ proc'.pool
            /\ proc'.env = proc.env /\ UNCHANGED <<blk, freed>>
        BY <2>1, <2>5, <3>1, <3>2, Moved DEF heapVars
      <4> QED
        BY <2>5, <3>1, <4>1 DEF UseAfterFreeTame, Holds
    <3>3. CASE Unwind
      BY <2>8, <3>1, <3>3 DEF Leaving
    <3>4. CASE \E r : Die(r)
      BY <2>6, <3>4
    <3>5. CASE proc.env["root"] >= 0 /\ Touch(proc.env["root"], 16)
      <4>1. Holds(proc.env["root"], 16)
        BY <2>5, <3>1, <3>5 DEF Null
      <4>2. Harmless(proc.env["root"], 16)
        BY <2>1, <4>1, HoldsHarmless
      <4> QED
        BY <3>2, <3>4, <3>5, <4>2 DEF Touch
    <3> QED
      BY <2>14, <3>1, <3>2, <3>3, <3>4, <3>5 DEF AddRange
  <2>15. CASE Copy
    <3>1. /\ proc.pc = 6 /\ ~proc.aborted /\ proc.pool /\ Instr.v = "obj" /\ Instr.u = "oid"
          /\ UNCHANGED heapVars /\ AdvanceWith("obj", proc.env["oid"])
      BY <2>3, <2>4, <2>5, <2>15 DEF Copy
    <3>2. /\ proc'.pc = 7 /\ ~proc'.wild /\ ~proc'.aborted /\ proc'.pool
          /\ proc'.env["obj"] = proc.env["oid"] /\ UNCHANGED <<blk, freed>>
      BY <2>1, <2>5, <2>7, <3>1, Assigned DEF heapVars
    <3> QED
      BY <2>5, <3>1, <3>2 DEF UseAfterFreeTame, Holds
  <2>16. CASE End
    <3>1. Instr.op = "end" /\ proc.pc \in {7, 12} /\ (proc.pc = 7 => Instr.handler = "abort" /\ proc.pool)
      BY <2>3, <2>4, <2>5, <2>16 DEF End
    <3>2. CASE ~proc.aborted /\ TxCommit /\ Advance
      <4>1. /\ proc'.pc = proc.pc + 1 /\ ~proc'.wild /\ ~proc'.aborted
            /\ (proc'.pool <=> proc.pool) /\ proc'.env = proc.env
        BY <2>1, <2>5, <3>2, Moved
      <4>2. proc.pc = 7 => freed' = {} /\ blk' = blk
        <5> SUFFICES ASSUME proc.pc = 7 PROVE freed' = {} /\ blk' = blk
          OBVIOUS
        <5>1. freed = {}
          BY <2>5, <3>1, <3>2
        <5> QED
          BY <2>1, <3>2, <5>1 DEF TxCommit, HeapTyped
      <4> QED
        BY <2>5, <3>1, <3>2, <4>1, <4>2 DEF UseAfterFreeTame, Holds
    <3>3. CASE Instr.handler = "none" /\ proc' = [proc EXCEPT !.pc = @ + 1, !.aborted = FALSE]
      <4>1. proc'.pc = 13 /\ ~proc'.wild /\ ~proc'.aborted
        BY <2>1, <2>5, <3>1, <3>3 DEF Procs
      <4> QED
        BY <4>1 DEF UseAfterFreeTame
    <3>4. CASE proc' = [proc EXCEPT !.status = "dead", !.report = "abort"]
      BY <2>1, <2>5, <3>4 DEF UseAfterFreeTame, Procs
    <3> QED
      BY <2>16, <3>2, <3>3, <3>4 DEF End
  <2>17. CASE Free
    <3> DEFINE p == proc.env["obj"]
    <3>1. /\ Instr.op = "free" /\ proc.pc = 9 /\ ~proc.aborted /\ proc.pool
          /\ Instr.v = "obj" /\ Instr.off = 0
      <4>1. Instr.op = "free"
        BY <2>3, <2>17 DEF Free
      <4> QED
        BY <2>4, <2>5, <4>1
    <3>2. Holds(p, 8) /\ p \in Nat /\ p % 8 = 0 /\ p \div 8 \in Blocks /\ freed = {}
      BY <2>1, <2>5, <3>1, HoldsHarmless
    <3>3. p + 0 = p /\ Freeable(p) /\ p # Unassigned
      <4> HIDE DEF p
      <4>1. p \div 8 \in Live
        BY <3>2 DEF Live
      <4>2. Freeable(p)
        BY <3>2, <4>1 DEF Freeable
      <4> QED
        BY <3>2, <4>2 DEF Unassigned
    <3>4. CASE TxFree(p \div 8) /\ Advance
      <4>1. /\ proc'.pc = 10 /\ ~proc'.wild /\ ~proc'.aborted /\ proc'.env = proc.env /\ blk' = blk
        BY <2>1, <2>5, <3>1, <3>4, Moved DEF TxFree
      <4> QED
        BY <3>2, <4>1 DEF UseAfterFreeTame, Holds
    <3>5. CASE Unwind
      BY <2>8, <3>1, <3>5 DEF Leaving
    <3> QED
      BY <2>17, <3>1, <3>3, <3>4, <3>5 DEF Free
  <2>18. CASE Write
    <3> DEFINE p == proc.env["obj"]
    <3>1. proc.pc = 11 /\ ~proc.aborted /\ Instr.v = "obj" /\ Instr.off = 0 /\ Instr.w = 8
      BY <2>3, <2>4, <2>5, <2>18 DEF Write
    <3>2. Holds(p, 8) /\ p \in Nat /\ Harmless(p, 8)
      BY <2>1, <2>5, <3>1, HoldsHarmless
    <3>3. p + 0 = p /\ p # Unassigned
      BY <3>2 DEF Unassigned
    <3>4. CASE Advance
      <4>1. proc'.pc = 12 /\ ~proc'.wild /\ ~proc'.aborted
        BY <2>1, <2>5, <3>1, <3>4, Moved
      <4> QED
        BY <4>1 DEF UseAfterFreeTame
    <3>5. CASE \E r : Die(r)
      BY <2>6, <3>5
    <3>6. CASE Touch(p, 8)
      BY <3>2, <3>4, <3>5, <3>6 DEF Touch
    <3> QED
      BY <2>18, <3>1, <3>3, <3>5, <3>6 DEF Write
  <2>19. CASE Flag
    <3>1. proc.pc \in {10, 13} /\ ~proc.aborted /\ Advance /\ UNCHANGED heapVars
      BY <2>3, <2>4, <2>5, <2>19 DEF Flag
    <3>2. /\ proc'.pc = proc.pc + 1 /\ ~proc'.wild /\ ~proc'.aborted /\ proc'.env = proc.env
          /\ blk' = blk
      BY <2>1, <2>5, <3>1, Moved DEF heapVars
    <3> QED
      BY <2>5, <3>1, <3>2 DEF UseAfterFreeTame, Holds
  <2>20. CASE Close
    <3>1. proc'.status = "exit" /\ ~proc'.wild
      BY <2>1, <2>5, <2>20 DEF Close, Procs
    <3> QED
      BY <3>1 DEF UseAfterFreeTame
  <2>21. ~(OpenPool \/ Realloc \/ AbortTx \/ New \/ Delete)
    BY <2>3, <2>4 DEF OpenPool, Realloc, AbortTx, New, Delete
  <2> QED
    BY <1>4, <2>9, <2>10, <2>11, <2>12, <2>13, <2>14, <2>15, <2>16, <2>17, <2>18, <2>19,
       <2>20, <2>21 DEF Process
<1> QED
  BY <1>1, <1>2, <1>3, <1>4 DEF Next

\* tx_add_overflow does damage only if its faulty range is checked and lets
\* through, and then no granule of the heap would be reported as the snippet is.
TxAddOverflowSteps ==
  \A k \in 1 .. 9 : LET i == tx_add_overflow[k] IN
    /\ i.op \in {"create", "root", "begin", "range", "flag", "end", "close"}
    /\ i.op = "create" => k = 1
    /\ i.op = "root" => k = 2 /\ i.n = 24
    /\ i.op = "begin" => k = 3
    /\ i.op = "range" => k \in {4, 6} /\ i.v = "root"
    /\ k = 4 => i.n = 24
    /\ k = 6 => i.n = 25
    /\ i.op = "flag" => k \in {5, 8}
    /\ i.op = "end" <=> k = 7
    /\ i.op = "end" => i.handler = "none"
    /\ i.op = "close" => k = 9

LEMMA TxAddOverflowProgram == Len(tx_add_overflow) = 9 /\ TxAddOverflowSteps
<1> USE DEF create, rootObj, begin, addRange, end, flag, close, print_pass_flag, print_fail_flag
<1>1. /\ Len(tx_add_overflow) = 9
      /\ \A k \in 1 .. 9 :
           tx_add_overflow[k] = <<create("assert"), rootObj(24, "assert"), begin,
                                 addRange("root", 24), print_pass_flag, addRange("root", 25),
                                 end("none"), print_fail_flag, close>>[k]
  BY DEF tx_add_overflow, Rooted, Finish
<1>2. \A k \in 1 .. 9 : k \in {1, 2, 3, 4, 5, 6, 7, 8, 9}
  OBVIOUS
<1> QED
  BY <1>1, <1>2 DEF TxAddOverflowSteps

Quiet == \A g \in Granules : ReportOf(g) # "00[fa]"

\* What keeps the range of 25 bytes at p, or what comes after it, from being
\* taken for something else.
Guarded(p) ==
  /\ Holds(p, 24)
  /\ IF "right" \in features THEN p \div 8 + 3 \in Granules /\ shadow[p \div 8 + 3] = FA
     ELSE "rangecheck" \in features => Quiet

LEMMA QuietKept == ASSUME Quiet, UNCHANGED shadow PROVE Quiet'
  BY DEF Quiet, ReportOf

LEMMA RootShadow ==
  ASSUME HeapTyped, shadow = EmptyShadow(features), NEW b \in Granules, RootAlloc(b, 24)
  PROVE  Guarded(8 * b)'
<1>1. /\ blk' = [blk EXCEPT ![b] = 24] /\ shadow' = Painted(b, 24) /\ Fits(b, 24)
      /\ features' = features
  BY DEF RootAlloc
<1>2. b \in Nat /\ HeapSize \in Nat /\ Redzone \in Nat \ {0} /\ Units(24) = 3
  BY HeapAssumption DEF Granules, Units
<1>3. Holds(8 * b, 24)'
  BY <1>1 DEF Holds, HeapTyped
<1>4. /\ Space(b, 24) = (b - Redzone) .. (b + 3 + Redzone - 1)
      /\ Space(b, 24) \subseteq Granules
  BY <1>1, <1>2 DEF Space, Fits
<1>5. \A g \in Granules : g \in Int
  BY HeapAssumption DEF Granules
<1>6. CASE "right" \in features
  <2>1. b + 3 \in Space(b, 24) /\ b + 3 \in Granules
    BY <1>2, <1>4
  <2>2. Tag(b, 24, b + 3) = FA
    BY <1>2, <1>6 DEF Tag, FullTag
  <2>3. shadow'[b + 3] = FA
    BY <1>1, <2>1, <2>2 DEF Painted
  <2>4. (8 * b) \div 8 = b
    BY <1>2
  <2> QED
    BY <1>1, <1>3, <1>6, <2>1, <2>3, <2>4 DEF Guarded
<1>7. CASE "right" \notin features /\ "rangecheck" \in features
  <2>1. \A g \in Int : Tag(b, 24, g) = IF g < b /\ "left" \in features THEN FA ELSE 0
    <3> SUFFICES ASSUME NEW g \in Int
                 PROVE  Tag(b, 24, g) = IF g < b /\ "left" \in features THEN FA ELSE 0
      OBVIOUS
    <3>1. 24 \div 8 = 3 /\ 24 % 8 = 0
      OBVIOUS
    <3> QED
      BY <1>2, <1>7, <3>1 DEF Tag, FullTag
  <2>2. \A g \in Granules :
          shadow'[g] = IF g \in Space(b, 24)
                       THEN (IF g < b /\ "left" \in features THEN FA ELSE 0)
                       ELSE (IF "poison" \in features THEN FD ELSE 0)
    BY <1>1, <1>5, <2>1 DEF Painted, EmptyShadow
  <2>3. "poison" \in features \/ "left" \notin features
    BY <1>7, SuiteAssumption DEF HeapTyped
  <2>4. ASSUME NEW g \in Granules, shadow'[g] = FA, g - 1 \in Granules
        PROVE  shadow'[g - 1] # 0
    <3>1. g \in Space(b, 24) /\ g < b /\ "left" \in features
      BY <2>2, <2>4 DEF FA, FD
    <3>2. "poison" \in features
      BY <2>3, <3>1
    <3>3. g - 1 < b /\ g - 1 \in Int
      BY <1>2, <1>5, <3>1
    <3> DEFINE h == g - 1
    <3>4. h \in Granules /\ h < b
      BY <2>4, <3>3
    <3> HIDE DEF h
    <3>5. shadow'[h] = FA \/ shadow'[h] = FD
      BY <2>2, <3>1, <3>2, <3>4
    <3>6. shadow'[h] # 0
      BY <3>5 DEF FA, FD
    <3> QED
      BY <3>6 DEF h
  <2>5. Quiet'
    BY <2>4 DEF Quiet, ReportOf
  <2> QED
    BY <1>1, <1>3, <1>7, <2>5 DEF Guarded
<1>8. CASE "right" \notin features /\ "rangecheck" \notin features
  BY <1>1, <1>3, <1>8 DEF Guarded
<1> QED
  BY <1>6, <1>7, <1>8

\* With a redzone behind it the range of 25 bytes faults.
LEMMA GuardedFaults ==
  ASSUME HeapTyped, NEW p, Guarded(p), "right" \in features
  PROVE  Faults(p, 25) # {}
<1>1. PICK b \in Granules : p = 8 * b
  BY DEF Guarded, Holds
<1>2. b \in Nat /\ p \div 8 = b
  BY <1>1, HeapAssumption DEF Granules
<1>3. b + 3 \in Granules /\ shadow[b + 3] = FA
  BY <1>2 DEF Guarded
<1>4. b + 3 \in (p \div 8) .. ((p + 25 - 1) \div 8) /\ p + 25 - 8 * (b + 3) = 1
  BY <1>1, <1>2
<1>5. Poisoned(b + 3, 1)
  BY <1>3 DEF Poisoned, FA
<1>6. b + 3 \in Faults(p, 25)
  BY <1>4, <1>5 DEF Faults
<1> QED
  BY <1>6

TxAddOverflowTame ==
  test = 15 =>
    /\ proc.wild => proc.pc >= 7 /\ (proc.pc = 7 => Quiet)
    /\ proc.status = "run" =>
         /\ proc.pc = 1 => ~proc.pool
         /\ proc.pc = 2 /\ proc.pool => root = NoRoot /\ shadow = EmptyShadow(features)
         /\ proc.pc \in 3 .. 6 => proc.env["root"] = Null \/ Guarded(proc.env["root"])

\* An address with its object stays as it is while the heap does.
LEMMA StillGuarded ==
  ASSUME NEW p, Guarded(p), UNCHANGED <<features, shadow, blk>>
  PROVE  Guarded(p)'
  BY QuietKept DEF Guarded, Holds

LEMMA TxAddOverflowTameStep ==
  Shapes /\ TxAddOverflowTame /\ [Next]_vars => TxAddOverflowTame'
<1> SUFFICES ASSUME Shapes, TxAddOverflowTame, [Next]_vars, test' = 15
             PROVE  TxAddOverflowTame'
  BY DEF TxAddOverflowTame
<1> USE DEF At
<1>1. CASE UNCHANGED vars
  <2>1. UNCHANGED <<features, shadow, blk, root, proc, test>>
    BY <1>1 DEF vars, heapVars, suiteVars
  <2> QED
    BY <2>1, StillGuarded, QuietKept DEF TxAddOverflowTame, EmptyShadow
<1>2. CASE NextStage
  <2>1. test = 15 /\ stage \in 1 .. Len(Suite[test].stages) /\ ~LastStage
    BY <1>2 DEF NextStage, Shapes
  <2>2. Len(Suite[15].stages) = 1
    BY SuiteFacts
  <2> QED
    BY <2>1, <2>2 DEF LastStage
<1>3. CASE Judge
  <2>1. proc' = Launched
    BY <1>3 DEF Judge
  <2> QED
    BY <2>1 DEF Launched, TxAddOverflowTame
<1>4. CASE Process
  <2>1. Ready /\ UNCHANGED suiteVars /\ test = 15 /\ HeapTyped /\ proc \in Procs
    BY <1>4, ProcessSteps DEF Proper, Ready, suiteVars
  <2>2. Program = tx_add_overflow
    <3>1. Len(Suite[15].stages) = 1 /\ Suite[15].stages[1] = tx_add_overflow /\ test <= 16
      <4>1. test <= 16
        BY <2>1
      <4> QED
        BY <4>1, SuiteFacts
    <3>2. stage \in 1 .. Len(Suite[test].stages)
      BY <3>1 DEF Shapes
    <3>3. stage = 1
      BY <2>1, <3>1, <3>2
    <3> QED
      BY <2>1, <3>1, <3>3 DEF Program
  <2>3. /\ proc.pc \in 1 .. 9 /\ Instr = tx_add_overflow[proc.pc] /\ proc.status = "run"
        /\ Instr = Program[proc.pc]
    BY <2>1, <2>2, TxAddOverflowProgram DEF Ready, Running, Instr
  <2>4. /\ Instr.op \in {"create", "root", "begin", "range", "flag", "end", "close"}
        /\ Instr.op = "create" => proc.pc = 1
        /\ Instr.op = "root" => proc.pc = 2 /\ Instr.n = 24
        /\ Instr.op = "begin" => proc.pc = 3
        /\ Instr.op = "range" => proc.pc \in {4, 6} /\ Instr.v = "root"
        /\ proc.pc = 4 => Instr.n = 24
        /\ proc.pc = 6 => Instr.n = 25
        /\ Instr.op = "flag" => proc.pc \in {5, 8}
        /\ Instr.op = "end" => proc.pc = 7 /\ Instr.handler = "none"
        /\ Instr.op = "close" => proc.pc = 9
    <3> DEFINE k == proc.pc
    <3> HIDE DEF k
    <3>1. k \in 1 .. 9 /\ Instr = tx_add_overflow[k]
      BY <2>3 DEF k
    <3> QED
      BY <3>1, TxAddOverflowProgram DEF k, TxAddOverflowSteps
  <2>5. /\ proc.wild => proc.pc >= 7 /\ (proc.pc = 7 => Quiet)
        /\ proc.pc = 1 => ~proc.pool
        /\ proc.pc = 2 /\ proc.pool => root = NoRoot /\ shadow = EmptyShadow(features)
        /\ proc.pc \in 3 .. 6 => proc.env["root"] = Null \/ Guarded(proc.env["root"])
    BY <2>1, <2>3 DEF TxAddOverflowTame
  <2>6. ASSUME NEW r, Die(r) PROVE TxAddOverflowTame'
    <3>1. proc'.status = "dead" /\ proc'.pc = proc.pc /\ proc'.wild = proc.wild /\ UNCHANGED shadow
      BY <2>1, <2>6, Dead
    <3> QED
      BY <2>5, <3>1, QuietKept DEF TxAddOverflowTame
  <2>7. "root" \in Locals
    BY DEF Locals
  \* The jump leads to 7.
  <2>8. ASSUME Unwind, Instr.op = "range" PROVE TxAddOverflowTame'
    <3>1. /\ proc'.wild = proc.wild
          /\ proc'.pc \in proc.pc + 1 .. 9 /\ NextEnd(tx_add_overflow, proc.pc, proc'.pc)
      BY <2>1, <2>2, <2>8, TxAddOverflowProgram, Unwound DEF Leaving
    <3>2. proc.pc \in {4, 6} /\ ~proc.wild
      BY <2>4, <2>5, <2>8
    <3>3. proc'.pc = 7
      <4>1. proc'.pc \in 1 .. 9
        BY <3>1, <3>2
      <4> QED
        BY <3>1, <4>1, TxAddOverflowProgram DEF NextEnd, TxAddOverflowSteps
    <3> QED
      BY <3>1, <3>2, <3>3 DEF TxAddOverflowTame
  <2>9. CASE Create
    <3>1. proc.pc = 1 /\ ~proc.wild
      BY <2>3, <2>4, <2>5, <2>9 DEF Create
    <3>2. CASE Format /\ proc' = [proc EXCEPT !.pc = @ + 1, !.pool = TRUE]
      <4>1. proc'.pc = 2 /\ ~proc'.wild
        BY <2>1, <3>1, <3>2 DEF Procs
      <4>2. root' = NoRoot /\ shadow' = EmptyShadow(features)'
        BY <3>2 DEF Format, EmptyShadow
      <4> QED
        BY <4>1, <4>2 DEF TxAddOverflowTame
    <3>3. CASE proc' = [proc EXCEPT !.status = "dead", !.report = "abort"]
      BY <2>1, <3>1, <3>3 DEF TxAddOverflowTame, Procs
    <3>4. CASE proc' = [proc EXCEPT !.pc = @ + 1]
      <4>1. proc'.pc = 2 /\ ~proc'.wild /\ ~proc'.pool
        BY <2>1, <2>5, <3>1, <3>4 DEF Procs
      <4> QED
        BY <4>1 DEF TxAddOverflowTame
    <3> QED
      BY <2>9, <3>2, <3>3, <3>4 DEF Create
  <2>10. CASE UseNoPool \/ Derail
    BY <2>6, <2>10 DEF UseNoPool, Derail
  <2>11. CASE RootObj
    <3>1. /\ proc.pc = 2 /\ root = NoRoot /\ shadow = EmptyShadow(features) /\ Instr.n = 24
          /\ ~proc.wild
      BY <2>3, <2>4, <2>5, <2>11 DEF RootObj
    <3>2. ASSUME NEW p, AdvanceWith("root", p), p = Null \/ Guarded(p)'
          PROVE  TxAddOverflowTame'
      <4>1. proc'.pc = 3 /\ ~proc'.wild /\ proc'.env["root"] = p
        BY <2>1, <2>7, <3>1, <3>2, Assigned
      <4> QED
        BY <3>2, <4>1 DEF TxAddOverflowTame, Guarded, Holds, Quiet, ReportOf
    <3>3. ASSUME NEW b \in Granules, RootAlloc(b, 24), AdvanceWith("root", 8 * b)
          PROVE  TxAddOverflowTame'
      <4>1. Guarded(8 * b)'
        BY <2>1, <3>1, <3>3, RootShadow
      <4> QED
        BY <3>2, <3>3, <4>1
    <3>4. CASE AdvanceWith("root", Null)
      BY <3>2, <3>4
    <3>5. CASE Die("abort")
      BY <2>6, <3>5
    <3> QED
      BY <2>11, <3>1, <3>3, <3>4, <3>5 DEF RootObj
  <2>12. ASSUME proc.pc \in {3, 4, 5}, proc'.pc = proc.pc + 1, proc'.env = proc.env,
                proc'.wild = proc.wild, UNCHANGED <<features, shadow, blk>>
         PROVE  TxAddOverflowTame'
    <3>1. proc.env["root"] = Null \/ Guarded(proc.env["root"])'
      BY <2>5, <2>12, StillGuarded
    <3> QED
      BY <2>5, <2>12, <3>1 DEF TxAddOverflowTame, Guarded, Holds, Quiet, ReportOf
  <2>13. ASSUME proc.pc \in 7 .. 9, proc'.pc = proc.pc + 1
         PROVE  TxAddOverflowTame'
    BY <2>13 DEF TxAddOverflowTame
  <2>14. CASE Begin
    <3>1. proc.pc = 3 /\ UNCHANGED <<features, shadow, blk>>
      BY <2>3, <2>4, <2>14 DEF Begin, TxBegin
    <3>2. proc'.pc = proc.pc + 1 /\ proc'.env = proc.env /\ proc'.wild = proc.wild
      BY <2>1, <2>14 DEF Begin, Procs
    <3> QED
      BY <2>12, <3>1, <3>2
  <2>15. CASE Flag
    <3>1. proc.pc \in {5, 8} /\ UNCHANGED <<features, shadow, blk>> /\ Advance
      BY <2>3, <2>4, <2>15 DEF Flag, heapVars
    <3>2. proc'.pc = proc.pc + 1 /\ proc'.env = proc.env /\ proc'.wild = proc.wild
      BY <2>1, <3>1, Moved
    <3> QED
      BY <2>12, <2>13, <3>1, <3>2
  <2>16. CASE AddRange
    <3> DEFINE p == proc.env["root"]
    <3>1. /\ Instr.op = "range" /\ Instr.v = "root" /\ ~proc.wild
          /\ (proc.pc = 4 /\ Instr.n = 24) \/ (proc.pc = 6 /\ Instr.n = 25)
      <4>1. Instr.op = "range"
        BY <2>3, <2>16 DEF AddRange
      <4>2. proc.pc \in {4, 6} /\ Instr.v = "root"
        BY <2>4, <4>1
      <4> QED
        BY <2>4, <2>5, <4>1, <4>2
    <3>2. CASE Unwind
      BY <2>8, <3>1, <3>2
    <3>3. CASE \E r : Die(r)
      BY <2>6, <3>3
    <3>4. CASE Advance /\ UNCHANGED heapVars
      <4>1. /\ proc'.pc = proc.pc + 1 /\ proc'.env = proc.env /\ proc'.wild = proc.wild
            /\ UNCHANGED <<features, shadow, blk>>
        BY <2>1, <3>4, Moved DEF heapVars
      <4>2. CASE proc.pc = 4
        BY <2>12, <4>1, <4>2
      <4>3. CASE proc.pc = 6
        BY <3>1, <4>1, <4>3 DEF TxAddOverflowTame
      <4> QED
        BY <3>1, <4>2, <4>3
    <3>5. CASE p >= 0 /\ "rangecheck" \in features /\ Touch(p, Instr.n)
      <4>1. Guarded(p)
        BY <2>5, <3>1, <3>5 DEF Null
      <4>2. CASE proc.pc = 4 /\ Instr.n = 24
        <5>1. Harmless(p, 24)
          BY <2>1, <4>1, HoldsHarmless DEF Guarded
        <5> QED
          BY <3>3, <3>4, <3>5, <4>2, <5>1 DEF Touch
      <4>3. CASE proc.pc = 6 /\ Instr.n = 25
        <5>1. CASE Faults(p, 25) = {} /\ AdvanceWild /\ UNCHANGED heapVars
          <6>1. Quiet
            BY <2>1, <3>5, <4>1, <5>1, GuardedFaults DEF Guarded
          <6>2. proc'.pc = 7 /\ UNCHANGED shadow
            BY <2>1, <4>3, <5>1 DEF AdvanceWild, Procs, heapVars
          <6> QED
            BY <6>1, <6>2, QuietKept DEF TxAddOverflowTame
        <5> QED
          BY <3>3, <3>4, <3>5, <4>3, <5>1 DEF Touch
      <4> QED
        BY <3>1, <4>2, <4>3
    <3> QED
      BY <2>16, <3>1, <3>2, <3>3, <3>4, <3>5 DEF AddRange
  <2>17. CASE End
    <3>1. proc.pc = 7 /\ Instr.handler = "none"
      <4>1. Instr.op = "end"
        BY <2>3, <2>17 DEF End
      <4> QED
        BY <2>4, <4>1
    <3>2. proc'.pc = proc.pc + 1
      BY <2>1, <2>17, <3>1 DEF End, Advance, Goto, Procs
    <3> QED
      BY <2>13, <3>1, <3>2
  <2>18. CASE Close
    <3>1. proc.pc = 9 /\ proc'.pc = 9 /\ proc'.status = "exit"
      BY <2>1, <2>3, <2>4, <2>18 DEF Close, Procs
    <3> QED
      BY <3>1 DEF TxAddOverflowTame
  <2>19. ~(OpenPool \/ Alloc \/ Free \/ Realloc \/ AbortTx \/ New \/ Delete \/ Copy \/ Write)
    BY <2>3, <2>4 DEF OpenPool, Alloc, Free, Realloc, AbortTx, New, Delete, Copy, Write
  <2> QED
    BY <1>4, <2>9, <2>10, <2>11, <2>14, <2>15, <2>16, <2>17, <2>18, <2>19 DEF Process
<1> QED
  BY <1>1, <1>2, <1>3, <1>4 DEF Next

-----------------------------------------------------------------------------

CaughtInv == Shapes /\ Caught /\ UseAfterFreeTame /\ TxAddOverflowTame

LEMMA CaughtInvInit == Init => CaughtInv
<1> SUFFICES ASSUME Init PROVE CaughtInv
  OBVIOUS
<1>1. test = 1 /\ out = {}
  BY DEF Init
<1> QED
  BY <1>1, ShapesInit DEF CaughtInv, Caught, UseAfterFreeTame, TxAddOverflowTame

\* A process that died behind the faulty line did not show the snippet, unless
\* it was the assertion of a debug build.
LEMMA CaughtInvMeans == CaughtInv => OKMeansCaught
<1> SUFFICES ASSUME CaughtInv, Ended, LastStage, Suite[test].kind = "crash", Verdict = "OK"
             PROVE  proc.status = "dead" /\ (AtFaultLine \/ proc.report = "palloc")
  BY DEF OKMeansCaught
<1>1. test \in 1 .. 16 /\ test <= 16 /\ proc \in Procs /\ proc.status # "run"
  BY WithinSuite DEF CaughtInv, Shapes, Ended
<1>2. /\ proc.status = "dead" /\ "PASS" \in out /\ "FAIL" \notin out
      /\ proc.report \in Shows[Suite[test].snippet]
  <2>1. /\ proc.status # "exit" /\ "PASS" \in out /\ "FAIL" \notin out
        /\ proc.report \in Shows[Suite[test].snippet]
    BY DEF Verdict, should_crash_verdict
  <2> QED
    BY <1>1, <2>1 DEF Procs
<1>3. \/ proc.pc = FaultLine[test]
      \/ /\ proc.pc = FaultLine[test] + 1 /\ FailLine[test] = FaultLine[test] + 2
         /\ proc.wild /\ proc.report \in Derailings
  BY <1>1, <1>2 DEF CaughtInv, Caught
<1>4. CASE proc.pc = FaultLine[test]
  <2>1. CrashForm(Program, FaultLine[test], FailLine[test])
    <3>1. Program = Suite[test].stages[Len(Suite[test].stages)]
      BY DEF Program, LastStage
    <3> QED
      BY <1>1, <3>1, CrashForms
  <2>2. proc.pc > 1 /\ Program[proc.pc - 1] = print_pass_flag
    BY <1>4, <2>1 DEF CrashForm
  <2> QED
    BY <1>2, <2>2 DEF AtFaultLine
<1>5. CASE /\ FailLine[test] = FaultLine[test] + 2 /\ proc.pc = FaultLine[test] + 1
           /\ proc.wild /\ proc.report \in Derailings
  <2>1. test \in {1, 2, 4, 15}
    <3>1. \A t \in {3, 5, 6, 7, 8, 9} : FailLine[t] # FaultLine[t] + 2
      BY LineFacts
    <3>2. \A t \in {10, 11, 12, 13} : FailLine[t] # FaultLine[t] + 2
      BY LineFacts
    <3>3. test \notin {14, 16}
      BY SuiteFacts
    <3> QED
      BY <1>1, <1>5, <3>1, <3>2, <3>3, Tests
  <2>2. proc.report \in {"segv", "palloc"} \cup GranuleReports
    BY <1>5, ReportTyped DEF Derailings
  <2>3. CASE test \in {1, 2}
    <3>1. proc.report \in {"Invalid free", "palloc"}
      BY <1>2, <2>3, SuiteFacts DEF Shows
    <3> QED
      BY <1>2, <2>2, <3>1 DEF GranuleReports
  <2>4. CASE test = 4
    BY <1>5, <2>4 DEF CaughtInv, UseAfterFreeTame
  <2>5. CASE test = 15
    <3>1. proc.report = "00[fa]"
      BY <1>2, <2>5, SuiteFacts DEF Shows
    <3>2. Quiet
      BY <1>5, <2>5, LineFacts DEF CaughtInv, TxAddOverflowTame
    <3> QED
      BY <1>5, <3>1, <3>2 DEF Derailings, Quiet
  <2> QED
    BY <2>1, <2>3, <2>4, <2>5
<1> QED
  BY <1>3, <1>4, <1>5

\* OKMeansCaught: whatever library, placement, failing calls and garbage
\* pointers, should_crash says OK only of a process that ended on the faulty
\* line, or in the assertion a damaged heap meets in a debug build.
THEOREM OKMeansCaughtAlways == Spec => []OKMeansCaught
<1>1. CaughtInv /\ [Next]_vars => CaughtInv'
  BY ShapesStep, CaughtStep, UseAfterFreeTameStep, TxAddOverflowTameStep DEF CaughtInv
<1> QED
  BY <1>1, CaughtInvInit, CaughtInvMeans, PTL DEF Spec

-----------------------------------------------------------------------------
(* The heap of the complete library, as in PoolUseProofs.  The programs of *)
(* the suite may free the root object, and Format starts anew.             *)

\* Two objects share no granule, those freed by the transaction included.
Separate == \A b, c \in Blocks : b # c => Taken(b) \cap Taken(c) = {}

\* Objects lie in the heap with their redzones.
Within == \A b \in Blocks : Taken(b) \subseteq Granules

\* The shadow bytes of a live object are those of its size.
Exact == \A b \in Live : \A g \in Taken(b) : shadow[g] = FullTag(b, blk[b], g)

\* Memory of no live object is poisoned.
Vacant == \A g \in Granules : (\A b \in Live : g \notin Taken(b)) => shadow[g] = FD

Layout == Separate /\ Within /\ Exact /\ Vacant

Sound ==
  /\ Layout
  /\ added \subseteq Blocks /\ freed \subseteq Blocks /\ tx \in BOOLEAN
  /\ ~tx => added = {} /\ freed = {}

HeapSound == features = Features => Sound

\* A place that fits is not the start of an object.
LEMMA FitsFresh ==
  ASSUME HeapTyped, NEW b \in Granules, NEW n \in Nat, Fits(b, n)
  PROVE  b \notin Blocks /\ blk[b] = 0
<1>1. b \in Space(b, n) /\ b \in Taken(b)
  BY Inside DEF Taken, HeapTyped
<1>2. b \notin Blocks
  BY <1>1 DEF Fits
<1> QED
  BY <1>2 DEF Blocks, HeapTyped

\* With all its protections the library tags memory as documented.
LEMMA TagIsFull ==
  ASSUME features = Features
  PROVE  \A b, n, g : Tag(b, n, g) = FullTag(b, n, g)
  BY DEF Features, Tag

\* Nothing is wiped for no object.
LEMMA WipeNone ==
  ASSUME NEW s, DOMAIN s = Granules, s = [g \in Granules |-> s[g]] PROVE Wiped(s, {}) = s
  BY DEF Wiped

\* What an allocation does to the layout, whichever call makes it; a move
\* frees the objects of F at the same time.
LEMMA AllocKeepsLayout ==
  ASSUME HeapTyped, features = Features, Sound,
         NEW b \in Granules, NEW n \in Nat \ {0}, Fits(b, n),
         NEW F \in SUBSET Live,
         blk' = [blk EXCEPT ![b] = n],
         shadow' = Wiped(Painted(b, n), F),
         freed' = freed \cup F
  PROVE  Layout' /\ Blocks' = Blocks \cup {b}
<1> USE DEF HeapTyped, Sound, Layout
<1>1. b \notin Blocks /\ b \notin freed /\ b \notin F
  BY FitsFresh DEF Live
<1>2. /\ blk' \in [Granules -> Nat] /\ blk'[b] = n
      /\ \A c \in Granules \ {b} : blk'[c] = blk[c]
  OBVIOUS
<1>3. Blocks' = Blocks \cup {b}
  BY <1>2 DEF Blocks
<1>4. Live' = (Live \ F) \cup {b}
  BY <1>1, <1>3 DEF Live
<1>5. Taken(b)' = Space(b, n) /\ \A c \in Blocks : Taken(c)' = Taken(c)
  BY <1>1, <1>2 DEF Taken, Blocks
<1>6. \A c \in Blocks : Taken(b)' \cap Taken(c) = {}
  BY <1>5 DEF Fits
<1>7. \A g \in Granules : shadow'[g] =
        IF \E c \in F : g \in Taken(c) THEN FD
        ELSE IF g \in Space(b, n) THEN FullTag(b, n, g) ELSE shadow[g]
  BY TagIsFull DEF Wiped, Painted
<1>8. Separate'
  BY <1>3, <1>5, <1>6 DEF Separate
<1>9. Within'
  BY <1>3, <1>5 DEF Within, Fits
<1>10. Exact'
  <2> SUFFICES ASSUME NEW c \in Live', NEW g \in Taken(c)'
               PROVE  shadow'[g] = FullTag(c, blk'[c], g)
    BY DEF Exact
  <2>1. CASE c = b
    <3>1. g \in Space(b, n) /\ g \in Granules
      BY <2>1, <1>5 DEF Fits
    <3>2. \A d \in F : g \notin Taken(d)
      BY <2>1, <1>6 DEF Live
    <3> QED
      BY <2>1, <3>1, <3>2, <1>2, <1>7
  <2>2. CASE c # b
    <3>1. c \in Live \ F /\ c \in Blocks /\ g \in Taken(c)
      BY <2>2, <1>4, <1>5 DEF Live
    <3>2. g \notin Space(b, n) /\ g \in Granules
      BY <3>1, <1>5, <1>6 DEF Within
    <3>3. blk'[c] = blk[c]
      BY <2>2, <3>1, <1>2 DEF Blocks
    <3>4. \A d \in F : g \notin Taken(d)
      BY <3>1 DEF Separate, Live
    <3> QED
      BY <3>1, <3>2, <3>3, <3>4, <1>7 DEF Exact
  <2> QED
    BY <2>1, <2>2
<1>11. Vacant'
  <2> SUFFICES ASSUME NEW g \in Granules, \A c \in Live' : g \notin Taken(c)'
               PROVE  shadow'[g] = FD
    BY DEF Vacant
  <2>1. g \notin Space(b, n)
    BY <1>4, <1>5
  <2>2. \A c \in Live \ F : g \notin Taken(c)
    BY <1>4, <1>5 DEF Live
  <2> QED
    BY <2>1, <2>2, <1>7 DEF Vacant
<1> QED
  BY <1>3, <1>8, <1>9, <1>10, <1>11

\* What the end of some objects does to the layout: a free, in or outside a
\* transaction, and the commit that makes the places of freed objects free.
LEMMA FreeKeepsLayout ==
  ASSUME HeapTyped, Sound,
         NEW F \in SUBSET Blocks,
         Live' = Live \ F, Blocks' \in SUBSET Blocks,
         \A c \in Blocks' : blk'[c] = blk[c],
         shadow' = Wiped(shadow, F)
  PROVE  Layout'
<1> USE DEF HeapTyped, Sound, Layout
<1>1. \A c \in Blocks' : Taken(c)' = Taken(c)
  BY DEF Taken
<1>2. \A g \in Granules :
        shadow'[g] = IF \E c \in F : g \in Taken(c) THEN FD ELSE shadow[g]
  BY DEF Wiped
<1>3. Separate' /\ Within'
  BY <1>1 DEF Separate, Within
<1>4. Exact'
  <2> SUFFICES ASSUME NEW c \in Live', NEW g \in Taken(c)'
               PROVE  shadow'[g] = FullTag(c, blk'[c], g)
    BY DEF Exact
  <2>1. c \in Live \ F /\ c \in Blocks' /\ g \in Taken(c) /\ g \in Granules
    BY <1>1 DEF Live, Within
  <2>2. \A d \in F : g \notin Taken(d)
    BY <2>1 DEF Separate, Live
  <2> QED
    BY <2>1, <2>2, <1>2 DEF Exact
<1>5. Vacant'
  <2> SUFFICES ASSUME NEW g \in Granules, \A c \in Live' : g \notin Taken(c)'
               PROVE  shadow'[g] = FD
    BY DEF Vacant
  <2>1. \A c \in Live \ F : g \notin Taken(c)
    BY <1>1 DEF Live
  <2> QED
    BY <2>1, <1>2 DEF Vacant
<1> QED
  BY <1>3, <1>4, <1>5

\* The undo log brings back exactly the objects from before the transaction,
\* and with them their protection.
LEMMA RollbackKeepsLayout ==
  ASSUME HeapTyped, features = Features, Sound, RolledBack
  PROVE  Layout'
<1> USE DEF HeapTyped, Sound, Layout
<1>1. blk' = [b \in Granules |-> IF b \in added THEN 0 ELSE blk[b]] /\ freed' = {}
  BY DEF RolledBack
<1>2. Blocks' = Blocks \ added /\ Live' = Blocks \ added
  BY <1>1 DEF Blocks, Live
<1>3. \A c \in Blocks' : blk'[c] = blk[c] /\ Taken(c)' = Taken(c)
  BY <1>1, <1>2 DEF Taken, Blocks
<1>4. \A g \in Granules : (\E b \in added : g \in Taken(b)) => shadow'[g] = FD
  BY DEF RolledBack, Features
<1>5. \A c \in freed \ added : \A g \in Taken(c) : shadow'[g] = FullTag(c, blk[c], g)
  <2> SUFFICES ASSUME NEW c \in freed \ added, NEW g \in Taken(c)
               PROVE  shadow'[g] = FullTag(c, blk[c], g)
    OBVIOUS
  <2>1. g \in Granules
    BY DEF Within
  <2>2. \A b \in added : g \notin Taken(b)
    BY DEF Separate
  <2>3. c = CHOOSE d \in freed : g \in Taken(d)
    BY DEF Separate
  <2>4. shadow'[g] = Tag(c, blk[c], g)
    BY <2>1, <2>2, <2>3 DEF RolledBack, Features
  <2> QED
    BY <2>4, TagIsFull
<1>6. \A g \in Granules : (\A b \in added \cup freed : g \notin Taken(b)) => shadow'[g] = shadow[g]
  BY DEF RolledBack
<1>7. Separate' /\ Within'
  BY <1>2, <1>3 DEF Separate, Within
<1>8. Exact'
  <2> SUFFICES ASSUME NEW c \in Live', NEW g \in Taken(c)'
               PROVE  shadow'[g] = FullTag(c, blk'[c], g)
    BY DEF Exact
  <2>1. c \in Blocks \ added /\ g \in Taken(c) /\ blk'[c] = blk[c] /\ g \in Granules
    BY <1>2, <1>3 DEF Within
  <2>2. CASE c \in freed
    BY <2>1, <2>2, <1>5
  <2>3. CASE c \notin freed
    <3>1. \A b \in added \cup freed : g \notin Taken(b)
      BY <2>1, <2>3 DEF Separate
    <3> QED
      BY <2>1, <2>3, <3>1, <1>6 DEF Exact, Live
  <2> QED
    BY <2>2, <2>3
<1>9. Vacant'
  <2> SUFFICES ASSUME NEW g \in Granules, \A c \in Live' : g \notin Taken(c)'
               PROVE  shadow'[g] = FD
    BY DEF Vacant
  <2>1. \A c \in Blocks \ added : g \notin Taken(c)
    BY <1>2, <1>3
  <2>2. CASE \E b \in added : g \in Taken(b)
    BY <2>2, <1>4
  <2>3. CASE \A b \in added : g \notin Taken(b)
    BY <2>1, <2>3, <1>6 DEF Vacant, Live
  <2> QED
    BY <2>2, <2>3
<1> QED
  BY <1>7, <1>8, <1>9

LEMMA EmptyHeapSound ==
  ASSUME features = Features, shadow = EmptyShadow(features), blk = NoBlocks, tx = FALSE,
         added = {}, freed = {}
  PROVE  Sound
<1> USE DEF EmptyShadow, NoBlocks
<1>1. Blocks = {} /\ Live = {}
  BY DEF Blocks, Live
<1>2. \A g \in Granules : shadow[g] = FD
  BY DEF Features
<1> QED
  BY <1>1, <1>2 DEF Sound, Layout, Separate, Within, Exact, Vacant

\* A call of the library keeps its heap sound.
HeapCall ==
  \/ Format \/ TxBegin \/ TxCommit \/ TxAbort \/ Detach \/ Reopen \/ UNCHANGED heapVars
  \/ \E b \in Granules : \E n \in Nat \ {0} :
       TxAlloc(b, n) \/ AtomicAlloc(b, n) \/ RootAlloc(b, n)
  \/ \E b \in Granules : TxFree(b) \/ AtomicFree(b)
  \/ \E b : \E c \in Granules : \E n \in Nat \ {0} : TxMove(b, c, n)

LEMMA HeapCallSound ==
  ASSUME HeapTyped, features = Features, Sound, HeapCall
  PROVE  Sound'
<1> USE DEF HeapTyped
<1>0. {"poison", "eager", "move", "atomic", "persist", "reclaim"} \subseteq features
  BY DEF Features
<1>1. CASE Format
  <2>1. /\ shadow' = EmptyShadow(features) /\ blk' = NoBlocks /\ tx' = FALSE /\ added' = {} /\ freed' = {}
        /\ features' = features
    BY <1>1 DEF Format
  <2>2. Blocks' = {} /\ Live' = {}
    BY <2>1 DEF Blocks, Live, NoBlocks
  <2>3. \A g \in Granules : shadow'[g] = FD
    BY <2>1, <1>0 DEF EmptyShadow
  <2> QED
    BY <2>1, <2>2, <2>3 DEF Sound, Layout, Separate, Within, Exact, Vacant
<1>2. ASSUME UNCHANGED <<shadow, blk, added, freed>>, tx' = tx \/ (tx' = TRUE /\ ~tx)
      PROVE  Sound'
  BY <1>2 DEF Sound, Layout, Separate, Within, Exact, Vacant, Blocks, Live, Taken
<1>3. CASE TxBegin \/ Detach \/ UNCHANGED heapVars
  BY <1>2, <1>3 DEF TxBegin, Detach, heapVars
<1>4. ASSUME RolledBack PROVE Sound'
  <2>1. Layout'
    BY <1>4, RollbackKeepsLayout
  <2> QED
    BY <1>4, <2>1 DEF RolledBack, Sound
<1>5. CASE Reopen
  <2>1. CASE tx
    BY <1>4, <1>5, <2>1 DEF Reopen
  <2>2. CASE ~tx
    BY <1>0, <1>2, <1>5, <2>2 DEF Reopen
  <2> QED
    BY <2>1, <2>2
<1>6. CASE TxAbort
  BY <1>4, <1>6 DEF TxAbort
<1>7. CASE TxCommit
  <2>1. blk' = [b \in Granules |-> IF b \in freed THEN 0 ELSE blk[b]] /\ freed' = {}
        /\ shadow' = Wiped(shadow, freed) /\ added' = {} /\ tx' = FALSE
    BY <1>0, <1>7 DEF TxCommit
  <2>2. Blocks' = Blocks \ freed /\ Live' = Live \ freed
    BY <2>1 DEF Blocks, Live, Sound
  <2>3. Layout'
    <3>1. \A c \in Blocks' : blk'[c] = blk[c]
      BY <2>1, <2>2 DEF Blocks
    <3> QED
      BY <2>1, <2>2, <3>1, FreeKeepsLayout DEF Sound
  <2> QED
    BY <2>1, <2>3 DEF Sound
<1>8. ASSUME NEW b \in Granules, NEW n \in Nat \ {0},
             TxAlloc(b, n) \/ AtomicAlloc(b, n) \/ RootAlloc(b, n)
      PROVE  Sound'
  <2>1. /\ blk' = [blk EXCEPT ![b] = n] /\ Fits(b, n) /\ UNCHANGED <<freed, tx>>
        /\ shadow' = Painted(b, n)
        /\ added' = added \/ (tx /\ added' = added \cup {b})
    BY <1>0, <1>8 DEF TxAlloc, AtomicAlloc, RootAlloc
  <2>2. shadow' = Wiped(Painted(b, n), {}) /\ freed' = freed \cup {} /\ {} \in SUBSET Live
    BY <2>1, WipeNone DEF Painted
  <2>3. Layout' /\ Blocks' = Blocks \cup {b}
    BY <2>1, <2>2, AllocKeepsLayout
  <2> QED
    BY <2>1, <2>3 DEF Sound
<1>9. ASSUME NEW b \in Granules, TxFree(b) PROVE Sound'
  <2>1. /\ Live' = Live \ {b} /\ Blocks' = Blocks /\ {b} \in SUBSET Blocks /\ blk' = blk
        /\ shadow' = Wiped(shadow, {b}) /\ UNCHANGED <<added, tx>> /\ freed' = freed \cup {b} /\ tx
    BY <1>0, <1>9 DEF TxFree, Live, Blocks
  <2>2. Layout'
    BY <2>1, FreeKeepsLayout
  <2> QED
    BY <2>1, <2>2 DEF Sound
<1>10. ASSUME NEW b \in Granules, AtomicFree(b) PROVE Sound'
  <2>1. /\ blk' = [blk EXCEPT ![b] = 0] /\ shadow' = Wiped(shadow, {b}) /\ ~tx /\ b \in Live
        /\ UNCHANGED <<added, freed, tx>>
    BY <1>0, <1>10 DEF AtomicFree
  <2>2. /\ Live' = Live \ {b} /\ Blocks' = Blocks \ {b} /\ {b} \in SUBSET Blocks
        /\ \A c \in Blocks' : blk'[c] = blk[c]
    BY <2>1 DEF Live, Blocks
  <2>3. Layout'
    BY <2>1, <2>2, FreeKeepsLayout
  <2> QED
    BY <2>1, <2>2, <2>3 DEF Sound
<1>11. ASSUME NEW b, NEW c \in Granules, NEW n \in Nat \ {0}, TxMove(b, c, n) PROVE Sound'
  <2>1. /\ shadow' = Wiped(Painted(c, n), {b}) /\ freed' = freed \cup {b} /\ {b} \in SUBSET Live
        /\ blk' = [blk EXCEPT ![c] = n] /\ Fits(c, n) /\ added' = added \cup {c} /\ tx /\ tx' = tx
    BY <1>0, <1>11 DEF TxMove
  <2>2. Layout' /\ Blocks' = Blocks \cup {c}
    BY <2>1, AllocKeepsLayout
  <2> QED
    BY <2>1, <2>2 DEF Sound, Live
<1> QED
  BY <1>1, <1>3, <1>5, <1>6, <1>7, <1>8, <1>9, <1>10, <1>11 DEF HeapCall

\* A step of a process makes one call, or none.
LEMMA ProcessCalls ==
  ASSUME Ready, Process
  PROVE  HeapCall
<1> USE DEF At
<1>1. Instr.op \in Sized => Instr.n \in Nat \ {0}
  BY DEF Ready, Form, Instr
<1>2. \A b \in Live : b \in Granules
  BY DEF Live, Blocks
<1>3. ASSUME NEW r, Die(r) PROVE HeapCall
  BY <1>3 DEF Die, HeapCall
<1>4. ASSUME NEW a, NEW w, Touch(a, w) PROVE HeapCall
  BY <1>3, <1>4 DEF Touch, HeapCall
<1>5. ASSUME Unwind PROVE HeapCall
  BY <1>5 DEF Unwind, HeapCall
<1>6. CASE Create
  BY <1>6 DEF Create, HeapCall
<1>7. CASE OpenPool
  BY <1>3, <1>7 DEF OpenPool, NoPool, HeapCall
<1>8. CASE UseNoPool \/ Derail
  BY <1>3, <1>8 DEF UseNoPool, Derail
<1>9. CASE RootObj
  <2>1. Instr.n \in Nat \ {0}
    BY <1>1, <1>9 DEF RootObj, Instr, Sized
  <2> QED
    BY <1>3, <1>9, <2>1 DEF RootObj, HeapCall
<1>10. CASE Begin \/ Copy \/ Flag \/ Close
  BY <1>10 DEF Begin, Copy, Flag, Close, HeapCall
<1>11. CASE Alloc
  <2>1. Instr.n \in Nat \ {0}
    BY <1>1, <1>11 DEF Alloc, Instr, Sized
  <2> QED
    BY <1>5, <1>11, <2>1 DEF Alloc, HeapCall
<1>12. CASE Free
  BY <1>2, <1>3, <1>5, <1>12 DEF Free, Freeable, BadFree, HeapCall
<1>13. CASE Realloc
  <2>1. Instr.n \in Nat \ {0}
    BY <1>1, <1>13 DEF Realloc, Instr, Sized
  <2> QED
    BY <1>3, <1>5, <1>13, <2>1 DEF Realloc, HeapCall
<1>14. CASE AddRange
  BY <1>3, <1>4, <1>5, <1>14 DEF AddRange, HeapCall
<1>15. CASE AbortTx
  BY <1>5, <1>15 DEF AbortTx
<1>16. CASE End
  BY <1>16 DEF End, HeapCall
<1>17. CASE New
  <2>1. Instr.n \in Nat \ {0}
    BY <1>1, <1>17 DEF New, Instr, Sized
  <2> QED
    BY <1>3, <1>17, <2>1 DEF New, HeapCall
<1>18. CASE Delete
  BY <1>2, <1>3, <1>18 DEF Delete, Freeable, BadFree, HeapCall
<1>19. CASE Write
  BY <1>3, <1>4, <1>19 DEF Write, TouchAnywhere, HeapCall
<1> QED
  BY <1>6, <1>7, <1>8, <1>9, <1>10, <1>11, <1>12, <1>13, <1>14, <1>15, <1>16, <1>17, <1>18, <1>19
  DEF Process

\* The library under test stays what it is.
LEMMA SameLibrary ==
  ASSUME Shapes, [Next]_vars
  PROVE  features' = features
<1>1. CASE Process
  <2>1. HeapCall
    BY <1>1, ProcessSteps, ProcessCalls
  <2> QED
    BY <2>1 DEF HeapCall, Format, TxBegin, TxCommit, TxAbort, Detach, Reopen, heapVars, TxAlloc,
                AtomicAlloc, RootAlloc, TxFree, AtomicFree, TxMove
<1>2. CASE NextStage \/ Judge \/ UNCHANGED vars
  BY <1>2 DEF NextStage, Judge, vars, heapVars
<1> QED
  BY <1>1, <1>2 DEF Next

LEMMA HeapSoundInit == Init => HeapSound
  BY EmptyHeapSound DEF Init, HeapInit, HeapSound

LEMMA HeapSoundStep == Shapes /\ HeapSound /\ [Next]_vars => HeapSound'
<1> SUFFICES ASSUME Shapes, HeapSound, [Next]_vars, features' = Features PROVE Sound'
  BY DEF HeapSound
<1>1. HeapTyped /\ features = Features /\ Sound
  BY SameLibrary DEF Shapes, HeapSound
<1>2. CASE Process
  BY <1>1, <1>2, ProcessSteps, ProcessCalls, HeapCallSound
<1>3. CASE NextStage \/ Judge \/ UNCHANGED vars
  <2>1. HeapCall
    BY <1>3 DEF NextStage, Judge, vars, HeapCall, heapVars
  <2> QED
    BY <1>1, <2>1, HeapCallSound
<1> QED
  BY <1>2, <1>3 DEF Next

-----------------------------------------------------------------------------
(* What the steps of the heap do to the objects behind pointers.           *)

\* The slots of an outline are of known sizes.
LEMMA BytesTyped == \A t, v : Bytes(t, v) \in Nat \ {0}
  BY SizesAssumption DEF Bytes

LEMMA Addresses == \A b, c \in Granules : b \in Nat /\ (8 * b) \div 8 = b /\ (8 * b = 8 * c => b = c)
                                          /\ 8 * b # Null /\ 8 * b # Unassigned
  BY HeapAssumption DEF Granules, Null, Unassigned

\* An allocation leaves the objects of before alone.
LEMMA BehindAlloc ==
  ASSUME NEW B \in [Granules -> Nat], NEW A, NEW F, NEW b \in Granules, NEW m \in Nat,
         B[b] = 0, NEW G, G = A \/ G = A \cup {b}
  PROVE  \A p : \A n \in Nat \ {0} :
           Behind("old", p, n, B, A, F) => Behind("old", p, n, [B EXCEPT ![b] = m], G, F)
  BY DEF Behind

\* A free keeps the object for the abort.
LEMMA BehindFree ==
  ASSUME NEW B, NEW A, NEW F, NEW b
  PROVE  \A p, n : Behind("old", p, n, B, A, F) => Behind("held", p, n, B, A, F \cup {b})
  BY DEF Behind

LEMMA BehindFreed ==
  ASSUME NEW B, NEW A, NEW F, NEW b \in Granules
  PROVE  \A n : Behind("old", 8 * b, n, B, A, F) => Behind("going", 8 * b, n, B, A, F \cup {b})
  BY Addresses DEF Behind

\* A commit keeps what was not freed.
LEMMA BehindCommit ==
  ASSUME NEW B, NEW A, NEW F
  PROVE  \A p : \A n \in Nat \ {0} :
           Behind("old", p, n, B, A, F) \/ Behind("new", p, n, B, A, F) =>
             Behind("old", p, n, [b \in Granules |-> IF b \in F THEN 0 ELSE B[b]], {}, {})
  BY DEF Behind

\* An abort brings back what was there before the transaction.
LEMMA BehindAbort ==
  ASSUME NEW B, NEW A, NEW F
  PROVE  \A p : \A n \in Nat \ {0} :
           Behind("old", p, n, B, A, F) \/ Behind("held", p, n, B, A, F) =>
             Behind("old", p, n, [b \in Granules |-> IF b \in A THEN 0 ELSE B[b]], {}, {})
  BY DEF Behind

\* The place of an object that goes away belongs to no object.
LEMMA Vacated ==
  ASSUME HeapTyped, Sound, NEW b \in Blocks, NEW B \in [Granules -> Nat],
         \A c \in Granules : B[c] > 0 => B[c] = blk[c] /\ c # b
  PROVE  \A n, A, F : Behind("stale", 8 * b, n, B, A, F)
<1>1. b \in Granules /\ b \in Taken(b)
  BY Inside DEF Blocks, Taken, HeapTyped
<1>2. ASSUME NEW c \in Granules, B[c] > 0 PROVE b \notin Space(c, B[c])
  <2>1. B[c] = blk[c] /\ c \in Blocks /\ c # b
    BY <1>2 DEF Blocks
  <2>2. Taken(b) \cap Taken(c) = {}
    BY <2>1 DEF Sound, Layout, Separate
  <2> QED
    BY <1>1, <2>1, <2>2 DEF Taken
<1> QED
  BY <1>1, <1>2 DEF Behind

LEMMA BehindRollback ==
  ASSUME HeapTyped, Sound,
         NEW B, B = [b \in Granules |-> IF b \in added THEN 0 ELSE blk[b]]
  PROVE  \A p : \A n \in Nat \ {0} : \A m :
           Behind("new", p, n, blk, added, freed) => Behind("stale", p, m, B, {}, {})
<1> SUFFICES ASSUME NEW p, NEW n \in Nat \ {0}, NEW m, Behind("new", p, n, blk, added, freed)
             PROVE  Behind("stale", p, m, B, {}, {})
  OBVIOUS
<1>1. PICK b \in Granules : p = 8 * b /\ blk[b] = n /\ b \in added
  BY DEF Behind
<1>2. b \in Blocks /\ B \in [Granules -> Nat]
  BY <1>1 DEF Blocks, HeapTyped
<1>3. \A c \in Granules : B[c] > 0 => B[c] = blk[c] /\ c # b
  BY <1>1
<1> QED
  BY <1>1, <1>2, <1>3, Vacated

\* What an object there is allows.
LEMMA OldIsLive ==
  ASSUME HeapTyped, Sound, NEW p, NEW n \in Nat \ {0},
         Behind("old", p, n, blk, added, freed) \/ Behind("new", p, n, blk, added, freed)
  PROVE  \E b \in Live : b \in Granules /\ b \in Nat /\ p = 8 * b /\ p \div 8 = b /\ p % 8 = 0 /\ p >= 0
                         /\ blk[b] = n /\ Freeable(p)
<1>1. PICK b \in Granules : p = 8 * b /\ blk[b] = n /\ b \notin freed
  BY DEF Behind
<1>2. b \in Nat /\ b \in Live
  BY <1>1, HeapAssumption DEF Granules, Live, Blocks
<1>3. p \div 8 = b /\ p % 8 = 0 /\ p >= 0
  BY <1>1, <1>2
<1> QED
  BY <1>1, <1>2, <1>3 DEF Freeable

-----------------------------------------------------------------------------
(* Accesses to a sound heap *)

\* The shadow bytes of the granules of a live object.
LEMMA ShadowOf ==
  ASSUME HeapTyped, Sound, NEW b \in Live, NEW n \in Nat, blk[b] = n
  PROVE  /\ b \in Granules /\ b \in Blocks
         /\ \A g \in (b - Redzone) .. (b + Units(n) + Redzone - 1) :
              g \in Granules /\ shadow[g] = FullTag(b, n, g)
<1>1. b \in Granules /\ b \in Blocks
  BY DEF Live, Blocks
<1>2. Taken(b) = (b - Redzone) .. (b + Units(n) + Redzone - 1)
  BY DEF Taken, Space
<1>3. Taken(b) \subseteq Granules
  BY <1>1 DEF Sound, Layout, Within
<1> QED
  BY <1>1, <1>2, <1>3 DEF Sound, Layout, Exact

LEMMA InsideAccess ==
  ASSUME HeapTyped, Sound, NEW b \in Live, NEW n \in Nat \ {0}, blk[b] = n,
         NEW off \in Nat, NEW w \in Nat \ {0}, off + w <= n
  PROVE  Faults(8 * b + off, w) = {} /\ Harmless(8 * b + off, w)
<1>1. /\ b \in Granules /\ b \in Blocks
      /\ \A g \in (b - Redzone) .. (b + Units(n) + Redzone - 1) :
           g \in Granules /\ shadow[g] = FullTag(b, n, g)
  BY ShadowOf
<1>2. b \in Nat /\ Redzone \in Nat \ {0}
  BY <1>1, HeapAssumption DEF Granules
<1>3. Harmless(8 * b + off, w)
  <2>1. 8 * b <= 8 * b + off /\ (8 * b + off) + w <= 8 * b + n
    BY <1>2
  <2> QED
    BY <1>1, <2>1 DEF Harmless
<1> DEFINE q == n \div 8
           r == n % 8
<1>4. q \in Nat /\ r \in 0 .. 7 /\ n = 8 * q + r
  OBVIOUS
<1>5. Units(n) = IF r = 0 THEN q ELSE q + 1
  BY <1>4 DEF Units
<1>6. ASSUME NEW g \in ((8 * b + off) \div 8) .. (((8 * b + off) + w - 1) \div 8)
      PROVE  g \in Granules /\ ~Poisoned(g, (8 * b + off) + w - 8 * g)
  <2> HIDE DEF q, r
  <2>1. g \in Int /\ g >= b /\ 8 * g < 8 * b + n
    BY <1>2, <1>6
  <2>2. g < b + Units(n)
    BY <2>1, <1>2, <1>4, <1>5
  <2>3. g \in (b - Redzone) .. (b + Units(n) + Redzone - 1)
    BY <2>1, <2>2, <1>2, <1>4, <1>5
  <2>4. g \in Granules /\ shadow[g] = IF g < b + q THEN 0 ELSE r
    BY <2>1, <2>2, <2>3, <1>1, <1>2, <1>4, <1>5 DEF FullTag, q, r
  <2>5. CASE g < b + q
    BY <2>4, <2>5 DEF Poisoned
  <2>6. CASE ~(g < b + q)
    <3>1. g = b + q /\ r # 0
      BY <2>1, <2>2, <2>6, <1>2, <1>4, <1>5
    <3>2. (8 * b + off) + w - 8 * g <= r
      BY <3>1, <1>2, <1>4
    <3>3. shadow[g] = r /\ r \in 1 .. 7
      BY <2>4, <2>6, <3>1, <1>4
    <3> QED
      BY <2>4, <3>2, <3>3 DEF Poisoned
  <2> QED
    BY <2>5, <2>6
<1>7. Faults(8 * b + off, w) = {}
  BY <1>6 DEF Faults
<1> QED
  BY <1>3, <1>7

LEMMA MinOfOne == \A g \in Int : Min({g}) = g
  BY DEF Min

\* Eight bytes of memory that belongs to no live object.
LEMMA FreedAccess ==
  ASSUME HeapTyped, Sound, NEW b \in Granules, \A c \in Live : b \notin Taken(c)
  PROVE  Faults(8 * b, 8) = {b} /\ ReportOf(Min(Faults(8 * b, 8))) = "[fd]"
<1>1. shadow[b] = FD /\ b \in Nat
  BY HeapAssumption DEF Sound, Layout, Vacant, Granules
<1>2. (8 * b) \div 8 = b /\ ((8 * b) + 8 - 1) \div 8 = b
  BY <1>1
<1>3. Poisoned(b, (8 * b) + 8 - 8 * b)
  BY <1>1 DEF Poisoned, FD
<1>4. Faults(8 * b, 8) = {b}
  BY <1>1, <1>2, <1>3 DEF Faults
<1>5. ReportOf(b) = "[fd]"
  BY <1>1 DEF ReportOf, FA, FD
<1> QED
  BY <1>1, <1>4, <1>5, MinOfOne

\* Behind an object of whole granules lies its redzone.
LEMMA RightAccess ==
  ASSUME HeapTyped, Sound, NEW b \in Live, NEW u \in Nat \ {0}, blk[b] = 8 * u
  PROVE  /\ Faults(8 * b + 8 * u, 8) # {}
         /\ ReportOf(Min(Faults(8 * b + 8 * u, 8))) = "00[fa]"
         /\ Faults(8 * b, 8 * u + 1) # {}
         /\ ReportOf(Min(Faults(8 * b, 8 * u + 1))) = "00[fa]"
<1> DEFINE n == 8 * u
<1>0. n \in Nat \ {0} /\ n \div 8 = u /\ n % 8 = 0 /\ Units(n) = u
  BY DEF Units
<1>1. /\ b \in Granules /\ b \in Blocks
      /\ \A g \in (b - Redzone) .. (b + Units(n) + Redzone - 1) :
           g \in Granules /\ shadow[g] = FullTag(b, n, g)
  BY <1>0, ShadowOf
<1>2. b \in Nat /\ Redzone \in Nat \ {0}
  BY <1>1, HeapAssumption DEF Granules
<1> HIDE DEF n
<1>3. \A g \in b .. b + u : g \in Granules /\ shadow[g] = IF g = b + u THEN FA ELSE 0
  <2> SUFFICES ASSUME NEW g \in b .. b + u
               PROVE  g \in Granules /\ shadow[g] = IF g = b + u THEN FA ELSE 0
    OBVIOUS
  <2>1. g \in (b - Redzone) .. (b + Units(n) + Redzone - 1)
    BY <1>0, <1>2
  <2> QED
    BY <2>1, <1>0, <1>1, <1>2 DEF FullTag
<1>4. ReportOf(b + u) = "00[fa]"
  <2> DEFINE h == b + u
             e == b + u - 1
  <2>1. h \in b .. b + u /\ e \in b .. b + u /\ e # h /\ h - 1 = e
    BY <1>2
  <2> HIDE DEF h, e
  <2>2. h \in Granules /\ shadow[h] = FA /\ e \in Granules /\ shadow[e] = 0
    BY <1>3, <2>1 DEF h
  <2>3. ReportOf(h) = "00[fa]"
    BY <2>1, <2>2 DEF ReportOf, FA, FD
  <2> QED
    BY <2>3 DEF h
<1>5. \A w : Poisoned(b + u, w)
  BY <1>2, <1>3 DEF Poisoned, FA
<1>6. Faults(8 * b + 8 * u, 8) = {b + u}
  <2>1. (8 * b + 8 * u) \div 8 = b + u /\ ((8 * b + 8 * u) + 8 - 1) \div 8 = b + u
    BY <1>2
  <2> QED
    BY <2>1, <1>2, <1>5 DEF Faults
<1>7. Faults(8 * b, 8 * u + 1) = {b + u}
  <2>1. (8 * b) \div 8 = b /\ ((8 * b) + (8 * u + 1) - 1) \div 8 = b + u
    BY <1>2
  <2>2. ASSUME NEW g \in b .. b + u, g # b + u
        PROVE  g \in Granules /\ \A w : ~Poisoned(g, w)
    BY <1>3, <2>2 DEF Poisoned
  <2>3. b + u \in b .. b + u
    BY <1>2
  <2> QED
    BY <2>1, <2>2, <2>3, <1>5 DEF Faults
<1>8. b + u \in Int
  BY <1>2
<1> QED
  BY <1>4, <1>6, <1>7, <1>8, MinOfOne

\* And before it as well.
LEMMA LeftAccess ==
  ASSUME HeapTyped, Sound, NEW b \in Live, NEW n \in Nat \ {0}, blk[b] = n
  PROVE  /\ Faults(8 * b - 8, 8) # {}
         /\ ReportOf(Min(Faults(8 * b - 8, 8))) \in {"[fa]", "00[fa]"}
<1>1. /\ b \in Granules /\ b \in Blocks
      /\ \A g \in (b - Redzone) .. (b + Units(n) + Redzone - 1) :
           g \in Granules /\ shadow[g] = FullTag(b, n, g)
  BY ShadowOf
<1>2. b \in Nat /\ Redzone \in Nat \ {0} /\ Units(n) \in Nat
  BY <1>1, HeapAssumption DEF Granules, Units
<1> DEFINE h == b - 1
<1>3. /\ h \in (b - Redzone) .. (b + Units(n) + Redzone - 1) /\ h < b /\ h \in Int
      /\ 8 * b - 8 = 8 * h
  BY <1>2
<1> HIDE DEF h
<1>4. h \in Granules /\ shadow[h] = FA
  BY <1>1, <1>3 DEF FullTag
<1>5. Faults(8 * h, 8) = {h}
  <2>1. (8 * h) \div 8 = h /\ ((8 * h) + 8 - 1) \div 8 = h
    BY <1>3
  <2>2. Poisoned(h, (8 * h) + 8 - 8 * h)
    BY <1>4 DEF Poisoned, FA
  <2> QED
    BY <1>3, <2>1, <2>2 DEF Faults
<1>6. ReportOf(h) \in {"[fa]", "00[fa]"}
  BY <1>4 DEF ReportOf, FA, FD
<1> QED
  BY <1>3, <1>5, <1>6, MinOfOne

\* Of an object of four bytes the second half of the granule is poisoned.
LEMMA PartialAccess ==
  ASSUME HeapTyped, Sound, NEW b \in Live, blk[b] = 4
  PROVE  Faults(8 * b, 8) # {} /\ ReportOf(Min(Faults(8 * b, 8))) = "[04]"
<1>0. Units(4) = 1 /\ 4 \div 8 = 0 /\ 4 % 8 = 4
  BY DEF Units
<1>1. /\ b \in Granules /\ b \in Blocks
      /\ \A g \in (b - Redzone) .. (b + Units(4) + Redzone - 1) :
           g \in Granules /\ shadow[g] = FullTag(b, 4, g)
  BY ShadowOf
<1>2. b \in Nat /\ Redzone \in Nat \ {0}
  BY <1>1, HeapAssumption DEF Granules
<1>3. b \in (b - Redzone) .. (b + Units(4) + Redzone - 1)
  BY <1>0, <1>2
<1>4. shadow[b] = 4
  BY <1>0, <1>1, <1>2, <1>3 DEF FullTag
<1>5. Faults(8 * b, 8) = {b}
  <2>1. (8 * b) \div 8 = b /\ ((8 * b) + 8 - 1) \div 8 = b
    BY <1>2
  <2>2. Poisoned(b, (8 * b) + 8 - 8 * b)
    BY <1>2, <1>4 DEF Poisoned
  <2> QED
    BY <1>2, <2>1, <2>2 DEF Faults
<1>6. ReportOf(b) = "[04]"
  BY <1>1, <1>4 DEF ReportOf, FA, FD
<1> QED
  BY <1>2, <1>5, <1>6, MinOfOne

\* Within an object no other starts.
LEMMA NotAnObject ==
  ASSUME HeapTyped, Sound, NEW b \in Live, blk[b] = 40
  PROVE  ~Freeable(8 * b + 8)
<1>1. b \in Blocks /\ b \in Granules /\ b \in Nat /\ Redzone \in Nat \ {0}
  BY HeapAssumption DEF Live, Blocks, Granules
<1>2. (8 * b + 8) \div 8 = b + 1
  BY <1>1
<1>3. Units(40) = 5
  BY DEF Units
<1>4. b + 1 \in Taken(b)
  BY <1>1, <1>3 DEF Taken, Space
<1>5. ASSUME b + 1 \in Live PROVE FALSE
  <2>1. b + 1 \in Blocks /\ b + 1 \in Granules /\ b + 1 # b
    BY <1>1, <1>5 DEF Live, Blocks
  <2>2. b + 1 \in Taken(b + 1)
    BY <2>1, Inside DEF Taken, HeapTyped
  <2> QED
    BY <1>1, <1>4, <2>1, <2>2 DEF Sound, Layout, Separate
<1> QED
  BY <1>2, <1>5 DEF Freeable

\* The place of an object whose free is not committed belongs to no live one.
LEMMA GoingIsNotLive ==
  ASSUME HeapTyped, Sound, NEW b \in freed
  PROVE  \A c \in Live : b \notin Taken(c)
<1>1. b \in Blocks /\ b \in Granules /\ b \in Taken(b)
  BY Inside DEF Sound, Blocks, Taken, HeapTyped
<1> QED
  BY <1>1 DEF Sound, Layout, Separate, Live

LEMMA StaleIsNotLive ==
  ASSUME HeapTyped, NEW b \in Granules,
         \A c \in Granules : blk[c] > 0 /\ c \notin freed => b \notin Space(c, blk[c])
  PROVE  (\A c \in Live : b \notin Taken(c)) /\ b \notin Live
<1>1. \A c \in Live : b \notin Taken(c)
  BY DEF Live, Blocks, Taken
<1>2. b \in Taken(b)
  BY Inside DEF Taken, HeapTyped
<1> QED
  BY <1>1, <1>2

-----------------------------------------------------------------------------
(* Room in the heap *)

LEMMA RoomInEmpty ==
  ASSUME Blocks = {}, NEW n \in Nat, HeapSize >= Units(n) + 2 * Redzone, Units(n) \in Nat \ {0}
  PROVE  ~Full(n)
<1>1. Space(Redzone, n) \subseteq Granules /\ Redzone \in Granules
  BY HeapAssumption DEF Space, Granules
<1> QED
  BY <1>1 DEF Full, Fits

\* Before the object or behind it, wherever it lies.
LEMMA RoomForTwo ==
  ASSUME HeapTyped, Sound, NEW d \in Granules, Blocks \subseteq {d}, blk[d] <= 16,
         NEW n \in Nat, NEW u \in Nat \ {0}, Units(n) = u, HeapSize >= 2 * u + 2 + 6 * Redzone - 1
  PROVE  ~Full(n)
<1>1. d \in Nat /\ Redzone \in Nat \ {0} /\ HeapSize \in Nat
  BY HeapAssumption DEF Granules
<1> DEFINE m == Units(blk[d])
<1>2. m \in 0 .. 2
  BY DEF m, Units, HeapTyped
<1>3. d \in Blocks => Taken(d) = (d - Redzone) .. (d + m + Redzone - 1) /\ Taken(d) \subseteq Granules
  BY DEF Taken, Space, Sound, Layout, Within
<1> HIDE DEF m
<1>4. ASSUME NEW b \in Granules, Space(b, n) \subseteq Granules,
             d \in Blocks => Space(b, n) \cap Taken(d) = {}
      PROVE  ~Full(n)
  BY <1>4 DEF Full, Fits
<1>5. CASE d - Redzone >= u + 2 * Redzone \/ d \notin Blocks
  <2>1. Redzone \in Granules
    BY <1>1 DEF Granules
  <2>2. Space(Redzone, n) = 0 .. (u + 2 * Redzone - 1)
    BY <1>1 DEF Space
  <2>3. Space(Redzone, n) \subseteq Granules
    BY <1>1, <2>2 DEF Granules
  <2>4. d \in Blocks => Space(Redzone, n) \cap Taken(d) = {}
    BY <1>1, <1>2, <1>3, <1>5, <2>2
  <2> QED
    BY <1>4, <2>1, <2>3, <2>4
<1>6. CASE ~(d - Redzone >= u + 2 * Redzone) /\ d \in Blocks
  <2> DEFINE b == d + m + 2 * Redzone
  <2>1. b \in Nat /\ b + u + Redzone - 1 <= HeapSize - 1 /\ b - Redzone = d + m + Redzone /\ b <= HeapSize - 1
    BY <1>1, <1>2, <1>6
  <2> HIDE DEF b
  <2>2. Space(b, n) = (d + m + Redzone) .. (b + u + Redzone - 1)
    BY <2>1 DEF Space
  <2>3. b \in Granules /\ Space(b, n) \subseteq Granules
    BY <1>1, <1>2, <2>1, <2>2 DEF Granules
  <2>4. Space(b, n) \cap Taken(d) = {}
    BY <1>1, <1>2, <1>3, <1>6, <2>2
  <2> QED
    BY <1>4, <2>3, <2>4
<1> QED
  BY <1>5, <1>6

\* Where an outline relies on room, a roomy heap has it.
LEMMA EnoughRoom ==
  ASSUME HeapTyped, Sound, Roomy, NEW c, Crowd(c), NEW n \in {8, 16, 40, Stretch, BigDummy},
         RoomFor(c, n)
  PROVE  ~Full(n)
<1>1. /\ Stretch \in Nat /\ Stretch >= 8 /\ BigDummy \in Nat \ {0}
      /\ Redzone \in Nat \ {0} /\ HeapSize \in Nat
  BY SizesAssumption, HeapAssumption
<1>2. Units(8) = 1 /\ Units(16) = 2 /\ Units(40) = 5
  BY DEF Units
<1>3. Units(Stretch) \in Nat \ {0} /\ Units(BigDummy) \in Nat \ {0}
  BY <1>1 DEF Units
<1>4. /\ HeapSize >= 2 * 5 + 2 + 6 * Redzone - 1
      /\ HeapSize >= 2 * Units(Stretch) + 2 + 6 * Redzone - 1
      /\ HeapSize >= Units(BigDummy) + 2 * Redzone
  BY <1>2 DEF Roomy
<1>5. CASE n = BigDummy /\ c = "empty"
  BY <1>1, <1>3, <1>4, <1>5, RoomInEmpty DEF Crowd
<1>6. ASSUME n \in {8, 16, 40, Stretch}
      PROVE  n \in Nat /\ Units(n) \in Nat \ {0} /\ HeapSize >= 2 * Units(n) + 2 + 6 * Redzone - 1
  <2>1. n \in Nat
    BY <1>1, <1>6
  <2>2. Units(n) \in Nat \ {0}
    BY <1>2, <1>3, <1>6
  <2>3. CASE n = Stretch
    BY <2>1, <2>2, <2>3, <1>4
  <2>4. CASE n \in {8, 16, 40}
    <3>1. Units(n) \in {1, 2, 5}
      BY <1>2, <2>4
    <3> QED
      BY <2>1, <3>1, <1>1, <1>4
  <2> QED
    BY <2>3, <2>4, <1>6
<1>7. CASE n \in {8, 16, 40, Stretch} /\ c = "empty"
  <2>1. HeapSize >= Units(n) + 2 * Redzone
    BY <1>1, <1>6, <1>7
  <2> QED
    BY <1>6, <1>7, <2>1, RoomInEmpty DEF Crowd
<1>8. CASE n \in {8, 16, 40, Stretch} /\ c = "few"
  <2>1. PICK d \in Granules : Blocks \subseteq {d} /\ blk[d] <= 16
    BY <1>8 DEF Crowd
  <2> QED
    BY <2>1, <1>6, <1>8, RoomForTwo
<1> QED
  BY <1>5, <1>7, <1>8 DEF RoomFor

\* The rest of what test.sh says of its tests.
LEMMA Snippets ==
  /\ Suite[3].snippet = "Invalid free|palloc" /\ Suite[5].snippet = "[fd]"
  /\ Suite[6].snippet = "[fd]" /\ Suite[7].snippet = "00[fa]" /\ Suite[8].snippet = "00[fa]"
  /\ Suite[9].snippet = "00[fa]" /\ Suite[10].snippet = "00[fa]" /\ Suite[11].snippet = "[fa]"
  /\ Suite[12].snippet = "[04]" /\ Suite[13].snippet = "[fd]"
  BY DEF Suite, should_crash, should_not_crash, overflow_persistence

LEMMA CrashTests == \A t \in 1 .. 16 : t \notin {14, 16} => Suite[t].kind = "crash"
<1>1. /\ Suite[1].kind = "crash" /\ Suite[2].kind = "crash" /\ Suite[3].kind = "crash"
      /\ Suite[4].kind = "crash" /\ Suite[5].kind = "crash" /\ Suite[6].kind = "crash"
      /\ Suite[7].kind = "crash" /\ Suite[8].kind = "crash" /\ Suite[9].kind = "crash"
      /\ Suite[10].kind = "crash" /\ Suite[11].kind = "crash" /\ Suite[12].kind = "crash"
      /\ Suite[13].kind = "crash" /\ Suite[15].kind = "crash"
  BY DEF Suite, should_crash, should_not_crash, overflow_persistence
<1> QED
  BY <1>1, Tests

\* AtFault and AtFaultLine speak of the line FaultLine lists.
LEMMA FaultIs ==
  \A t \in 1 .. 16 : \A s \in 1 .. Len(Suite[t].stages) :
    \A k \in 1 .. Len(Suite[t].stages[s]) :
      AtFault(t, s, k) <=> Suite[t].kind = "crash" /\ s = Len(Suite[t].stages) /\ k = FaultLine[t]
<1> SUFFICES ASSUME NEW t \in 1 .. 16, NEW s \in 1 .. Len(Suite[t].stages),
                    NEW k \in 1 .. Len(Suite[t].stages[s])
             PROVE  AtFault(t, s, k) <=>
                      Suite[t].kind = "crash" /\ s = Len(Suite[t].stages) /\ k = FaultLine[t]
  OBVIOUS
<1> DEFINE P == Suite[t].stages[s]
           F == FaultLine[t]
           L == FailLine[t]
<1>1. Len(P) \in Nat
  BY Forms DEF Form
<1>2. AtFault(t, s, k) <=> k > 1 /\ P[k - 1] = print_pass_flag
  BY DEF AtFault
<1>3. CASE Suite[t].kind = "crash" /\ s = Len(Suite[t].stages)
  <2>1. CrashForm(P, F, L)
    BY <1>3, CrashForms
  <2> HIDE DEF P, F, L
  <2>2. /\ F \in 2 .. Len(P) /\ L \in F + 1 .. F + 2 /\ L <= Len(P)
        /\ P[F - 1] = print_pass_flag /\ P[L] = print_fail_flag
        /\ \A m \in 1 .. Len(P) : P[m].op = "flag" => m \in {F - 1, L}
    BY <2>1 DEF CrashForm
  <2>3. print_pass_flag.op = "flag" /\ print_pass_flag # print_fail_flag
    BY DEF print_pass_flag, print_fail_flag, flag
  <2>4. ASSUME k > 1, P[k - 1] = print_pass_flag PROVE k = F
    <3>1. k - 1 \in 1 .. Len(P)
      BY <1>1, <2>4 DEF P
    <3>2. k - 1 \in {F - 1, L}
      BY <2>2, <2>3, <2>4, <3>1
    <3>3. k - 1 # L
      BY <2>2, <2>3, <2>4
    <3> QED
      BY <1>1, <2>2, <3>2, <3>3
  <2>5. k = F => k > 1
    BY <2>2, <1>1
  <2> QED
    BY <1>2, <1>3, <2>2, <2>4, <2>5 DEF F
<1>4. CASE ~(Suite[t].kind = "crash" /\ s = Len(Suite[t].stages))
  <2>1. NoFlags(P)
    <3>1. CASE s # Len(Suite[t].stages)
      BY <3>1, FirstStages
    <3>2. CASE s = Len(Suite[t].stages) /\ Suite[t].kind # "crash"
      <4>1. t \in {14, 16}
        BY <3>2, CrashTests
      <4>2. Len(Suite[t].stages) = 1
        BY <4>1, SuiteFacts
      <4> QED
        BY <3>2, <4>1, <4>2, SuiteFacts, FreeTxAbortForm, ZallocForm
    <3> QED
      BY <1>4, <3>1, <3>2
  <2> HIDE DEF P
  <2>2. ASSUME k > 1, P[k - 1] = print_pass_flag PROVE FALSE
    <3>1. k - 1 \in 1 .. Len(P)
      BY <1>1, <2>2 DEF P
    <3>2. print_pass_flag.op = "flag"
      BY DEF print_pass_flag, flag
    <3> QED
      BY <2>1, <2>2, <3>1, <3>2 DEF NoFlags
  <2> QED
    BY <1>2, <1>4, <2>2
<1> QED
  BY <1>3, <1>4

-----------------------------------------------------------------------------
(* Every program is lawful.                                                *)

LEMMA HandledAbort ==
  \A t, s, k, i, j : Suite[t].stages[s][j].handler # "none" /\ i.op # "abort" =>
    AbortsLawfully(t, s, k, i, j)
  BY DEF AbortsLawfully

LEMMA ForgottenAbort ==
  \A t, s, k, i, j :
    Suite[t].stages[s][j].handler = "none" /\ Crowded(t, s, j + 1) = "any"
    /\ (\A v : Known(t, s, j + 1, v) = "any") => AbortsLawfully(t, s, k, i, j)
  BY DEF AbortsLawfully, Restores

\* What it takes to be lawful, when F is the faulty line or 0.
LawfulLines(t, s, P, n, F) ==
  /\ \A k \in 1 .. n : AtFault(t, s, k) <=> k = F
  /\ \A k \in 1 .. n :
       /\ P[k].op = "create" <=> k = 1 /\ s = 1
       /\ P[k].op = "open" <=> k = 1 /\ s = 2
       /\ P[k].op = "root" => k = 2
       /\ k = 2 => P[k].op \in {"root", "begin", "close"}
       /\ P[k].op = "abort" => P[k + 1].op = "end"
  /\ \A k \in 1 .. n :
       k # F /\ P[k].op \notin {"abort", "close"} => GoesLawfully(t, s, k, P[k])
  /\ F \in 1 .. n => Trapped(t, s, F, P[F])
  /\ \A k \in 1 .. n : \A j \in 1 .. n :
       k < j /\ P[k].op \in Leaving /\ P[j].op = "end" => AbortsLawfully(t, s, k, P[k], j)

LEMMA LawfulProgram ==
  \A t, s, P : \A n \in Nat : \A F :
    P = Suite[t].stages[s] /\ Len(P) = n /\ LawfulLines(t, s, P, n, F) =>
      \A k \in 1 .. n : Lawful(t, s, k)
<1> SUFFICES ASSUME NEW t, NEW s, NEW P, P = Suite[t].stages[s], NEW n \in Nat, Len(P) = n,
                    NEW F, LawfulLines(t, s, P, n, F), NEW k \in 1 .. n
             PROVE  Lawful(t, s, k)
  OBVIOUS
<1>1. \A j \in k + 1 .. n : j \in 1 .. n /\ k < j
  OBVIOUS
<1>2. P[k].op \in {"alloc", "free", "realloc", "range", "abort"} =>
        \A j \in k + 1 .. n : P[j].op = "end" => AbortsLawfully(t, s, k, P[k], j)
  BY <1>1 DEF Leaving, LawfulLines
<1> QED
  BY <1>2 DEF Lawful, LawfulLines

USE DEF create, openPool, rootObj, begin, alloc, free, realloc, addRange, abortTx, end, new, delete,
        copy, write, flag, close, print_pass_flag, print_fail_flag, Locals

LEMMA MismatchedFreeLawful == \A k \in 1 .. Len(mismatched_free) : Lawful(1, 1, k)
<1>1. /\ Len(mismatched_free) = 13
      /\ \A k \in 1 .. 13 :
           mismatched_free[k] = <<create("assert"), rootObj(16, "assert"), begin,
                                  alloc("oid", 40), addRange("root", 16), copy("obj", "oid"),
                                  end("abort"), begin, print_pass_flag, free("obj", 8),
                                  end("none"), print_fail_flag, close>>[k]
  BY DEF mismatched_free, WithDummy, Rooted, Finish
<1>2. \A k \in 1 .. 13 : k \in {1, 2, 3, 4, 5, 6, 7, 8, 9, 10, 11, 12, 13}
  OBVIOUS
<1>3. /\ \A k, v : Known(1, 1, k, v) =
           IF v = "obj" /\ k \in 8 .. 10 THEN "old"
           ELSE IF v = "root" /\ k \in 3 .. 5 THEN "old"
           ELSE IF v = "oid" /\ k \in 5 .. 6 THEN "new"
           ELSE IF v = "obj" /\ k = 7 THEN "new"
           ELSE "any"
      /\ \A k : Crowded(1, 1, k) = IF k = 2 THEN "empty" ELSE IF k \in 3 .. 4 THEN "few" ELSE "any"
      /\ \A v : Bytes(1, v) = IF v = "root" THEN 16 ELSE IF v = "oid2" THEN Stretch ELSE 40
  BY DEF Known, WithDummyKnows, Crowded, Bytes
<1>4. \A k \in 1 .. 13 : k # 10 /\ mismatched_free[k].op # "close" => GoesLawfully(1, 1, k, mismatched_free[k])
  BY <1>1, <1>2, <1>3, SizesAssumption DEF GoesLawfully, Legal, RoomFor, Crowds, Assigns, Yields, Becomes, Ends
<1>5. \A k \in 1 .. 13 :
        /\ mismatched_free[k].op = "create" <=> k = 1
        /\ mismatched_free[k].op # "open"
        /\ mismatched_free[k].op = "root" => k = 2
        /\ k = 2 => mismatched_free[k].op \in {"root", "begin", "close"}
        /\ mismatched_free[k].op # "abort"
        /\ mismatched_free[k].op \in Leaving => k \in {4, 5, 10}
        /\ mismatched_free[k].op = "end" <=> k \in {7, 11}
        /\ k = 7 => mismatched_free[k].handler = "abort"
        /\ k = 11 => mismatched_free[k].handler = "none"
  BY <1>1, <1>2 DEF Leaving
<1>6. Suite[1].stages[1] = mismatched_free /\ Len(Suite[1].stages) = 1
  BY SuiteFacts
<1>7. \A k \in 1 .. 13 : AtFault(1, 1, k) <=> k = 10
  <2>1. 1 \in 1 .. 16 /\ 1 \in 1 .. Len(Suite[1].stages)
    BY <1>6
  <2>4. \A k \in 1 .. Len(Suite[1].stages[1]) :
          AtFault(1, 1, k) <=> Suite[1].kind = "crash" /\ 1 = Len(Suite[1].stages) /\ k = FaultLine[1]
    BY <2>1, FaultIs
  <2>5. Len(Suite[1].stages[1]) = 13
    BY <1>1, <1>6
  <2>2. Suite[1].kind = "crash"
    BY CrashTests
  <2>3. FaultLine[1] = 10
    BY LineFacts
  <2> QED
    BY <1>2, <1>6, <2>2, <2>3, <2>4, <2>5
<1>8. Trapped(1, 1, 10, mismatched_free[10])
  <2>1. 10 \in 1 .. 13
    OBVIOUS
  <2>2. /\ mismatched_free[10].op = "free" /\ mismatched_free[10].v = "obj"
        /\ mismatched_free[10].off = 8
    BY <1>1, <2>1
  <2>3. Known(1, 1, 10, "obj") = "old" /\ Bytes(1, "obj") = 40
    BY <1>3
  <2>4. Suite[1].snippet = "Invalid free"
    BY SuiteFacts, Snippets
  <2> QED
    BY <2>2, <2>3, <2>4 DEF Trapped
<1>9. ASSUME NEW k \in 1 .. 13, NEW j \in 1 .. 13, k < j,
             mismatched_free[k].op \in Leaving, mismatched_free[j].op = "end"
      PROVE  AbortsLawfully(1, 1, k, mismatched_free[k], j)
  <2>1. k \in {4, 5, 10} /\ j \in {7, 11}
    BY <1>5, <1>9
  <2>2. CASE j = 7
    BY <1>5, <1>6, <2>2, HandledAbort
  <2>3. CASE j = 11
    <3>1. mismatched_free[j].handler = "none" /\ Crowded(1, 1, j + 1) = "any"
          /\ \A v : Known(1, 1, j + 1, v) = "any"
      BY <1>3, <1>5, <2>3
    <3> QED
      BY <1>6, <3>1, ForgottenAbort
  <2> QED
    BY <2>1, <2>2, <2>3
<1> QED
  <2>1. LawfulLines(1, 1, mismatched_free, 13, 10)
    BY <1>4, <1>5, <1>7, <1>8, <1>9 DEF LawfulLines
  <2>2. Len(mismatched_free) = 13 /\ 13 \in Nat
    BY <1>1
  <2>3. \A k \in 1 .. 13 : Lawful(1, 1, k)
    BY <1>6, <2>1, <2>2, LawfulProgram
  <2> QED
    BY <2>2, <2>3

LEMMA DoubleFreeLawful == \A k \in 1 .. Len(double_free) : Lawful(2, 1, k)
<1>1. /\ Len(double_free) = 14
      /\ \A k \in 1 .. 14 :
           double_free[k] = <<create("assert"), rootObj(16, "assert"), begin, alloc("oid", 8),
                              addRange("root", 16), copy("obj", "oid"), end("abort"), begin,
                              free("obj", 0), print_pass_flag, free("obj", 0), end("none"),
                              print_fail_flag, close>>[k]
  BY DEF double_free, WithDummy, Rooted, Finish
<1>2. \A k \in 1 .. 14 : k \in {1, 2, 3, 4, 5, 6, 7, 8, 9, 10, 11, 12, 13, 14}
  OBVIOUS
<1>3. /\ \A k, v : Known(2, 1, k, v) =
           IF v = "obj" /\ k \in 8 .. 9 THEN "old"
           ELSE IF v = "obj" /\ k \in 10 .. 11 THEN "going"
           ELSE IF v = "root" /\ k \in 3 .. 5 THEN "old"
           ELSE IF v = "oid" /\ k \in 5 .. 6 THEN "new"
           ELSE IF v = "obj" /\ k = 7 THEN "new"
           ELSE "any"
      /\ \A k : Crowded(2, 1, k) = IF k = 2 THEN "empty" ELSE IF k \in 3 .. 4 THEN "few" ELSE "any"
      /\ \A v : Bytes(2, v) = IF v = "root" THEN 16 ELSE IF v = "oid2" THEN Stretch ELSE 8
  BY DEF Known, WithDummyKnows, Crowded, Bytes
<1>4. \A k \in 1 .. 14 : k # 11 /\ double_free[k].op # "close" => GoesLawfully(2, 1, k, double_free[k])
  BY <1>1, <1>2, <1>3, SizesAssumption DEF GoesLawfully, Legal, RoomFor, Crowds, Assigns, Yields, Becomes, Ends
<1>5. \A k \in 1 .. 14 :
        /\ double_free[k].op = "create" <=> k = 1
        /\ double_free[k].op # "open"
        /\ double_free[k].op = "root" => k = 2
        /\ k = 2 => double_free[k].op \in {"root", "begin", "close"}
        /\ double_free[k].op # "abort"
        /\ double_free[k].op \in Leaving => k \in {4, 5, 9, 11}
        /\ double_free[k].op = "end" <=> k \in {7, 12}
        /\ k = 7 => double_free[k].handler = "abort"
        /\ k = 12 => double_free[k].handler = "none"
  BY <1>1, <1>2 DEF Leaving
<1>6. Suite[2].stages[1] = double_free /\ Len(Suite[2].stages) = 1
  BY SuiteFacts
<1>7. \A k \in 1 .. 14 : AtFault(2, 1, k) <=> k = 11
  <2>1. 2 \in 1 .. 16 /\ 1 \in 1 .. Len(Suite[2].stages)
    BY <1>6
  <2>4. \A k \in 1 .. Len(Suite[2].stages[1]) :
          AtFault(2, 1, k) <=> Suite[2].kind = "crash" /\ 1 = Len(Suite[2].stages) /\ k = FaultLine[2]
    BY <2>1, FaultIs
  <2>5. Len(Suite[2].stages[1]) = 14
    BY <1>1, <1>6
  <2>2. Suite[2].kind = "crash"
    BY CrashTests
  <2>3. FaultLine[2] = 11
    BY LineFacts
  <2> QED
    BY <1>2, <1>6, <2>2, <2>3, <2>4, <2>5
<1>8. Trapped(2, 1, 11, double_free[11])
  <2>1. 11 \in 1 .. 14
    OBVIOUS
  <2>2. /\ double_free[11].op = "free" /\ double_free[11].v = "obj"
        /\ double_free[11].off = 0
    BY <1>1, <2>1
  <2>3. Known(2, 1, 11, "obj") = "going" /\ Bytes(2, "obj") = 8
    BY <1>3
  <2>4. Suite[2].snippet = "Invalid free|palloc"
    BY SuiteFacts, Snippets
  <2> QED
    BY <2>2, <2>3, <2>4 DEF Trapped
<1>9. ASSUME NEW k \in 1 .. 14, NEW j \in 1 .. 14, k < j,
             double_free[k].op \in Leaving, double_free[j].op = "end"
      PROVE  AbortsLawfully(2, 1, k, double_free[k], j)
  <2>1. k \in {4, 5, 9, 11} /\ j \in {7, 12}
    BY <1>5, <1>9
  <2>2. CASE j = 7
    BY <1>5, <1>6, <2>2, HandledAbort
  <2>3. CASE j = 12
    <3>1. double_free[j].handler = "none" /\ Crowded(2, 1, j + 1) = "any"
          /\ \A v : Known(2, 1, j + 1, v) = "any"
      BY <1>3, <1>5, <2>3
    <3> QED
      BY <1>6, <3>1, ForgottenAbort
  <2> QED
    BY <2>1, <2>2, <2>3
<1> QED
  <2>1. LawfulLines(2, 1, double_free, 14, 11)
    BY <1>4, <1>5, <1>7, <1>8, <1>9 DEF LawfulLines
  <2>2. Len(double_free) = 14 /\ 14 \in Nat
    BY <1>1
  <2>3. \A k \in 1 .. 14 : Lawful(2, 1, k)
    BY <1>6, <2>1, <2>2, LawfulProgram
  <2> QED
    BY <2>2, <2>3

LEMMA DoubleFreeNtxLawful == \A k \in 1 .. Len(double_free_ntx) : Lawful(3, 1, k)
<1>1. /\ Len(double_free_ntx) = 9
      /\ \A k \in 1 .. 9 :
           double_free_ntx[k] = <<create("abort"), rootObj(16, "abort"), new("obj", 8),
                                  copy("toid", "obj"), delete("obj"), print_pass_flag,
                                  delete("toid"), print_fail_flag, close>>[k]
  BY DEF double_free_ntx, WithDummyNtx, Finish
<1>2. \A k \in 1 .. 9 : k \in {1, 2, 3, 4, 5, 6, 7, 8, 9}
  OBVIOUS
<1>3. /\ \A k, v : Known(3, 1, k, v) =
           IF v = "obj" /\ k \in 4 .. 5 THEN "old"
           ELSE IF v = "toid" /\ k = 5 THEN "twin"
           ELSE IF v = "toid" /\ k \in 6 .. 7 THEN "stale"
           ELSE "any"
      /\ \A k : Crowded(3, 1, k) = IF k = 2 THEN "empty" ELSE IF k = 3 THEN "few" ELSE "any"
      /\ \A v : Bytes(3, v) = IF v = "root" THEN 16 ELSE IF v = "oid2" THEN Stretch ELSE 8
  BY DEF Known, Crowded, Bytes
<1>4. \A k \in 1 .. 9 : k # 7 /\ double_free_ntx[k].op # "close" => GoesLawfully(3, 1, k, double_free_ntx[k])
  BY <1>1, <1>2, <1>3, SizesAssumption DEF GoesLawfully, Legal, RoomFor, Crowds, Assigns, Yields, Becomes, Ends
<1>5. \A k \in 1 .. 9 :
        /\ double_free_ntx[k].op = "create" <=> k = 1
        /\ double_free_ntx[k].op # "open"
        /\ double_free_ntx[k].op = "root" => k = 2
        /\ k = 2 => double_free_ntx[k].op \in {"root", "begin", "close"}
        /\ double_free_ntx[k].op # "abort"
        /\ double_free_ntx[k].op \notin Leaving
  BY <1>1, <1>2 DEF Leaving
<1>6. Suite[3].stages[1] = double_free_ntx /\ Len(Suite[3].stages) = 1
  BY SuiteFacts
<1>7. \A k \in 1 .. 9 : AtFault(3, 1, k) <=> k = 7
  <2>1. 3 \in 1 .. 16 /\ 1 \in 1 .. Len(Suite[3].stages)
    BY <1>6
  <2>4. \A k \in 1 .. Len(Suite[3].stages[1]) :
          AtFault(3, 1, k) <=> Suite[3].kind = "crash" /\ 1 = Len(Suite[3].stages) /\ k = FaultLine[3]
    BY <2>1, FaultIs
  <2>5. Len(Suite[3].stages[1]) = 9
    BY <1>1, <1>6
  <2>2. Suite[3].kind = "crash"
    BY CrashTests
  <2>3. FaultLine[3] = 7
    BY LineFacts
  <2> QED
    BY <1>2, <1>6, <2>2, <2>3, <2>4, <2>5
<1>8. Trapped(3, 1, 7, double_free_ntx[7])
  <2>1. 7 \in 1 .. 9
    OBVIOUS
  <2>2. double_free_ntx[7].op = "delete" /\ double_free_ntx[7].v = "toid"
    BY <1>1, <2>1
  <2>3. Known(3, 1, 7, "toid") = "stale" /\ Bytes(3, "toid") = 8
    BY <1>3
  <2>4. Suite[3].snippet = "Invalid free|palloc"
    BY SuiteFacts, Snippets
  <2> QED
    BY <2>2, <2>3, <2>4 DEF Trapped
<1> QED
  <2>1. LawfulLines(3, 1, double_free_ntx, 9, 7)
    BY <1>4, <1>5, <1>7, <1>8 DEF LawfulLines
  <2>2. Len(double_free_ntx) = 9 /\ 9 \in Nat
    BY <1>1
  <2>3. \A k \in 1 .. 9 : Lawful(3, 1, k)
    BY <1>6, <2>1, <2>2, LawfulProgram
  <2> QED
    BY <2>2, <2>3

LEMMA UseAfterFreeLawful == \A k \in 1 .. Len(use_after_free) : Lawful(4, 1, k)
<1>1. /\ Len(use_after_free) = 14
      /\ \A k \in 1 .. 14 :
           use_after_free[k] = <<create("assert"), rootObj(16, "assert"), begin,
                                 alloc("oid", 8), addRange("root", 16), copy("obj", "oid"),
                                 end("abort"), begin, free("obj", 0), print_pass_flag,
                                 write("obj", 0, 8), end("none"), print_fail_flag, close>>[k]
  BY DEF use_after_free, WithDummy, Rooted, Finish
<1>2. \A k \in 1 .. 14 : k \in {1, 2, 3, 4, 5, 6, 7, 8, 9, 10, 11, 12, 13, 14}
  OBVIOUS
<1>3. /\ \A k, v : Known(4, 1, k, v) =
           IF v = "obj" /\ k \in 8 .. 9 THEN "old"
           ELSE IF v = "obj" /\ k \in 10 .. 11 THEN "going"
           ELSE IF v = "root" /\ k \in 3 .. 5 THEN "old"
           ELSE IF v = "oid" /\ k \in 5 .. 6 THEN "new"
           ELSE IF v = "obj" /\ k = 7 THEN "new"
           ELSE "any"
      /\ \A k : Crowded(4, 1, k) = IF k = 2 THEN "empty" ELSE IF k \in 3 .. 4 THEN "few" ELSE "any"
      /\ \A v : Bytes(4, v) = IF v = "root" THEN 16 ELSE IF v = "oid2" THEN Stretch ELSE 8
  BY DEF Known, WithDummyKnows, Crowded, Bytes
<1>4. \A k \in 1 .. 14 : k # 11 /\ use_after_free[k].op # "close" => GoesLawfully(4, 1, k, use_after_free[k])
  BY <1>1, <1>2, <1>3, SizesAssumption DEF GoesLawfully, Legal, RoomFor, Crowds, Assigns, Yields, Becomes, Ends
<1>5. \A k \in 1 .. 14 :
        /\ use_after_free[k].op = "create" <=> k = 1
        /\ use_after_free[k].op # "open"
        /\ use_after_free[k].op = "root" => k = 2
        /\ k = 2 => use_after_free[k].op \in {"root", "begin", "close"}
        /\ use_after_free[k].op # "abort"
        /\ use_after_free[k].op \in Leaving => k \in {4, 5, 9}
        /\ use_after_free[k].op = "end" <=> k \in {7, 12}
        /\ k = 7 => use_after_free[k].handler = "abort"
        /\ k = 12 => use_after_free[k].handler = "none"
  BY <1>1, <1>2 DEF Leaving
<1>6. Suite[4].stages[1] = use_after_free /\ Len(Suite[4].stages) = 1
  BY SuiteFacts
<1>7. \A k \in 1 .. 14 : AtFault(4, 1, k) <=> k = 11
  <2>1. 4 \in 1 .. 16 /\ 1 \in 1 .. Len(Suite[4].stages)
    BY <1>6
  <2>4. \A k \in 1 .. Len(Suite[4].stages[1]) :
          AtFault(4, 1, k) <=> Suite[4].kind = "crash" /\ 1 = Len(Suite[4].stages) /\ k = FaultLine[4]
    BY <2>1, FaultIs
  <2>5. Len(Suite[4].stages[1]) = 14
    BY <1>1, <1>6
  <2>2. Suite[4].kind = "crash"
    BY CrashTests
  <2>3. FaultLine[4] = 11
    BY LineFacts
  <2> QED
    BY <1>2, <1>6, <2>2, <2>3, <2>4, <2>5
<1>8. Trapped(4, 1, 11, use_after_free[11])
  <2>1. 11 \in 1 .. 14
    OBVIOUS
  <2>2. /\ use_after_free[11].op = "write" /\ use_after_free[11].v = "obj"
        /\ use_after_free[11].off = 0 /\ use_after_free[11].w = 8
    BY <1>1, <2>1
  <2>3. Known(4, 1, 11, "obj") = "going" /\ Bytes(4, "obj") = 8
    BY <1>3
  <2>4. Suite[4].snippet = "[fd]"
    BY SuiteFacts, Snippets
  <2> QED
    BY <2>2, <2>3, <2>4 DEF Trapped
<1>9. ASSUME NEW k \in 1 .. 14, NEW j \in 1 .. 14, k < j,
             use_after_free[k].op \in Leaving, use_after_free[j].op = "end"
      PROVE  AbortsLawfully(4, 1, k, use_after_free[k], j)
  <2>1. k \in {4, 5, 9} /\ j \in {7, 12}
    BY <1>5, <1>9
  <2>2. CASE j = 7
    BY <1>5, <1>6, <2>2, HandledAbort
  <2>3. CASE j = 12
    <3>1. use_after_free[j].handler = "none" /\ Crowded(4, 1, j + 1) = "any"
          /\ \A v : Known(4, 1, j + 1, v) = "any"
      BY <1>3, <1>5, <2>3
    <3> QED
      BY <1>6, <3>1, ForgottenAbort
  <2> QED
    BY <2>1, <2>2, <2>3
<1> QED
  <2>1. LawfulLines(4, 1, use_after_free, 14, 11)
    BY <1>4, <1>5, <1>7, <1>8, <1>9 DEF LawfulLines
  <2>2. Len(use_after_free) = 14 /\ 14 \in Nat
    BY <1>1
  <2>3. \A k \in 1 .. 14 : Lawful(4, 1, k)
    BY <1>6, <2>1, <2>2, LawfulProgram
  <2> QED
    BY <2>2, <2>3

LEMMA UseAfterFreeNtxLawful == \A k \in 1 .. Len(use_after_free_ntx) : Lawful(5, 1, k)
<1>1. /\ Len(use_after_free_ntx) = 9
      /\ \A k \in 1 .. 9 :
           use_after_free_ntx[k] = <<create("assert"), rootObj(16, "assert"), new("obj", 8),
                                     copy("toid", "obj"), delete("obj"), print_pass_flag,
                                     write("toid", 0, 8), print_fail_flag, close>>[k]
  BY DEF use_after_free_ntx, Rooted, Finish
<1>2. \A k \in 1 .. 9 : k \in {1, 2, 3, 4, 5, 6, 7, 8, 9}
  OBVIOUS
<1>3. /\ \A k, v : Known(5, 1, k, v) =
           IF v = "obj" /\ k \in 4 .. 5 THEN "old"
           ELSE IF v = "toid" /\ k = 5 THEN "twin"
           ELSE IF v = "toid" /\ k \in 6 .. 7 THEN "stale"
           ELSE "any"
      /\ \A k : Crowded(5, 1, k) = IF k = 2 THEN "empty" ELSE IF k = 3 THEN "few" ELSE "any"
      /\ \A v : Bytes(5, v) = IF v = "root" THEN 16 ELSE IF v = "oid2" THEN Stretch ELSE 8
  BY DEF Known, Crowded, Bytes
<1>4. \A k \in 1 .. 9 : k # 7 /\ use_after_free_ntx[k].op # "close" => GoesLawfully(5, 1, k, use_after_free_ntx[k])
  BY <1>1, <1>2, <1>3, SizesAssumption DEF GoesLawfully, Legal, RoomFor, Crowds, Assigns, Yields, Becomes, Ends
<1>5. \A k \in 1 .. 9 :
        /\ use_after_free_ntx[k].op = "create" <=> k = 1
        /\ use_after_free_ntx[k].op # "open"
        /\ use_after_free_ntx[k].op = "root" => k = 2
        /\ k = 2 => use_after_free_ntx[k].op \in {"root", "begin", "close"}
        /\ use_after_free_ntx[k].op # "abort"
        /\ use_after_free_ntx[k].op \notin Leaving
  BY <1>1, <1>2 DEF Leaving
<1>6. Suite[5].stages[1] = use_after_free_ntx /\ Len(Suite[5].stages) = 1
  BY SuiteFacts
<1>7. \A k \in 1 .. 9 : AtFault(5, 1, k) <=> k = 7
  <2>1. 5 \in 1 .. 16 /\ 1 \in 1 .. Len(Suite[5].stages)
    BY <1>6
  <2>4. \A k \in 1 .. Len(Suite[5].stages[1]) :
          AtFault(5, 1, k) <=> Suite[5].kind = "crash" /\ 1 = Len(Suite[5].stages) /\ k = FaultLine[5]
    BY <2>1, FaultIs
  <2>5. Len(Suite[5].stages[1]) = 9
    BY <1>1, <1>6
  <2>2. Suite[5].kind = "crash"
    BY CrashTests
  <2>3. FaultLine[5] = 7
    BY LineFacts
  <2> QED
    BY <1>2, <1>6, <2>2, <2>3, <2>4, <2>5
<1>8. Trapped(5, 1, 7, use_after_free_ntx[7])
  <2>1. 7 \in 1 .. 9
    OBVIOUS
  <2>2. /\ use_after_free_ntx[7].op = "write" /\ use_after_free_ntx[7].v = "toid"
        /\ use_after_free_ntx[7].off = 0 /\ use_after_free_ntx[7].w = 8
    BY <1>1, <2>1
  <2>3. Known(5, 1, 7, "toid") = "stale" /\ Bytes(5, "toid") = 8
    BY <1>3
  <2>4. Suite[5].snippet = "[fd]"
    BY SuiteFacts, Snippets
  <2> QED
    BY <2>2, <2>3, <2>4 DEF Trapped
<1> QED
  <2>1. LawfulLines(5, 1, use_after_free_ntx, 9, 7)
    BY <1>4, <1>5, <1>7, <1>8 DEF LawfulLines
  <2>2. Len(use_after_free_ntx) = 9 /\ 9 \in Nat
    BY <1>1
  <2>3. \A k \in 1 .. 9 : Lawful(5, 1, k)
    BY <1>6, <2>1, <2>2, LawfulProgram
  <2> QED
    BY <2>2, <2>3

LEMMA UseAfterReallocLawful == \A k \in 1 .. Len(use_after_realloc) : Lawful(6, 1, k)
<1>1. /\ Len(use_after_realloc) = 12
      /\ \A k \in 1 .. 12 :
           use_after_realloc[k] = <<create("assert"), begin, alloc("oid1", 16), end("abort"),
                                    begin, realloc("oid2", "oid1", Stretch),
                                    write("oid2", 0, 8), print_pass_flag, write("oid1", 0, 8),
                                    print_fail_flag, end("failabort"), close>>[k]
  BY DEF use_after_realloc
<1>2. \A k \in 1 .. 12 : k \in {1, 2, 3, 4, 5, 6, 7, 8, 9, 10, 11, 12}
  OBVIOUS
<1>3. /\ \A k, v : Known(6, 1, k, v) =
           IF v = "oid1" /\ k = 4 THEN "new"
           ELSE IF v = "oid1" /\ k \in 5 .. 6 THEN "old"
           ELSE IF v = "oid1" /\ k \in 7 .. 9 THEN "going"
           ELSE IF v = "oid2" /\ k = 7 THEN "new"
           ELSE "any"
      /\ \A k : Crowded(6, 1, k) = IF k \in 2 .. 3 THEN "empty" ELSE IF k \in 4 .. 6 THEN "few" ELSE "any"
      /\ \A v : Bytes(6, v) = IF v = "root" THEN 16 ELSE IF v = "oid2" THEN Stretch ELSE 16
  BY DEF Known, Crowded, Bytes
<1>4. \A k \in 1 .. 12 : k # 9 /\ use_after_realloc[k].op # "close" => GoesLawfully(6, 1, k, use_after_realloc[k])
  BY <1>1, <1>2, <1>3, SizesAssumption DEF GoesLawfully, Legal, RoomFor, Crowds, Assigns, Yields, Becomes, Ends
<1>5. \A k \in 1 .. 12 :
        /\ use_after_realloc[k].op = "create" <=> k = 1
        /\ use_after_realloc[k].op # "open"
        /\ use_after_realloc[k].op = "root" => k = 2
        /\ k = 2 => use_after_realloc[k].op \in {"root", "begin", "close"}
        /\ use_after_realloc[k].op # "abort"
        /\ use_after_realloc[k].op \in Leaving => k \in {3, 6}
        /\ use_after_realloc[k].op = "end" <=> k \in {4, 11}
        /\ k = 4 => use_after_realloc[k].handler = "abort"
        /\ k = 11 => use_after_realloc[k].handler = "failabort"
  BY <1>1, <1>2 DEF Leaving
<1>6. Suite[6].stages[1] = use_after_realloc /\ Len(Suite[6].stages) = 1
  BY SuiteFacts
<1>7. \A k \in 1 .. 12 : AtFault(6, 1, k) <=> k = 9
  <2>1. 6 \in 1 .. 16 /\ 1 \in 1 .. Len(Suite[6].stages)
    BY <1>6
  <2>4. \A k \in 1 .. Len(Suite[6].stages[1]) :
          AtFault(6, 1, k) <=> Suite[6].kind = "crash" /\ 1 = Len(Suite[6].stages) /\ k = FaultLine[6]
    BY <2>1, FaultIs
  <2>5. Len(Suite[6].stages[1]) = 12
    BY <1>1, <1>6
  <2>2. Suite[6].kind = "crash"
    BY CrashTests
  <2>3. FaultLine[6] = 9
    BY LineFacts
  <2> QED
    BY <1>2, <1>6, <2>2, <2>3, <2>4, <2>5
<1>8. Trapped(6, 1, 9, use_after_realloc[9])
  <2>1. 9 \in 1 .. 12
    OBVIOUS
  <2>2. /\ use_after_realloc[9].op = "write" /\ use_after_realloc[9].v = "oid1"
        /\ use_after_realloc[9].off = 0 /\ use_after_realloc[9].w = 8
    BY <1>1, <2>1
  <2>3. Known(6, 1, 9, "oid1") = "going" /\ Bytes(6, "oid1") = 16
    BY <1>3
  <2>4. Suite[6].snippet = "[fd]"
    BY SuiteFacts, Snippets
  <2> QED
    BY <2>2, <2>3, <2>4 DEF Trapped
<1>9. ASSUME NEW k \in 1 .. 12, NEW j \in 1 .. 12, k < j,
             use_after_realloc[k].op \in Leaving, use_after_realloc[j].op = "end"
      PROVE  AbortsLawfully(6, 1, k, use_after_realloc[k], j)
  <2>1. k \in {3, 6} /\ j \in {4, 11}
    BY <1>5, <1>9
  <2>2. CASE j = 4
    BY <1>5, <1>6, <2>2, HandledAbort
  <2>3. CASE j = 11
    BY <1>5, <1>6, <2>3, HandledAbort
  <2> QED
    BY <2>1, <2>2, <2>3
<1> QED
  <2>1. LawfulLines(6, 1, use_after_realloc, 12, 9)
    BY <1>4, <1>5, <1>7, <1>8, <1>9 DEF LawfulLines
  <2>2. Len(use_after_realloc) = 12 /\ 12 \in Nat
    BY <1>1
  <2>3. \A k \in 1 .. 12 : Lawful(6, 1, k)
    BY <1>6, <2>1, <2>2, LawfulProgram
  <2> QED
    BY <2>2, <2>3

LEMMA OverflowLawful == \A k \in 1 .. Len(overflow) : Lawful(7, 1, k)
<1>1. /\ Len(overflow) = 13
      /\ \A k \in 1 .. 13 :
           overflow[k] = <<create("assert"), rootObj(16, "assert"), begin, alloc("oid", 16),
                           addRange("root", 16), copy("obj", "oid"), end("abort"),
                           write("obj", 0, 8), write("obj", 8, 8), print_pass_flag,
                           write("obj", 16, 8), print_fail_flag, close>>[k]
  BY DEF overflow, WithDummy, Rooted, Finish
<1>2. \A k \in 1 .. 13 : k \in {1, 2, 3, 4, 5, 6, 7, 8, 9, 10, 11, 12, 13}
  OBVIOUS
<1>3. /\ \A k, v : Known(7, 1, k, v) =
           IF v = "obj" /\ k \in 8 .. 11 THEN "old"
           ELSE IF v = "root" /\ k \in 3 .. 5 THEN "old"
           ELSE IF v = "oid" /\ k \in 5 .. 6 THEN "new"
           ELSE IF v = "obj" /\ k = 7 THEN "new"
           ELSE "any"
      /\ \A k : Crowded(7, 1, k) = IF k = 2 THEN "empty" ELSE IF k \in 3 .. 4 THEN "few" ELSE "any"
      /\ \A v : Bytes(7, v) = IF v = "root" THEN 16 ELSE IF v = "oid2" THEN Stretch ELSE 16
  BY DEF Known, WithDummyKnows, Crowded, Bytes
<1>4. \A k \in 1 .. 13 : k # 11 /\ overflow[k].op # "close" => GoesLawfully(7, 1, k, overflow[k])
  BY <1>1, <1>2, <1>3, SizesAssumption DEF GoesLawfully, Legal, RoomFor, Crowds, Assigns, Yields, Becomes, Ends
<1>5. \A k \in 1 .. 13 :
        /\ overflow[k].op = "create" <=> k = 1
        /\ overflow[k].op # "open"
        /\ overflow[k].op = "root" => k = 2
        /\ k = 2 => overflow[k].op \in {"root", "begin", "close"}
        /\ overflow[k].op # "abort"
        /\ overflow[k].op \in Leaving => k \in {4, 5}
        /\ overflow[k].op = "end" <=> k \in {7}
        /\ k = 7 => overflow[k].handler = "abort"
  BY <1>1, <1>2 DEF Leaving
<1>6. Suite[7].stages[1] = overflow /\ Len(Suite[7].stages) = 1
  BY SuiteFacts
<1>7. \A k \in 1 .. 13 : AtFault(7, 1, k) <=> k = 11
  <2>1. 7 \in 1 .. 16 /\ 1 \in 1 .. Len(Suite[7].stages)
    BY <1>6
  <2>4. \A k \in 1 .. Len(Suite[7].stages[1]) :
          AtFault(7, 1, k) <=> Suite[7].kind = "crash" /\ 1 = Len(Suite[7].stages) /\ k = FaultLine[7]
    BY <2>1, FaultIs
  <2>5. Len(Suite[7].stages[1]) = 13
    BY <1>1, <1>6
  <2>2. Suite[7].kind = "crash"
    BY CrashTests
  <2>3. FaultLine[7] = 11
    BY LineFacts
  <2> QED
    BY <1>2, <1>6, <2>2, <2>3, <2>4, <2>5
<1>8. Trapped(7, 1, 11, overflow[11])
  <2>1. 11 \in 1 .. 13
    OBVIOUS
  <2>2. /\ overflow[11].op = "write" /\ overflow[11].v = "obj"
        /\ overflow[11].off = 16 /\ overflow[11].w = 8
    BY <1>1, <2>1
  <2>3. Known(7, 1, 11, "obj") = "old" /\ Bytes(7, "obj") = 16
    BY <1>3
  <2>4. Suite[7].snippet = "00[fa]"
    BY SuiteFacts, Snippets
  <2> QED
    BY <2>2, <2>3, <2>4 DEF Trapped
<1>9. ASSUME NEW k \in 1 .. 13, NEW j \in 1 .. 13, k < j,
             overflow[k].op \in Leaving, overflow[j].op = "end"
      PROVE  AbortsLawfully(7, 1, k, overflow[k], j)
  <2>1. k \in {4, 5} /\ j \in {7}
    BY <1>5, <1>9
  <2>2. CASE j = 7
    BY <1>5, <1>6, <2>2, HandledAbort
  <2> QED
    BY <2>1, <2>2
<1> QED
  <2>1. LawfulLines(7, 1, overflow, 13, 11)
    BY <1>4, <1>5, <1>7, <1>8, <1>9 DEF LawfulLines
  <2>2. Len(overflow) = 13 /\ 13 \in Nat
    BY <1>1
  <2>3. \A k \in 1 .. 13 : Lawful(7, 1, k)
    BY <1>6, <2>1, <2>2, LawfulProgram
  <2> QED
    BY <2>2, <2>3

LEMMA OverflowNtxLawful == \A k \in 1 .. Len(overflow_ntx) : Lawful(8, 1, k)
<1>1. /\ Len(overflow_ntx) = 9
      /\ \A k \in 1 .. 9 :
           overflow_ntx[k] = <<create("assert"), rootObj(16, "abort"), new("obj", 16),
                               write("obj", 0, 8), write("obj", 8, 8), print_pass_flag,
                               write("obj", 16, 8), print_fail_flag, close>>[k]
  BY DEF overflow_ntx, Finish
<1>2. \A k \in 1 .. 9 : k \in {1, 2, 3, 4, 5, 6, 7, 8, 9}
  OBVIOUS
<1>3. /\ \A k, v : Known(8, 1, k, v) =
           IF v = "obj" /\ k \in 4 .. 7 THEN "old"
           ELSE "any"
      /\ \A k : Crowded(8, 1, k) = IF k = 2 THEN "empty" ELSE IF k = 3 THEN "few" ELSE "any"
      /\ \A v : Bytes(8, v) = IF v = "root" THEN 16 ELSE IF v = "oid2" THEN Stretch ELSE 16
  BY DEF Known, Crowded, Bytes
<1>4. \A k \in 1 .. 9 : k # 7 /\ overflow_ntx[k].op # "close" => GoesLawfully(8, 1, k, overflow_ntx[k])
  BY <1>1, <1>2, <1>3, SizesAssumption DEF GoesLawfully, Legal, RoomFor, Crowds, Assigns, Yields, Becomes, Ends
<1>5. \A k \in 1 .. 9 :
        /\ overflow_ntx[k].op = "create" <=> k = 1
        /\ overflow_ntx[k].op # "open"
        /\ overflow_ntx[k].op = "root" => k = 2
        /\ k = 2 => overflow_ntx[k].op \in {"root", "begin", "close"}
        /\ overflow_ntx[k].op # "abort"
        /\ overflow_ntx[k].op \notin Leaving
  BY <1>1, <1>2 DEF Leaving
<1>6. Suite[8].stages[1] = overflow_ntx /\ Len(Suite[8].stages) = 1
  BY SuiteFacts
<1>7. \A k \in 1 .. 9 : AtFault(8, 1, k) <=> k = 7
  <2>1. 8 \in 1 .. 16 /\ 1 \in 1 .. Len(Suite[8].stages)
    BY <1>6
  <2>4. \A k \in 1 .. Len(Suite[8].stages[1]) :
          AtFault(8, 1, k) <=> Suite[8].kind = "crash" /\ 1 = Len(Suite[8].stages) /\ k = FaultLine[8]
    BY <2>1, FaultIs
  <2>5. Len(Suite[8].stages[1]) = 9
    BY <1>1, <1>6
  <2>2. Suite[8].kind = "crash"
    BY CrashTests
  <2>3. FaultLine[8] = 7
    BY LineFacts
  <2> QED
    BY <1>2, <1>6, <2>2, <2>3, <2>4, <2>5
<1>8. Trapped(8, 1, 7, overflow_ntx[7])
  <2>1. 7 \in 1 .. 9
    OBVIOUS
  <2>2. /\ overflow_ntx[7].op = "write" /\ overflow_ntx[7].v = "obj"
        /\ overflow_ntx[7].off = 16 /\ overflow_ntx[7].w = 8
    BY <1>1, <2>1
  <2>3. Known(8, 1, 7, "obj") = "old" /\ Bytes(8, "obj") = 16
    BY <1>3
  <2>4. Suite[8].snippet = "00[fa]"
    BY SuiteFacts, Snippets
  <2> QED
    BY <2>2, <2>3, <2>4 DEF Trapped
<1> QED
  <2>1. LawfulLines(8, 1, overflow_ntx, 9, 7)
    BY <1>4, <1>5, <1>7, <1>8 DEF LawfulLines
  <2>2. Len(overflow_ntx) = 9 /\ 9 \in Nat
    BY <1>1
  <2>3. \A k \in 1 .. 9 : Lawful(8, 1, k)
    BY <1>6, <2>1, <2>2, LawfulProgram
  <2> QED
    BY <2>2, <2>3

LEMMA RootOverflowLawful == \A k \in 1 .. Len(root_overflow) : Lawful(9, 1, k)
<1>1. /\ Len(root_overflow) = 8
      /\ \A k \in 1 .. 8 :
           root_overflow[k] = <<create("assert"), rootObj(16, "assert"), write("root", 0, 8),
                                write("root", 8, 8), print_pass_flag, write("root", 16, 8),
                                print_fail_flag, close>>[k]
  BY DEF root_overflow, Rooted, Finish
<1>2. \A k \in 1 .. 8 : k \in {1, 2, 3, 4, 5, 6, 7, 8}
  OBVIOUS
<1>3. /\ \A k, v : Known(9, 1, k, v) =
           IF v = "root" /\ k \in 3 .. 6 THEN "old"
           ELSE "any"
      /\ \A k : Crowded(9, 1, k) = IF k = 2 THEN "empty" ELSE "any"
      /\ \A v : Bytes(9, v) = IF v = "root" THEN 16 ELSE IF v = "oid2" THEN Stretch ELSE 16
  BY DEF Known, Crowded, Bytes
<1>4. \A k \in 1 .. 8 : k # 6 /\ root_overflow[k].op # "close" => GoesLawfully(9, 1, k, root_overflow[k])
  BY <1>1, <1>2, <1>3, SizesAssumption DEF GoesLawfully, Legal, RoomFor, Crowds, Assigns, Yields, Becomes, Ends
<1>5. \A k \in 1 .. 8 :
        /\ root_overflow[k].op = "create" <=> k = 1
        /\ root_overflow[k].op # "open"
        /\ root_overflow[k].op = "root" => k = 2
        /\ k = 2 => root_overflow[k].op \in {"root", "begin", "close"}
        /\ root_overflow[k].op # "abort"
        /\ root_overflow[k].op \notin Leaving
  BY <1>1, <1>2 DEF Leaving
<1>6. Suite[9].stages[1] = root_overflow /\ Len(Suite[9].stages) = 1
  BY SuiteFacts
<1>7. \A k \in 1 .. 8 : AtFault(9, 1, k) <=> k = 6
  <2>1. 9 \in 1 .. 16 /\ 1 \in 1 .. Len(Suite[9].stages)
    BY <1>6
  <2>4. \A k \in 1 .. Len(Suite[9].stages[1]) :
          AtFault(9, 1, k) <=> Suite[9].kind = "crash" /\ 1 = Len(Suite[9].stages) /\ k = FaultLine[9]
    BY <2>1, FaultIs
  <2>5. Len(Suite[9].stages[1]) = 8
    BY <1>1, <1>6
  <2>2. Suite[9].kind = "crash"
    BY CrashTests
  <2>3. FaultLine[9] = 6
    BY LineFacts
  <2> QED
    BY <1>2, <1>6, <2>2, <2>3, <2>4, <2>5
<1>8. Trapped(9, 1, 6, root_overflow[6])
  <2>1. 6 \in 1 .. 8
    OBVIOUS
  <2>2. /\ root_overflow[6].op = "write" /\ root_overflow[6].v = "root"
        /\ root_overflow[6].off = 16 /\ root_overflow[6].w = 8
    BY <1>1, <2>1
  <2>3. Known(9, 1, 6, "root") = "old" /\ Bytes(9, "root") = 16
    BY <1>3
  <2>4. Suite[9].snippet = "00[fa]"
    BY SuiteFacts, Snippets
  <2> QED
    BY <2>2, <2>3, <2>4 DEF Trapped
<1> QED
  <2>1. LawfulLines(9, 1, root_overflow, 8, 6)
    BY <1>4, <1>5, <1>7, <1>8 DEF LawfulLines
  <2>2. Len(root_overflow) = 8 /\ 8 \in Nat
    BY <1>1
  <2>3. \A k \in 1 .. 8 : Lawful(9, 1, k)
    BY <1>6, <2>1, <2>2, LawfulProgram
  <2> QED
    BY <2>2, <2>3

LEMMA CreatePoolLawful == \A k \in 1 .. Len(createPool) : Lawful(10, 1, k)
<1>1. /\ Len(createPool) = 3
      /\ \A k \in 1 .. 3 :
           createPool[k] = <<create("assert"), rootObj(16, "assert"), close>>[k]
  BY DEF createPool, Rooted
<1>2. \A k \in 1 .. 3 : k \in {1, 2, 3}
  OBVIOUS
<1>3. /\ \A k, v : Known(10, 1, k, v) = "any"
      /\ \A k : Crowded(10, 1, k) = IF k = 2 THEN "empty" ELSE "any"
      /\ \A v : Bytes(10, v) = IF v = "root" THEN 16 ELSE IF v = "oid2" THEN Stretch ELSE 16
  BY DEF Known, Crowded, Bytes
<1>4. \A k \in 1 .. 3 : createPool[k].op # "close" => GoesLawfully(10, 1, k, createPool[k])
  BY <1>1, <1>2, <1>3, SizesAssumption DEF GoesLawfully, Legal, RoomFor, Crowds, Assigns, Yields, Becomes, Ends
<1>5. \A k \in 1 .. 3 :
        /\ createPool[k].op = "create" <=> k = 1
        /\ createPool[k].op # "open"
        /\ createPool[k].op = "root" => k = 2
        /\ k = 2 => createPool[k].op \in {"root", "begin", "close"}
        /\ createPool[k].op # "abort"
        /\ createPool[k].op \notin Leaving
  BY <1>1, <1>2 DEF Leaving
<1>6. Suite[10].stages[1] = createPool /\ Len(Suite[10].stages) = 2
  BY SuiteFacts
<1>7. \A k \in 1 .. 3 : AtFault(10, 1, k) <=> k = 0
  <2>1. 10 \in 1 .. 16 /\ 1 \in 1 .. Len(Suite[10].stages)
    BY <1>6
  <2>4. \A k \in 1 .. Len(Suite[10].stages[1]) :
          AtFault(10, 1, k) <=> Suite[10].kind = "crash" /\ 1 = Len(Suite[10].stages) /\ k = FaultLine[10]
    BY <2>1, FaultIs
  <2>5. Len(Suite[10].stages[1]) = 3
    BY <1>1, <1>6
  <2> QED
    BY <1>2, <1>6, <2>4, <2>5
<1> QED
  <2>1. LawfulLines(10, 1, createPool, 3, 0)
    BY <1>4, <1>5, <1>7 DEF LawfulLines
  <2>2. Len(createPool) = 3 /\ 3 \in Nat
    BY <1>1
  <2>3. \A k \in 1 .. 3 : Lawful(10, 1, k)
    BY <1>6, <2>1, <2>2, LawfulProgram
  <2> QED
    BY <2>2, <2>3

LEMMA AttemptOverflowLawful == \A k \in 1 .. Len(attemptOverflow) : Lawful(10, 2, k)
<1>1. /\ Len(attemptOverflow) = 8
      /\ \A k \in 1 .. 8 :
           attemptOverflow[k] = <<openPool("assert"), rootObj(16, "assert"),
                                  write("root", 0, 8), write("root", 8, 8), print_pass_flag,
                                  write("root", 16, 8), print_fail_flag, close>>[k]
  BY DEF attemptOverflow, Finish
<1>2. \A k \in 1 .. 8 : k \in {1, 2, 3, 4, 5, 6, 7, 8}
  OBVIOUS
<1>3. /\ \A k, v : Known(10, 2, k, v) =
           IF v = "root" /\ k \in 3 .. 6 THEN "old"
           ELSE "any"
      /\ \A k : Crowded(10, 2, k) = "any"
      /\ \A v : Bytes(10, v) = IF v = "root" THEN 16 ELSE IF v = "oid2" THEN Stretch ELSE 16
  BY DEF Known, Crowded, Bytes
<1>4. \A k \in 1 .. 8 : k # 6 /\ attemptOverflow[k].op # "close" => GoesLawfully(10, 2, k, attemptOverflow[k])
  BY <1>1, <1>2, <1>3, SizesAssumption DEF GoesLawfully, Legal, RoomFor, Crowds, Assigns, Yields, Becomes, Ends
<1>5. \A k \in 1 .. 8 :
        /\ attemptOverflow[k].op = "open" <=> k = 1
        /\ attemptOverflow[k].op # "create"
        /\ attemptOverflow[k].op = "root" => k = 2
        /\ k = 2 => attemptOverflow[k].op \in {"root", "begin", "close"}
        /\ attemptOverflow[k].op # "abort"
        /\ attemptOverflow[k].op \notin Leaving
  BY <1>1, <1>2 DEF Leaving
<1>6. Suite[10].stages[2] = attemptOverflow /\ Len(Suite[10].stages) = 2
  BY SuiteFacts
<1>7. \A k \in 1 .. 8 : AtFault(10, 2, k) <=> k = 6
  <2>1. 10 \in 1 .. 16 /\ 2 \in 1 .. Len(Suite[10].stages)
    BY <1>6
  <2>4. \A k \in 1 .. Len(Suite[10].stages[2]) :
          AtFault(10, 2, k) <=> Suite[10].kind = "crash" /\ 2 = Len(Suite[10].stages) /\ k = FaultLine[10]
    BY <2>1, FaultIs
  <2>5. Len(Suite[10].stages[2]) = 8
    BY <1>1, <1>6
  <2>2. Suite[10].kind = "crash"
    BY CrashTests
  <2>3. FaultLine[10] = 6
    BY LineFacts
  <2> QED
    BY <1>2, <1>6, <2>2, <2>3, <2>4, <2>5
<1>8. Trapped(10, 2, 6, attemptOverflow[6])
  <2>1. 6 \in 1 .. 8
    OBVIOUS
  <2>2. /\ attemptOverflow[6].op = "write" /\ attemptOverflow[6].v = "root"
        /\ attemptOverflow[6].off = 16 /\ attemptOverflow[6].w = 8
    BY <1>1, <2>1
  <2>3. Known(10, 2, 6, "root") = "old" /\ Bytes(10, "root") = 16
    BY <1>3
  <2>4. Suite[10].snippet = "00[fa]"
    BY SuiteFacts, Snippets
  <2> QED
    BY <2>2, <2>3, <2>4 DEF Trapped
<1> QED
  <2>1. LawfulLines(10, 2, attemptOverflow, 8, 6)
    BY <1>4, <1>5, <1>7, <1>8 DEF LawfulLines
  <2>2. Len(attemptOverflow) = 8 /\ 8 \in Nat
    BY <1>1
  <2>3. \A k \in 1 .. 8 : Lawful(10, 2, k)
    BY <1>6, <2>1, <2>2, LawfulProgram
  <2> QED
    BY <2>2, <2>3

LEMMA RootUnderflowLawful == \A k \in 1 .. Len(root_underflow) : Lawful(11, 1, k)
<1>1. /\ Len(root_underflow) = 8
      /\ \A k \in 1 .. 8 :
           root_underflow[k] = <<create("assert"), rootObj(16, "assert"), write("root", 0, 8),
                                 write("root", 8, 8), print_pass_flag, write("root", -8, 8),
                                 print_fail_flag, close>>[k]
  BY DEF root_underflow, Rooted, Finish
<1>2. \A k \in 1 .. 8 : k \in {1, 2, 3, 4, 5, 6, 7, 8}
  OBVIOUS
<1>3. /\ \A k, v : Known(11, 1, k, v) =
           IF v = "root" /\ k \in 3 .. 6 THEN "old"
           ELSE "any"
      /\ \A k : Crowded(11, 1, k) = IF k = 2 THEN "empty" ELSE "any"
      /\ \A v : Bytes(11, v) = IF v = "root" THEN 16 ELSE IF v = "oid2" THEN Stretch ELSE 16
  BY DEF Known, Crowded, Bytes
<1>4. \A k \in 1 .. 8 : k # 6 /\ root_underflow[k].op # "close" => GoesLawfully(11, 1, k, root_underflow[k])
  BY <1>1, <1>2, <1>3, SizesAssumption DEF GoesLawfully, Legal, RoomFor, Crowds, Assigns, Yields, Becomes, Ends
<1>5. \A k \in 1 .. 8 :
        /\ root_underflow[k].op = "create" <=> k = 1
        /\ root_underflow[k].op # "open"
        /\ root_underflow[k].op = "root" => k = 2
        /\ k = 2 => root_underflow[k].op \in {"root", "begin", "close"}
        /\ root_underflow[k].op # "abort"
        /\ root_underflow[k].op \notin Leaving
  BY <1>1, <1>2 DEF Leaving
<1>6. Suite[11].stages[1] = root_underflow /\ Len(Suite[11].stages) = 1
  BY SuiteFacts
<1>7. \A k \in 1 .. 8 : AtFault(11, 1, k) <=> k = 6
  <2>1. 11 \in 1 .. 16 /\ 1 \in 1 .. Len(Suite[11].stages)
    BY <1>6
  <2>4. \A k \in 1 .. Len(Suite[11].stages[1]) :
          AtFault(11, 1, k) <=> Suite[11].kind = "crash" /\ 1 = Len(Suite[11].stages) /\ k = FaultLine[11]
    BY <2>1, FaultIs
  <2>5. Len(Suite[11].stages[1]) = 8
    BY <1>1, <1>6
  <2>2. Suite[11].kind = "crash"
    BY CrashTests
  <2>3. FaultLine[11] = 6
    BY LineFacts
  <2> QED
    BY <1>2, <1>6, <2>2, <2>3, <2>4, <2>5
<1>8. Trapped(11, 1, 6, root_underflow[6])
  <2>1. 6 \in 1 .. 8
    OBVIOUS
  <2>2. /\ root_underflow[6].op = "write" /\ root_underflow[6].v = "root"
        /\ root_underflow[6].off = -8 /\ root_underflow[6].w = 8
    BY <1>1, <2>1
  <2>3. Known(11, 1, 6, "root") = "old" /\ Bytes(11, "root") = 16
    BY <1>3
  <2>4. Suite[11].snippet = "[fa]"
    BY SuiteFacts, Snippets
  <2> QED
    BY <2>2, <2>3, <2>4 DEF Trapped
<1> QED
  <2>1. LawfulLines(11, 1, root_underflow, 8, 6)
    BY <1>4, <1>5, <1>7, <1>8 DEF LawfulLines
  <2>2. Len(root_underflow) = 8 /\ 8 \in Nat
    BY <1>1
  <2>3. \A k \in 1 .. 8 : Lawful(11, 1, k)
    BY <1>6, <2>1, <2>2, LawfulProgram
  <2> QED
    BY <2>2, <2>3

LEMMA Int32Lawful == \A k \in 1 .. Len(int32) : Lawful(12, 1, k)
<1>1. /\ Len(int32) = 7
      /\ \A k \in 1 .. 7 :
           int32[k] = <<create("assert"), rootObj(4, "assert"), write("root", 0, 4),
                        print_pass_flag, write("root", 0, 8), print_fail_flag, close>>[k]
  BY DEF int32, Rooted, Finish
<1>2. \A k \in 1 .. 7 : k \in {1, 2, 3, 4, 5, 6, 7}
  OBVIOUS
<1>3. /\ \A k, v : Known(12, 1, k, v) =
           IF v = "root" /\ k \in 3 .. 5 THEN "old"
           ELSE "any"
      /\ \A k : Crowded(12, 1, k) = IF k = 2 THEN "empty" ELSE "any"
      /\ \A v : Bytes(12, v) = IF v = "root" THEN 4 ELSE IF v = "oid2" THEN Stretch ELSE 16
  BY DEF Known, Crowded, Bytes
<1>4. \A k \in 1 .. 7 : k # 5 /\ int32[k].op # "close" => GoesLawfully(12, 1, k, int32[k])
  BY <1>1, <1>2, <1>3, SizesAssumption DEF GoesLawfully, Legal, RoomFor, Crowds, Assigns, Yields, Becomes, Ends
<1>5. \A k \in 1 .. 7 :
        /\ int32[k].op = "create" <=> k = 1
        /\ int32[k].op # "open"
        /\ int32[k].op = "root" => k = 2
        /\ k = 2 => int32[k].op \in {"root", "begin", "close"}
        /\ int32[k].op # "abort"
        /\ int32[k].op \notin Leaving
  BY <1>1, <1>2 DEF Leaving
<1>6. Suite[12].stages[1] = int32 /\ Len(Suite[12].stages) = 1
  BY SuiteFacts
<1>7. \A k \in 1 .. 7 : AtFault(12, 1, k) <=> k = 5
  <2>1. 12 \in 1 .. 16 /\ 1 \in 1 .. Len(Suite[12].stages)
    BY <1>6
  <2>4. \A k \in 1 .. Len(Suite[12].stages[1]) :
          AtFault(12, 1, k) <=> Suite[12].kind = "crash" /\ 1 = Len(Suite[12].stages) /\ k = FaultLine[12]
    BY <2>1, FaultIs
  <2>5. Len(Suite[12].stages[1]) = 7
    BY <1>1, <1>6
  <2>2. Suite[12].kind = "crash"
    BY CrashTests
  <2>3. FaultLine[12] = 5
    BY LineFacts
  <2> QED
    BY <1>2, <1>6, <2>2, <2>3, <2>4, <2>5
<1>8. Trapped(12, 1, 5, int32[5])
  <2>1. 5 \in 1 .. 7
    OBVIOUS
  <2>2. /\ int32[5].op = "write" /\ int32[5].v = "root"
        /\ int32[5].off = 0 /\ int32[5].w = 8
    BY <1>1, <2>1
  <2>3. Known(12, 1, 5, "root") = "old" /\ Bytes(12, "root") = 4
    BY <1>3
  <2>4. Suite[12].snippet = "[04]"
    BY SuiteFacts, Snippets
  <2> QED
    BY <2>2, <2>3, <2>4 DEF Trapped
<1> QED
  <2>1. LawfulLines(12, 1, int32, 7, 5)
    BY <1>4, <1>5, <1>7, <1>8 DEF LawfulLines
  <2>2. Len(int32) = 7 /\ 7 \in Nat
    BY <1>1
  <2>3. \A k \in 1 .. 7 : Lawful(12, 1, k)
    BY <1>6, <2>1, <2>2, LawfulProgram
  <2> QED
    BY <2>2, <2>3

LEMMA AllocTxAbortLawful == \A k \in 1 .. Len(alloc_tx_abort) : Lawful(13, 1, k)
<1>1. /\ Len(alloc_tx_abort) = 9
      /\ \A k \in 1 .. 9 :
           alloc_tx_abort[k] = <<create("assert"), begin, alloc("oid", 16), abortTx,
                                 end("none"), print_pass_flag, write("oid", 0, 8),
                                 print_fail_flag, close>>[k]
  BY DEF alloc_tx_abort, Finish
<1>2. \A k \in 1 .. 9 : k \in {1, 2, 3, 4, 5, 6, 7, 8, 9}
  OBVIOUS
<1>3. /\ \A k, v : Known(13, 1, k, v) =
           IF v = "oid" /\ k \in 1 .. 3 THEN "none"
           ELSE IF v = "saved" /\ k \in 3 .. 4 THEN "none"
           ELSE IF v = "oid" /\ k = 4 THEN "new"
           ELSE IF v = "oid" /\ k = 5 THEN "never"
           ELSE IF v = "oid" /\ k \in 6 .. 7 THEN "stale"
           ELSE "any"
      /\ \A k : Crowded(13, 1, k) = IF k \in 2 .. 3 THEN "empty" ELSE "any"
      /\ \A v : Bytes(13, v) = IF v = "root" THEN 16 ELSE IF v = "oid2" THEN Stretch ELSE 16
  BY DEF Known, Crowded, Bytes
<1>4. \A k \in 1 .. 9 : k # 7 /\ alloc_tx_abort[k].op \notin {"abort", "close"} => GoesLawfully(13, 1, k, alloc_tx_abort[k])
  BY <1>1, <1>2, <1>3, SizesAssumption DEF GoesLawfully, Legal, RoomFor, Crowds, Assigns, Yields, Becomes, Ends
<1>5. \A k \in 1 .. 9 :
        /\ alloc_tx_abort[k].op = "create" <=> k = 1
        /\ alloc_tx_abort[k].op # "open"
        /\ alloc_tx_abort[k].op = "root" => k = 2
        /\ k = 2 => alloc_tx_abort[k].op \in {"root", "begin", "close"}
        /\ alloc_tx_abort[k].op = "abort" => k = 4
        /\ alloc_tx_abort[k].op \in Leaving => k \in {3, 4}
        /\ alloc_tx_abort[k].op = "end" <=> k \in {5}
        /\ k = 5 => alloc_tx_abort[k].handler = "none"
  BY <1>1, <1>2 DEF Leaving
<1>6. Suite[13].stages[1] = alloc_tx_abort /\ Len(Suite[13].stages) = 1
  BY SuiteFacts
<1>7. \A k \in 1 .. 9 : AtFault(13, 1, k) <=> k = 7
  <2>1. 13 \in 1 .. 16 /\ 1 \in 1 .. Len(Suite[13].stages)
    BY <1>6
  <2>4. \A k \in 1 .. Len(Suite[13].stages[1]) :
          AtFault(13, 1, k) <=> Suite[13].kind = "crash" /\ 1 = Len(Suite[13].stages) /\ k = FaultLine[13]
    BY <2>1, FaultIs
  <2>5. Len(Suite[13].stages[1]) = 9
    BY <1>1, <1>6
  <2>2. Suite[13].kind = "crash"
    BY CrashTests
  <2>3. FaultLine[13] = 7
    BY LineFacts
  <2> QED
    BY <1>2, <1>6, <2>2, <2>3, <2>4, <2>5
<1>8. Trapped(13, 1, 7, alloc_tx_abort[7])
  <2>1. 7 \in 1 .. 9
    OBVIOUS
  <2>2. /\ alloc_tx_abort[7].op = "write" /\ alloc_tx_abort[7].v = "oid"
        /\ alloc_tx_abort[7].off = 0 /\ alloc_tx_abort[7].w = 8
    BY <1>1, <2>1
  <2>3. Known(13, 1, 7, "oid") = "stale" /\ Bytes(13, "oid") = 16
    BY <1>3
  <2>4. Suite[13].snippet = "[fd]"
    BY SuiteFacts, Snippets
  <2> QED
    BY <2>2, <2>3, <2>4 DEF Trapped
<1>9. ASSUME NEW k \in 1 .. 9, NEW j \in 1 .. 9, k < j,
             alloc_tx_abort[k].op \in Leaving, alloc_tx_abort[j].op = "end"
      PROVE  AbortsLawfully(13, 1, k, alloc_tx_abort[k], j)
  <2>1. k \in {3, 4} /\ j \in {5}
    BY <1>5, <1>9
  <2>2. CASE j = 5
    <3>1. k \in {3, 4}
      BY <1>9, <2>1, <2>2
    <3> QED
      BY <1>1, <1>3, <1>5, <1>6, <2>2, <3>1 DEF AbortsLawfully, Restores, Slots
  <2> QED
    BY <2>1, <2>2
<1> QED
  <2>1. LawfulLines(13, 1, alloc_tx_abort, 9, 7)
    BY <1>4, <1>5, <1>7, <1>8, <1>9 DEF LawfulLines
  <2>2. Len(alloc_tx_abort) = 9 /\ 9 \in Nat
    BY <1>1
  <2>3. \A k \in 1 .. 9 : Lawful(13, 1, k)
    BY <1>6, <2>1, <2>2, LawfulProgram
  <2> QED
    BY <2>2, <2>3

LEMMA FreeTxAbortLawful == \A k \in 1 .. Len(free_tx_abort) : Lawful(14, 1, k)
<1>1. /\ Len(free_tx_abort) = 10
      /\ \A k \in 1 .. 10 :
           free_tx_abort[k] = <<create("assert"), begin, alloc("oid", 16), end("none"), begin,
                                free("oid", 0), abortTx, end("none"), write("oid", 0, 8), close>>[k]
  BY DEF free_tx_abort
<1>2. \A k \in 1 .. 10 : k \in {1, 2, 3, 4, 5, 6, 7, 8, 9, 10}
  OBVIOUS
<1>3. /\ \A k, v : Known(14, 1, k, v) =
           IF v = "oid" /\ k \in 1 .. 3 THEN "none"
           ELSE IF v = "saved" /\ k = 3 THEN "none"
           ELSE IF v = "oid" /\ k = 4 THEN "new"
           ELSE IF (v = "oid" /\ k \in {5, 6, 9}) \/ (v = "saved" /\ k = 6) THEN "old"
           ELSE IF v \in {"oid", "saved"} /\ k = 7 THEN "held"
           ELSE IF v = "oid" /\ k = 8 THEN "never"
           ELSE "any"
      /\ \A k : Crowded(14, 1, k) = IF k \in 2 .. 3 THEN "empty" ELSE "any"
      /\ \A v : Bytes(14, v) = IF v = "root" THEN 16 ELSE IF v = "oid2" THEN Stretch ELSE 16
  BY DEF Known, Crowded, Bytes
<1>4. \A k \in 1 .. 10 : free_tx_abort[k].op \notin {"abort", "close"} => GoesLawfully(14, 1, k, free_tx_abort[k])
  BY <1>1, <1>2, <1>3, SizesAssumption DEF GoesLawfully, Legal, RoomFor, Crowds, Assigns, Yields, Becomes, Ends
<1>5. \A k \in 1 .. 10 :
        /\ free_tx_abort[k].op = "create" <=> k = 1
        /\ free_tx_abort[k].op # "open"
        /\ free_tx_abort[k].op = "root" => k = 2
        /\ k = 2 => free_tx_abort[k].op \in {"root", "begin", "close"}
        /\ free_tx_abort[k].op = "abort" => k = 7
        /\ free_tx_abort[k].op \in Leaving => k \in {3, 6, 7}
        /\ free_tx_abort[k].op = "end" <=> k \in {4, 8}
        /\ k = 4 => free_tx_abort[k].handler = "none"
        /\ k = 8 => free_tx_abort[k].handler = "none"
  BY <1>1, <1>2 DEF Leaving
<1>6. Suite[14].stages[1] = free_tx_abort /\ Len(Suite[14].stages) = 1
  BY SuiteFacts
<1>7. \A k \in 1 .. 10 : AtFault(14, 1, k) <=> k = 0
  <2>1. 14 \in 1 .. 16 /\ 1 \in 1 .. Len(Suite[14].stages)
    BY <1>6
  <2>4. \A k \in 1 .. Len(Suite[14].stages[1]) :
          AtFault(14, 1, k) <=> Suite[14].kind = "crash" /\ 1 = Len(Suite[14].stages) /\ k = FaultLine[14]
    BY <2>1, FaultIs
  <2>5. Len(Suite[14].stages[1]) = 10
    BY <1>1, <1>6
  <2>2. Suite[14].kind = "run"
    BY SuiteFacts
  <2> QED
    BY <1>2, <2>2, <2>4, <2>5
<1>9. ASSUME NEW k \in 1 .. 10, NEW j \in 1 .. 10, k < j,
             free_tx_abort[k].op \in Leaving, free_tx_abort[j].op = "end"
      PROVE  AbortsLawfully(14, 1, k, free_tx_abort[k], j)
  <2>1. k \in {3, 6, 7} /\ j \in {4, 8}
    BY <1>5, <1>9
  <2>2. CASE j = 4
    <3>1. k \in {3}
      BY <1>9, <2>1, <2>2
    <3> QED
      BY <1>1, <1>3, <1>5, <1>6, <2>2, <3>1 DEF AbortsLawfully, Restores, Slots
  <2>3. CASE j = 8
    <3>1. k \in {3, 6, 7}
      BY <1>9, <2>1, <2>3
    <3> QED
      BY <1>1, <1>3, <1>5, <1>6, <2>3, <3>1 DEF AbortsLawfully, Restores, Slots
  <2> QED
    BY <2>1, <2>2, <2>3
<1> QED
  <2>1. LawfulLines(14, 1, free_tx_abort, 10, 0)
    BY <1>4, <1>5, <1>7, <1>9 DEF LawfulLines
  <2>2. Len(free_tx_abort) = 10 /\ 10 \in Nat
    BY <1>1
  <2>3. \A k \in 1 .. 10 : Lawful(14, 1, k)
    BY <1>6, <2>1, <2>2, LawfulProgram
  <2> QED
    BY <2>2, <2>3

LEMMA TxAddOverflowLawful == \A k \in 1 .. Len(tx_add_overflow) : Lawful(15, 1, k)
<1>1. /\ Len(tx_add_overflow) = 9
      /\ \A k \in 1 .. 9 :
           tx_add_overflow[k] = <<create("assert"), rootObj(24, "assert"), begin,
                                  addRange("root", 24), print_pass_flag, addRange("root", 25),
                                  end("none"), print_fail_flag, close>>[k]
  BY DEF tx_add_overflow, Rooted, Finish
<1>2. \A k \in 1 .. 9 : k \in {1, 2, 3, 4, 5, 6, 7, 8, 9}
  OBVIOUS
<1>3. /\ \A k, v : Known(15, 1, k, v) =
           IF v = "root" /\ k \in 3 .. 6 THEN "old"
           ELSE "any"
      /\ \A k : Crowded(15, 1, k) = IF k = 2 THEN "empty" ELSE "any"
      /\ \A v : Bytes(15, v) = IF v = "root" THEN 24 ELSE IF v = "oid2" THEN Stretch ELSE 16
  BY DEF Known, Crowded, Bytes
<1>4. \A k \in 1 .. 9 : k # 6 /\ tx_add_overflow[k].op # "close" => GoesLawfully(15, 1, k, tx_add_overflow[k])
  BY <1>1, <1>2, <1>3, SizesAssumption DEF GoesLawfully, Legal, RoomFor, Crowds, Assigns, Yields, Becomes, Ends
<1>5. \A k \in 1 .. 9 :
        /\ tx_add_overflow[k].op = "create" <=> k = 1
        /\ tx_add_overflow[k].op # "open"
        /\ tx_add_overflow[k].op = "root" => k = 2
        /\ k = 2 => tx_add_overflow[k].op \in {"root", "begin", "close"}
        /\ tx_add_overflow[k].op # "abort"
        /\ tx_add_overflow[k].op \in Leaving => k \in {4, 6}
        /\ tx_add_overflow[k].op = "end" <=> k \in {7}
        /\ k = 7 => tx_add_overflow[k].handler = "none"
  BY <1>1, <1>2 DEF Leaving
<1>6. Suite[15].stages[1] = tx_add_overflow /\ Len(Suite[15].stages) = 1
  BY SuiteFacts
<1>7. \A k \in 1 .. 9 : AtFault(15, 1, k) <=> k = 6
  <2>1. 15 \in 1 .. 16 /\ 1 \in 1 .. Len(Suite[15].stages)
    BY <1>6
  <2>4. \A k \in 1 .. Len(Suite[15].stages[1]) :
          AtFault(15, 1, k) <=> Suite[15].kind = "crash" /\ 1 = Len(Suite[15].stages) /\ k = FaultLine[15]
    BY <2>1, FaultIs
  <2>5. Len(Suite[15].stages[1]) = 9
    BY <1>1, <1>6
  <2>2. Suite[15].kind = "crash"
    BY CrashTests
  <2>3. FaultLine[15] = 6
    BY LineFacts
  <2> QED
    BY <1>2, <1>6, <2>2, <2>3, <2>4, <2>5
<1>8. Trapped(15, 1, 6, tx_add_overflow[6])
  <2>1. 6 \in 1 .. 9
    OBVIOUS
  <2>2. /\ tx_add_overflow[6].op = "range" /\ tx_add_overflow[6].v = "root"
        /\ tx_add_overflow[6].n = 25
    BY <1>1, <2>1
  <2>3. Known(15, 1, 6, "root") = "old" /\ Bytes(15, "root") = 24
    BY <1>3
  <2>4. Suite[15].snippet = "00[fa]"
    BY SuiteFacts, Snippets
  <2> QED
    BY <2>2, <2>3, <2>4 DEF Trapped
<1>9. ASSUME NEW k \in 1 .. 9, NEW j \in 1 .. 9, k < j,
             tx_add_overflow[k].op \in Leaving, tx_add_overflow[j].op = "end"
      PROVE  AbortsLawfully(15, 1, k, tx_add_overflow[k], j)
  <2>1. k \in {4, 6} /\ j \in {7}
    BY <1>5, <1>9
  <2>2. CASE j = 7
    <3>1. tx_add_overflow[j].handler = "none" /\ Crowded(15, 1, j + 1) = "any"
          /\ \A v : Known(15, 1, j + 1, v) = "any"
      BY <1>3, <1>5, <2>2
    <3> QED
      BY <1>6, <3>1, ForgottenAbort
  <2> QED
    BY <2>1, <2>2
<1> QED
  <2>1. LawfulLines(15, 1, tx_add_overflow, 9, 6)
    BY <1>4, <1>5, <1>7, <1>8, <1>9 DEF LawfulLines
  <2>2. Len(tx_add_overflow) = 9 /\ 9 \in Nat
    BY <1>1
  <2>3. \A k \in 1 .. 9 : Lawful(15, 1, k)
    BY <1>6, <2>1, <2>2, LawfulProgram
  <2> QED
    BY <2>2, <2>3

LEMMA ZallocLawful == \A k \in 1 .. Len(zalloc) : Lawful(16, 1, k)
<1> DEFINE n == 12 * Rounds + 2
<1>1. /\ n \in Nat /\ n >= 2 /\ Len(zalloc) = n /\ zalloc[1].op = "create" /\ zalloc[n].op = "close"
      /\ \A k \in 2 .. n - 1 : zalloc[k] = AllocFree[Round(k) + 1]
  <2>1. /\ n \in Nat /\ Len(zalloc) = n /\ zalloc[1].op = "create" /\ zalloc[n].op = "close"
        /\ \A k \in 2 .. n - 1 : zalloc[k] = AllocFree[((k - 2) % 6) + 1]
    BY ZallocLines DEF create, close
  <2>2. n >= 2
    BY SizesAssumption
  <2> HIDE DEF n
  <2>3. \A k \in 2 .. n - 1 : (k - 2) % 6 = Round(k)
    BY <2>1 DEF Round
  <2> QED
    BY <2>1, <2>2, <2>3
<1> HIDE DEF n
<1>2. \A k \in 2 .. n - 1 :
        /\ Round(k) \in 0 .. 5
        /\ Round(k + 1) = IF Round(k) = 5 THEN 0 ELSE Round(k) + 1
  BY <1>1 DEF Round
<1>3. /\ \A k, v : Known(16, 1, k, v) =
           IF v = "oid" /\ Round(k) = 2 THEN "new"
           ELSE IF v = "oid" /\ Round(k) \in {3, 4} THEN "old" ELSE "any"
      /\ \A k : Crowded(16, 1, k) =
           IF k = 2 THEN "empty" ELSE IF Round(k) \in {0, 1} THEN "empty"
           ELSE IF Round(k) = 5 THEN "leaving" ELSE "only"
      /\ \A v : Bytes(16, v) = IF v = "root" THEN 16 ELSE BigDummy
  BY DEF Known, Crowded, Bytes
<1>4. Round(2) = 0 /\ "oid" \in Locals /\ "oid" # "root" /\ "oid" # "saved"
  BY DEF Round
<1>5. Suite[16].stages[1] = zalloc /\ Len(Suite[16].stages) = 1
  BY SuiteFacts
<1>6. \A k \in 1 .. n : AtFault(16, 1, k) <=> k = 0
  <2>1. 16 \in 1 .. 16 /\ 1 \in 1 .. Len(Suite[16].stages)
    BY <1>5
  <2>2. Suite[16].kind = "run"
    BY SuiteFacts
  <2>3. \A k \in 1 .. Len(Suite[16].stages[1]) :
          AtFault(16, 1, k) <=> Suite[16].kind = "crash" /\ 1 = Len(Suite[16].stages) /\ k = FaultLine[16]
    BY <2>1, FaultIs
  <2>4. Len(Suite[16].stages[1]) = n /\ \A k \in 1 .. n : k # 0
    BY <1>1, <1>5
  <2> QED
    BY <2>2, <2>3, <2>4
<1>7. \A k \in 2 .. n - 1 :
        LET r == Round(k) IN
        /\ r \in {0, 3} => zalloc[k].op = "begin"
        /\ r = 1 => zalloc[k].op = "alloc" /\ zalloc[k].v = "oid" /\ zalloc[k].n = BigDummy
        /\ r \in {2, 5} => zalloc[k].op = "end" /\ zalloc[k].handler = "abort"
        /\ r = 4 => zalloc[k].op = "free" /\ zalloc[k].v = "oid" /\ zalloc[k].off = 0
        /\ r \in {0, 1, 2, 3, 4, 5}
  BY <1>1, <1>2, AllocFreeSteps
<1>8. \A k \in 1 .. n : k = 1 \/ k \in 2 .. n - 1 \/ k = n
  BY <1>1
<1>9. \A k \in 1 .. n : zalloc[k].op \notin {"abort", "close"} => GoesLawfully(16, 1, k, zalloc[k])
  <2>1. zalloc[1].op # "close" => GoesLawfully(16, 1, 1, zalloc[1])
    BY <1>1, <1>3, <1>4 DEF GoesLawfully, Legal, Crowds, Assigns, Yields, Becomes, Ends
  <2>2. ASSUME NEW k \in 2 .. n - 1 PROVE GoesLawfully(16, 1, k, zalloc[k])
    <3> DEFINE i == zalloc[k]
               r == Round(k)
    <3>1. k \in Nat /\ k >= 2 /\ k + 1 # 2
      BY <1>1
    <3>2. /\ \A v : Known(16, 1, k, v) = IF v = "oid" /\ r = 2 THEN "new"
                                         ELSE IF v = "oid" /\ r \in {3, 4} THEN "old" ELSE "any"
          /\ \A v : Known(16, 1, k + 1, v) = IF v = "oid" /\ r = 1 THEN "new"
                                             ELSE IF v = "oid" /\ r \in {2, 3} THEN "old" ELSE "any"
          /\ Crowded(16, 1, k) = IF r \in {0, 1} THEN "empty" ELSE IF r = 5 THEN "leaving" ELSE "only"
          /\ Crowded(16, 1, k + 1) = IF r \in {0, 5} THEN "empty" ELSE IF r = 4 THEN "leaving" ELSE "only"
      <4>1. /\ k = 2 => r = 0
            /\ Round(k + 1) \in {0, 1} <=> r \in {0, 5}
            /\ Round(k + 1) = 2 <=> r = 1
            /\ Round(k + 1) \in {3, 4} <=> r \in {2, 3}
            /\ Round(k + 1) = 5 <=> r = 4
        BY <1>2, <1>4
      <4> HIDE DEF r
      <4>2. /\ Crowded(16, 1, k) = IF r \in {0, 1} THEN "empty" ELSE IF r = 5 THEN "leaving" ELSE "only"
            /\ \A v : Known(16, 1, k, v) = IF v = "oid" /\ r = 2 THEN "new"
                                         ELSE IF v = "oid" /\ r \in {3, 4} THEN "old" ELSE "any"
        BY <1>3, <4>1 DEF r
      <4>3. Crowded(16, 1, k + 1) = IF r \in {0, 5} THEN "empty" ELSE IF r = 4 THEN "leaving" ELSE "only"
        BY <1>3, <3>1, <4>1
      <4>4. \A v : Known(16, 1, k + 1, v) = IF v = "oid" /\ r = 1 THEN "new"
                                             ELSE IF v = "oid" /\ r \in {2, 3} THEN "old" ELSE "any"
        BY <1>3, <4>1
      <4> QED
        BY <4>2, <4>3, <4>4
    <3>3. /\ r \in {0, 3} => i.op = "begin"
          /\ r = 1 => i.op = "alloc" /\ i.v = "oid" /\ i.n = BigDummy
          /\ r \in {2, 5} => i.op = "end" /\ i.handler = "abort"
          /\ r = 4 => i.op = "free" /\ i.v = "oid" /\ i.off = 0
          /\ r \in {0, 1, 2, 3, 4, 5}
      BY <1>7
    <3>4. Bytes(16, "oid") = BigDummy
      BY <1>3
    <3> HIDE DEF i, r
    <3>5. Legal(16, 1, k, i)
      BY <1>4, <3>2, <3>3, <3>4 DEF Legal, RoomFor
    <3>6. Crowds(i, Crowded(16, 1, k), Crowded(16, 1, k + 1))
      BY <3>2, <3>3 DEF Crowds
    <3>7. ASSUME NEW v \in Slots
          PROVE  LET next == Known(16, 1, k + 1, v) IN
                 IF Assigns(i, v) THEN Yields(16, 1, k, i, next)
                 ELSE Becomes(i.op, Known(16, 1, k, v), next) \/ Ends(i, v, Known(16, 1, k, v), next)
      BY <1>4, <3>2, <3>3 DEF Assigns, Yields, Becomes
    <3> QED
      BY <3>5, <3>6, <3>7 DEF GoesLawfully, i
  <2> QED
    BY <1>1, <1>8, <2>1, <2>2
<1>10. \A k \in 1 .. n :
         /\ zalloc[k].op = "create" <=> k = 1
         /\ zalloc[k].op \notin {"open", "root", "abort"}
         /\ k = 2 => zalloc[k].op \in {"begin", "close"}
         /\ zalloc[k].op = "end" => zalloc[k].handler = "abort"
  <2>1. \A k \in 2 .. n - 1 :
          /\ zalloc[k].op \notin {"create", "open", "root", "abort"}
          /\ k = 2 => zalloc[k].op = "begin"
          /\ zalloc[k].op = "end" => zalloc[k].handler = "abort"
          /\ k # 1
    BY <1>4, <1>7
  <2> QED
    BY <1>1, <1>8, <2>1
<1>11. LawfulLines(16, 1, zalloc, n, 0)
  <2>1. \A k \in 1 .. n : \A j \in 1 .. n :
          k < j /\ zalloc[k].op \in Leaving /\ zalloc[j].op = "end" =>
            AbortsLawfully(16, 1, k, zalloc[k], j)
    BY <1>5, <1>10, HandledAbort
  <2> QED
    BY <1>6, <1>9, <1>10, <2>1 DEF LawfulLines
<1>12. \A k \in 1 .. n : Lawful(16, 1, k)
  BY <1>1, <1>5, <1>11, LawfulProgram
<1> QED
  BY <1>1, <1>12

HIDE DEF create, openPool, rootObj, begin, alloc, free, realloc, addRange, abortTx, end, new, delete,
         copy, write, flag, close, print_pass_flag, print_fail_flag, Locals

LEMMA AllLawful ==
  \A t \in 1 .. 16 : \A s \in 1 .. Len(Suite[t].stages) :
    \A k \in 1 .. Len(Suite[t].stages[s]) : Lawful(t, s, k)
<1> SUFFICES ASSUME NEW t \in 1 .. 16, NEW s \in 1 .. Len(Suite[t].stages)
             PROVE  \A k \in 1 .. Len(Suite[t].stages[s]) : Lawful(t, s, k)
  OBVIOUS
<1>1. (t = 10 /\ s = 2) \/ s = 1
  <2>1. CASE t = 10
    <3>1. Len(Suite[t].stages) = 2
      BY <2>1, StageCount
    <3> QED
      BY <2>1, <3>1
  <2>2. CASE t # 10
    <3>1. Len(Suite[t].stages) = 1
      BY <2>2, StageCount
    <3> QED
      BY <3>1
  <2> QED
    BY <2>1, <2>2
<1>2. CASE t = 10
  BY <1>1, <1>2, SuiteFacts, CreatePoolLawful, AttemptOverflowLawful
<1>3. CASE t # 10
  <2>1. CASE t = 1
    BY <1>1, <1>3, <2>1, SuiteFacts, MismatchedFreeLawful
  <2>2. CASE t = 2
    BY <1>1, <1>3, <2>2, SuiteFacts, DoubleFreeLawful
  <2>3. CASE t = 3
    BY <1>1, <1>3, <2>3, SuiteFacts, DoubleFreeNtxLawful
  <2>4. CASE t = 4
    BY <1>1, <1>3, <2>4, SuiteFacts, UseAfterFreeLawful
  <2>5. CASE t = 5
    BY <1>1, <1>3, <2>5, SuiteFacts, UseAfterFreeNtxLawful
  <2>6. CASE t = 6
    BY <1>1, <1>3, <2>6, SuiteFacts, UseAfterReallocLawful
  <2>7. CASE t = 7
    BY <1>1, <1>3, <2>7, SuiteFacts, OverflowLawful
  <2>8. CASE t = 8
    BY <1>1, <1>3, <2>8, SuiteFacts, OverflowNtxLawful
  <2>9. CASE t = 9
    BY <1>1, <1>3, <2>9, SuiteFacts, RootOverflowLawful
  <2>10. CASE t = 11
    BY <1>1, <1>3, <2>10, SuiteFacts, RootUnderflowLawful
  <2>11. CASE t = 12
    BY <1>1, <1>3, <2>11, SuiteFacts, Int32Lawful
  <2>12. CASE t = 13
    BY <1>1, <1>3, <2>12, SuiteFacts, AllocTxAbortLawful
  <2>13. CASE t = 14
    BY <1>1, <1>3, <2>13, SuiteFacts, FreeTxAbortLawful
  <2>14. CASE t = 15
    BY <1>1, <1>3, <2>14, SuiteFacts, TxAddOverflowLawful
  <2>15. CASE t = 16
    BY <1>1, <1>3, <2>15, SuiteFacts, ZallocLawful
  <2> QED
    BY <1>3, Tests, <2>1, <2>2, <2>3, <2>4, <2>5, <2>6, <2>7, <2>8, <2>9, <2>10, <2>11, <2>12, <2>13, <2>14, <2>15
<1> QED
  BY <1>2, <1>3

-----------------------------------------------------------------------------
(* A step of a process keeps to the outline, leaves its transaction, or    *)
(* ends the process as it should.                                          *)

\* What spoils a run spoils the rest of it.
LEMMA Excuses ==
  ASSUME failures \in 0 .. MaxFailures, Fails \/ UNCHANGED failures
  PROVE  (Spoiled => Spoiled') /\ (Fails => Spoiled')
  BY SuiteAssumption DEF Fails, Spoiled

LEMMA Resources ==
  ASSUME Process PROVE (Fails \/ UNCHANGED failures) /\ (indet => indet')
<1> DEFINE Outcome == (Fails \/ UNCHANGED failures) /\ (indet => indet')
<1>1. Create \/ OpenPool \/ UseNoPool \/ RootObj \/ Begin => Outcome
  BY DEF Create, OpenPool, UseNoPool, RootObj, Begin, Ordinary, Fails
<1>2. \A n : AllocFails(n) => Outcome
  BY DEF AllocFails, Fails
<1>3. Alloc \/ Realloc \/ New => Outcome
  <2> HIDE DEF Outcome
  <2>1. Ordinary \/ Fails => Outcome
    BY DEF Ordinary, Fails, Outcome
  <2> QED
    BY <1>2, <2>1 DEF Alloc, Realloc, New
<1>4. BadFree => Outcome
  <2>1. BadFree => UNCHANGED <<failures, indet>>
    BY DEF BadFree
  <2> QED
    BY <2>1
<1>5. \A a, w : Touch(a, w) => Outcome
  BY DEF Touch
<1>6. Free \/ Delete => Outcome
  <2> HIDE DEF Outcome
  <2>1. Ordinary \/ Fails \/ UNCHANGED <<failures, indet>> \/ (indet' /\ UNCHANGED failures) => Outcome
    BY DEF Ordinary, Fails, Outcome
  <2> QED
    BY <1>4, <2>1 DEF Free, Delete
<1>7. AddRange \/ Write => Outcome
  <2> HIDE DEF Outcome
  <2>1. Ordinary \/ Fails \/ UNCHANGED <<failures, indet>> \/ TouchAnywhere => Outcome
    BY DEF Ordinary, Fails, TouchAnywhere, Outcome
  <2> QED
    BY <1>5, <2>1 DEF AddRange, Write
<1>8. AbortTx \/ End \/ Copy \/ Flag \/ Close \/ Derail => Outcome
  BY DEF AbortTx, End, Copy, Flag, Close, Derail, Ordinary
<1> QED
  BY <1>1, <1>3, <1>6, <1>7, <1>8 DEF Process

\* What v points to is as the outline says for line k.
Met(t, s, k, v) ==
  IF Known(t, s, k, v) = "twin" THEN Pointer(v) = proc.env["obj"]
  ELSE Meets(Known(t, s, k, v), Pointer(v), Bytes(t, v))

\* Objects the instruction is not about become what Becomes says.
Carried(op) ==
  \A kind, next : Becomes(op, kind, next) =>
    \A p : \A n \in Nat \ {0} :
      Behind(kind, p, n, blk, added, freed) => Behind(next, p, n, blk', added', freed')

LEMMA BecomesNowhere ==
  /\ \A op, kind, next, p : Becomes(op, kind, next) /\ Nowhere(kind, p) =>
       next = "any" \/ Nowhere(next, p)
  /\ \A op, kind : Becomes(op, kind, "twin") => kind = "never"
  /\ \A op, next : Becomes(op, "twin", next) => next = "any"
  /\ \A p, n, B, A, F : ~Behind("never", p, n, B, A, F) /\ ~Nowhere("never", p)
  /\ \A p, n, B, A, F : Behind("any", p, n, B, A, F)
  BY DEF Becomes, Nowhere, Behind

\* The outline of the next line, from that of this one.
LEMMA OutlinedNext ==
  ASSUME NEW t, NEW s, NEW k, NEW i,
         test = t, stage = s, test' = t, stage' = s,
         GoesLawfully(t, s, k, i), Outlined(k), Spoiled => Spoiled', Carried(i.op),
         \A v \in Slots : ~Assigns(i, v) => Pointer(v)' = Pointer(v),
         \A v \in Slots : ~Assigns(i, v) /\ Ends(i, v, Known(t, s, k, v), Known(t, s, k + 1, v)) =>
           Met(t, s, k + 1, v)',
         \A v \in Slots : Assigns(i, v) /\ Yields(t, s, k, i, Known(t, s, k + 1, v)) =>
           Met(t, s, k + 1, v)',
         proc'.pool /\ Crowds(i, Crowded(t, s, k), Crowded(t, s, k + 1)) =>
           Crowd(Crowded(t, s, k + 1))'
  PROVE  Outlined(k + 1)'
<1>1. ASSUME NEW v \in Slots PROVE Met(t, s, k + 1, v)'
  <2>1. CASE Assigns(i, v)
    BY <2>1 DEF GoesLawfully
  <2>2. CASE ~Assigns(i, v) /\ Ends(i, v, Known(t, s, k, v), Known(t, s, k + 1, v))
    BY <2>2
  <2>3. CASE ~Assigns(i, v) /\ Becomes(i.op, Known(t, s, k, v), Known(t, s, k + 1, v))
    <3> DEFINE kind == Known(t, s, k, v)
               next == Known(t, s, k + 1, v)
               n == Bytes(t, v)
               p == Pointer(v)
    <3>1. n \in Nat \ {0} /\ Pointer(v)' = p
      BY <2>3, BytesTyped
    <3>2. Becomes(i.op, kind, next)
      BY <2>3
    <3>3. kind # "twin" => Behind(kind, p, n, blk, added, freed) \/ (Spoiled /\ Nowhere(kind, p))
      BY DEF Outlined, Meets
    <3> SUFFICES next # "twin" /\ (Behind(next, p, n, blk', added', freed') \/ (Spoiled' /\ Nowhere(next, p)))
      BY <3>1 DEF Met, Meets, Nowhere, Behind
    <3> HIDE DEF kind, next, n, p
    <3>4. CASE kind = "twin"
      BY <3>2, <3>4, BecomesNowhere
    <3>5. CASE kind # "twin" /\ Behind(kind, p, n, blk, added, freed)
      <4>1. Behind(next, p, n, blk', added', freed')
        BY <3>1, <3>2, <3>5 DEF Carried
      <4>2. next # "twin"
        BY <3>2, <3>5, BecomesNowhere
      <4> QED
        BY <4>1, <4>2
    <3>6. CASE Spoiled /\ Nowhere(kind, p)
      <4>1. next # "twin"
        BY <3>2, <3>6, BecomesNowhere
      <4>2. next = "any" \/ Nowhere(next, p)
        BY <3>2, <3>6, BecomesNowhere
      <4> QED
        BY <3>6, <4>1, <4>2, BecomesNowhere
    <3> QED
      BY <3>3, <3>4, <3>5, <3>6
  <2> QED
    BY <2>1, <2>2, <2>3 DEF GoesLawfully
<1>2. proc'.pool => Crowd(Crowded(t, s, k + 1))'
  BY DEF GoesLawfully
<1> QED
  BY <1>1, <1>2 DEF Outlined, Met


\* The process in front of line k, the instruction i, of process s of test t,
\* with the complete library, nothing damaged and the outline kept.
Poised(t, s, k, i) ==
  /\ t \in 1 .. 16 /\ s \in 1 .. 2 /\ test = t /\ stage = s /\ proc.pc = k /\ Instr = i
  /\ s = 2 => t = 10
  /\ Program = Suite[t].stages[s] /\ i = Suite[t].stages[s][k] /\ k \in 1 .. Len(Program)
  /\ Ready /\ features = Features /\ Sound /\ ~proc.wild /\ Lawful(t, s, k)
  /\ proc.pool => k # 1
  /\ ~proc.pool => k = 1 \/ (k = 2 /\ Spoiled)
  /\ proc.pool /\ s = 1 /\ k = 2 => root = NoRoot
  /\ ~proc.aborted => Outlined(k)
  /\ proc.aborted => /\ i.op = "end"
                     /\ IF i.handler = "none" THEN Outlined(k + 1) ELSE Spoiled
  /\ RootKept

\* Control goes on to the next line.
Continues(t, s, k) ==
  /\ ~AtFault(t, s, k)
  /\ proc'.status = "run" /\ proc'.pc = k + 1 /\ ~proc'.wild /\ ~proc'.aborted
  /\ Outlined(k + 1)'
  /\ ~proc'.pool => k = 1 /\ Spoiled'
  /\ proc'.pool /\ s = 1 /\ k = 1 => root' = NoRoot

\* The transaction aborts, on purpose or for an excuse.
LeavesTx(t, s, k) ==
  /\ Instr.op \in Leaving /\ (Instr.op = "abort" \/ Spoiled')
  /\ proc'.status = "run" /\ ~proc'.wild /\ proc'.aborted /\ proc'.pool
  /\ \E j \in k + 1 .. Len(Program) :
       /\ proc'.pc = j /\ NextEnd(Program, k, j)
       /\ IF Program[j].handler = "none" THEN Outlined(j + 1)' ELSE Spoiled'

\* The process dies for an excuse, or of its faulty line.
Stops(t, s, k) ==
  /\ proc'.status = "dead" /\ proc'.pc = k /\ ~proc'.wild
  /\ \/ Spoiled' /\ proc'.report \in {"segv", "abort"}
     \/ AtFault(t, s, k) /\ proc'.report \in Shows[Suite[t].snippet] /\ out' = out

Returns(k) ==
  /\ Instr.op = "close"
  /\ proc'.status = "exit" /\ proc'.pc = k /\ ~proc'.wild

Behaves(t, s, k) == Continues(t, s, k) \/ LeavesTx(t, s, k) \/ Stops(t, s, k) \/ Returns(k)

LEMMA PointersKept ==
  ASSUME proc'.env = proc.env, proc'.saved = proc.saved
  PROVE  \A v : Pointer(v)' = Pointer(v)
  BY DEF Pointer

LEMMA PointerAssigned ==
  ASSUME proc \in Procs, NEW u \in Locals, NEW p, AdvanceWith(u, p)
  PROVE  Pointer(u)' = p /\ \A v \in Slots : v # u => Pointer(v)' = Pointer(v)
<1>1. proc'.env = [proc.env EXCEPT ![u] = p] /\ proc'.saved = proc.saved
  BY DEF AdvanceWith, Procs
<1>2. u # "saved" /\ "oid" \in Locals /\ \A v \in Slots : v # "saved" => v \in Locals
  BY DEF Locals, Slots
<1>3. DOMAIN proc.env = Locals
  BY DEF Procs
<1> QED
  BY <1>1, <1>2, <1>3 DEF Pointer

\* An Advance or an assignment leaves the rest of the process alone.
LEMMA OnlyMoved ==
  ASSUME Ready, \/ Advance
                \/ \E u : \E p \in Int : AdvanceWith(u, p)
  PROVE  /\ proc'.status = "run" /\ proc'.pc = proc.pc + 1 /\ proc'.wild = proc.wild
         /\ proc'.aborted = proc.aborted /\ proc'.pool = proc.pool /\ proc'.saved = proc.saved
  BY DEF Ready, Running, Advance, Goto, AdvanceWith, Procs

LEMMA OnlyDead ==
  ASSUME Ready, NEW r, Die(r)
  PROVE  /\ proc'.status = "dead" /\ proc'.report = r /\ proc'.pc = proc.pc /\ proc'.wild = proc.wild
         /\ out' = out /\ proc'.pool = proc.pool
         /\ UNCHANGED <<suiteVars, file, blk, tx, root>>
  BY DEF Ready, Die, Procs, Detach, heapVars

LEMMA CarriedQuietly ==
  ASSUME NEW op, op \notin {"alloc", "end", "free"},
         op \in {"begin", "range", "copy", "write", "flag"} => UNCHANGED <<blk, added, freed>>
  PROVE  Carried(op)
<1>1. CASE op \in {"begin", "range", "copy", "write", "flag"}
  BY <1>1 DEF Carried, Becomes, Behind
<1>2. CASE op \notin {"begin", "range", "copy", "write", "flag"}
  BY <1>2 DEF Carried, Becomes, Behind
<1> QED
  BY <1>1, <1>2

LEMMA CarriedAlloc ==
  ASSUME HeapTyped, NEW b \in Granules, NEW n \in Nat, Fits(b, n),
         blk' = [blk EXCEPT ![b] = n], added' = added \cup {b}, freed' = freed
  PROVE  Carried("alloc")
<1>1. blk[b] = 0
  BY FitsFresh
<1>2. \A p : \A m \in Nat \ {0} :
        Behind("old", p, m, blk, added, freed) => Behind("old", p, m, blk', added', freed')
  BY <1>1, BehindAlloc DEF HeapTyped
<1>3. \A kind, next : Becomes("alloc", kind, next) =>
        next = "any" \/ kind = "never" \/ (next = "none" /\ kind = "none") \/ (next = "old" /\ kind = "old")
  BY DEF Becomes
<1>4. \A p, m : Behind("none", p, m, blk, added, freed) => Behind("none", p, m, blk', added', freed')
  BY DEF Behind
<1> SUFFICES ASSUME NEW kind, NEW next, Becomes("alloc", kind, next), NEW p, NEW m \in Nat \ {0},
                    Behind(kind, p, m, blk, added, freed)
             PROVE  Behind(next, p, m, blk', added', freed')
  BY DEF Carried
<1>5. CASE next = "any" \/ kind = "never"
  BY <1>5, BecomesNowhere
<1>6. CASE next = "none" /\ kind = "none"
  BY <1>4, <1>6
<1>7. CASE next = "old" /\ kind = "old"
  BY <1>2, <1>7
<1> QED
  BY <1>3, <1>5, <1>6, <1>7

LEMMA CarriedFree ==
  ASSUME NEW b, blk' = blk, added' = added, freed' = freed \cup {b}
  PROVE  Carried("free")
<1>1. \A p, m : Behind("old", p, m, blk, added, freed) => Behind("held", p, m, blk', added', freed')
  BY BehindFree
<1>2. \A kind, next : Becomes("free", kind, next) =>
        next = "any" \/ kind = "never" \/ (next = "none" /\ kind = "none") \/ (next = "held" /\ kind = "old")
  BY DEF Becomes
<1>3. \A p, m : Behind("none", p, m, blk, added, freed) => Behind("none", p, m, blk', added', freed')
  BY DEF Behind
<1> QED
  BY <1>1, <1>2, <1>3, BecomesNowhere DEF Carried

LEMMA CarriedEnd ==
  ASSUME features = Features, TxCommit
  PROVE  Carried("end")
<1>1. blk' = [b \in Granules |-> IF b \in freed THEN 0 ELSE blk[b]] /\ added' = {} /\ freed' = {}
  BY DEF TxCommit, Features
<1>2. \A p : \A m \in Nat \ {0} :
        /\ Behind("old", p, m, blk, added, freed) => Behind("old", p, m, blk', added', freed')
        /\ Behind("new", p, m, blk, added, freed) => Behind("old", p, m, blk', added', freed')
  BY <1>1, BehindCommit
<1>3. \A kind, next : Becomes("end", kind, next) =>
        next = "any" \/ kind = "never" \/ (next = "none" /\ kind = "none")
        \/ (next = "old" /\ kind \in {"old", "new"})
  BY DEF Becomes
<1>4. \A p, m : Behind("none", p, m, blk, added, freed) => Behind("none", p, m, blk', added', freed')
  BY DEF Behind
<1> SUFFICES ASSUME NEW kind, NEW next, Becomes("end", kind, next), NEW p, NEW m \in Nat \ {0},
                    Behind(kind, p, m, blk, added, freed)
             PROVE  Behind(next, p, m, blk', added', freed')
  BY DEF Carried
<1>5. CASE next = "any" \/ kind = "never"
  BY <1>5, BecomesNowhere
<1>6. CASE next = "none" /\ kind = "none"
  BY <1>4, <1>6
<1>7. CASE next = "old" /\ kind \in {"old", "new"}
  BY <1>2, <1>7
<1> QED
  BY <1>3, <1>5, <1>6, <1>7

LEMMA SavedBytes == \A t : Bytes(t, "saved") = Bytes(t, "oid")
  BY DEF Bytes

LEMMA PointersTyped ==
  ASSUME proc \in Procs
  PROVE  \A v \in Slots : Pointer(v) \in Int
<1>1. "oid" \in Locals /\ \A v \in Slots : v # "saved" => v \in Locals
  BY DEF Locals, Slots
<1> QED
  BY <1>1 DEF Pointer, Procs

\* The object behind a pointer the outline speaks of.
LEMMA KnownObject ==
  ASSUME NEW t, NEW s, NEW k, NEW i, Poised(t, s, k, i), ~proc.aborted,
         NEW v \in Locals, Known(t, s, k, v) \in {"old", "new"}
  PROVE  \/ Spoiled /\ proc.env[v] \in {Null, Unassigned}
         \/ /\ Behind(Known(t, s, k, v), proc.env[v], Bytes(t, v), blk, added, freed)
            /\ \E b \in Live : /\ b \in Granules /\ b \in Nat /\ blk[b] = Bytes(t, v)
                               /\ proc.env[v] = 8 * b /\ proc.env[v] \div 8 = b
                               /\ proc.env[v] >= 0 /\ Freeable(proc.env[v])
<1>1. Outlined(k) /\ test = t /\ stage = s /\ HeapTyped /\ Sound
  BY DEF Poised, Ready
<1>2. v \in Slots /\ Pointer(v) = proc.env[v]
  BY DEF Slots, Pointer, Locals
<1>3. Meets(Known(t, s, k, v), proc.env[v], Bytes(t, v))
  BY <1>1, <1>2 DEF Outlined
<1>4. CASE Spoiled /\ Nowhere(Known(t, s, k, v), proc.env[v])
  BY <1>4 DEF Nowhere
<1>5. CASE Behind(Known(t, s, k, v), proc.env[v], Bytes(t, v), blk, added, freed)
  <2>1. Bytes(t, v) \in Nat \ {0}
    BY BytesTyped
  <2>2. \E b \in Live : b \in Granules /\ b \in Nat /\ proc.env[v] = 8 * b /\ proc.env[v] \div 8 = b
                        /\ proc.env[v] % 8 = 0 /\ proc.env[v] >= 0
                        /\ blk[b] = Bytes(t, v) /\ Freeable(proc.env[v])
    BY <1>1, <1>5, <2>1, OldIsLive
  <2> QED
    BY <1>5, <2>2
<1> QED
  BY <1>3, <1>4, <1>5 DEF Meets


LEMMA LineLaw ==
  ASSUME NEW t, NEW s, NEW k, NEW i, Poised(t, s, k, i)
  PROVE  /\ AtFault(t, s, k) => Trapped(t, s, k, i) /\ i.op \in {"free", "delete", "write", "range"}
         /\ ~AtFault(t, s, k) /\ i.op \notin {"abort", "close"} =>
              GoesLawfully(t, s, k, i) /\ Legal(t, s, k, i)
         /\ i.op = "create" <=> k = 1 /\ s = 1
         /\ i.op = "open" <=> k = 1 /\ s = 2
         /\ i.op = "root" => k = 2
         /\ i.op \notin {"create", "open", "root", "begin", "close"} => proc.pool
         /\ i.op # "end" => ~proc.aborted /\ Outlined(k)
<1>1. i = Suite[t].stages[s][k] /\ Lawful(t, s, k) /\ s \in 1 .. 2
  BY DEF Poised
<1>2. /\ AtFault(t, s, k) => Trapped(t, s, k, i)
      /\ ~AtFault(t, s, k) /\ i.op \notin {"abort", "close"} => GoesLawfully(t, s, k, i)
      /\ i.op = "create" <=> k = 1 /\ s = 1
      /\ i.op = "open" <=> k = 1 /\ s = 2
      /\ i.op = "root" => k = 2
      /\ k = 2 => i.op \in {"root", "begin", "close"}
  BY <1>1 DEF Lawful
<1>3. Trapped(t, s, k, i) => i.op \in {"free", "delete", "write", "range"}
  BY DEF Trapped
<1>4. GoesLawfully(t, s, k, i) => Legal(t, s, k, i)
  BY DEF GoesLawfully
<1>5. /\ ~proc.pool => k = 1 \/ k = 2
      /\ i.op # "end" => ~proc.aborted /\ Outlined(k)
  BY DEF Poised
<1>6. s = 1 \/ s = 2
  BY <1>1
<1> QED
  BY <1>2, <1>3, <1>4, <1>5, <1>6

\* Control goes on, to the outline of the next line.
LEMMA Proceeds ==
  ASSUME NEW t, NEW s, NEW k, NEW i, Poised(t, s, k, i), ~proc.aborted,
         i.op \notin {"abort", "close"}, ~AtFault(t, s, k),
         UNCHANGED suiteVars, Spoiled => Spoiled',
         proc'.status = "run", proc'.pc = k + 1, ~proc'.wild, ~proc'.aborted,
         ~proc'.pool => k = 1 /\ Spoiled',
         proc'.pool /\ s = 1 /\ k = 1 => root' = NoRoot,
         Carried(i.op),
         \A v \in Slots : ~Assigns(i, v) => Pointer(v)' = Pointer(v),
         \A v \in Slots : ~Assigns(i, v) /\ Ends(i, v, Known(t, s, k, v), Known(t, s, k + 1, v)) =>
           Met(t, s, k + 1, v)',
         \A v \in Slots : Assigns(i, v) /\ Yields(t, s, k, i, Known(t, s, k + 1, v)) =>
           Met(t, s, k + 1, v)',
         proc'.pool /\ Crowds(i, Crowded(t, s, k), Crowded(t, s, k + 1)) =>
           Crowd(Crowded(t, s, k + 1))'
  PROVE  Continues(t, s, k)
<1>1. GoesLawfully(t, s, k, i)
  BY LineLaw
<1>2. test = t /\ stage = s /\ test' = t /\ stage' = s /\ Outlined(k)
  BY DEF Poised, suiteVars
<1>3. Outlined(k + 1)'
  BY <1>1, <1>2, OutlinedNext
<1> QED
  BY <1>3 DEF Continues

LEMMA Dying ==
  ASSUME NEW t, NEW s, NEW k, NEW i, Poised(t, s, k, i), NEW r, Die(r),
         \/ Spoiled' /\ r \in {"segv", "abort"}
         \/ AtFault(t, s, k) /\ r \in Shows[Suite[t].snippet]
  PROVE  Stops(t, s, k)
<1>1. Ready /\ proc.pc = k /\ ~proc.wild
  BY DEF Poised
<1> QED
  BY <1>1, OnlyDead DEF Stops

\* The object behind a pointer after the undo log was applied.
LEMMA Restored ==
  ASSUME HeapTyped, Sound, RolledBack, Spoiled => Spoiled',
         NEW op, op = "abort" \/ Spoiled',
         NEW kind, NEW next, NEW p, NEW n \in Nat \ {0}, Restores(op, kind, next),
         Behind(kind, p, n, blk, added, freed) \/ (Spoiled /\ Nowhere(kind, p))
  PROVE  next # "twin"
         /\ (Behind(next, p, n, blk', added', freed') \/ (Spoiled' /\ Nowhere(next, p)))
<1> DEFINE B == [b \in Granules |-> IF b \in added THEN 0 ELSE blk[b]]
<1>1. blk' = B /\ added' = {} /\ freed' = {}
  BY DEF RolledBack
<1>2. CASE next = "any"
  BY <1>2, BecomesNowhere
<1>3. CASE next = "old" /\ kind \in {"old", "held"}
  <2>1. CASE Behind(kind, p, n, blk, added, freed)
    <3>1. Behind("old", p, n, B, {}, {})
      BY <1>3, <2>1, BehindAbort
    <3> QED
      BY <1>1, <1>3, <3>1
  <2>2. CASE Spoiled /\ Nowhere(kind, p)
    BY <1>3, <2>2 DEF Nowhere
  <2> QED
    BY <2>1, <2>2
<1>4. CASE next = "stale" /\ kind = "new"
  <2>1. CASE Behind(kind, p, n, blk, added, freed)
    <3>1. Behind("stale", p, n, B, {}, {})
      BY <1>4, <2>1, BehindRollback
    <3> QED
      BY <1>1, <1>4, <3>1
  <2>2. CASE Spoiled /\ Nowhere(kind, p)
    BY <1>4, <2>2 DEF Nowhere
  <2> QED
    BY <2>1, <2>2
<1>5. CASE kind = "none" /\ (next = "stale" \/ (next = "old" /\ op # "abort"))
  <2>1. p = Unassigned
    BY <1>5 DEF Behind, Nowhere
  <2> QED
    BY <1>5, <2>1 DEF Behind, Nowhere
<1> QED
  BY <1>2, <1>3, <1>4, <1>5 DEF Restores

LEMMA Unwinds ==
  ASSUME NEW t, NEW s, NEW k, NEW i, Poised(t, s, k, i), i.op \in Leaving, Unwind,
         UNCHANGED suiteVars, Spoiled => Spoiled', i.op = "abort" \/ Spoiled'
  PROVE  LeavesTx(t, s, k)
<1>1. /\ Ready /\ Instr = i /\ proc.pc = k /\ ~proc.wild /\ HeapTyped /\ Sound
      /\ Program = Suite[t].stages[s] /\ i = Suite[t].stages[s][k] /\ Lawful(t, s, k)
      /\ test = t /\ stage = s /\ test' = t /\ stage' = s /\ proc \in Procs
  BY DEF Poised, Ready, suiteVars
<1>2. proc.pool /\ ~proc.aborted /\ Outlined(k)
  BY LineLaw DEF Leaving
<1>3. /\ proc'.status = "run" /\ proc'.wild = proc.wild
      /\ proc'.pc \in k + 1 .. Len(Program) /\ NextEnd(Program, k, proc'.pc)
  BY <1>1, Unwound
<1>4. PICK j \in k + 1 .. Len(Program) : proc'.pc = j /\ NextEnd(Program, k, j)
  BY <1>3
<1>5. Program[j].op = "end"
  BY <1>4 DEF NextEnd
<1>6. AbortsLawfully(t, s, k, i, j)
  BY <1>1, <1>4, <1>5 DEF Lawful, Leaving
<1>7. proc'.aborted /\ proc'.pool /\ proc'.saved = proc.saved
      /\ proc'.env["oid"] \in {proc.env["oid"], proc.saved["oid"]}
  <2>1. PICK keep \in BOOLEAN : \E pc :
          LET env == IF keep THEN proc.env ELSE proc.saved IN
          proc' = [proc EXCEPT !.pc = pc, !.aborted = TRUE,
                                 !.env = [env EXCEPT !["obj"] = proc.saved["obj"]]]
    BY DEF Unwind
  <2>2. "oid" # "obj" /\ "oid" \in Locals /\ proc.env \in [Locals -> Int] /\ proc.saved \in [Locals -> Int]
    BY <1>1 DEF Locals, Procs
  <2> QED
    BY <1>1, <1>2, <2>1, <2>2 DEF Procs
<1>8. ASSUME Program[j].handler = "none" PROVE Outlined(j + 1)'
  <2>1. /\ Crowded(t, s, j + 1) = "any"
        /\ \A v \in Slots : v # "oid" => Known(t, s, j + 1, v) = "any"
        /\ \A v \in {"oid", "saved"} :
             Restores(i.op, Known(t, s, k, v), Known(t, s, j + 1, "oid"))
    BY <1>1, <1>6, <1>8 DEF AbortsLawfully
  <2>2. RolledBack
    BY DEF Unwind, TxAbort
  <2> DEFINE n == Bytes(t, "oid")
             next == Known(t, s, j + 1, "oid")
             p == proc'.env["oid"]
  <2>3. n \in Nat \ {0} /\ Bytes(t, "saved") = n /\ "oid" \in Slots /\ "saved" \in Slots /\ "oid" # "saved"
    BY BytesTyped, SavedBytes DEF Slots, Locals
  <2>4. PICK v \in {"oid", "saved"} : Pointer(v) = p
    BY <1>7, <2>3 DEF Pointer
  <2>5. Known(t, s, k, v) # "twin"
    BY <2>1 , <2>4 DEF Restores, Known, WithDummyKnows
  <2>6. Behind(Known(t, s, k, v), p, n, blk, added, freed) \/ (Spoiled /\ Nowhere(Known(t, s, k, v), p))
    BY <1>1, <1>2, <2>3, <2>4, <2>5 DEF Outlined, Meets
  <2>7. Restores(i.op, Known(t, s, k, v), next)
    BY <2>1, <2>4
  <2> HIDE DEF n, next, p
  <2>8. next # "twin" /\ (Behind(next, p, n, blk', added', freed') \/ (Spoiled' /\ Nowhere(next, p)))
    BY <1>1, <2>2, <2>3, <2>6, <2>7, Restored
  <2>9. ASSUME NEW u \in Slots
        PROVE  IF Known(t, s, j + 1, u) = "twin" THEN Pointer(u)' = proc'.env["obj"]
               ELSE Meets(Known(t, s, j + 1, u), Pointer(u), Bytes(t, u))'
    <3>1. CASE u = "oid"
      <4>1. Pointer(u)' = p
        BY <3>1, <2>3 DEF Pointer, p
      <4> QED
        BY <2>8, <3>1, <4>1 DEF Meets, Nowhere, Behind, next, n
    <3>2. CASE u # "oid"
      <4>1. Known(t, s, j + 1, u) = "any"
        BY <2>1, <3>2
      <4> QED
        BY <4>1 DEF Meets, Behind
    <3> QED
      BY <3>1, <3>2
  <2>10. Crowd("any")'
    BY DEF Crowd
  <2> QED
    BY <1>1, <2>1, <2>9, <2>10 DEF Outlined
<1>9. Program[j].handler # "none" => Spoiled'
  BY <1>1, <1>6 DEF AbortsLawfully
<1> QED
  BY <1>1, <1>3, <1>4, <1>7, <1>8, <1>9 DEF LeavesTx

\* Outside the faulty line an allocation finds room, or there is an excuse.
LEMMA FullIsSpoiled ==
  ASSUME NEW t, NEW s, NEW k, NEW i, Poised(t, s, k, i), i.op \in {"alloc", "realloc", "new"},
         proc.pool, Full(i.n)
  PROVE  Spoiled
<1> SUFFICES ASSUME Roomy PROVE FALSE
  BY DEF Spoiled
<1>1. ~AtFault(t, s, k) /\ Legal(t, s, k, i) /\ Outlined(k)
  BY LineLaw
<1>2. /\ HeapTyped /\ Sound /\ test = t /\ stage = s
  BY DEF Poised, Ready
<1>3. i.v \in Locals \ {"root"} /\ i.n = Bytes(t, i.v) /\ RoomFor(Crowded(t, s, k), i.n)
  BY <1>1 DEF Legal
<1>4. i.n \in {8, 16, 40, Stretch, BigDummy}
  BY <1>3 DEF Bytes
<1>5. Crowd(Crowded(t, s, k))
  BY <1>1, <1>2 DEF Outlined
<1> QED
  BY <1>2, <1>3, <1>4, <1>5, EnoughRoom

LEMMA FailureExcused ==
  ASSUME NEW t, NEW s, NEW k, NEW i, Poised(t, s, k, i), i.op \in {"alloc", "realloc", "new"},
         proc.pool, AllocFails(i.n)
  PROVE  Spoiled'
<1>1. failures \in 0 .. MaxFailures
  BY DEF Poised, Ready
<1>2. CASE Full(i.n)
  BY <1>1, <1>2, FullIsSpoiled, Excuses DEF AllocFails
<1>3. CASE ~Full(i.n)
  BY <1>1, <1>3, Excuses DEF AllocFails
<1> QED
  BY <1>2, <1>3


\* The context of the lemmas below: a step from a line of an outline.
Steps(t, s, k, i) ==
  /\ Poised(t, s, k, i) /\ UNCHANGED suiteVars /\ ~indet'
  /\ Spoiled => Spoiled'
  /\ Fails => Spoiled'

LEMMA Stepping ==
  ASSUME NEW t, NEW s, NEW k, NEW i, Steps(t, s, k, i)
  PROVE  /\ Ready /\ Instr = i /\ proc.pc = k /\ ~proc.wild /\ HeapTyped /\ Sound /\ features = Features
         /\ test = t /\ stage = s /\ test' = t /\ stage' = s /\ proc \in Procs
         /\ k \in Nat /\ Poised(t, s, k, i) /\ UNCHANGED suiteVars
         /\ Spoiled => Spoiled'
         /\ Fails => Spoiled'
  BY DEF Steps, Poised, Ready, suiteVars, Procs

\* A line that assigns nothing and leaves the heap alone.
LEMMA PlainlyProceeds ==
  ASSUME NEW t, NEW s, NEW k, NEW i, Steps(t, s, k, i),
         i.op \in {"range", "write", "flag"}, ~AtFault(t, s, k),
         Advance, UNCHANGED heapVars
  PROVE  Continues(t, s, k)
<1>1. Poised(t, s, k, i) /\ UNCHANGED suiteVars /\ Ready /\ proc.pc = k /\ ~proc.wild
      /\ (Spoiled => Spoiled') /\ test = t /\ stage = s /\ test' = t /\ stage' = s
  BY Stepping
<1>2. ~proc.aborted /\ proc.pool /\ Outlined(k)
  BY <1>1, LineLaw
<1>3. /\ proc'.status = "run" /\ proc'.pc = k + 1 /\ ~proc'.wild /\ ~proc'.aborted /\ proc'.pool
      /\ proc'.env = proc.env /\ proc'.saved = proc.saved
  BY <1>1, <1>2, OnlyMoved, Moved DEF Ready
<1>4. UNCHANGED <<blk, added, freed>> /\ Carried(i.op)
  BY CarriedQuietly DEF heapVars
<1>5. \A v : Pointer(v)' = Pointer(v)
  BY <1>3, PointersKept
<1>6. \A v \in Slots : ~Assigns(i, v)
  BY DEF Assigns
<1>7. \A v, kind, next : ~Ends(i, v, kind, next)
  BY DEF Ends
<1>8. ASSUME Crowds(i, Crowded(t, s, k), Crowded(t, s, k + 1)) PROVE Crowd(Crowded(t, s, k + 1))'
  <2>1. Crowded(t, s, k + 1) = "any" \/ Crowded(t, s, k + 1) = Crowded(t, s, k)
    BY <1>8 DEF Crowds
  <2>2. Crowd(Crowded(t, s, k))
    BY <1>1, <1>2 DEF Outlined
  <2> QED
    BY <1>3, <1>4, <2>1, <2>2 DEF Crowd, Blocks
<1>9. i.op \notin {"abort", "close"}
  OBVIOUS
<1>10. k # 1
  BY <1>1, <1>2 DEF Poised
<1> QED
  BY <1>1, <1>2, <1>3, <1>4, <1>5, <1>6, <1>7, <1>8, <1>9, <1>10, Proceeds

LEMMA FlagBehaves ==
  ASSUME NEW t, NEW s, NEW k, NEW i, Steps(t, s, k, i), Flag PROVE Behaves(t, s, k)
<1>1. i.op = "flag" /\ Advance /\ UNCHANGED heapVars
  BY Stepping DEF Flag, At, Instr
<1>2. ~AtFault(t, s, k)
  BY <1>1, Stepping, LineLaw
<1> QED
  BY <1>1, <1>2, PlainlyProceeds DEF Behaves

LEMMA CloseBehaves ==
  ASSUME NEW t, NEW s, NEW k, NEW i, Steps(t, s, k, i), Close PROVE Behaves(t, s, k)
<1>1. Instr.op = "close" /\ proc' = [proc EXCEPT !.status = "exit"] /\ proc.pc = k /\ ~proc.wild
      /\ proc \in Procs
  BY Stepping DEF Close, At, Instr
<1>2. proc'.status = "exit" /\ proc'.pc = k /\ ~proc'.wild
  BY <1>1 DEF Procs
<1> QED
  BY <1>1, <1>2 DEF Returns, Behaves

LEMMA AbortBehaves ==
  ASSUME NEW t, NEW s, NEW k, NEW i, Steps(t, s, k, i), AbortTx PROVE Behaves(t, s, k)
<1>1. i.op = "abort" /\ Unwind
  BY Stepping DEF AbortTx, At, Instr
<1>2. i.op \in Leaving
  BY <1>1 DEF Leaving
<1> QED
  BY <1>1, <1>2, Stepping, Unwinds DEF Behaves

LEMMA UseNoPoolBehaves ==
  ASSUME NEW t, NEW s, NEW k, NEW i, Steps(t, s, k, i), UseNoPool PROVE Behaves(t, s, k)
<1>1. i.op \in {"root", "begin", "new"} /\ ~proc.pool /\ Die("segv")
  BY Stepping DEF UseNoPool
<1>2. Poised(t, s, k, i) /\ (Spoiled => Spoiled') /\ s \in 1 .. 2
  BY Stepping DEF Poised
<1>3. k # 1
  <2>1. i.op = "create" <=> k = 1 /\ s = 1
    BY <1>2, LineLaw
  <2>2. i.op = "open" <=> k = 1 /\ s = 2
    BY <1>2, LineLaw
  <2>3. s = 1 \/ s = 2
    BY <1>2
  <2> QED
    BY <1>1, <2>1, <2>2, <2>3
<1>4. Spoiled
  BY <1>1, <1>2, <1>3 DEF Poised
<1> QED
  BY <1>1, <1>2, <1>4, Dying DEF Behaves

LEMMA CreateBehaves ==
  ASSUME NEW t, NEW s, NEW k, NEW i, Steps(t, s, k, i), Create PROVE Behaves(t, s, k)
<1>1. i.op = "create" /\ k = 1 /\ s = 1 /\ ~AtFault(t, s, k) /\ ~proc.aborted /\ Outlined(k)
  BY Stepping, LineLaw DEF Create, At, Instr
<1>2. /\ Poised(t, s, k, i) /\ UNCHANGED suiteVars /\ proc \in Procs /\ Ready /\ proc.pc = k /\ ~proc.wild
      /\ (Spoiled => Spoiled') /\ (Fails => Spoiled') /\ test = t /\ stage = s /\ test' = t /\ stage' = s
  BY Stepping
<1>3. ~proc.pool
  BY <1>1, <1>2 DEF Poised
<1>4. Carried(i.op) /\ (\A v : ~Assigns(i, v)) /\ \A v, kind, next : ~Ends(i, v, kind, next)
  BY <1>1, CarriedQuietly DEF Assigns, Ends
<1>5. CASE Format /\ proc' = [proc EXCEPT !.pc = @ + 1, !.pool = TRUE]
  <2>1. /\ proc'.status = "run" /\ proc'.pc = k + 1 /\ ~proc'.wild /\ ~proc'.aborted /\ proc'.pool
        /\ proc'.env = proc.env /\ proc'.saved = proc.saved
    BY <1>1, <1>2, <1>5 DEF Ready, Running, Procs
  <2>2. root' = NoRoot /\ Blocks' = {}
    BY <1>5 DEF Format, NoBlocks, Blocks
  <2>3. \A v : Pointer(v)' = Pointer(v)
    BY <2>1, PointersKept
  <2>4. ASSUME Crowds(i, Crowded(t, s, k), Crowded(t, s, k + 1)) PROVE Crowd(Crowded(t, s, k + 1))'
    <3>1. Crowded(t, s, k + 1) \in {"any", "empty"}
      BY <1>1, <2>4 DEF Crowds
    <3> QED
      BY <2>2, <3>1 DEF Crowd
  <2> QED
    BY <1>1, <1>2, <1>4, <2>1, <2>2, <2>3, <2>4, Proceeds DEF Behaves
<1>6. CASE Fails /\ Checked /\ proc' = [proc EXCEPT !.status = "dead", !.report = "abort"]
  <2>1. proc'.status = "dead" /\ proc'.report = "abort" /\ proc'.pc = k /\ ~proc'.wild
    BY <1>2, <1>6 DEF Procs
  <2> QED
    BY <1>2, <1>6, <2>1 DEF Stops, Behaves
<1>7. CASE Fails /\ ~Checked /\ proc' = [proc EXCEPT !.pc = @ + 1]
  <2>1. /\ proc'.status = "run" /\ proc'.pc = k + 1 /\ ~proc'.wild /\ ~proc'.aborted /\ ~proc'.pool
        /\ proc'.env = proc.env /\ proc'.saved = proc.saved
    BY <1>1, <1>2, <1>3, <1>7 DEF Ready, Running, Procs
  <2>2. \A v : Pointer(v)' = Pointer(v)
    BY <2>1, PointersKept
  <2> QED
    BY <1>1, <1>2, <1>4, <1>7, <2>1, <2>2, Proceeds DEF Behaves
<1> QED
  BY <1>5, <1>6, <1>7 DEF Create

LEMMA OpenBehaves ==
  ASSUME NEW t, NEW s, NEW k, NEW i, Steps(t, s, k, i), OpenPool PROVE Behaves(t, s, k)
<1>1. i.op = "open" /\ k = 1 /\ s = 2 /\ ~AtFault(t, s, k) /\ ~proc.aborted /\ Outlined(k)
  BY Stepping, LineLaw DEF OpenPool, At, Instr
<1>2. /\ Poised(t, s, k, i) /\ UNCHANGED suiteVars /\ proc \in Procs /\ Ready /\ proc.pc = k /\ ~proc.wild
      /\ (Spoiled => Spoiled') /\ (Fails => Spoiled') /\ test = t /\ stage = s /\ test' = t /\ stage' = s
  BY Stepping
<1>3. ~proc.pool
  BY <1>1, <1>2 DEF Poised
<1>4. Carried(i.op) /\ (\A v : ~Assigns(i, v)) /\ \A v, kind, next : ~Ends(i, v, kind, next)
  BY <1>1, CarriedQuietly DEF Assigns, Ends
<1>5. CASE proc' = [proc EXCEPT !.pc = @ + 1, !.pool = TRUE]
  <2>1. /\ proc'.status = "run" /\ proc'.pc = k + 1 /\ ~proc'.wild /\ ~proc'.aborted /\ proc'.pool
        /\ proc'.env = proc.env /\ proc'.saved = proc.saved
    BY <1>1, <1>2, <1>5 DEF Ready, Running, Procs
  <2>2. \A v : Pointer(v)' = Pointer(v)
    BY <2>1, PointersKept
  <2>3. ASSUME Crowds(i, Crowded(t, s, k), Crowded(t, s, k + 1)) PROVE Crowd(Crowded(t, s, k + 1))'
    <3>1. Crowded(t, s, k + 1) = "any"
      BY <1>1, <2>3 DEF Crowds
    <3> QED
      BY <3>1 DEF Crowd
  <2>4. s # 1
    BY <1>1
  <2> QED
    BY <1>1, <1>2, <1>4, <2>1, <2>2, <2>3, <2>4, Proceeds DEF Behaves
<1>6. CASE (Fails \/ ~file) /\ NoPool
  <2>1. Spoiled'
    <3>1. CASE ~file
      <4>1. t = 10 /\ stage = 2 /\ proc.pc <= 2
        BY <1>1, <1>2 DEF Poised
      <4>2. file \/ Spoiled
        BY <1>2, <4>1 DEF Poised, RootKept
      <4> QED
        BY <1>2, <3>1, <4>2
    <3> QED
      BY <1>2, <1>6, <3>1
  <2>2. CASE Die("abort")
    BY <1>2, <2>1, <2>2, Dying DEF Behaves
  <2>3. CASE Advance
    <3>1. /\ proc'.status = "run" /\ proc'.pc = k + 1 /\ ~proc'.wild /\ ~proc'.aborted /\ ~proc'.pool
          /\ proc'.env = proc.env /\ proc'.saved = proc.saved
      BY <1>1, <1>2, <1>3, <2>3, OnlyMoved, Moved DEF Ready
    <3>2. \A v : Pointer(v)' = Pointer(v)
      BY <3>1, PointersKept
    <3> QED
      BY <1>1, <1>2, <1>4, <2>1, <3>1, <3>2, Proceeds DEF Behaves
  <2> QED
    BY <1>6, <2>2, <2>3 DEF NoPool
<1> QED
  BY <1>5, <1>6 DEF OpenPool


LEMMA RootBehaves ==
  ASSUME NEW t, NEW s, NEW k, NEW i, Steps(t, s, k, i), RootObj PROVE Behaves(t, s, k)
<1>1. i.op = "root" /\ k = 2 /\ ~AtFault(t, s, k) /\ ~proc.aborted /\ Outlined(k) /\ proc.pool
      /\ Legal(t, s, k, i)
  BY Stepping, LineLaw DEF RootObj, At, Instr
<1>2. /\ Poised(t, s, k, i) /\ UNCHANGED suiteVars /\ proc \in Procs /\ Ready /\ proc.pc = k /\ ~proc.wild
      /\ (Spoiled => Spoiled') /\ (Fails => Spoiled') /\ test = t /\ stage = s /\ test' = t /\ stage' = s
      /\ HeapTyped /\ Sound /\ Instr = i
  BY Stepping
<1>3. /\ Carried(i.op) /\ (\A v : Assigns(i, v) <=> v = "root") /\ \A v, kind, next : ~Ends(i, v, kind, next)
      /\ "root" \in Locals
  BY <1>1, CarriedQuietly DEF Assigns, Ends, Locals
<1>4. /\ i.n = Bytes(t, "root") /\ Bytes(t, "root") \in Nat \ {0} /\ Null \in Int
      /\ \A next : Yields(t, s, k, i, next) => next \in {"any", "old"}
      /\ \A b \in Granules : b \in Int /\ 8 * b \in Int
  BY <1>1, BytesTyped, HeapAssumption DEF Legal, Yields, Null, Granules
<1>5. Crowd(Crowded(t, s, k))
  BY <1>1, <1>2 DEF Outlined
<1>6. \A c, next : Crowds(i, c, next) => next = "any" \/ (next = "few" /\ c = "empty" /\ i.n <= 16)
  BY <1>1 DEF Crowds
<1>7. ASSUME NEW p \in Int, AdvanceWith("root", p),
             Behind("old", p, Bytes(t, "root"), blk', added', freed') \/ (Spoiled' /\ p = Null),
             Crowded(t, s, k) = "empty" /\ i.n <= 16 =>
               \E b \in Granules : Blocks' \subseteq {b} /\ blk'[b] <= 16
      PROVE  Behaves(t, s, k)
  <2>1. /\ proc'.status = "run" /\ proc'.pc = k + 1 /\ ~proc'.wild /\ ~proc'.aborted /\ proc'.pool
    BY <1>1, <1>2, <1>7, OnlyMoved
  <2>2. Pointer("root")' = p /\ \A v \in Slots : v # "root" => Pointer(v)' = Pointer(v)
    BY <1>2, <1>3, <1>7, PointerAssigned
  <2>3. \A v \in Slots : Assigns(i, v) /\ Yields(t, s, k, i, Known(t, s, k + 1, v)) =>
          Met(t, s, k + 1, v)'
    <3> SUFFICES ASSUME Yields(t, s, k, i, Known(t, s, k + 1, "root"))
                 PROVE  Met(t, s, k + 1, "root")'
      BY <1>3
    <3>1. CASE Known(t, s, k + 1, "root") = "any"
      BY <3>1 DEF Met, Meets, Behind
    <3>2. CASE Known(t, s, k + 1, "root") = "old"
      BY <1>7, <2>2, <3>2 DEF Met, Meets, Nowhere
    <3> QED
      BY <1>4, <3>1, <3>2
  <2>4. Crowds(i, Crowded(t, s, k), Crowded(t, s, k + 1)) => Crowd(Crowded(t, s, k + 1))'
    BY <1>6, <1>7 DEF Crowd
  <2>5. \A v \in Slots : ~Assigns(i, v) => Pointer(v)' = Pointer(v)
    BY <1>3, <2>2
  <2>6. i.op \notin {"abort", "close"} /\ k # 1
    BY <1>1
  <2> QED
    BY <1>1, <1>2, <1>3, <2>1, <2>3, <2>4, <2>5, <2>6, Proceeds DEF Behaves
<1>8. ASSUME Crowded(t, s, k) = "empty", UNCHANGED blk
      PROVE  \E b \in Granules : Blocks' \subseteq {b} /\ blk'[b] <= 16
  <2>1. Blocks = {}
    BY <1>5, <1>8 DEF Crowd
  <2>2. blk[0] = 0 /\ Blocks' = {}
    BY <1>2, <1>8, <2>1, Somewhere DEF Blocks, HeapTyped
  <2> QED
    BY <1>8, <2>2, Somewhere
<1>9. CASE root # NoRoot /\ AdvanceWith("root", 8 * root) /\ UNCHANGED heapVars
  <2>1. s = 2 /\ t = 10
    BY <1>1, <1>2, <1>9 DEF Poised
  <2>2. ~tx /\ blk[root] = 16
    BY <1>1, <1>2, <1>9, <2>1 DEF Poised, RootKept
  <2>3. added = {} /\ freed = {} /\ root \in Granules
    BY <1>2, <1>9, <2>2 DEF Sound, HeapTyped
  <2>4. Bytes(t, "root") = 16
    BY <2>1 DEF Bytes
  <2>5. Behind("old", 8 * root, Bytes(t, "root"), blk', added', freed')
    BY <1>9, <2>2, <2>3, <2>4 DEF Behind, heapVars
  <2> QED
    BY <1>4, <1>7, <1>8, <1>9, <2>3, <2>5 DEF heapVars
<1>10. ASSUME NEW b \in Granules, RootAlloc(b, i.n), AdvanceWith("root", 8 * b)
       PROVE  Behaves(t, s, k)
  <2>1. /\ blk' = [blk EXCEPT ![b] = i.n] /\ ~tx /\ added' = added /\ freed' = freed
    BY <1>10 DEF RootAlloc
  <2>2. added' = {} /\ freed' = {}
    BY <1>2, <2>1 DEF Sound
  <2>3. blk'[b] = i.n /\ \A c \in Granules : c # b => blk'[c] = blk[c]
    BY <1>2, <2>1 DEF HeapTyped
  <2>4. Behind("old", 8 * b, Bytes(t, "root"), blk', added', freed')
    BY <1>4, <2>2, <2>3 DEF Behind
  <2>5. Crowded(t, s, k) = "empty" => Blocks' \subseteq {b}
    BY <1>5, <2>3 DEF Crowd, Blocks
  <2>6. Crowded(t, s, k) = "empty" /\ i.n <= 16 =>
          \E c \in Granules : Blocks' \subseteq {c} /\ blk'[c] <= 16
    BY <2>3, <2>5
  <2> QED
    BY <1>4, <1>7, <1>10, <2>4, <2>6
<1>11. CASE Fails /\ Die("abort")
  BY <1>2, <1>11, Dying DEF Behaves
<1>12. CASE Fails /\ AdvanceWith("root", Null) /\ UNCHANGED heapVars
  BY <1>2, <1>4, <1>7, <1>8, <1>12 DEF heapVars
<1> QED
  BY <1>2, <1>9, <1>10, <1>11, <1>12 DEF RootObj

LEMMA BeginBehaves ==
  ASSUME NEW t, NEW s, NEW k, NEW i, Steps(t, s, k, i), Begin PROVE Behaves(t, s, k)
<1>1. i.op = "begin" /\ ~AtFault(t, s, k) /\ ~proc.aborted /\ Outlined(k) /\ proc.pool /\ TxBegin
  BY Stepping, LineLaw DEF Begin, At, Instr
<1>2. /\ Poised(t, s, k, i) /\ UNCHANGED suiteVars /\ proc \in Procs /\ Ready /\ proc.pc = k /\ ~proc.wild
      /\ (Spoiled => Spoiled') /\ test = t /\ stage = s /\ test' = t /\ stage' = s
  BY Stepping
<1>3. /\ Carried(i.op) /\ (\A v : Assigns(i, v) <=> v = "saved") /\ \A v, kind, next : ~Ends(i, v, kind, next)
      /\ UNCHANGED <<blk, added, freed>>
  BY <1>1, CarriedQuietly DEF Assigns, Ends, TxBegin
<1>4. /\ proc'.status = "run" /\ proc'.pc = k + 1 /\ ~proc'.wild /\ ~proc'.aborted /\ proc'.pool
      /\ proc'.env = proc.env /\ proc'.saved = proc.env
  <2>1. proc' = [proc EXCEPT !.pc = @ + 1, !.saved = proc.env]
    BY DEF Begin
  <2> QED
    BY <1>1, <1>2, <2>1 DEF Ready, Running, Procs
<1>5. "oid" \in Slots /\ "saved" \in Slots /\ "oid" # "saved" /\ Pointer("oid") = proc.env["oid"]
  BY DEF Slots, Locals, Pointer
<1>6. Pointer("saved")' = Pointer("oid") /\ \A v \in Slots : v # "saved" => Pointer(v)' = Pointer(v)
  BY <1>4, <1>5 DEF Pointer
<1>7. ASSUME Yields(t, s, k, i, Known(t, s, k + 1, "saved"))
      PROVE  Met(t, s, k + 1, "saved")'
  <2>1. CASE Known(t, s, k + 1, "saved") = "any"
    BY <2>1 DEF Met, Meets, Behind
  <2>2. CASE Known(t, s, k + 1, "saved") = Known(t, s, k, "oid") /\ Known(t, s, k, "oid") # "twin"
    <3>1. Meets(Known(t, s, k, "oid"), Pointer("oid"), Bytes(t, "oid"))
      BY <1>1, <1>2, <1>5, <2>2 DEF Outlined
    <3> QED
      BY <1>2, <1>3, <1>6, <2>2, <3>1, SavedBytes DEF Met, Meets, Nowhere, Behind
  <2> QED
    BY <1>1, <1>7, <2>1, <2>2 DEF Yields
<1>8. ASSUME Crowds(i, Crowded(t, s, k), Crowded(t, s, k + 1)) PROVE Crowd(Crowded(t, s, k + 1))'
  <2>1. Crowded(t, s, k + 1) = "any" \/ Crowded(t, s, k + 1) = Crowded(t, s, k)
    BY <1>1, <1>8 DEF Crowds
  <2>2. Crowd(Crowded(t, s, k))
    BY <1>1, <1>2 DEF Outlined
  <2> QED
    BY <1>3, <1>4, <2>1, <2>2 DEF Crowd, Blocks
<1>9. \A v \in Slots : Assigns(i, v) /\ Yields(t, s, k, i, Known(t, s, k + 1, v)) =>
        Met(t, s, k + 1, v)'
  BY <1>3, <1>7
<1>10. \A v \in Slots : ~Assigns(i, v) => Pointer(v)' = Pointer(v)
  BY <1>3, <1>6
<1>11. i.op \notin {"abort", "close"} /\ k # 1
  BY <1>1, <1>2 DEF Poised
<1> QED
  BY <1>1, <1>2, <1>3, <1>4, <1>8, <1>9, <1>10, <1>11, Proceeds DEF Behaves

LEMMA CopyBehaves ==
  ASSUME NEW t, NEW s, NEW k, NEW i, Steps(t, s, k, i), Copy PROVE Behaves(t, s, k)
<1>1. i.op = "copy" /\ ~AtFault(t, s, k) /\ ~proc.aborted /\ Outlined(k) /\ proc.pool
      /\ Legal(t, s, k, i)
  BY Stepping, LineLaw DEF Copy, At, Instr
<1>2. /\ Poised(t, s, k, i) /\ UNCHANGED suiteVars /\ proc \in Procs /\ Ready /\ proc.pc = k /\ ~proc.wild
      /\ (Spoiled => Spoiled') /\ test = t /\ stage = s /\ test' = t /\ stage' = s /\ Instr = i
  BY Stepping
<1>3. /\ AdvanceWith(i.v, proc.env[i.u]) /\ UNCHANGED <<blk, added, freed>> /\ Carried(i.op)
      /\ (\A v : Assigns(i, v) <=> v = i.v) /\ \A v, kind, next : ~Ends(i, v, kind, next)
  BY <1>1, <1>2, CarriedQuietly DEF Copy, Assigns, Ends, heapVars
<1>4. i.u \in Locals /\ proc.env[i.u] \in Int /\ i.v \in Locals
  BY <1>1, <1>2 DEF Ready, Form, Instr, Procs, Legal
<1>5. proc'.status = "run" /\ proc'.pc = k + 1 /\ ~proc'.wild /\ ~proc'.aborted /\ proc'.pool
  BY <1>1, <1>2, <1>3, <1>4, OnlyMoved
<1>6. /\ Pointer(i.v)' = proc.env[i.u] /\ \A v \in Slots : v # i.v => Pointer(v)' = Pointer(v)
      /\ proc'.env["obj"] = IF i.v = "obj" THEN proc.env[i.u] ELSE proc.env["obj"]
  <2>1. "obj" \in Locals
    BY DEF Locals
  <2> QED
    BY <1>2, <1>3, <1>4, <2>1, PointerAssigned, Assigned
<1>7. ASSUME Yields(t, s, k, i, Known(t, s, k + 1, i.v))
      PROVE  Met(t, s, k + 1, i.v)'
  <2>1. CASE Known(t, s, k + 1, i.v) = "any"
    BY <2>1 DEF Met, Meets, Behind
  <2>2. CASE /\ Known(t, s, k + 1, i.v) = Known(t, s, k, i.u) /\ Known(t, s, k, i.u) # "twin"
             /\ Bytes(t, i.v) = Bytes(t, i.u)
    <3>1. i.u \in Slots /\ Pointer(i.u) = proc.env[i.u]
      BY <1>4 DEF Slots, Pointer, Locals
    <3>2. Meets(Known(t, s, k, i.u), Pointer(i.u), Bytes(t, i.u))
      BY <1>1, <1>2, <2>2, <3>1 DEF Outlined
    <3> QED
      BY <1>2, <1>3, <1>6, <2>2, <3>1, <3>2 DEF Met, Meets, Nowhere, Behind
  <2>3. CASE i.v = "toid" /\ i.u = "obj" /\ Known(t, s, k + 1, i.v) = "twin"
    BY <1>6, <2>3 DEF Met
  <2> QED
    BY <1>1, <1>7, <2>1, <2>2, <2>3 DEF Yields
<1>8. Crowds(i, Crowded(t, s, k), Crowded(t, s, k + 1)) => Crowd(Crowded(t, s, k + 1))'
  BY <1>1 DEF Crowds, Crowd
<1>9. \A v \in Slots : Assigns(i, v) /\ Yields(t, s, k, i, Known(t, s, k + 1, v)) =>
        Met(t, s, k + 1, v)'
  BY <1>3, <1>7
<1>10. \A v \in Slots : ~Assigns(i, v) => Pointer(v)' = Pointer(v)
  BY <1>3, <1>6
<1>11. i.op \notin {"abort", "close"} /\ k # 1
  BY <1>1, <1>2 DEF Poised
<1> QED
  BY <1>1, <1>2, <1>3, <1>5, <1>8, <1>9, <1>10, <1>11, Proceeds DEF Behaves

LEMMA EndBehaves ==
  ASSUME NEW t, NEW s, NEW k, NEW i, Steps(t, s, k, i), End PROVE Behaves(t, s, k)
<1>1. i.op = "end" /\ ~AtFault(t, s, k) /\ proc.pool
  BY Stepping, LineLaw DEF End, At, Instr
<1>2. /\ Poised(t, s, k, i) /\ UNCHANGED suiteVars /\ proc \in Procs /\ Ready /\ proc.pc = k /\ ~proc.wild
      /\ (Spoiled => Spoiled') /\ test = t /\ stage = s /\ test' = t /\ stage' = s /\ Instr = i
      /\ features = Features /\ HeapTyped /\ Sound
  BY Stepping
<1>3. k # 1 /\ UNCHANGED failures
  BY <1>1, <1>2 DEF Poised, End
<1>4. CASE ~proc.aborted /\ TxCommit /\ Advance
  <2>1. /\ proc'.status = "run" /\ proc'.pc = k + 1 /\ ~proc'.wild /\ ~proc'.aborted /\ proc'.pool
        /\ proc'.env = proc.env /\ proc'.saved = proc.saved
    BY <1>1, <1>2, <1>4, OnlyMoved, Moved
  <2>2. \A v : Pointer(v)' = Pointer(v)
    BY <2>1, PointersKept
  <2>3. Carried(i.op) /\ (\A v : ~Assigns(i, v)) /\ \A v, kind, next : ~Ends(i, v, kind, next)
    BY <1>1, <1>2, <1>4, CarriedEnd DEF Assigns, Ends
  <2>4. Outlined(k) /\ Crowd(Crowded(t, s, k))
    BY <1>1, <1>2, <1>4 DEF Poised, Outlined
  <2>5. ASSUME Crowds(i, Crowded(t, s, k), Crowded(t, s, k + 1)) PROVE Crowd(Crowded(t, s, k + 1))'
    <3>1. blk' = [b \in Granules |-> IF b \in freed THEN 0 ELSE blk[b]] /\ freed' = {}
      BY <1>2, <1>4 DEF TxCommit, Features
    <3>2. Blocks' = Blocks \ freed /\ \A b \in Granules : blk[b] <= 16 => blk'[b] <= 16
      BY <1>2, <3>1 DEF Blocks
    <3>3. \/ Crowded(t, s, k + 1) = "any"
          \/ Crowded(t, s, k + 1) = Crowded(t, s, k) /\ Crowded(t, s, k) \in {"few", "only"}
          \/ Crowded(t, s, k + 1) = "empty" /\ Crowded(t, s, k) = "leaving"
      BY <1>1, <2>5 DEF Crowds
    <3> QED
      BY <2>1, <2>4, <3>2, <3>3 DEF Crowd
  <2>6. i.op \notin {"abort", "close"}
    BY <1>1
  <2> QED
    BY <1>1, <1>2, <1>3, <1>4, <2>1, <2>2, <2>3, <2>5, <2>6, Proceeds DEF Behaves
<1>5. CASE /\ proc.aborted /\ Instr.handler = "none"
           /\ proc' = [proc EXCEPT !.pc = @ + 1, !.aborted = FALSE]
           /\ UNCHANGED heapVars
  <2>1. Outlined(k + 1)
    BY <1>2, <1>5 DEF Poised
  <2>2. /\ proc'.status = "run" /\ proc'.pc = k + 1 /\ ~proc'.wild /\ ~proc'.aborted /\ proc'.pool
        /\ proc'.env = proc.env /\ proc'.saved = proc.saved /\ proc.pool
    BY <1>1, <1>2, <1>5 DEF Ready, Running, Procs
  <2>3. \A v : Pointer(v)' = Pointer(v)
    BY <2>2, PointersKept
  <2>4. \A kind, p, n : Meets(kind, p, n) => Behind(kind, p, n, blk', added', freed') \/ (Spoiled' /\ Nowhere(kind, p))
    BY <1>2, <1>5 DEF Meets, heapVars
  <2>5. Crowd(Crowded(t, s, k + 1))'
    <3>1. Crowd(Crowded(t, s, k + 1))
      BY <1>2, <2>1, <2>2 DEF Outlined
    <3> QED
      BY <1>5, <2>2, <3>1 DEF Crowd, Blocks, heapVars
  <2>6. Outlined(k + 1)'
    <3>1. \A v \in Slots :
            IF Known(t, s, k + 1, v) = "twin" THEN Pointer(v) = proc.env["obj"]
            ELSE Meets(Known(t, s, k + 1, v), Pointer(v), Bytes(t, v))
      BY <1>2, <2>1 DEF Outlined
    <3>2. ASSUME NEW v \in Slots
          PROVE  IF Known(t, s, k + 1, v) = "twin" THEN Pointer(v)' = proc'.env["obj"]
                 ELSE Meets(Known(t, s, k + 1, v), Pointer(v), Bytes(t, v))'
      <4>1. CASE Known(t, s, k + 1, v) = "twin"
        BY <2>2, <2>3, <3>1, <4>1
      <4>2. CASE Known(t, s, k + 1, v) # "twin"
        <5> DEFINE kind == Known(t, s, k + 1, v)
                   q == Pointer(v)
                   n == Bytes(t, v)
        <5>1. Meets(kind, q, n) /\ Pointer(v)' = q /\ kind # "twin"
          BY <2>3, <3>1, <4>2
        <5>2. Behind(kind, q, n, blk', added', freed') \/ (Spoiled' /\ Nowhere(kind, q))
          <6> HIDE DEF kind, q, n
          <6> QED
            BY <2>4, <5>1
        <5>3. Behind(kind, Pointer(v)', n, blk', added', freed') \/ (Spoiled' /\ Nowhere(kind, Pointer(v)'))
          <6> HIDE DEF kind, n
          <6> QED
            BY <5>1, <5>2
        <5> QED
          BY <4>2, <5>3 DEF Meets, Nowhere, Behind
      <4> QED
        BY <4>1, <4>2
    <3> QED
      BY <1>2, <2>5, <3>2 DEF Outlined
  <2> QED
    BY <1>1, <1>3, <2>2, <2>6 DEF Continues, Behaves
<1>6. CASE /\ proc.aborted /\ Instr.handler # "none"
           /\ proc' = [proc EXCEPT !.status = "dead", !.report = "abort"]
  <2>1. Spoiled'
    BY <1>2, <1>6 DEF Poised
  <2>2. proc'.status = "dead" /\ proc'.report = "abort" /\ proc'.pc = k /\ ~proc'.wild
    BY <1>2, <1>6 DEF Procs
  <2> QED
    BY <2>1, <2>2 DEF Stops, Behaves
<1> QED
  BY <1>4, <1>5, <1>6 DEF End


\* The reports the snippets of test.sh ask for.
LEMMA ShowsAre ==
  /\ "Invalid free" \in Shows["Invalid free"]
  /\ "Invalid free" \in Shows["Invalid free|palloc"]
  /\ "[fd]" \in Shows["[fd]"] /\ "00[fa]" \in Shows["00[fa]"] /\ "[04]" \in Shows["[04]"]
  /\ "[fa]" \in Shows["[fa]"] /\ "00[fa]" \in Shows["[fa]"]
  BY DEF Shows

LEMMA TouchStops ==
  ASSUME NEW t, NEW s, NEW k, NEW i, Steps(t, s, k, i), AtFault(t, s, k), NEW a, NEW w, Touch(a, w),
         Faults(a, w) # {}, ReportOf(Min(Faults(a, w))) \in Shows[Suite[t].snippet]
  PROVE  Stops(t, s, k)
<1>1. Die(ReportOf(Min(Faults(a, w))))
  BY DEF Touch
<1> QED
  BY <1>1, Stepping, Dying

LEMMA TouchContinues ==
  ASSUME NEW t, NEW s, NEW k, NEW i, Steps(t, s, k, i), ~AtFault(t, s, k), NEW a, NEW w, Touch(a, w),
         i.op \in {"range", "write"}, Faults(a, w) = {} /\ Harmless(a, w)
  PROVE  Continues(t, s, k)
<1>1. Advance /\ UNCHANGED heapVars
  BY DEF Touch
<1> QED
  BY <1>1, PlainlyProceeds

\* The process stands at line k with a pool and no aborted transaction.
LEMMA Standing ==
  ASSUME NEW t, NEW s, NEW k, NEW i, Steps(t, s, k, i),
         i.op \notin {"create", "open", "root", "begin", "close", "end"}
  PROVE  /\ ~proc.aborted /\ Outlined(k) /\ proc.pool /\ k # 1
         /\ i.op \notin {"abort"} /\ ~AtFault(t, s, k) => Legal(t, s, k, i)
         /\ AtFault(t, s, k) => Trapped(t, s, k, i)
  BY Stepping, LineLaw DEF Poised

LEMMA Named ==
  ASSUME NEW t, NEW s, NEW k, NEW i, Steps(t, s, k, i), i.op \in {"write", "range", "free", "delete"}
  PROVE  i.v \in Locals /\ proc.env[i.v] \in Int
<1>1. ~AtFault(t, s, k) => i.v \in Locals
  BY Standing DEF Legal
<1>2. AtFault(t, s, k) => i.v \in Locals
  BY Standing DEF Trapped
<1>3. proc \in Procs
  BY Stepping
<1> QED
  BY <1>1, <1>2, <1>3 DEF Procs

\* What the outline says of the variable a faulty line uses.
LEMMA KnownWreck ==
  ASSUME NEW t, NEW s, NEW k, NEW i, Poised(t, s, k, i), ~proc.aborted,
         NEW v \in Locals, Known(t, s, k, v) \in {"going", "stale"}
  PROVE  \/ proc.env[v] \in {Null, Unassigned}
         \/ \E b \in Granules : /\ proc.env[v] = 8 * b /\ b \notin Live
                                /\ \A c \in Live : b \notin Taken(c)
<1>1. Outlined(k) /\ test = t /\ stage = s /\ HeapTyped /\ Sound
  BY DEF Poised, Ready
<1>2. v \in Slots /\ Pointer(v) = proc.env[v]
  BY DEF Slots, Pointer, Locals
<1>3. Meets(Known(t, s, k, v), proc.env[v], Bytes(t, v))
  BY <1>1, <1>2 DEF Outlined
<1>4. CASE Spoiled /\ Nowhere(Known(t, s, k, v), proc.env[v])
  BY <1>4 DEF Nowhere
<1>5. CASE Behind("going", proc.env[v], Bytes(t, v), blk, added, freed)
  <2>1. PICK b \in Granules : proc.env[v] = 8 * b /\ b \in freed
    BY <1>5 DEF Behind
  <2>2. b \notin Live /\ \A c \in Live : b \notin Taken(c)
    BY <1>1, <2>1, GoingIsNotLive DEF Live
  <2> QED
    BY <2>1, <2>2
<1>6. CASE Behind("stale", proc.env[v], Bytes(t, v), blk, added, freed)
  <2>1. CASE proc.env[v] = Unassigned
    BY <2>1
  <2>2. CASE \E b \in Granules :
               /\ proc.env[v] = 8 * b
               /\ \A c \in Granules : blk[c] > 0 /\ c \notin freed => b \notin Space(c, blk[c])
    BY <1>1, <2>2, StaleIsNotLive
  <2> QED
    BY <1>6, <2>1, <2>2 DEF Behind
<1> QED
  BY <1>3, <1>4, <1>5, <1>6 DEF Meets

LEMMA WriteBehaves ==
  ASSUME NEW t, NEW s, NEW k, NEW i, Steps(t, s, k, i), Write PROVE Behaves(t, s, k)
<1>1. i.op = "write"
  BY Stepping DEF Write, At, Instr
<1>2. /\ Poised(t, s, k, i) /\ Ready /\ Instr = i /\ (Spoiled => Spoiled') /\ HeapTyped /\ Sound
      /\ proc \in Procs /\ ~proc.aborted /\ Outlined(k) /\ test = t /\ stage = s
  BY <1>1, Stepping, Standing
<1> DEFINE p == proc.env[i.v]
<1>3. i.v \in Locals /\ p \in Int
  BY <1>1, Named
<1>4. /\ p # Unassigned
      /\ (p = Null /\ Die("segv")) \/ (p >= 0 /\ Touch(p + i.off, i.w))
  BY <1>2 DEF Write, TouchAnywhere, Steps, Null, Unassigned
<1> HIDE DEF p
<1>5. Null < 0 /\ Null \in Int
  BY DEF Null
<1>6. CASE ~AtFault(t, s, k)
  <2>1. /\ Known(t, s, k, i.v) \in {"old", "new"}
        /\ i.off \in Nat /\ i.w \in Nat \ {0} /\ i.off + i.w <= Bytes(t, i.v)
    BY <1>1, <1>6, Standing DEF Legal
  <2>2. CASE Spoiled /\ p \in {Null, Unassigned}
    <3>1. Die("segv") /\ Spoiled'
      BY <1>2, <1>4, <1>5, <2>2
    <3> QED
      BY <1>2, <3>1, Dying DEF Behaves
  <2>3. CASE \E b \in Live : b \in Nat /\ blk[b] = Bytes(t, i.v) /\ p = 8 * b
    <3>1. PICK b \in Live : b \in Nat /\ blk[b] = Bytes(t, i.v) /\ p = 8 * b
      BY <2>3
    <3>2. Bytes(t, i.v) \in Nat \ {0}
      BY BytesTyped
    <3>3. Faults(8 * b + i.off, i.w) = {} /\ Harmless(8 * b + i.off, i.w)
      BY <1>2, <2>1, <3>1, <3>2, InsideAccess
    <3>4. Touch(8 * b + i.off, i.w)
      BY <1>4, <1>5, <3>1
    <3> QED
      BY <1>1, <1>6, <3>3, <3>4, TouchContinues DEF Behaves
  <2> QED
    BY <1>2, <1>3, <2>1, <2>2, <2>3, KnownObject DEF p
<1>7. CASE AtFault(t, s, k)
  <2>1. Trapped(t, s, k, i)
    BY <1>1, <1>7, Standing
  <2>2. CASE Spoiled /\ p \in {Null, Unassigned}
    <3>1. Die("segv") /\ Spoiled'
      BY <1>2, <1>4, <1>5, <2>2
    <3> QED
      BY <1>2, <3>1, Dying DEF Behaves
  <2>3. CASE Known(t, s, k, i.v) \in {"going", "stale"} /\ i.off = 0 /\ i.w = 8 /\ Suite[t].snippet = "[fd]"
    <3>1. CASE p \in {Null, Unassigned}
      <4>1. Known(t, s, k, i.v) \in {"going", "stale"} => Spoiled
        <5>1. i.v \in Slots /\ Pointer(i.v) = p
          BY <1>3 DEF Slots, Pointer, Locals, p
        <5>2. Meets(Known(t, s, k, i.v), p, Bytes(t, i.v))
          BY <1>2, <2>3, <5>1 DEF Outlined
        <5>3. p = Null /\ \A b \in Granules : p # 8 * b
          BY <1>4, <3>1, Addresses
        <5>4. Null # Unassigned
          BY DEF Null, Unassigned
        <5> QED
          BY <2>3, <5>2, <5>3, <5>4 DEF Meets, Behind
      <4> QED
        BY <2>2, <2>3, <3>1, <4>1
    <3>2. CASE \E b \in Granules : p = 8 * b /\ \A c \in Live : b \notin Taken(c)
      <4>1. PICK b \in Granules : p = 8 * b /\ \A c \in Live : b \notin Taken(c)
        BY <3>2
      <4>2. Faults(8 * b, 8) = {b} /\ ReportOf(Min(Faults(8 * b, 8))) = "[fd]"
        BY <1>2, <4>1, FreedAccess
      <4>3. Touch(8 * b, 8)
        <5>1. p + i.off = 8 * b
          BY <1>3, <2>3, <4>1
        <5>2. p # Null
          BY <4>1, Addresses
        <5> QED
          BY <1>4, <2>3, <5>1, <5>2
      <4> QED
        BY <1>7, <2>3, <4>2, <4>3, TouchStops, ShowsAre DEF Behaves
    <3> QED
      BY <1>2, <1>3, <2>3, <3>1, <3>2, KnownWreck DEF p
  <2>4. ASSUME NEW b \in Live, b \in Nat, blk[b] = Bytes(t, i.v), p = 8 * b,
               i.off \in Int, i.w = 8
        PROVE  Touch(8 * b + i.off, 8)
    BY <1>4, <1>5, <2>4
  <2>5. CASE Known(t, s, k, i.v) = "old" /\ Bytes(t, i.v) = 16 /\ i.off = 16 /\ i.w = 8
             /\ Suite[t].snippet = "00[fa]"
    <3>1. ASSUME NEW b \in Live, b \in Nat, blk[b] = Bytes(t, i.v), p = 8 * b PROVE Behaves(t, s, k)
      <4>1. Faults(8 * b + 16, 8) # {} /\ ReportOf(Min(Faults(8 * b + 16, 8))) = "00[fa]"
        <5>1. blk[b] = 8 * 2 /\ 8 * 2 = 16
          BY <2>5, <3>1
        <5> QED
          BY <1>2, <5>1, RightAccess
      <4>2. Touch(8 * b + 16, 8)
        <5>1. i.off \in Int /\ i.off = 16
          BY <2>5
        <5> QED
          BY <2>4, <2>5, <3>1, <5>1
      <4> QED
        BY <1>7, <2>5, <4>1, <4>2, TouchStops, ShowsAre DEF Behaves
    <3> QED
      BY <1>2, <1>3, <2>2, <2>5, <3>1, KnownObject DEF p
  <2>6. CASE Known(t, s, k, i.v) = "old" /\ Bytes(t, i.v) = 16 /\ i.off = -8 /\ i.w = 8
             /\ Suite[t].snippet = "[fa]"
    <3>1. ASSUME NEW b \in Live, b \in Nat, blk[b] = Bytes(t, i.v), p = 8 * b PROVE Behaves(t, s, k)
      <4>1. Faults(8 * b - 8, 8) # {} /\ ReportOf(Min(Faults(8 * b - 8, 8))) \in {"[fa]", "00[fa]"}
        BY <1>2, <2>6, <3>1, LeftAccess
      <4>2. Touch(8 * b - 8, 8)
        <5>1. 8 * b + i.off = 8 * b - 8 /\ i.off \in Int
          BY <2>6, <3>1
        <5> QED
          BY <2>4, <2>6, <3>1, <5>1
      <4> QED
        BY <1>7, <2>6, <4>1, <4>2, TouchStops, ShowsAre DEF Behaves
    <3> QED
      BY <1>2, <1>3, <2>2, <2>6, <3>1, KnownObject DEF p
  <2>7. CASE Known(t, s, k, i.v) = "old" /\ Bytes(t, i.v) = 4 /\ i.off = 0 /\ i.w = 8
             /\ Suite[t].snippet = "[04]"
    <3>1. ASSUME NEW b \in Live, b \in Nat, blk[b] = Bytes(t, i.v), p = 8 * b PROVE Behaves(t, s, k)
      <4>1. Faults(8 * b, 8) # {} /\ ReportOf(Min(Faults(8 * b, 8))) = "[04]"
        BY <1>2, <2>7, <3>1, PartialAccess
      <4>2. Touch(8 * b, 8)
        <5>1. 8 * b + i.off = 8 * b /\ i.off \in Int
          BY <2>7, <3>1
        <5> QED
          BY <2>4, <2>7, <3>1, <5>1
      <4> QED
        BY <1>7, <2>7, <4>1, <4>2, TouchStops, ShowsAre DEF Behaves
    <3> QED
      BY <1>2, <1>3, <2>2, <2>7, <3>1, KnownObject DEF p
  <2> QED
    BY <1>1, <2>1, <2>3, <2>5, <2>6, <2>7 DEF Trapped
<1> QED
  BY <1>6, <1>7

LEMMA AddRangeBehaves ==
  ASSUME NEW t, NEW s, NEW k, NEW i, Steps(t, s, k, i), AddRange PROVE Behaves(t, s, k)
<1>1. i.op = "range" /\ i.op \in Leaving
  BY Stepping DEF AddRange, At, Instr, Leaving
<1>2. /\ Poised(t, s, k, i) /\ Ready /\ Instr = i /\ (Spoiled => Spoiled') /\ HeapTyped /\ Sound
      /\ proc \in Procs /\ ~proc.aborted /\ features = Features /\ UNCHANGED suiteVars
      /\ (Fails => Spoiled')
  BY <1>1, Stepping, Standing
<1> DEFINE p == proc.env[i.v]
<1>3. i.v \in Locals /\ p \in Int
  BY <1>1, Named
<1>4. \/ p = Null /\ (Die("segv") \/ Unwind)
      \/ p >= 0 /\ Fails /\ Unwind
      \/ p >= 0 /\ Touch(p, i.n)
  BY <1>2 DEF AddRange, Features
<1> HIDE DEF p
<1>5. Null < 0 /\ Unassigned < 0 /\ Null \in Int /\ Unassigned \in Int
  BY DEF Null, Unassigned
<1>6. Known(t, s, k, i.v) = "old"
  <2>1. ~AtFault(t, s, k) => Known(t, s, k, i.v) = "old"
    BY <1>1, Standing DEF Legal
  <2>2. AtFault(t, s, k) => Known(t, s, k, i.v) = "old"
    <3>1. Trapped(t, s, k, i) => Known(t, s, k, i.v) = "old"
      BY <1>1 DEF Trapped
    <3> QED
      BY <1>1, <3>1, Standing
  <2> QED
    BY <2>1, <2>2
<1>7. CASE Spoiled /\ p \in {Null, Unassigned}
  <2>1. Spoiled' /\ (Die("segv") \/ Unwind)
    BY <1>2, <1>4, <1>5, <1>7
  <2>2. CASE Die("segv")
    BY <1>2, <2>1, <2>2, Dying DEF Behaves
  <2>3. CASE Unwind
    BY <1>1, <1>2, <2>1, <2>3, Unwinds DEF Behaves
  <2> QED
    BY <2>1, <2>2, <2>3
<1>8. ASSUME NEW b \in Live, b \in Nat, blk[b] = Bytes(t, i.v), p = 8 * b PROVE Behaves(t, s, k)
  <2>1. (Fails /\ Unwind) \/ Touch(8 * b, i.n)
    BY <1>4, <1>5, <1>8
  <2>2. CASE Fails /\ Unwind
    BY <1>1, <1>2, <2>2, Unwinds DEF Behaves
  <2>3. CASE Touch(8 * b, i.n) /\ ~AtFault(t, s, k)
    <3>1. i.n \in Nat \ {0} /\ i.n <= Bytes(t, i.v)
      BY <1>1, <2>3, Standing DEF Legal
    <3>2. Bytes(t, i.v) \in Nat \ {0} /\ 0 + i.n <= Bytes(t, i.v) /\ 8 * b + 0 = 8 * b
      BY <1>8, <3>1, BytesTyped
    <3>3. Faults(8 * b + 0, i.n) = {} /\ Harmless(8 * b + 0, i.n)
      BY <1>2, <1>8, <3>1, <3>2, InsideAccess
    <3>4. Faults(8 * b, i.n) = {} /\ Harmless(8 * b, i.n)
      BY <3>2, <3>3
    <3> QED
      BY <1>1, <2>3, <3>4, TouchContinues DEF Behaves
  <2>4. CASE Touch(8 * b, i.n) /\ AtFault(t, s, k)
    <3>1. Bytes(t, i.v) = 24 /\ i.n = 25 /\ Suite[t].snippet = "00[fa]"
      <4>1. Trapped(t, s, k, i)
        BY <1>1, <2>4, Standing
      <4> QED
        BY <1>1, <4>1 DEF Trapped
    <3>2. blk[b] = 8 * 3 /\ 8 * 3 + 1 = 25
      BY <1>8, <3>1
    <3>3. Faults(8 * b, 25) # {} /\ ReportOf(Min(Faults(8 * b, 25))) = "00[fa]"
      BY <1>2, <3>2, RightAccess
    <3> QED
      BY <2>4, <3>1, <3>3, TouchStops, ShowsAre DEF Behaves
  <2> QED
    BY <2>1, <2>2, <2>3, <2>4
<1> QED
  BY <1>2, <1>3, <1>6, <1>7, <1>8, KnownObject DEF p


\* The object an allocation makes.
LEMMA Grown ==
  ASSUME HeapTyped, Sound, NEW b \in Granules, NEW n \in Nat \ {0}, Fits(b, n),
         blk' = [blk EXCEPT ![b] = n]
  PROVE  /\ blk'[b] = n /\ blk[b] = 0 /\ b \notin Blocks /\ b \notin freed /\ b \notin added
         /\ Blocks' = Blocks \cup {b} /\ b \in Int /\ 8 * b \in Int
<1>1. blk[b] = 0 /\ b \notin Blocks
  BY FitsFresh
<1>2. blk'[b] = n /\ \A c \in Granules : c # b => blk'[c] = blk[c]
  BY DEF HeapTyped
<1>3. b \in Int
  BY HeapAssumption DEF Granules
<1> QED
  BY <1>1, <1>2, <1>3 DEF Blocks, Sound

\* The line of an allocation, what it relies on and what it may end in.
LEMMA Allocating ==
  ASSUME NEW t, NEW s, NEW k, NEW i, Steps(t, s, k, i), i.op \in {"alloc", "realloc", "new"}, proc.pool
  PROVE  /\ Poised(t, s, k, i) /\ Ready /\ Instr = i /\ HeapTyped /\ Sound /\ proc \in Procs /\ proc.pc = k
         /\ ~proc.wild /\ ~proc.aborted /\ Outlined(k) /\ test = t /\ stage = s /\ test' = t /\ stage' = s
         /\ features = Features /\ UNCHANGED suiteVars /\ (Spoiled => Spoiled') /\ (Fails => Spoiled')
         /\ (AllocFails(i.n) => Spoiled')
         /\ ~AtFault(t, s, k) /\ k # 1 /\ Legal(t, s, k, i) /\ Crowd(Crowded(t, s, k))
         /\ i.v \in Locals /\ i.n = Bytes(t, i.v) /\ i.n \in Nat \ {0}
<1>1. Poised(t, s, k, i) /\ ~AtFault(t, s, k)
  BY Stepping, LineLaw
<1>2. Outlined(k) /\ ~proc.aborted /\ k # 1 /\ Legal(t, s, k, i) /\ test = t /\ stage = s
  BY <1>1, Stepping, Standing
<1>3. i.v \in Locals /\ i.n = Bytes(t, i.v) /\ i.n \in Nat \ {0}
  BY <1>2, BytesTyped DEF Legal
<1>4. Crowd(Crowded(t, s, k))
  BY <1>2 DEF Outlined
<1> QED
  BY <1>1, <1>2, <1>3, <1>4, Stepping, FailureExcused

LEMMA AllocBehaves ==
  ASSUME NEW t, NEW s, NEW k, NEW i, Steps(t, s, k, i), Alloc PROVE Behaves(t, s, k)
<1>1. i.op = "alloc" /\ i.op \in Leaving /\ proc.pool
  <2>1. i.op = "alloc"
    BY Stepping DEF Alloc, At, Instr
  <2> QED
    BY <2>1, Standing DEF Leaving
<1>2. /\ Poised(t, s, k, i) /\ Ready /\ Instr = i /\ HeapTyped /\ Sound /\ proc \in Procs /\ proc.pc = k
      /\ ~proc.wild /\ ~proc.aborted /\ Outlined(k) /\ test = t /\ stage = s /\ test' = t /\ stage' = s
      /\ features = Features /\ UNCHANGED suiteVars /\ (Spoiled => Spoiled') /\ (AllocFails(i.n) => Spoiled')
      /\ ~AtFault(t, s, k) /\ k # 1 /\ Crowd(Crowded(t, s, k))
      /\ i.v \in Locals /\ i.n = Bytes(t, i.v) /\ i.n \in Nat \ {0}
  BY <1>1, Allocating
<1>3. (\A v : Assigns(i, v) <=> v = i.v) /\ \A v, kind, next : ~Ends(i, v, kind, next)
  BY <1>1 DEF Assigns, Ends
<1>4. CASE AllocFails(i.n) /\ Unwind
  BY <1>1, <1>2, <1>4, Unwinds DEF Behaves
<1>5. ASSUME NEW b \in Granules, TxAlloc(b, i.n), AdvanceWith(i.v, 8 * b) PROVE Behaves(t, s, k)
  <2>1. Fits(b, i.n) /\ blk' = [blk EXCEPT ![b] = i.n] /\ added' = added \cup {b} /\ freed' = freed
    BY <1>5 DEF TxAlloc
  <2>2. blk'[b] = i.n /\ b \notin freed /\ Blocks' = Blocks \cup {b} /\ 8 * b \in Int
    BY <1>2, <2>1, Grown
  <2>3. Carried(i.op)
    BY <1>1, <1>2, <2>1, CarriedAlloc
  <2>4. proc'.status = "run" /\ proc'.pc = k + 1 /\ ~proc'.wild /\ ~proc'.aborted /\ proc'.pool
    BY <1>1, <1>2, <1>5, <2>2, OnlyMoved
  <2>5. Pointer(i.v)' = 8 * b /\ \A v \in Slots : v # i.v => Pointer(v)' = Pointer(v)
    BY <1>2, <1>5, PointerAssigned
  <2>6. ASSUME Yields(t, s, k, i, Known(t, s, k + 1, i.v)) PROVE Met(t, s, k + 1, i.v)'
    <3>1. Known(t, s, k + 1, i.v) = "any" \/ Known(t, s, k + 1, i.v) = "new"
      BY <1>1, <2>6 DEF Yields
    <3>2. CASE Known(t, s, k + 1, i.v) = "any"
      BY <3>2 DEF Met, Meets, Behind
    <3>3. CASE Known(t, s, k + 1, i.v) = "new"
      <4>1. Behind("new", 8 * b, Bytes(t, i.v), blk', added', freed')
        BY <1>2, <2>1, <2>2 DEF Behind
      <4> QED
        BY <2>5, <3>3, <4>1 DEF Met, Meets
    <3> QED
      BY <3>1, <3>2, <3>3
  <2>7. ASSUME Crowds(i, Crowded(t, s, k), Crowded(t, s, k + 1)) PROVE Crowd(Crowded(t, s, k + 1))'
    <3>1. \/ Crowded(t, s, k + 1) = "any"
          \/ Crowded(t, s, k + 1) = "few" /\ Crowded(t, s, k) = "empty" /\ i.n <= 16
          \/ Crowded(t, s, k + 1) = "only" /\ Crowded(t, s, k) = "empty" /\ i.v = "oid"
      BY <1>1, <2>7 DEF Crowds
    <3>2. Crowded(t, s, k) = "empty" => Blocks' = {b}
      BY <1>2, <2>2 DEF Crowd
    <3>3. i.v = "oid" => proc'.env["oid"] = 8 * b
      BY <2>5 DEF Pointer
    <3>4. CASE Crowded(t, s, k + 1) = "any"
      BY <3>4 DEF Crowd
    <3>5. CASE Crowded(t, s, k + 1) = "few"
      BY <2>2, <3>1, <3>2, <3>5 DEF Crowd
    <3>6. CASE Crowded(t, s, k + 1) = "only"
      BY <3>1, <3>2, <3>3, <3>6 DEF Crowd
    <3> QED
      BY <3>1, <3>4, <3>5, <3>6
  <2>8. \A v \in Slots : Assigns(i, v) /\ Yields(t, s, k, i, Known(t, s, k + 1, v)) => Met(t, s, k + 1, v)'
    BY <1>3, <2>6
  <2>9. \A v \in Slots : ~Assigns(i, v) => Pointer(v)' = Pointer(v)
    BY <1>3, <2>5
  <2>10. i.op \notin {"abort", "close"}
    BY <1>1
  <2> QED
    BY <1>2, <1>3, <2>3, <2>4, <2>7, <2>8, <2>9, <2>10, Proceeds DEF Behaves
<1> QED
  BY <1>2, <1>4, <1>5 DEF Alloc

LEMMA ReallocBehaves ==
  ASSUME NEW t, NEW s, NEW k, NEW i, Steps(t, s, k, i), Realloc PROVE Behaves(t, s, k)
<1>1. i.op = "realloc" /\ i.op \in Leaving /\ proc.pool
  <2>1. i.op = "realloc"
    BY Stepping DEF Realloc, At, Instr
  <2> QED
    BY <2>1, Standing DEF Leaving
<1>2. /\ Poised(t, s, k, i) /\ Ready /\ Instr = i /\ HeapTyped /\ Sound /\ proc \in Procs /\ proc.pc = k
      /\ ~proc.wild /\ ~proc.aborted /\ Outlined(k) /\ test = t /\ stage = s /\ test' = t /\ stage' = s
      /\ UNCHANGED suiteVars /\ (Spoiled => Spoiled') /\ (Fails => Spoiled') /\ (AllocFails(i.n) => Spoiled')
      /\ ~AtFault(t, s, k) /\ k # 1 /\ Legal(t, s, k, i)
      /\ i.v \in Locals /\ i.n = Bytes(t, i.v) /\ i.n \in Nat \ {0}
  BY <1>1, Allocating
<1>3. /\ \A v : Assigns(i, v) <=> v = i.v
      /\ \A v, kind, next : Ends(i, v, kind, next) => v = i.u /\ kind = "old" /\ next = "going"
      /\ i.u \in Locals /\ Known(t, s, k, i.u) = "old" /\ i.u # i.v
  BY <1>1, <1>2 DEF Assigns, Ends, Legal
<1>4. CASE AllocFails(i.n) /\ Unwind
  BY <1>1, <1>2, <1>4, Unwinds DEF Behaves
<1>5. CASE Fails /\ Die("abort")
  BY <1>2, <1>5, Dying DEF Behaves
<1>6. ASSUME NEW c \in Granules, TxMove(proc.env[i.u] \div 8, c, i.n), AdvanceWith(i.v, 8 * c)
      PROVE  Behaves(t, s, k)
  <2> DEFINE b == proc.env[i.u] \div 8
  <2>1. /\ b \in Live /\ Fits(c, i.n) /\ blk' = [blk EXCEPT ![c] = i.n]
        /\ added' = added \cup {c} /\ freed' = freed \cup {b}
    BY <1>6 DEF TxMove
  <2>2. blk'[c] = i.n /\ c \notin Blocks /\ c \notin freed /\ 8 * c \in Int
    BY <1>2, <2>1, Grown
  <2>3. b \in Blocks /\ b \in Granules /\ b # c
    BY <2>1, <2>2 DEF Live, Blocks
  <2>4. Carried(i.op)
    BY <1>1, CarriedQuietly
  <2>5. proc'.status = "run" /\ proc'.pc = k + 1 /\ ~proc'.wild /\ ~proc'.aborted /\ proc'.pool
    BY <1>1, <1>2, <1>6, <2>2, OnlyMoved
  <2>6. Pointer(i.v)' = 8 * c /\ \A v \in Slots : v # i.v => Pointer(v)' = Pointer(v)
    BY <1>2, <1>6, PointerAssigned
  <2>7. ASSUME Yields(t, s, k, i, Known(t, s, k + 1, i.v)) PROVE Met(t, s, k + 1, i.v)'
    <3>1. Known(t, s, k + 1, i.v) = "any" \/ Known(t, s, k + 1, i.v) = "new"
      BY <1>1, <2>7 DEF Yields
    <3>2. CASE Known(t, s, k + 1, i.v) = "any"
      BY <3>2 DEF Met, Meets, Behind
    <3>3. CASE Known(t, s, k + 1, i.v) = "new"
      <4>1. c \in added' /\ c \notin freed'
        BY <2>1, <2>2, <2>3
      <4>2. Behind("new", 8 * c, Bytes(t, i.v), blk', added', freed')
        BY <1>2, <2>2, <4>1 DEF Behind
      <4> QED
        BY <2>6, <3>3, <4>2 DEF Met, Meets
    <3> QED
      BY <3>1, <3>2, <3>3
  <2>8. ASSUME Known(t, s, k + 1, i.u) = "going" PROVE Met(t, s, k + 1, i.u)'
    <3> DEFINE p == proc.env[i.u]
               n == Bytes(t, i.u)
    <3>1. Pointer(i.u)' = p
      BY <1>3, <2>6 DEF Slots, Pointer, Locals
    <3>2. CASE Spoiled /\ p \in {Null, Unassigned}
      BY <1>2, <2>8, <3>1, <3>2 DEF Met, Meets, Nowhere
    <3>3. CASE p = 8 * b /\ blk[b] = n
      <4>1. blk'[b] = n /\ b \in freed'
        BY <1>2, <2>1, <2>3, <3>3 DEF HeapTyped
      <4> HIDE DEF b
      <4>2. Behind("going", p, n, blk', added', freed')
        BY <2>3, <3>3, <4>1 DEF Behind
      <4> QED
        BY <2>8, <3>1, <4>2 DEF Met, Meets
    <3> QED
      BY <1>2, <1>3, <3>2, <3>3, KnownObject
  <2>9. \A v \in Slots : Assigns(i, v) /\ Yields(t, s, k, i, Known(t, s, k + 1, v)) => Met(t, s, k + 1, v)'
    BY <1>3, <2>7
  <2>10. \A v \in Slots : ~Assigns(i, v) => Pointer(v)' = Pointer(v)
    BY <1>3, <2>6
  <2>11. \A v \in Slots : ~Assigns(i, v) /\ Ends(i, v, Known(t, s, k, v), Known(t, s, k + 1, v)) =>
           Met(t, s, k + 1, v)'
    BY <1>3, <2>8
  <2>12. Crowds(i, Crowded(t, s, k), Crowded(t, s, k + 1)) => Crowd(Crowded(t, s, k + 1))'
    BY <1>1 DEF Crowds, Crowd
  <2>13. i.op \notin {"abort", "close"}
    BY <1>1
  <2> QED
    BY <1>2, <2>4, <2>5, <2>9, <2>10, <2>11, <2>12, <2>13, Proceeds DEF Behaves
<1> QED
  BY <1>2, <1>4, <1>5, <1>6 DEF Realloc

LEMMA NewBehaves ==
  ASSUME NEW t, NEW s, NEW k, NEW i, Steps(t, s, k, i), New PROVE Behaves(t, s, k)
<1>1. i.op = "new" /\ proc.pool
  BY Stepping DEF New, At, Instr
<1>2. /\ Poised(t, s, k, i) /\ Ready /\ Instr = i /\ HeapTyped /\ Sound /\ proc \in Procs /\ proc.pc = k
      /\ ~proc.wild /\ ~proc.aborted /\ Outlined(k) /\ test = t /\ stage = s /\ test' = t /\ stage' = s
      /\ UNCHANGED suiteVars /\ (Spoiled => Spoiled') /\ (AllocFails(i.n) => Spoiled')
      /\ ~AtFault(t, s, k) /\ k # 1
      /\ i.v \in Locals /\ i.n = Bytes(t, i.v) /\ i.n \in Nat \ {0}
  BY <1>1, Allocating
<1>3. (\A v : Assigns(i, v) <=> v = i.v) /\ \A v, kind, next : ~Ends(i, v, kind, next)
  BY <1>1 DEF Assigns, Ends
<1>4. CASE AllocFails(i.n) /\ Die("abort")
  BY <1>2, <1>4, Dying DEF Behaves
<1>5. ASSUME NEW b \in Granules, AtomicAlloc(b, i.n), AdvanceWith(i.v, 8 * b) PROVE Behaves(t, s, k)
  <2>1. Fits(b, i.n) /\ blk' = [blk EXCEPT ![b] = i.n] /\ added' = {} /\ freed' = {}
    BY <1>2, <1>5 DEF AtomicAlloc, Sound
  <2>2. blk'[b] = i.n /\ 8 * b \in Int
    BY <1>2, <2>1, Grown
  <2>3. Carried(i.op)
    BY <1>1, CarriedQuietly
  <2>4. proc'.status = "run" /\ proc'.pc = k + 1 /\ ~proc'.wild /\ ~proc'.aborted /\ proc'.pool
    BY <1>1, <1>2, <1>5, <2>2, OnlyMoved
  <2>5. Pointer(i.v)' = 8 * b /\ \A v \in Slots : v # i.v => Pointer(v)' = Pointer(v)
    BY <1>2, <1>5, PointerAssigned
  <2>6. ASSUME Yields(t, s, k, i, Known(t, s, k + 1, i.v)) PROVE Met(t, s, k + 1, i.v)'
    <3>1. Known(t, s, k + 1, i.v) = "any" \/ Known(t, s, k + 1, i.v) = "old"
      BY <1>1, <2>6 DEF Yields
    <3>2. CASE Known(t, s, k + 1, i.v) = "any"
      BY <3>2 DEF Met, Meets, Behind
    <3>3. CASE Known(t, s, k + 1, i.v) = "old"
      <4>1. Behind("old", 8 * b, Bytes(t, i.v), blk', added', freed')
        BY <1>2, <2>1, <2>2 DEF Behind
      <4> QED
        BY <2>5, <3>3, <4>1 DEF Met, Meets
    <3> QED
      BY <3>1, <3>2, <3>3
  <2>7. Crowds(i, Crowded(t, s, k), Crowded(t, s, k + 1)) => Crowd(Crowded(t, s, k + 1))'
    BY <1>1 DEF Crowds, Crowd
  <2>8. \A v \in Slots : Assigns(i, v) /\ Yields(t, s, k, i, Known(t, s, k + 1, v)) => Met(t, s, k + 1, v)'
    BY <1>3, <2>6
  <2>9. \A v \in Slots : ~Assigns(i, v) => Pointer(v)' = Pointer(v)
    BY <1>3, <2>5
  <2>10. i.op \notin {"abort", "close"}
    BY <1>1
  <2> QED
    BY <1>2, <1>3, <2>3, <2>4, <2>7, <2>8, <2>9, <2>10, Proceeds DEF Behaves
<1> QED
  BY <1>2, <1>4, <1>5 DEF New


\* The library with freecheck reports what it is asked to free and is no object.
LEMMA FreeReported ==
  ASSUME NEW t, NEW s, NEW k, NEW i, Steps(t, s, k, i), BadFree,
         AtFault(t, s, k), Suite[t].snippet \in {"Invalid free", "Invalid free|palloc"}
  PROVE  Behaves(t, s, k)
<1>1. Die("Invalid free")
  BY Stepping DEF BadFree, Features
<1> QED
  BY <1>1, Stepping, Dying, ShowsAre DEF Behaves

LEMMA FreeBehaves ==
  ASSUME NEW t, NEW s, NEW k, NEW i, Steps(t, s, k, i), Free PROVE Behaves(t, s, k)
<1>1. i.op = "free" /\ i.op \in Leaving
  BY Stepping DEF Free, At, Instr, Leaving
<1>2. /\ Poised(t, s, k, i) /\ Ready /\ Instr = i /\ (Spoiled => Spoiled') /\ (Fails => Spoiled')
      /\ HeapTyped /\ Sound /\ UNCHANGED suiteVars /\ test = t /\ stage = s /\ test' = t /\ stage' = s
      /\ proc \in Procs /\ proc.pc = k /\ ~proc.wild /\ ~proc.aborted /\ proc.pool /\ k # 1 /\ Outlined(k)
  BY <1>1, Stepping, Standing
<1> DEFINE p == proc.env[i.v]
           a == p + i.off
<1>3. i.v \in Locals /\ p \in Int
  BY <1>1, Named
<1>4. /\ p >= 0
      /\ \/ Freeable(a) /\ TxFree(a \div 8) /\ Advance
         \/ Freeable(a) /\ Fails /\ Unwind
         \/ ~Freeable(a) /\ BadFree
  BY <1>2 DEF Free, Steps
<1> HIDE DEF p, a
<1>5. p \notin {Null, Unassigned}
  BY <1>4 DEF Null, Unassigned
<1>6. CASE AtFault(t, s, k)
  <2>1. Trapped(t, s, k, i)
    BY <1>1, <1>6, Standing
  <2>2. /\ Suite[t].snippet \in {"Invalid free", "Invalid free|palloc"}
        /\ \/ Known(t, s, k, i.v) = "old" /\ i.off = 8 /\ Bytes(t, i.v) = 40
           \/ Known(t, s, k, i.v) = "going" /\ i.off = 0
    BY <1>1, <2>1 DEF Trapped
  <2>3. ~Freeable(a)
    <3>1. CASE Known(t, s, k, i.v) = "old" /\ i.off = 8 /\ Bytes(t, i.v) = 40
      <4>1. PICK b \in Live : b \in Nat /\ blk[b] = Bytes(t, i.v) /\ p = 8 * b
        BY <1>2, <1>3, <1>5, <3>1, KnownObject DEF p
      <4>2. blk[b] = 40 /\ a = 8 * b + 8
        BY <3>1, <4>1 DEF a
      <4> QED
        BY <1>2, <4>2, NotAnObject
    <3>2. CASE Known(t, s, k, i.v) = "going" /\ i.off = 0
      <4>1. PICK b \in Granules : p = 8 * b /\ b \notin Live
        BY <1>2, <1>3, <1>5, <3>2, KnownWreck DEF p
      <4>2. a = 8 * b /\ a \div 8 = b
        BY <1>3, <3>2, <4>1, Addresses DEF a
      <4> QED
        BY <4>1, <4>2 DEF Freeable
    <3> QED
      BY <2>2, <3>1, <3>2
  <2> QED
    BY <1>4, <1>6, <2>2, <2>3, FreeReported
<1>7. CASE ~AtFault(t, s, k)
  <2>1. Known(t, s, k, i.v) = "old" /\ i.off = 0
    BY <1>1, <1>7, Standing DEF Legal
  <2>2. PICK b \in Live : /\ Behind("old", p, Bytes(t, i.v), blk, added, freed)
                          /\ b \in Granules /\ p = 8 * b /\ p \div 8 = b /\ Freeable(p)
    BY <1>2, <1>3, <1>5, <2>1, KnownObject DEF p
  <2>3. a = p
    BY <1>3, <2>1 DEF a
  <2>4. CASE Fails /\ Unwind
    BY <1>1, <1>2, <2>4, Unwinds DEF Behaves
  <2>5. CASE TxFree(b) /\ Advance
    <3>1. blk' = blk /\ added' = added /\ freed' = freed \cup {b}
      BY <2>5 DEF TxFree
    <3>2. /\ proc'.status = "run" /\ proc'.pc = k + 1 /\ ~proc'.wild /\ ~proc'.aborted /\ proc'.pool
          /\ proc'.env = proc.env /\ proc'.saved = proc.saved
      BY <1>2, <2>5, OnlyMoved, Moved
    <3>3. \A v : Pointer(v)' = Pointer(v)
      BY <3>2, PointersKept
    <3>4. Carried(i.op)
      BY <1>1, <3>1, CarriedFree
    <3>5. /\ \A v : ~Assigns(i, v)
          /\ \A v, kind, next : Ends(i, v, kind, next) => v = i.v /\ next = "going"
      BY <1>1 DEF Assigns, Ends
    <3>6. ASSUME Known(t, s, k + 1, i.v) = "going" PROVE Met(t, s, k + 1, i.v)'
      <4>1. Pointer(i.v)' = 8 * b
        BY <1>3, <2>2, <3>3 DEF Pointer, Locals, p
      <4>2. Behind("going", 8 * b, Bytes(t, i.v), blk', added', freed')
        BY <2>2, <3>1, BehindFreed
      <4> QED
        BY <3>6, <4>1, <4>2 DEF Met, Meets
    <3>7. ASSUME Crowds(i, Crowded(t, s, k), Crowded(t, s, k + 1)) PROVE Crowd(Crowded(t, s, k + 1))'
      <4>1. \/ Crowded(t, s, k + 1) = "any"
            \/ Crowded(t, s, k + 1) = "leaving" /\ Crowded(t, s, k) = "only" /\ i.v = "oid"
        BY <1>1, <3>7 DEF Crowds
      <4>2. Crowd(Crowded(t, s, k))
        BY <1>2 DEF Outlined
      <4>3. ASSUME Crowded(t, s, k) = "only", i.v = "oid" PROVE Blocks' \subseteq freed'
        <5>1. \A c \in Blocks : c \in Granules /\ 8 * b = 8 * c
          BY <2>2, <4>2, <4>3 DEF Crowd, Blocks, p
        <5>2. \A c \in Blocks : c = b
          BY <2>2, <5>1, Addresses
        <5> QED
          BY <3>1, <5>2 DEF Blocks
      <4> QED
        BY <4>1, <4>3 DEF Crowd
    <3>8. \A v \in Slots : ~Assigns(i, v) /\ Ends(i, v, Known(t, s, k, v), Known(t, s, k + 1, v)) =>
            Met(t, s, k + 1, v)'
      BY <3>5, <3>6
    <3>9. i.op \notin {"abort", "close"}
      BY <1>1
    <3> QED
      BY <1>2, <1>7, <3>2, <3>3, <3>4, <3>5, <3>7, <3>8, <3>9, Proceeds DEF Behaves
  <2> QED
    BY <1>4, <2>2, <2>3, <2>4, <2>5
<1> QED
  BY <1>6, <1>7

LEMMA DeleteBehaves ==
  ASSUME NEW t, NEW s, NEW k, NEW i, Steps(t, s, k, i), Delete PROVE Behaves(t, s, k)
<1>1. i.op = "delete"
  BY Stepping DEF Delete, At, Instr
<1>2. /\ Poised(t, s, k, i) /\ Ready /\ Instr = i /\ (Spoiled => Spoiled') /\ features = Features
      /\ HeapTyped /\ Sound /\ UNCHANGED suiteVars /\ test = t /\ stage = s /\ test' = t /\ stage' = s
      /\ proc \in Procs /\ proc.pc = k /\ ~proc.wild /\ ~proc.aborted /\ proc.pool /\ k # 1 /\ Outlined(k)
  BY <1>1, Stepping, Standing
<1> DEFINE p == proc.env[i.v]
<1>3. i.v \in Locals /\ p \in Int
  BY <1>1, Named
<1>4. /\ p >= 0
      /\ \/ Freeable(p) /\ AtomicFree(p \div 8) /\ AdvanceWith(i.v, Null)
         \/ ~Freeable(p) /\ BadFree
  BY <1>2 DEF Delete, Features
<1> HIDE DEF p
<1>5. p \notin {Null, Unassigned} /\ Null \in Int
  BY <1>4 DEF Null, Unassigned
<1>6. CASE AtFault(t, s, k)
  <2>1. Trapped(t, s, k, i)
    BY <1>1, <1>6, Standing
  <2>2. Suite[t].snippet = "Invalid free|palloc" /\ Known(t, s, k, i.v) = "stale"
    BY <1>1, <2>1 DEF Trapped
  <2>3. PICK b \in Granules : p = 8 * b /\ b \notin Live
    <3>1. Poised(t, s, k, i) /\ ~proc.aborted /\ Known(t, s, k, i.v) \in {"going", "stale"}
      BY <1>2, <2>2
    <3> QED
      BY <1>3, <1>5, <3>1, KnownWreck DEF p
  <2>4. ~Freeable(p)
    BY <2>3, Addresses DEF Freeable
  <2> QED
    BY <1>4, <1>6, <2>2, <2>4, FreeReported
<1>7. CASE ~AtFault(t, s, k)
  <2>1. Known(t, s, k, i.v) = "old" /\ i.v = "obj"
    BY <1>1, <1>7, Standing DEF Legal
  <2>2. PICK b \in Live : b \in Granules /\ p = 8 * b /\ p \div 8 = b /\ Freeable(p)
    BY <1>2, <1>3, <1>5, <2>1, KnownObject DEF p
  <2>3. AtomicFree(b) /\ AdvanceWith(i.v, Null)
    BY <1>4, <2>2
  <2>4. blk' = [blk EXCEPT ![b] = 0] /\ added' = added /\ freed' = freed
    BY <2>3 DEF AtomicFree
  <2>5. proc'.status = "run" /\ proc'.pc = k + 1 /\ ~proc'.wild /\ ~proc'.aborted /\ proc'.pool
    BY <1>2, <1>5, <2>3, OnlyMoved
  <2>6. Pointer(i.v)' = Null /\ \A v \in Slots : v # i.v => Pointer(v)' = Pointer(v)
    BY <1>2, <1>3, <2>3, PointerAssigned
  <2>7. Carried(i.op)
    BY <1>1, CarriedQuietly
  <2>8. /\ \A v : Assigns(i, v) <=> v = i.v
        /\ \A v, kind, next : Ends(i, v, kind, next) => v = "toid" /\ kind = "twin" /\ next = "stale"
    BY <1>1 DEF Assigns, Ends
  <2>9. \A next : Yields(t, s, k, i, next) => next = "any"
    BY <1>1 DEF Yields
  <2>10. Yields(t, s, k, i, Known(t, s, k + 1, i.v)) => Met(t, s, k + 1, i.v)'
    BY <2>9 DEF Met, Meets, Behind
  <2>11. ASSUME Known(t, s, k, "toid") = "twin", Known(t, s, k + 1, "toid") = "stale"
         PROVE  Met(t, s, k + 1, "toid")'
    <3>1. "toid" \in Slots /\ "toid" # i.v
      BY <2>1 DEF Slots, Locals
    <3>2. Pointer("toid") = p
      BY <1>2, <2>1, <2>11, <3>1 DEF Outlined, p
    <3>3. Pointer("toid")' = 8 * b
      BY <2>2, <2>6, <3>1, <3>2
    <3>4. b \in Blocks /\ blk' \in [Granules -> Nat]
      BY <1>2, <2>2, <2>4 DEF Live, HeapTyped
    <3>5. \A c \in Granules : blk'[c] > 0 => blk'[c] = blk[c] /\ c # b
      BY <1>2, <2>2, <2>4 DEF HeapTyped
    <3>6. Behind("stale", 8 * b, Bytes(t, "toid"), blk', added', freed')
      BY <1>2, <3>4, <3>5, Vacated
    <3> QED
      BY <2>11, <3>3, <3>6 DEF Met, Meets
  <2>12. Crowds(i, Crowded(t, s, k), Crowded(t, s, k + 1)) => Crowd(Crowded(t, s, k + 1))'
    BY <1>1 DEF Crowds, Crowd
  <2>13. \A v \in Slots : Assigns(i, v) /\ Yields(t, s, k, i, Known(t, s, k + 1, v)) => Met(t, s, k + 1, v)'
    BY <2>8, <2>10
  <2>14. \A v \in Slots : ~Assigns(i, v) => Pointer(v)' = Pointer(v)
    BY <2>6, <2>8
  <2>15. \A v \in Slots : ~Assigns(i, v) /\ Ends(i, v, Known(t, s, k, v), Known(t, s, k + 1, v)) =>
           Met(t, s, k + 1, v)'
    BY <2>8, <2>11
  <2>16. i.op \notin {"abort", "close"}
    BY <1>1
  <2> QED
    BY <1>2, <1>7, <2>5, <2>7, <2>12, <2>13, <2>14, <2>15, <2>16, Proceeds DEF Behaves
<1> QED
  BY <1>6, <1>7

\* Whatever the process does next, it behaves.
LEMMA ProcessBehaves ==
  ASSUME NEW t, NEW s, NEW k, NEW i, Steps(t, s, k, i), Process PROVE Behaves(t, s, k)
<1>1. ~Derail
  BY Stepping DEF Derail
<1> QED
  BY <1>1, CreateBehaves, OpenBehaves, UseNoPoolBehaves, RootBehaves, BeginBehaves, AllocBehaves,
     FreeBehaves, ReallocBehaves, AddRangeBehaves, AbortBehaves, EndBehaves, NewBehaves, DeleteBehaves,
     CopyBehaves, WriteBehaves, FlagBehaves, CloseBehaves DEF Process


-----------------------------------------------------------------------------
(* overflow_persistence.sh: what its first process leaves for the second.  *)

LEMMA PersistenceOps ==
  /\ \A k \in 1 .. Len(createPool) : createPool[k].op \in {"create", "root", "close"}
  /\ \A k \in 1 .. Len(attemptOverflow) :
       attemptOverflow[k].op \in {"open", "root", "write", "flag", "close"}
<1>1. /\ Len(createPool) = 3
      /\ \A k \in 1 .. 3 : createPool[k] = <<create("assert"), rootObj(16, "assert"), close>>[k]
  BY DEF createPool, Rooted
<1>2. /\ Len(attemptOverflow) = 8
      /\ \A k \in 1 .. 8 :
           attemptOverflow[k] = <<openPool("assert"), rootObj(16, "assert"),
                                  write("root", 0, 8), write("root", 8, 8), print_pass_flag,
                                  write("root", 16, 8), print_fail_flag, close>>[k]
  BY DEF attemptOverflow, Finish
<1>3. \A k \in 1 .. 3 : k \in {1, 2, 3}
  OBVIOUS
<1>4. \A k \in 1 .. 8 : k \in {1, 2, 3, 4, 5, 6, 7, 8}
  OBVIOUS
<1>5. \A k \in 1 .. 3 : createPool[k].op \in {"create", "root", "close"}
  BY <1>1, <1>3 DEF create, rootObj, close
<1>6. \A k \in 1 .. 8 : attemptOverflow[k].op \in {"open", "root", "write", "flag", "close"}
  BY <1>2, <1>4 DEF openPool, rootObj, write, flag, print_pass_flag, print_fail_flag, close
<1> QED
  BY <1>1, <1>2, <1>5, <1>6

\* A step that leaves the root object and the file alone.
LEMMA RootKeptQuietly ==
  ASSUME NEW t, NEW s, NEW k, NEW i, Steps(t, s, k, i), k # 1,
         UNCHANGED <<file, tx, blk, root>>, proc'.pool = proc.pool,
         proc'.pc = k \/ proc'.pc = k + 1
  PROVE  RootKept'
<1>1. /\ RootKept /\ (Spoiled => Spoiled') /\ test' = test /\ stage' = stage
      /\ proc.pc = k /\ k \in Nat /\ k >= 1
  BY Stepping DEF Poised, Steps
<1>2. proc.pc > 1 /\ (proc'.pc <= 2 => proc.pc <= 2)
  BY <1>1
<1> QED
  BY <1>1, <1>2 DEF RootKept

LEMMA RootKeptStep ==
  ASSUME NEW t, NEW s, NEW k, NEW i, Steps(t, s, k, i), Process
  PROVE  RootKept'
<1> SUFFICES ASSUME t = 10 PROVE RootKept'
  BY Stepping DEF RootKept
<1>1. /\ Poised(t, s, k, i) /\ Ready /\ Instr = i /\ ~proc.wild /\ test = t /\ stage = s /\ test' = t /\ stage' = s
      /\ proc.pc = k /\ (Spoiled => Spoiled') /\ (Fails => Spoiled') /\ HeapTyped
      /\ proc \in Procs
  BY Stepping
<1>2. i.op \in {"create", "root", "close", "open", "write", "flag"}
  <2>1. /\ s \in 1 .. 2 /\ i = Suite[10].stages[s][k] /\ k \in 1 .. Len(Suite[10].stages[s])
    BY <1>1 DEF Poised
  <2>2. CASE s = 1
    BY <2>1, <2>2, SuiteFacts, PersistenceOps
  <2>3. CASE s = 2
    BY <2>1, <2>3, SuiteFacts, PersistenceOps
  <2> QED
    BY <2>1, <2>2, <2>3
<1>3. /\ i.op = "create" => Create
      /\ i.op = "open" => OpenPool
      /\ i.op = "root" => RootObj \/ UseNoPool
      /\ i.op = "close" => Close
      /\ i.op = "write" => Write
      /\ i.op = "flag" => Flag
  BY <1>1 DEF Process, At, Instr, Create, OpenPool, UseNoPool, RootObj, Begin, Alloc, Free, Realloc, AddRange,
         AbortTx, End, New, Delete, Copy, Write, Flag, Close, Derail
<1>4. /\ i.op = "create" <=> k = 1 /\ s = 1
      /\ i.op = "open" <=> k = 1 /\ s = 2
      /\ i.op = "root" => k = 2
      /\ s = 1 \/ s = 2
      /\ RootKept /\ (k = 1 => ~proc.pool) /\ k \in Nat
  <2>1. s \in 1 .. 2 /\ RootKept /\ (proc.pool => k # 1) /\ k \in Nat
    BY <1>1 DEF Poised, Procs
  <2> QED
    BY <1>1, <2>1, LineLaw
<1>5. ASSUME k # 1, \E r : Die(r) PROVE RootKept'
  BY <1>1, <1>5, OnlyDead, RootKeptQuietly
<1>6. ASSUME k # 1, Advance, UNCHANGED <<heapVars, file>> PROVE RootKept'
  BY <1>1, <1>6, OnlyMoved, RootKeptQuietly DEF heapVars
<1>7. CASE i.op = "create"
  <2>1. CASE Format /\ file' = TRUE
    BY <2>1 DEF RootKept, Format
  <2>2. CASE Fails /\ file' = FALSE /\ proc'.pool = proc.pool
    BY <1>1, <1>4, <1>7, <2>2 DEF RootKept
  <2>3. ASSUME proc' = IF Checked THEN [proc EXCEPT !.status = "dead", !.report = "abort"]
                       ELSE [proc EXCEPT !.pc = @ + 1]
        PROVE  proc'.pool = proc.pool
    BY <1>1, <2>3 DEF Procs
  <2> QED
    BY <1>3, <1>7, <2>1, <2>2, <2>3 DEF Create
<1>8. CASE i.op = "open"
  <2>1. /\ file \/ Spoiled
        /\ file => ~tx /\ (root # NoRoot => blk[root] = 16)
    BY <1>1, <1>4, <1>8 DEF RootKept
  <2>2. CASE file /\ Reopen /\ file' = file
    BY <1>1, <1>4, <1>8, <2>1, <2>2 DEF RootKept, Reopen
  <2>3. CASE NoPool
    <3>1. proc'.pool = proc.pool /\ UNCHANGED <<file, tx, blk, root>>
      <4>1. CASE Die("abort")
        BY <1>1, <4>1, OnlyDead
      <4>2. CASE Advance /\ UNCHANGED <<heapVars, file>>
        BY <1>1, <4>2, OnlyMoved DEF heapVars
      <4> QED
        BY <2>3, <4>1, <4>2 DEF NoPool
    <3> QED
      BY <1>1, <1>4, <1>8, <2>1, <3>1 DEF RootKept
  <2> QED
    BY <1>3, <1>8, <2>2, <2>3 DEF OpenPool, Ordinary
<1>9. CASE i.op = "root"
  <2>1. k = 2 /\ proc.pc = 2
    BY <1>1, <1>4, <1>9
  <2>2. CASE UseNoPool
    BY <1>5, <2>1, <2>2 DEF UseNoPool
  <2>3. CASE RootObj
    <3>1. i.n = 16
      <4>1. ~AtFault(t, s, k)
        BY <1>1, <1>9, LineLaw
      <4>2. Legal(t, s, k, i)
        BY <1>1, <1>9, <4>1, LineLaw
      <4> QED
        BY <1>9, <4>2 DEF Legal, Bytes
    <3>2. ASSUME NEW p \in Int, AdvanceWith("root", p)
          PROVE  proc'.pool = proc.pool /\ proc'.pc = k + 1
      BY <1>1, <3>2, OnlyMoved
    <3>3. ASSUME NEW p \in Int, AdvanceWith("root", p), UNCHANGED <<heapVars, file>>
          PROVE  RootKept'
      BY <2>1, <3>2, <3>3, RootKeptQuietly DEF heapVars
    <3>4. ASSUME NEW b \in Granules, RootAlloc(b, 16), AdvanceWith("root", 8 * b), file' = file
          PROVE  RootKept'
      <4>1. 8 * b \in Int
        BY HeapAssumption DEF Granules
      <4>2. proc'.pool = proc.pool
        BY <3>2, <3>4, <4>1
      <4>3. root' = b /\ blk'[b] = 16 /\ tx' = tx /\ ~tx
        BY <1>1, <3>4 DEF RootAlloc, HeapTyped
      <4>4. proc.pool => file
        BY <1>1, <1>4 DEF RootKept
      <4>5. (file \/ Spoiled) => (file' \/ Spoiled')
        BY <1>1, <3>4
      <4>6. file \/ Spoiled
        <5>1. s = 1 => proc.pc > 1
          BY <2>1
        <5>2. s = 2 => proc.pc <= 2
          BY <2>1
        <5> QED
          BY <1>1, <1>4, <5>1, <5>2 DEF RootKept
      <4> QED
        BY <3>4, <4>2, <4>3, <4>4, <4>5, <4>6 DEF RootKept
    <3>5. CASE root # NoRoot /\ AdvanceWith("root", 8 * root) /\ UNCHANGED heapVars /\ Ordinary
      <4>1. 8 * root \in Int
        <5>1. t = 10 /\ (s = 1 => root = NoRoot) /\ s = 2
          BY <1>1, <1>4, <2>1, <2>3, <3>5 DEF Poised, RootObj
        <5>2. root \in Granules
          BY <1>1, <3>5 DEF HeapTyped
        <5> QED
          BY <5>2, HeapAssumption DEF Granules
      <4> QED
        BY <3>3, <3>5, <4>1 DEF Ordinary
    <3>6. CASE \E b \in Granules : RootAlloc(b, i.n) /\ AdvanceWith("root", 8 * b) /\ Ordinary
      BY <3>1, <3>4, <3>6 DEF Ordinary
    <3>7. CASE Die("abort")
      BY <1>5, <2>1, <3>7
    <3>8. CASE AdvanceWith("root", Null) /\ UNCHANGED <<heapVars, file>>
      BY <3>3, <3>8 DEF Null
    <3> QED
      BY <1>1, <2>3, <3>5, <3>6, <3>7, <3>8 DEF RootObj
  <2> QED
    BY <1>3, <1>9, <2>2, <2>3
<1>10. CASE i.op \in {"close", "write", "flag"}
  <2>1. k # 1
    BY <1>4, <1>10
  <2>2. CASE Close
    <3>1. proc'.pool = proc.pool /\ proc'.pc = k /\ UNCHANGED <<file, tx, blk, root>>
      BY <1>1, <2>2 DEF Close, Procs, Detach, Ordinary
    <3> QED
      BY <2>1, <3>1, RootKeptQuietly
  <2>3. CASE Flag
    BY <1>6, <2>1, <2>3 DEF Flag
  <2>4. CASE Write
    <3>1. CASE \E r : Die(r)
      BY <1>5, <2>1, <3>1
    <3>2. CASE ~\E r : Die(r)
      <4>1. ~indet'
        BY DEF Steps
      <4>2. \E a, w : Touch(a, w)
        BY <2>4, <3>2, <4>1 DEF Write, TouchAnywhere
      <4>3. (Advance \/ AdvanceWild) /\ UNCHANGED <<heapVars, file>>
        BY <3>2, <4>2 DEF Touch
      <4>4. proc'.pool = proc.pool /\ proc'.pc = k + 1
        BY <1>1, <4>3 DEF Advance, AdvanceWild, Goto, Procs
      <4> QED
        BY <2>1, <4>3, <4>4, RootKeptQuietly DEF heapVars
    <3> QED
      BY <3>1, <3>2
  <2> QED
    BY <1>3, <1>10, <2>2, <2>3, <2>4
<1> QED
  BY <1>2, <1>7, <1>8, <1>9, <1>10


-----------------------------------------------------------------------------
(* The runs keep to their outlines.                                        *)

\* The script at its end runs nothing.
Finished == test = 17 => proc.status = "run"

\* A process about to start.
Fresh ==
  /\ proc = Launched /\ test \in 1 .. 16 /\ stage \in 1 .. Len(Suite[test].stages) /\ out = {}
  /\ stage = 2 => RootKept

LEMMA KnownFirst ==
  \A t \in 1 .. 16 : \A s \in 1 .. 2 : \A v :
    Known(t, s, 1, v) = "any" \/ (Known(t, s, 1, v) = "none" /\ v = "oid")
<1> SUFFICES ASSUME NEW t \in 1 .. 16, NEW s \in 1 .. 2, NEW v
             PROVE  Known(t, s, 1, v) = "any" \/ (Known(t, s, 1, v) = "none" /\ v = "oid")
  OBVIOUS
<1>1. Round(1) = 5
  BY DEF Round
<1>2. CASE t \in {1, 2, 4, 7}
  BY <1>2 DEF Known, WithDummyKnows
<1>3. CASE t \in {3, 5, 6, 8}
  BY <1>3 DEF Known
<1>4. CASE t \in {9, 10, 11, 12, 15}
  BY <1>4 DEF Known
<1>5. CASE t \in {13, 14}
  BY <1>5 DEF Known
<1>6. CASE t = 16
  BY <1>1, <1>6 DEF Known
<1> QED
  BY Tests, <1>2, <1>3, <1>4, <1>5, <1>6

\* The faulty line is not the first.
LEMMA FaultBehindFirst ==
  \A t \in 1 .. 16 : Suite[t].kind = "crash" => FaultLine[t] \in Nat /\ FaultLine[t] > 1
<1> SUFFICES ASSUME NEW t \in 1 .. 16, Suite[t].kind = "crash"
             PROVE  FaultLine[t] \in Nat /\ FaultLine[t] > 1
  OBVIOUS
<1> DEFINE P == Suite[t].stages[Len(Suite[t].stages)]
           F == FaultLine[t]
           L == FailLine[t]
<1>1. CrashForm(P, F, L)
  BY CrashForms
<1> HIDE DEF P, F, L
<1>2. F \in 2 .. Len(P)
  BY <1>1 DEF CrashForm
<1>3. F \in Nat /\ F > 1
  BY <1>2
<1> QED
  BY <1>3 DEF F

LEMMA FreshKeeps == Fresh => RunsOutlined
<1> SUFFICES ASSUME Fresh
             PROVE  ~proc.wild /\ KeepsToOutline /\ StaysBeforeFault /\ EndsWell /\ RootKept
  BY DEF RunsOutlined
<1>1. /\ proc.pc = 1 /\ proc.status = "run" /\ ~proc.pool /\ ~proc.aborted /\ ~proc.wild
      /\ \A v \in Locals : v # "obj" => proc.env[v] = Unassigned
  BY DEF Fresh, Launched
<1>2. test \in 1 .. 16 /\ stage \in 1 .. Len(Suite[test].stages) /\ out = {} /\ stage \in 1 .. 2
      /\ (stage = 2 => RootKept)
  <2>1. test \in 1 .. 16 /\ stage \in 1 .. Len(Suite[test].stages) /\ out = {} /\ (stage = 2 => RootKept)
    BY DEF Fresh
  <2>2. Len(Suite[test].stages) = IF test = 10 THEN 2 ELSE 1
    BY <2>1, StageCount
  <2> QED
    BY <2>1, <2>2
<1>3. Outlined(1)
  <2>1. ASSUME NEW v \in Slots
        PROVE  IF Known(test, stage, 1, v) = "twin" THEN Pointer(v) = proc.env["obj"]
               ELSE Meets(Known(test, stage, 1, v), Pointer(v), Bytes(test, v))
    <3>1. CASE Known(test, stage, 1, v) = "any"
      BY <3>1 DEF Meets, Behind
    <3>2. CASE Known(test, stage, 1, v) = "none" /\ v = "oid"
      <4>1. Pointer(v) = Unassigned
        BY <1>1, <3>2 DEF Pointer, Locals
      <4> QED
        BY <3>2, <4>1 DEF Meets, Behind
    <3> QED
      BY <1>2, <3>1, <3>2, KnownFirst
  <2> QED
    BY <1>1, <2>1 DEF Outlined
<1>4. KeepsToOutline
  BY <1>1, <1>3 DEF KeepsToOutline
<1>5. StaysBeforeFault
  <2> SUFFICES ASSUME Suite[test].kind = "crash"
               PROVE  proc.pc <= FaultLine[test] /\ proc.pc # FaultLine[test]
    BY <1>1, <1>2 DEF StaysBeforeFault
  <2> DEFINE F == FaultLine[test]
  <2>1. F \in Nat /\ F > 1
    BY <1>2, FaultBehindFirst
  <2> HIDE DEF F
  <2>2. proc.pc <= F /\ proc.pc # F
    BY <1>1, <2>1
  <2> QED
    BY <2>2 DEF F
<1>6. EndsWell
  BY <1>1 DEF EndsWell
<1>7. RootKept
  BY <1>1, <1>2 DEF RootKept
<1> QED
  BY <1>1, <1>4, <1>5, <1>6, <1>7

LEMMA FreshKeepsNext == Fresh' => RunsOutlined'
  BY FreshKeeps, PTL

\* Where the process of a crash test may be without an excuse.
LEMMA BeforeFault ==
  ASSUME NEW t, NEW s, NEW k, NEW i, Poised(t, s, k, i), StaysBeforeFault, ~Spoiled,
         Suite[t].kind = "crash", s = Len(Suite[t].stages)
  PROVE  /\ FaultLine[t] \in Nat /\ k \in Nat /\ k <= FaultLine[t] /\ k < Len(Program)
         /\ AtFault(t, s, k) <=> k = FaultLine[t]
         /\ out = IF k = FaultLine[t] THEN {"PASS"} ELSE {}
         /\ i.op = "flag" <=> k = FaultLine[t] - 1
         /\ i.op = "flag" => i.f = "PASS"
         /\ i.op # "close"
<1>1. /\ t \in 1 .. 16 /\ s \in 1 .. Len(Suite[t].stages) /\ Program = Suite[t].stages[s] /\ i = Program[k]
      /\ k \in 1 .. Len(Program) /\ test = t /\ stage = s /\ proc.pc = k
      /\ Form(Program) /\ Lawful(t, s, k) /\ s \in 1 .. 2
  <2>1. t \in 1 .. 16 /\ s \in 1 .. 2 /\ (s = 2 => t = 10)
    BY DEF Poised
  <2>2. s \in 1 .. Len(Suite[t].stages)
    <3>1. CASE s = 1
      <4>1. Len(Suite[t].stages) = 1 \/ Len(Suite[t].stages) = 2
        BY <2>1, StageCount
      <4>2. 1 \in 1 .. 1 /\ 1 \in 1 .. 2
        OBVIOUS
      <4> QED
        BY <3>1, <4>1, <4>2
    <3>2. CASE s = 2
      <4>1. Len(Suite[t].stages) = 2
        BY <2>1, <3>2, StageCount
      <4> QED
        BY <3>2, <4>1
    <3> QED
      BY <2>1, <3>1, <3>2
  <2> QED
    BY <2>1, <2>2 DEF Poised, Ready
<1> DEFINE P == Program
           F == FaultLine[t]
           L == FailLine[t]
<1>2. CrashForm(P, F, L)
  BY <1>1, CrashForms
<1>3. AtFault(t, s, k) <=> k = F
  BY <1>1, FaultIs
<1>4. k <= F /\ out = IF k = F THEN {"PASS"} ELSE {}
  BY <1>1 DEF StaysBeforeFault, LastStage
<1>5. AtFault(t, s, k) => i.op \in {"free", "delete", "write", "range"}
  BY LineLaw
<1> HIDE DEF P, F, L
<1>6. /\ F \in 2 .. Len(P) /\ L \in F + 1 .. F + 2 /\ L <= Len(P)
      /\ P[F - 1] = print_pass_flag
      /\ \A m \in 1 .. Len(P) : P[m].op = "flag" => m \in {F - 1, L}
  BY <1>2 DEF CrashForm
<1>7. Len(P) \in Nat /\ k \in 1 .. Len(P) /\ i = P[k] /\ (P[k].op = "close" <=> k = Len(P))
  BY <1>1 DEF Form, P
<1>8. F \in Nat /\ k \in Nat /\ k < Len(P) /\ k # L
  BY <1>4, <1>6, <1>7
<1>9. print_pass_flag.op = "flag" /\ print_pass_flag.f = "PASS"
  BY DEF print_pass_flag, flag
<1>10. i.op = "flag" <=> k = F - 1
  BY <1>6, <1>7, <1>8, <1>9
<1>11. i.op = "flag" => i.f = "PASS"
  BY <1>6, <1>7, <1>9, <1>10
<1>12. i.op # "close"
  BY <1>7, <1>8
<1> QED
  BY <1>3, <1>4, <1>8, <1>10, <1>11, <1>12 DEF F, P

LEMMA KeepsStep ==
  ASSUME NEW t, NEW s, NEW k, NEW i, Steps(t, s, k, i), Behaves(t, s, k)
  PROVE  ~proc'.wild /\ KeepsToOutline'
<1>1. /\ Poised(t, s, k, i) /\ k \in Nat /\ Instr = i /\ test' = t /\ stage' = s /\ Program' = Program
      /\ UNCHANGED suiteVars
  <2>1. UNCHANGED suiteVars
    BY DEF Steps
  <2> QED
    BY <2>1, Stepping, SameProgram
<1>2. k \in 1 .. Len(Program) /\ s \in 1 .. 2
  BY <1>1 DEF Poised
<1>3. CASE Continues(t, s, k)
  <2>1. /\ proc'.status = "run" /\ proc'.pc = k + 1 /\ ~proc'.wild /\ ~proc'.aborted
        /\ Outlined(k + 1)'
        /\ ~proc'.pool => k = 1 /\ Spoiled'
        /\ proc'.pool /\ s = 1 /\ k = 1 => root' = NoRoot
    BY <1>3 DEF Continues
  <2>2. Outlined(proc.pc)'
    BY <2>1 DEF Outlined
  <2>3. proc'.pc # 1 /\ (proc'.pc = 2 <=> k = 1)
    BY <1>1, <1>2, <2>1
  <2> QED
    BY <1>1, <2>1, <2>2, <2>3 DEF KeepsToOutline
<1>4. CASE LeavesTx(t, s, k)
  <2>1. /\ i.op \in Leaving /\ ~proc'.wild /\ proc'.aborted /\ proc'.pool
    BY <1>1, <1>4 DEF LeavesTx
  <2>2. PICK j \in k + 1 .. Len(Program) :
          /\ proc'.pc = j /\ NextEnd(Program, k, j)
          /\ IF Program[j].handler = "none" THEN Outlined(j + 1)' ELSE Spoiled'
    BY <1>4 DEF LeavesTx
  <2>3. k # 1
    <3>1. s = 1 \/ s = 2
      BY <1>2
    <3>2. i.op = "create" <=> k = 1 /\ s = 1
      BY <1>1, LineLaw
    <3>3. i.op = "open" <=> k = 1 /\ s = 2
      BY <1>1, LineLaw
    <3> QED
      BY <2>1, <3>1, <3>2, <3>3 DEF Leaving
  <2>4. proc'.pc # 1 /\ proc'.pc # 2
    BY <1>1, <1>2, <2>2, <2>3
  <2>5. Program[j].op = "end"
    BY <2>2 DEF NextEnd
  <2>6. Instr' = Program[j]
    BY <1>1, <2>2 DEF Instr
  <2>7. Program[j].handler = "none" => Outlined(proc.pc + 1)'
    BY <2>2 DEF Outlined
  <2> QED
    BY <2>1, <2>2, <2>4, <2>5, <2>6, <2>7 DEF KeepsToOutline
<1>5. CASE Stops(t, s, k)
  BY <1>5 DEF Stops, KeepsToOutline
<1>6. CASE Returns(k)
  BY <1>6 DEF Returns, KeepsToOutline
<1> QED
  BY <1>3, <1>4, <1>5, <1>6 DEF Behaves

LEMMA StaysStep ==
  ASSUME NEW t, NEW s, NEW k, NEW i, Steps(t, s, k, i), Behaves(t, s, k), StaysBeforeFault, Proper
  PROVE  StaysBeforeFault'
<1>1. /\ Poised(t, s, k, i) /\ k \in Nat /\ Instr = i /\ test' = t /\ stage' = s /\ Program' = Program
      /\ UNCHANGED suiteVars /\ (Spoiled => Spoiled') /\ test = t /\ stage = s /\ proc.pc = k
  <2>1. UNCHANGED suiteVars
    BY DEF Steps
  <2> QED
    BY <2>1, Stepping, SameProgram
<1> DEFINE F == FaultLine[t]
<1> SUFFICES ASSUME Suite[t].kind = "crash", s = Len(Suite[t].stages), ~Spoiled'
             PROVE  /\ proc'.pc <= F
                    /\ proc'.status = "run" \/ proc'.pc = F
                    /\ out' = IF proc'.pc = F THEN {"PASS"} ELSE {}
  BY <1>1 DEF StaysBeforeFault, LastStage
<1>2. /\ F \in Nat /\ k <= F
      /\ AtFault(t, s, k) <=> k = F
      /\ out = IF k = F THEN {"PASS"} ELSE {}
      /\ i.op = "flag" <=> k = F - 1
      /\ i.op = "flag" => i.f = "PASS"
      /\ i.op # "close"
  BY <1>1, BeforeFault
<1> HIDE DEF F
<1>3. GoesOn \/ Jumps \/ Dies \/ Exits
  BY DEF Proper
<1>4. CASE Continues(t, s, k)
  <2>1. k # F /\ proc'.pc = k + 1 /\ proc'.status = "run"
    BY <1>2, <1>4 DEF Continues
  <2>2. out' = IF i.op = "flag" THEN out \cup {i.f} ELSE out
    BY <1>1, <1>3, <2>1 DEF GoesOn, Jumps, Dies, Exits, Leaving
  <2>3. k + 1 <= F /\ (k + 1 = F <=> k = F - 1)
    BY <1>1, <1>2, <2>1
  <2>4. CASE i.op = "flag"
    BY <1>2, <2>1, <2>2, <2>3, <2>4
  <2>5. CASE i.op # "flag"
    BY <1>2, <2>1, <2>2, <2>3, <2>5
  <2> QED
    BY <2>4, <2>5
<1>5. CASE LeavesTx(t, s, k)
  <2>1. i.op = "abort" /\ proc'.status = "run"
    BY <1>1, <1>5 DEF LeavesTx
  <2>2. PICK j \in k + 1 .. Len(Program) : proc'.pc = j /\ NextEnd(Program, k, j)
    BY <1>5 DEF LeavesTx
  <2>3. Program[k + 1].op = "end"
    BY <1>1, <2>1 DEF Poised, Lawful
  <2>4. j = k + 1
    <3>1. ~(k + 1 \in k .. j - 1)
      BY <2>2, <2>3 DEF NextEnd
    <3> QED
      BY <1>1, <2>2, <3>1
  <2>5. k # F
    BY <1>1, <1>2, <2>1, LineLaw
  <2>6. out' = out
    BY <1>1, <1>3, <2>1 DEF GoesOn, Jumps, Dies, Exits
  <2>7. k # F - 1
    BY <1>2, <2>1
  <2> QED
    BY <1>1, <1>2, <2>1, <2>2, <2>4, <2>5, <2>6, <2>7
<1>6. CASE Stops(t, s, k)
  BY <1>2, <1>6 DEF Stops
<1>7. CASE Returns(k)
  BY <1>1, <1>2, <1>7 DEF Returns
<1> QED
  BY <1>4, <1>5, <1>6, <1>7 DEF Behaves

LEMMA EndsStep ==
  ASSUME NEW t, NEW s, NEW k, NEW i, Steps(t, s, k, i), Behaves(t, s, k), StaysBeforeFault
  PROVE  EndsWell'
<1>1. /\ Poised(t, s, k, i) /\ Instr = i /\ test' = t /\ stage' = s /\ Program' = Program
      /\ (Spoiled => Spoiled') /\ test = t /\ t \in 1 .. 16 /\ stage = s /\ s \in 1 .. 2
      /\ Program = Suite[t].stages[s]
  <2>1. UNCHANGED suiteVars
    BY DEF Steps
  <2> QED
    BY <2>1, Stepping, SameProgram DEF Poised
<1>2. CASE Continues(t, s, k) \/ LeavesTx(t, s, k)
  BY <1>2 DEF Continues, LeavesTx, EndsWell
<1>3. CASE Stops(t, s, k)
  <2>1. AtFault(t, s, k) => AtFaultLine'
    <3>1. proc'.pc = k
      BY <1>3 DEF Stops
    <3> QED
      BY <1>1, <3>1 DEF AtFault, AtFaultLine
  <2> QED
    BY <1>1, <1>3, <2>1 DEF Stops, EndsWell
<1>4. CASE Returns(k)
  <2>1. i.op = "close" /\ proc'.status = "exit"
    BY <1>1, <1>4 DEF Returns
  <2>2. Spoiled' \/ Suite[t].kind = "run" \/ s # Len(Suite[t].stages)
    <3>1. CASE t \in {14, 16}
      BY <3>1, SuiteFacts
    <3>2. CASE t \notin {14, 16}
      <4>1. Suite[t].kind = "crash"
        BY <1>1, <3>2, CrashTests
      <4> QED
        BY <1>1, <2>1, <4>1, BeforeFault
    <3> QED
      BY <3>1, <3>2
  <2> QED
    BY <1>1, <2>1, <2>2 DEF EndsWell, LastStage
<1> QED
  BY <1>2, <1>3, <1>4 DEF Behaves

LEMMA OutlinedRuns ==
  Shapes /\ HeapSound /\ RunsOutlined /\ [Next]_vars => RunsOutlined'
<1> SUFFICES ASSUME Shapes, HeapSound, RunsOutlined, [Next]_vars,
                    features' = Features, ~indet', test' <= 16
             PROVE  /\ ~proc'.wild
                    /\ KeepsToOutline' /\ StaysBeforeFault' /\ EndsWell' /\ RootKept'
  BY DEF RunsOutlined
<1>1. features = Features
  BY SameLibrary
<1>2. CASE UNCHANGED vars
  <2>1. ~proc.wild /\ KeepsToOutline /\ StaysBeforeFault /\ EndsWell /\ RootKept
    BY <1>1, <1>2 DEF vars, suiteVars, RunsOutlined
  <2>2. /\ UNCHANGED <<features, shadow, blk, tx, added, freed, root, open>>
        /\ UNCHANGED <<build, test, stage, allOK, rc>>
        /\ UNCHANGED <<proc, out, file, failures, indet>>
    BY <1>2 DEF vars, suiteVars, heapVars
  <2>3. /\ Spoiled' = Spoiled /\ Program' = Program /\ Instr' = Instr
        /\ LastStage' = LastStage /\ AtFaultLine' = AtFaultLine /\ Blocks' = Blocks
        /\ \A v : Pointer(v)' = Pointer(v)
    BY <2>2 DEF Spoiled, Program, Instr, LastStage, AtFaultLine, Pointer, Blocks
  <2>4. \A j : Outlined(j)' <=> Outlined(j)
    <3>1. \A c : Crowd(c)' <=> Crowd(c)
      BY <2>2, <2>3 DEF Crowd
    <3>2. \A kind, p, n : Behind(kind, p, n, blk', added', freed') \/ (Spoiled' /\ Nowhere(kind, p))
            <=> Meets(kind, p, n)
      BY <2>2, <2>3 DEF Meets
    <3> SUFFICES ASSUME NEW j PROVE Outlined(j)' <=> Outlined(j)
      OBVIOUS
    <3>3. \A v \in Slots : Meets(Known(test, stage, j, v), Pointer(v), Bytes(test, v))'
            <=> Meets(Known(test, stage, j, v), Pointer(v), Bytes(test, v))
      BY <2>2, <2>3 DEF Meets, Behind, Nowhere
    <3> QED
      BY <2>2, <2>3, <3>1, <3>3 DEF Outlined
  <2>5. KeepsToOutline'
    <3>1. Outlined(proc.pc)' <=> Outlined(proc.pc)
      BY <2>2, <2>3, <2>4 DEF Outlined
    <3>2. Outlined(proc.pc + 1)' <=> Outlined(proc.pc + 1)
      BY <2>2, <2>3, <2>4 DEF Outlined
    <3> QED
      BY <2>1, <2>2, <2>3, <3>1, <3>2 DEF KeepsToOutline
  <2>6. StaysBeforeFault'
    BY <2>1, <2>2, <2>3 DEF StaysBeforeFault
  <2>7. EndsWell'
    BY <2>1, <2>2, <2>3 DEF EndsWell
  <2>8. RootKept'
    BY <2>1, <2>2, <2>3 DEF RootKept
  <2> QED
    BY <2>1, <2>2, <2>5, <2>6, <2>7, <2>8
<1>3. CASE Process
  <2>1. Ready /\ Proper /\ test \in 1 .. 16 /\ test <= 16 /\ UNCHANGED suiteVars
    BY <1>3, ProcessSteps, WithinSuite DEF Ready, Running, Shapes, Proper
  <2>2. ~indet /\ (Spoiled => Spoiled') /\ (Fails => Spoiled')
    <3>1. failures \in 0 .. MaxFailures
      BY DEF Shapes
    <3> QED
      BY <1>3, <3>1, Resources, Excuses
  <2>3. ~proc.wild /\ KeepsToOutline /\ StaysBeforeFault /\ EndsWell /\ RootKept
    BY <1>1, <2>1, <2>2 DEF RunsOutlined
  <2> DEFINE t == test
             s == stage
             k == proc.pc
             i == Instr
  <2>4. /\ s \in 1 .. Len(Suite[t].stages) /\ k \in 1 .. Len(Program) /\ Program = Suite[t].stages[s]
        /\ i = Suite[t].stages[s][k] /\ s \in 1 .. 2
    BY <2>1 DEF Shapes, Program, Instr
  <2>5. Lawful(t, s, k)
    BY <2>1, <2>4, AllLawful
  <2>6. s = 2 => t = 10
    <3>1. Len(Suite[t].stages) = IF t = 10 THEN 2 ELSE 1
      BY <2>1, StageCount
    <3> QED
      BY <2>4, <3>1
  <2>7. Sound
    BY <1>1 DEF HeapSound
  <2>8. proc.status = "run"
    BY <2>1 DEF Ready, Running
  <2>9. Poised(t, s, k, i)
    BY <1>1, <2>1, <2>3, <2>4, <2>5, <2>6, <2>7, <2>8 DEF Poised, KeepsToOutline
  <2>10. Steps(t, s, k, i)
    BY <2>1, <2>2, <2>9 DEF Steps
  <2> HIDE DEF t, s, k, i
  <2>11. Behaves(t, s, k)
    BY <1>3, <2>10, ProcessBehaves
  <2> QED
    BY <1>3, <2>1, <2>3, <2>10, <2>11, KeepsStep, StaysStep, EndsStep, RootKeptStep
<1>4. CASE NextStage
  <2>1. /\ test \in 1 .. 16 /\ ~LastStage /\ stage \in 1 .. Len(Suite[test].stages) /\ out = {}
        /\ proc.status # "run" /\ test <= 16
    BY <1>4, WithinSuite DEF NextStage, Ended, Shapes
  <2>2. Len(Suite[test].stages) = IF test = 10 THEN 2 ELSE 1
    BY <2>1, StageCount
  <2>3. test = 10 /\ stage = 1
    BY <2>1, <2>2 DEF LastStage
  <2>4. /\ test' = 10 /\ stage' = 2 /\ proc' = Launched /\ out' = {}
        /\ UNCHANGED <<blk, tx, root, file, failures, indet>>
    BY <1>4, <2>1, <2>3 DEF NextStage, heapVars
  <2>5. RootKept
    BY <1>1, <2>1, <2>4 DEF RunsOutlined
  <2>6. Spoiled' = Spoiled /\ Launched.pool = FALSE
    BY <2>4 DEF Spoiled, Launched
  <2>7. RootKept'
    BY <2>1, <2>3, <2>4, <2>5, <2>6 DEF RootKept
  <2>8. stage' \in 1 .. Len(Suite[test'].stages) /\ test' \in 1 .. 16
    BY <2>2, <2>3, <2>4
  <2>9. Fresh'
    BY <2>4, <2>7, <2>8 DEF Fresh
  <2> QED
    BY <1>1, <2>4, <2>9, FreshKeepsNext DEF RunsOutlined
<1>5. CASE Judge
  <2>1. test \in 1 .. 16 /\ test' = test + 1 /\ stage' = 1 /\ proc' = Launched /\ out' = {}
    BY <1>5, WithinSuite DEF Judge, Ended, Shapes
  <2>2. test' \in 1 .. 16
    BY <2>1
  <2> DEFINE t == test'
  <2>3. 1 \in 1 .. Len(Suite[t].stages)
    <3> HIDE DEF t
    <3>1. t \in 1 .. 16
      BY <2>2 DEF t
    <3>2. Len(Suite[t].stages) = 1 \/ Len(Suite[t].stages) = 2
      BY <3>1, StageCount
    <3>3. 1 \in 1 .. 1 /\ 1 \in 1 .. 2
      OBVIOUS
    <3> QED
      BY <3>2, <3>3, Zenon
  <2>4. Fresh'
    BY <2>1, <2>2, <2>3 DEF Fresh
  <2> QED
    BY <2>4, FreshKeepsNext DEF RunsOutlined
<1> QED
  BY <1>2, <1>3, <1>4, <1>5 DEF Next

LEMMA OutlinedInit == Init => RunsOutlined
<1> SUFFICES ASSUME Init PROVE Fresh
  BY FreshKeeps
<1>1. proc = Launched /\ test = 1 /\ stage = 1 /\ out = {}
  BY DEF Init
<1>2. Len(Suite[1].stages) = 1
  BY SuiteFacts
<1> QED
  BY <1>1, <1>2 DEF Fresh

LEMMA FinishedStep == Shapes /\ Finished /\ [Next]_vars => Finished'
<1> SUFFICES ASSUME Shapes, Finished, [Next]_vars PROVE Finished'
  OBVIOUS
<1>1. CASE Process
  <2>1. test \in 1 .. 16 /\ test' = test
    BY <1>1, ProcessSteps, WithinSuite DEF Ready, Running, Shapes, Proper, suiteVars
  <2> QED
    BY <2>1 DEF Finished
<1>2. CASE NextStage \/ Judge
  BY <1>2 DEF NextStage, Judge, Launched, Finished
<1>3. CASE UNCHANGED vars
  BY <1>3 DEF vars, suiteVars, Finished
<1> QED
  BY <1>1, <1>2, <1>3 DEF Next

\* With the complete library every run of the script keeps to the outlines.
OutlineInv == Shapes /\ HeapSound /\ RunsOutlined /\ Finished

LEMMA OutlineInvariant == Spec => []OutlineInv
<1>1. Init => Finished
  BY DEF Init, Finished
<1>2. Init => OutlineInv
  BY <1>1, ShapesInit, HeapSoundInit, OutlinedInit DEF OutlineInv
<1>3. OutlineInv /\ [Next]_vars => OutlineInv'
  BY ShapesStep, HeapSoundStep, OutlinedRuns, FinishedStep DEF OutlineInv
<1> QED
  BY <1>2, <1>3, PTL DEF Spec

\* NoFalseAlarm: with SafePM complete no process is stopped by a memory report
\* before its faulty line, whatever the placement, the failing calls and the
\* room in the heap.
THEOREM NoFalseAlarmAlways == Spec => []NoFalseAlarm
<1>1. OutlineInv => NoFalseAlarm
  <2> SUFFICES ASSUME OutlineInv, features = Features, ~indet, proc.status = "dead",
                      proc.report \notin {"segv", "abort"}
               PROVE  AtFaultLine
    BY DEF NoFalseAlarm
  <2>1. test \in 1 .. 17 /\ test # 17
    BY DEF OutlineInv, Shapes, Finished
  <2>2. test <= 16
    BY <2>1
  <2> QED
    BY <2>2 DEF OutlineInv, RunsOutlined, EndsWell
<1> QED
  BY <1>1, OutlineInvariant, PTL

\* SoundBuildPasses: with SafePM complete and no failing call every verdict is
\* OK, in both builds and wherever the allocator of a roomy heap places objects.
THEOREM SoundBuildPassesAlways == Spec => []SoundBuildPasses
<1>1. OutlineInv => SoundBuildPasses
  <2> SUFFICES ASSUME OutlineInv, features = Features, failures = MaxFailures, ~indet,
                      Ended, LastStage
               PROVE  Verdict = "OK"
    BY DEF SoundBuildPasses
  <2>1. ~Spoiled
    BY RoomAssumption DEF Spoiled
  <2>2. /\ test \in 1 .. 16 /\ test <= 16 /\ proc.status # "run" /\ proc \in Procs
        /\ stage \in 1 .. Len(Suite[test].stages) /\ proc.pc \in 1 .. Len(Program)
    BY WithinSuite DEF Ended, OutlineInv, Shapes
  <2>3. StaysBeforeFault /\ EndsWell
    BY <2>2 DEF OutlineInv, RunsOutlined
  <2>4. stage = Len(Suite[test].stages) /\ Program = Suite[test].stages[stage]
    BY DEF LastStage, Program
  <2>5. proc.status \in {"exit", "dead"}
    BY <2>2 DEF Procs
  <2>6. CASE Suite[test].kind = "crash"
    <3>1. out = {"PASS"}
      BY <2>1, <2>2, <2>3, <2>6 DEF StaysBeforeFault
    <3>2. proc.status = "dead"
      BY <2>1, <2>3, <2>5, <2>6 DEF EndsWell
    <3>3. proc.report \in Shows[Suite[test].snippet]
      BY <2>1, <2>3, <3>2 DEF EndsWell
    <3> QED
      BY <2>6, <3>1, <3>2, <3>3 DEF Verdict, should_crash_verdict
  <2>7. CASE Suite[test].kind # "crash"
    <3>1. ~AtFaultLine
      <4>1. AtFault(test, stage, proc.pc) <=>
              Suite[test].kind = "crash" /\ stage = Len(Suite[test].stages) /\ proc.pc = FaultLine[test]
        BY <2>2, <2>4, FaultIs
      <4> QED
        BY <2>4, <2>7, <4>1 DEF AtFault, AtFaultLine
    <3>2. proc.status = "exit"
      BY <2>1, <2>3, <2>5, <3>1 DEF EndsWell
    <3> QED
      BY <2>7, <3>2 DEF Verdict, should_not_crash_verdict
  <2> QED
    BY <2>6, <2>7
<1> QED
  BY <1>1, OutlineInvariant, PTL

-----------------------------------------------------------------------------
(* A library that lacks a protection.  What the steps of a process do,     *)
(* whatever the library.                                                   *)

USE DEF Flags, Leaving, Sized, NextEnd

\* What goes on is the action of the instruction.
LEMMA ActionOf ==
  ASSUME Ready, Process, proc'.status # "dead"
  PROVE  /\ Instr.op = "create" => Create
         /\ Instr.op = "open" => OpenPool
         /\ Instr.op = "root" => RootObj
         /\ Instr.op = "begin" => Begin
         /\ Instr.op = "alloc" => Alloc
         /\ Instr.op = "free" => Free
         /\ Instr.op = "realloc" => Realloc
         /\ Instr.op = "range" => AddRange
         /\ Instr.op = "abort" => AbortTx
         /\ Instr.op = "end" => End
         /\ Instr.op = "new" => New
         /\ Instr.op = "delete" => Delete
         /\ Instr.op = "copy" => Copy
         /\ Instr.op = "write" => Write
         /\ Instr.op = "flag" => Flag
         /\ Instr.op = "close" => Close
<1>1. \A r : ~Die(r)
  BY OnlyDead
<1>2. ~UseNoPool /\ ~Derail
  BY <1>1 DEF UseNoPool, Derail
<1>3. Create \/ OpenPool \/ RootObj \/ Begin \/ Alloc \/ Free \/ Realloc \/ AddRange \/ AbortTx
      \/ End \/ New \/ Delete \/ Copy \/ Write \/ Flag \/ Close
  BY <1>2 DEF Process
<1>4. /\ Create => Instr.op = "create"
      /\ OpenPool => Instr.op = "open"
      /\ RootObj => Instr.op = "root"
      /\ Begin => Instr.op = "begin"
      /\ Alloc => Instr.op = "alloc"
      /\ Free => Instr.op = "free"
      /\ Realloc => Instr.op = "realloc"
      /\ AddRange => Instr.op = "range"
      /\ AbortTx => Instr.op = "abort"
      /\ End => Instr.op = "end"
      /\ New => Instr.op = "new"
      /\ Delete => Instr.op = "delete"
      /\ Copy => Instr.op = "copy"
      /\ Write => Instr.op = "write"
      /\ Flag => Instr.op = "flag"
      /\ Close => Instr.op = "close"
  BY DEF Create, OpenPool, RootObj, Begin, Alloc, Free, Realloc, AddRange, AbortTx, End, New,
         Delete, Copy, Write, Flag, Close, At, Instr
<1> QED
  BY <1>3, <1>4

\* The rest of the process when control goes on, v being what it assigns.
MovesOn(v) ==
  /\ proc'.status = "run" /\ proc'.pc = proc.pc + 1
  /\ proc'.aborted = proc.aborted /\ proc'.pool = proc.pool /\ proc'.saved = proc.saved
  /\ \A u \in Locals : u # v => proc'.env[u] = proc.env[u]

LEMMA MovingOn ==
  ASSUME Ready
  PROVE  /\ Advance \/ AdvanceWild => MovesOn("none")
         /\ Advance => proc'.wild = proc.wild
         /\ \A v \in Locals : \A p : AdvanceWith(v, p) =>
              MovesOn(v) /\ proc'.env[v] = p /\ proc'.wild = proc.wild
<1>1. proc \in Procs /\ proc.status = "run"
  BY DEF Ready, Running
<1>2. Advance => MovesOn("none") /\ proc'.wild = proc.wild
  BY <1>1 DEF Advance, Goto, Procs, MovesOn
<1>3. AdvanceWild => MovesOn("none")
  BY <1>1 DEF AdvanceWild, Procs, MovesOn
<1>4. ASSUME NEW v \in Locals, NEW p, AdvanceWith(v, p)
      PROVE  MovesOn(v) /\ proc'.env[v] = p /\ proc'.wild = proc.wild
  <2>1. proc' = [proc EXCEPT !.pc = proc.pc + 1, !.env = [proc.env EXCEPT ![v] = p]]
    BY <1>1, <1>4 DEF AdvanceWith, Procs
  <2>2. proc.env \in [Locals -> Int] /\ proc.pc \in Nat
    BY <1>1 DEF Procs
  <2> QED
    BY <1>1, <2>1, <2>2 DEF Procs, MovesOn
<1> QED
  BY <1>2, <1>3, <1>4

\* A jump to the next TX_END.
Leaps ==
  /\ Instr.op \in Leaving /\ RolledBack /\ UNCHANGED <<features, root, file>>
  /\ proc'.status = "run" /\ proc'.aborted /\ proc'.pool = proc.pool /\ proc'.saved = proc.saved
  /\ proc'.wild = proc.wild
  /\ proc'.pc \in proc.pc + 1 .. Len(Program) /\ NextEnd(Program, proc.pc, proc'.pc)
  /\ \A v \in Locals \ {"obj"} : proc'.env[v] \in {proc.env[v], proc.saved[v]}

LEMMA Leaping ==
  ASSUME Ready, Instr.op \in Leaving, Unwind
  PROVE  Leaps
<1>1. /\ proc'.status = "run" /\ proc'.wild = proc.wild
      /\ proc'.pc \in proc.pc + 1 .. Len(Program) /\ NextEnd(Program, proc.pc, proc'.pc)
  BY Unwound
<1>2. RolledBack /\ UNCHANGED <<features, root, file>>
  BY DEF Unwind, TxAbort
<1>3. PICK keep \in BOOLEAN : \E pc :
        LET env == IF keep THEN proc.env ELSE proc.saved IN
        proc' = [proc EXCEPT !.pc = pc, !.aborted = TRUE,
                               !.env = [env EXCEPT !["obj"] = proc.saved["obj"]]]
  BY DEF Unwind
<1>4. proc \in Procs
  BY DEF Ready
<1>5. proc.env \in [Locals -> Int] /\ proc.saved \in [Locals -> Int]
  BY <1>4 DEF Procs
<1>6. /\ proc'.aborted /\ proc'.pool = proc.pool /\ proc'.saved = proc.saved
      /\ \A v \in Locals \ {"obj"} : proc'.env[v] \in {proc.env[v], proc.saved[v]}
  BY <1>3, <1>4, <1>5 DEF Procs
<1> QED
  BY <1>1, <1>2, <1>6 DEF Leaps

\* What each instruction does when it does not end the process.  Those that
\* neither assign a pointer nor change the heap come first.
LEMMA QuietOn ==
  ASSUME Ready, Process, proc'.status # "dead", Instr.op \in {"write", "range", "flag"}
  PROVE  \/ Leaps /\ Instr.op = "range"
         \/ MovesOn("none") /\ UNCHANGED heapVars /\ UNCHANGED file
<1>1. \A r : ~Die(r)
  BY OnlyDead
<1>2. CASE Instr.op = "flag"
  BY <1>2, ActionOf, MovingOn DEF Flag
<1>3. CASE Instr.op = "write"
  <2>1. Write
    BY <1>3, ActionOf
  <2>2. (Advance \/ AdvanceWild) /\ UNCHANGED heapVars /\ UNCHANGED file
    BY <1>1, <2>1 DEF Write, Touch, TouchAnywhere
  <2> QED
    BY <2>2, MovingOn
<1>4. CASE Instr.op = "range"
  <2>1. AddRange
    BY <1>4, ActionOf
  <2>2. \/ Unwind
        \/ (Advance \/ AdvanceWild) /\ UNCHANGED heapVars /\ UNCHANGED file
    BY <1>1, <2>1 DEF AddRange, Touch, Ordinary
  <2> QED
    BY <1>4, <2>2, MovingOn, Leaping
<1> QED
  BY <1>2, <1>3, <1>4

LEMMA BeginOn ==
  ASSUME Ready, Process, proc'.status # "dead", Instr.op = "begin"
  PROVE  /\ proc'.status = "run" /\ proc'.pc = proc.pc + 1 /\ proc'.aborted = proc.aborted
         /\ proc.pool /\ proc'.pool = proc.pool /\ proc'.env = proc.env /\ proc'.saved = proc.env
         /\ UNCHANGED <<shadow, blk, freed, root, file>> /\ proc'.wild = proc.wild
<1>1. Begin /\ proc \in Procs /\ proc.status = "run"
  BY ActionOf DEF Ready, Running
<1> QED
  BY <1>1 DEF Begin, TxBegin, Procs, Ordinary

LEMMA CopyOn ==
  ASSUME Ready, Process, proc'.status # "dead", Instr.op = "copy", Instr.v \in Locals
  PROVE  /\ MovesOn(Instr.v) /\ proc'.env[Instr.v] = proc.env[Instr.u]
         /\ UNCHANGED heapVars
<1>1. Copy
  BY ActionOf
<1> QED
  BY <1>1, MovingOn DEF Copy

LEMMA CreateOn ==
  ASSUME Ready, Process, proc'.status # "dead", Instr.op = "create", ~proc.pool
  PROVE  /\ proc'.status = "run" /\ proc'.pc = proc.pc + 1 /\ proc'.aborted = proc.aborted
         /\ proc'.env = proc.env /\ proc'.saved = proc.saved /\ proc'.wild = proc.wild
         /\ \/ Format /\ proc'.pool /\ file'
            \/ Fails /\ ~proc'.pool
<1>1. Create /\ proc \in Procs /\ proc.status = "run"
  BY ActionOf DEF Ready, Running
<1>2. CASE Format /\ proc' = [proc EXCEPT !.pc = @ + 1, !.pool = TRUE] /\ file' = TRUE
  BY <1>1, <1>2 DEF Procs
<1>3. CASE Fails /\ proc' = [proc EXCEPT !.pc = @ + 1]
  BY <1>1, <1>3 DEF Procs
<1>4. proc' # [proc EXCEPT !.status = "dead", !.report = "abort"]
  BY <1>1 DEF Procs
<1> QED
  BY <1>1, <1>2, <1>3, <1>4 DEF Create

LEMMA OpenOn ==
  ASSUME Ready, Process, proc'.status # "dead", Instr.op = "open", ~proc.pool
  PROVE  /\ proc'.status = "run" /\ proc'.pc = proc.pc + 1 /\ proc'.aborted = proc.aborted
         /\ \/ file /\ Reopen /\ proc'.pool
            \/ (file => Fails) /\ ~proc'.pool
<1>1. OpenPool /\ proc \in Procs /\ proc.status = "run"
  BY ActionOf DEF Ready, Running
<1>2. \A r : ~Die(r)
  BY OnlyDead
<1>3. CASE file /\ Reopen /\ proc' = [proc EXCEPT !.pc = @ + 1, !.pool = TRUE]
  BY <1>1, <1>3 DEF Procs
<1>4. CASE (file => Fails) /\ NoPool
  <2>1. Advance
    BY <1>2, <1>4 DEF NoPool
  <2> QED
    BY <1>4, <2>1, MovingOn DEF MovesOn
<1> QED
  BY <1>1, <1>3, <1>4 DEF OpenPool

LEMMA RootOn ==
  ASSUME Ready, Process, proc'.status # "dead", Instr.op = "root"
  PROVE  /\ proc.pool /\ MovesOn("root") /\ proc'.wild = proc.wild /\ UNCHANGED file
         /\ \/ root # NoRoot /\ proc'.env["root"] = 8 * root /\ UNCHANGED heapVars
            \/ \E b \in Granules : RootAlloc(b, Instr.n) /\ proc'.env["root"] = 8 * b
            \/ Fails /\ proc'.env["root"] = Null /\ UNCHANGED heapVars
<1>1. RootObj /\ "root" \in Locals
  BY ActionOf DEF Locals
<1>2. \A r : ~Die(r)
  BY OnlyDead
<1>3. PICK p : AdvanceWith("root", p) /\ UNCHANGED file
               /\ \/ root # NoRoot /\ p = 8 * root /\ UNCHANGED heapVars
                  \/ \E b \in Granules : RootAlloc(b, Instr.n) /\ p = 8 * b
                  \/ Fails /\ p = Null /\ UNCHANGED heapVars
  BY <1>1, <1>2 DEF RootObj, Ordinary
<1>4. MovesOn("root") /\ proc'.env["root"] = p /\ proc'.wild = proc.wild
  BY <1>1, <1>3, MovingOn
<1> QED
  BY <1>1, <1>3, <1>4 DEF RootObj

LEMMA AllocOn ==
  ASSUME Ready, Process, proc'.status # "dead", Instr.op = "alloc", Instr.v \in Locals
  PROVE  \/ Leaps /\ (Fails \/ Full(Instr.n))
         \/ /\ MovesOn(Instr.v) /\ UNCHANGED file
            /\ \E b \in Granules : TxAlloc(b, Instr.n) /\ proc'.env[Instr.v] = 8 * b
<1>1. Alloc
  BY ActionOf
<1>2. CASE AllocFails(Instr.n) /\ Unwind
  BY <1>2, Leaping DEF AllocFails
<1>3. CASE \E b \in Granules : TxAlloc(b, Instr.n) /\ AdvanceWith(Instr.v, 8 * b) /\ Ordinary
  BY <1>3, MovingOn DEF Ordinary
<1> QED
  BY <1>1, <1>2, <1>3 DEF Alloc

LEMMA NewOn ==
  ASSUME Ready, Process, proc'.status # "dead", Instr.op = "new", Instr.v \in Locals
  PROVE  /\ MovesOn(Instr.v)
         /\ \E b \in Granules : AtomicAlloc(b, Instr.n) /\ proc'.env[Instr.v] = 8 * b
<1>1. New
  BY ActionOf
<1>2. \A r : ~Die(r)
  BY OnlyDead
<1>3. \E b \in Granules : AtomicAlloc(b, Instr.n) /\ AdvanceWith(Instr.v, 8 * b)
  BY <1>1, <1>2 DEF New
<1> QED
  BY <1>3, MovingOn

LEMMA ReallocOn ==
  ASSUME Ready, Process, proc'.status # "dead", Instr.op = "realloc", Instr.v \in Locals
  PROVE  \/ Leaps
         \/ /\ MovesOn(Instr.v)
            /\ \E c \in Granules : TxMove(proc.env[Instr.u] \div 8, c, Instr.n)
<1>1. Realloc
  BY ActionOf
<1>2. \A r : ~Die(r)
  BY OnlyDead
<1>3. \/ Unwind
      \/ \E c \in Granules :
           TxMove(proc.env[Instr.u] \div 8, c, Instr.n) /\ AdvanceWith(Instr.v, 8 * c)
  BY <1>1, <1>2 DEF Realloc
<1> QED
  BY <1>3, MovingOn, Leaping

\* What is no object is freed only when nobody checks.
LEMMA BadFreeOn ==
  ASSUME Ready, proc'.status # "dead", BadFree
  PROVE  "freecheck" \notin features /\ MovesOn("none") /\ UNCHANGED heapVars
<1>1. \A r : ~Die(r)
  BY OnlyDead
<1>2. "freecheck" \notin features /\ AdvanceWild /\ UNCHANGED heapVars
  BY <1>1 DEF BadFree
<1> QED
  BY <1>2, MovingOn

LEMMA FreeOn ==
  ASSUME Ready, Process, proc'.status # "dead", Instr.op = "free"
  PROVE  LET a == proc.env[Instr.v] + Instr.off IN
         \/ Leaps /\ (Fails \/ indet')
         \/ MovesOn("none") /\ a % 8 = 0 /\ TxFree(a \div 8)
         \/ MovesOn("none") /\ "freecheck" \notin features /\ UNCHANGED heapVars
<1>1. Free
  BY ActionOf
<1> DEFINE p == proc.env[Instr.v]
           a == p + Instr.off
<1>2. CASE Freeable(a) /\ TxFree(a \div 8) /\ Advance
  BY <1>2, MovingOn DEF Freeable
<1>3. CASE Fails /\ Unwind
  BY <1>3, Leaping
<1>4. CASE BadFree
  BY <1>4, BadFreeOn
<1>5. CASE indet' /\ Unwind
  BY <1>5, Leaping
<1>6. \A r : ~Die(r)
  BY OnlyDead
<1> QED
  BY <1>1, <1>2, <1>3, <1>4, <1>5, <1>6 DEF Free

LEMMA DeleteOn ==
  ASSUME Ready, Process, proc'.status # "dead", Instr.op = "delete", Instr.v \in Locals
  PROVE  /\ MovesOn(Instr.v)
         /\ UNCHANGED heapVars \/ AtomicFree(proc.env[Instr.v] \div 8)
<1>1. Delete
  BY ActionOf
<1>2. \A r : ~Die(r)
  BY OnlyDead
<1>3. CASE BadFree
  BY <1>3, BadFreeOn DEF MovesOn, Locals
<1>4. CASE AtomicFree(proc.env[Instr.v] \div 8) /\ AdvanceWith(Instr.v, Null)
  BY <1>4, MovingOn
<1> QED
  BY <1>1, <1>2, <1>3, <1>4 DEF Delete

LEMMA AbortOn ==
  ASSUME Ready, Process, proc'.status # "dead", Instr.op = "abort"
  PROVE  Leaps
BY ActionOf, Leaping DEF AbortTx

LEMMA EndOn ==
  ASSUME Ready, Process, proc'.status # "dead", Instr.op = "end"
  PROVE  /\ proc'.status = "run" /\ proc'.pc = proc.pc + 1 /\ ~proc'.aborted
         /\ proc'.pool = proc.pool /\ proc'.env = proc.env /\ proc'.saved = proc.saved
         /\ \/ ~proc.aborted /\ TxCommit
            \/ proc.aborted /\ Instr.handler = "none" /\ UNCHANGED heapVars
<1>1. End /\ proc \in Procs /\ proc.status = "run"
  BY ActionOf DEF Ready, Running
<1>2. CASE ~proc.aborted /\ TxCommit /\ Advance
  <2>1. proc' = [proc EXCEPT !.pc = proc.pc + 1]
    BY <1>2 DEF Advance, Goto
  <2> QED
    BY <1>1, <1>2, <2>1 DEF Procs
<1>3. CASE /\ proc.aborted /\ Instr.handler = "none" /\ UNCHANGED heapVars
           /\ proc' = [proc EXCEPT !.pc = @ + 1, !.aborted = FALSE]
  BY <1>1, <1>3 DEF Procs
<1>4. proc' # [proc EXCEPT !.status = "dead", !.report = "abort"]
  BY <1>1 DEF Procs
<1> QED
  BY <1>1, <1>2, <1>3, <1>4 DEF End

LEMMA CloseOn ==
  ASSUME Ready, Process, proc'.status # "dead", Instr.op = "close"
  PROVE  proc'.status = "exit" /\ proc'.pc = proc.pc /\ proc'.wild = proc.wild /\ Detach /\ UNCHANGED file
<1>1. Close /\ proc \in Procs
  BY ActionOf DEF Ready
<1> QED
  BY <1>1 DEF Close, Procs, Ordinary

\* Every instruction of a lawful program names the variable it is about.
LEMMA Names ==
  ASSUME NEW t, NEW s, NEW k, NEW i, Lawful(t, s, k), i = Suite[t].stages[s][k],
         i.op \in {"alloc", "realloc", "new", "copy", "delete", "write", "range", "free"}
  PROVE  i.v \in Locals
<1>1. Trapped(t, s, k, i) \/ GoesLawfully(t, s, k, i)
  BY DEF Lawful
<1>2. GoesLawfully(t, s, k, i) => Legal(t, s, k, i)
  BY DEF GoesLawfully
<1> QED
  BY <1>1, <1>2 DEF Trapped, Legal

\* A process goes to the next line or to its TX_END.
LEMMA Onward ==
  ASSUME Ready, Process, proc'.status = "run", Lawful(test, stage, proc.pc), proc.pc = 1 => ~proc.pool
  PROVE  \/ Leaps
         \/ /\ proc'.pc = proc.pc + 1
            /\ proc'.aborted => proc.aborted /\ Instr.op # "end"
            /\ Instr.op \notin {"create", "open"} => proc'.pool = proc.pool
            /\ Instr.op \in {"root", "begin"} => proc.pool
<1>1. Instr = Suite[test].stages[stage][proc.pc] /\ proc'.status # "dead"
  BY DEF Instr, Program
<1>2. Instr.op \in {"alloc", "realloc", "new", "copy", "delete"} => Instr.v \in Locals
  BY <1>1, Names
<1>3. Instr.op \in {"create", "open"} => proc.pc = 1
  BY <1>1 DEF Lawful
<1>4. CASE Instr.op \in {"write", "range", "flag"}
  BY <1>1, <1>4, QuietOn DEF MovesOn
<1>5. CASE Instr.op \in {"begin", "root"}
  BY <1>1, <1>5, BeginOn, RootOn DEF MovesOn
<1>6. CASE Instr.op \in {"create", "open"}
  BY <1>1, <1>3, <1>6, CreateOn, OpenOn
<1>7. CASE Instr.op \in {"alloc", "realloc", "new"}
  BY <1>1, <1>2, <1>7, AllocOn, ReallocOn, NewOn DEF MovesOn
<1>8. CASE Instr.op \in {"copy", "delete", "free"}
  BY <1>1, <1>2, <1>8, CopyOn, DeleteOn, FreeOn DEF MovesOn
<1>9. CASE Instr.op \in {"abort", "end"}
  BY <1>1, <1>9, AbortOn, EndOn
<1>10. CASE Instr.op = "close"
  BY <1>1, <1>10, CloseOn
<1>11. Instr.op \in {"write", "range", "flag", "begin", "root", "create", "open", "alloc", "realloc",
                     "new", "copy", "delete", "free", "abort", "end", "close"}
  <2>1. \A r : ~Die(r)
    BY <1>1, OnlyDead
  <2>2. ~UseNoPool /\ ~Derail
    BY <2>1 DEF UseNoPool, Derail
  <2> QED
    BY <2>2 DEF Process, Create, OpenPool, RootObj, Begin, Alloc, Free, Realloc, AddRange, AbortTx, End,
                New, Delete, Copy, Write, Flag, Close, At, Instr
<1> QED
  BY <1>4, <1>5, <1>6, <1>7, <1>8, <1>9, <1>10, <1>11

\* The line a process stands at.
LEMMA Lines ==
  ASSUME Shapes, Process
  PROVE  /\ Ready /\ UNCHANGED suiteVars /\ test' = test /\ stage' = stage /\ allOK' = allOK
         /\ test \in 1 .. 16 /\ test <= 16 /\ stage \in 1 .. Len(Suite[test].stages) /\ stage \in 1 .. 2
         /\ proc.pc \in 1 .. Len(Program) /\ proc.status = "run" /\ proc.pc \in Nat
         /\ Program = Suite[test].stages[stage] /\ Program' = Program
         /\ Instr = Suite[test].stages[stage][proc.pc] /\ Lawful(test, stage, proc.pc)
<1>1. Ready /\ UNCHANGED suiteVars /\ test \in 1 .. 16 /\ test <= 16 /\ proc.status = "run"
  BY ProcessSteps, WithinSuite DEF Ready, Running, Shapes, Proper
<1>2. /\ stage \in 1 .. Len(Suite[test].stages) /\ stage \in 1 .. 2
      /\ proc.pc \in 1 .. Len(Program) /\ Program = Suite[test].stages[stage]
  BY <1>1 DEF Shapes, Program
<1>3. Lawful(test, stage, proc.pc)
  BY <1>1, <1>2, AllLawful
<1>4. proc.pc \in Nat
  BY <1>1 DEF Ready, Procs
<1> QED
  BY <1>1, <1>2, <1>3, <1>4, SameProgram DEF Instr, Program, suiteVars

LEMMA OrderlyStep == Shapes /\ Orderly /\ [Next]_vars => Orderly'
<1> SUFFICES ASSUME Shapes, Orderly, [Next]_vars, test' <= 16, proc'.status = "run"
             PROVE  Orderly'
  BY DEF Orderly
<1>1. CASE UNCHANGED vars
  <2>1. /\ UNCHANGED <<features, shadow, blk, tx, added, freed, root, open>>
        /\ UNCHANGED <<build, test, stage, allOK, rc>>
        /\ UNCHANGED <<proc, out, file, failures, indet>>
    BY <1>1 DEF vars, suiteVars, heapVars
  <2> QED
    BY <2>1 DEF Orderly, Instr, Program
<1>2. CASE NextStage \/ Judge
  <2>1. proc' = Launched
    BY <1>2 DEF NextStage, Judge
  <2> QED
    BY <2>1 DEF Orderly, Launched
<1>3. CASE Process
  <2> DEFINE k == proc.pc
             i == Instr
  <2>1. /\ Ready /\ test' = test /\ stage' = stage /\ test <= 16 /\ k \in Nat /\ k >= 1
        /\ proc.status = "run" /\ Program' = Program /\ Lawful(test, stage, k) /\ stage \in 1 .. 2
        /\ i = Suite[test].stages[stage][k] /\ proc'.pc \in Nat
    BY <1>3, Lines, ProcessSteps DEF Proper, Procs
  <2>2. /\ k = 1 => ~proc.pool
        /\ k >= 3 => proc.pool
        /\ proc.aborted => i.op = "end"
    BY <2>1 DEF Orderly
  <2>3. /\ i.op = "create" <=> k = 1 /\ stage = 1
        /\ i.op = "open" <=> k = 1 /\ stage = 2
        /\ i.op = "root" => k = 2
        /\ k = 2 => i.op \in {"root", "begin", "close"}
    BY <2>1 DEF Lawful
  <2>4. i.op \in Leaving => k >= 3
    BY <2>1, <2>3 DEF Leaving
  <2>5. i.op # "close"
    BY <1>3, <2>1, CloseOn
  <2>6. CASE Leaps
    <3>1. proc'.pool = proc.pool /\ proc.pool /\ proc'.pc > 3
      BY <2>1, <2>2, <2>4, <2>6 DEF Leaps
    <3>2. Instr'.op = "end"
      BY <2>1, <2>6 DEF Leaps, NextEnd, Instr
    <3> QED
      BY <3>1, <3>2 DEF Orderly
  <2>7. CASE /\ proc'.pc = k + 1
             /\ proc'.aborted => proc.aborted /\ i.op # "end"
             /\ i.op \notin {"create", "open"} => proc'.pool = proc.pool
             /\ i.op \in {"root", "begin"} => proc.pool
    <3>1. proc'.pc # 1 /\ ~proc'.aborted
      BY <2>1, <2>2, <2>7
    <3>2. proc'.pc >= 3 => proc'.pool
      BY <2>1, <2>2, <2>3, <2>5, <2>7
    <3>3. ASSUME stage' = 1, proc'.pc = 2, proc'.pool
          PROVE  root' = NoRoot /\ blk' = NoBlocks /\ ~tx' /\ freed' = {} /\ file'
      <4>1. k = 1 /\ i.op = "create" /\ ~proc.pool
        BY <2>1, <2>2, <2>3, <2>7, <3>3
      <4>2. Format /\ file'
        BY <1>3, <2>1, <3>3, <4>1, CreateOn
      <4> QED
        BY <4>2 DEF Format
    <3> QED
      BY <3>1, <3>2, <3>3 DEF Orderly
  <2> QED
    BY <1>3, <2>1, <2>2, <2>6, <2>7, Onward
<1> QED
  BY <1>1, <1>2, <1>3 DEF Next

-----------------------------------------------------------------------------
(* The tests that end on an access: memory the library leaves accessible   *)
(* up to the faulty line.                                                  *)

Accessing == {4, 5, 6, 8, 9, 10, 11, 12}

\* How line k leads to what Culprit names for the line behind it.
Leads(t, s, k, i) ==
  LET u == Culprit(t, s, k)
      w == Culprit(t, s, k + 1)
  IN
  w # "none" =>
    /\ w \in Locals
    /\ \/ i.op \in {"write", "range", "flag", "begin"} /\ u = w
       \/ i.op = "copy" /\ i.v = w /\ i.u = u /\ u # "none"
       \/ i.op = "alloc" /\ i.v = w /\ ((t = 4 /\ i.n = 8) \/ (t = 6 /\ i.n = 16))
       \/ i.op = "new" /\ i.v = w /\ ((t = 5 /\ i.n = 8) \/ (t = 8 /\ i.n = 16))
       \/ i.op = "root" /\ k = 2 /\ w = "root" /\ t \in 9 .. 12 /\ i.n = (IF t = 12 THEN 4 ELSE 16)
       \/ i.op = "free" /\ t = 4 /\ u = w
       \/ i.op = "delete" /\ t = 5 /\ u = w /\ i.v # w
       \/ i.op = "realloc" /\ t = 6 /\ u = w /\ i.u = w /\ i.v # w
       \/ i.op = "end" /\ i.handler # "none" /\ u = w /\ (t = 6 \/ (t = 4 /\ k = 7))

\* And the faulty line accesses it.
Strikes(t, s, k, i) ==
  k = FaultLine[t] =>
    i.op = "write" /\ i.v = Culprit(t, s, k) /\ i.v \in Locals /\ i.off = 8 * Reach(t) /\ i.w = 8

Bares(t, s, P) == \A k \in 1 .. Len(P) : Leads(t, s, k, P[k]) /\ Strikes(t, s, k, P[k])

USE DEF create, openPool, rootObj, begin, alloc, free, realloc, addRange, end, new, delete,
        copy, write, flag, close, print_pass_flag, print_fail_flag

LEMMA UseAfterFreeBares == Bares(4, 1, use_after_free)
<1>1. /\ Len(use_after_free) = 14
      /\ \A k \in 1 .. 14 :
           use_after_free[k] = <<create("assert"), rootObj(16, "assert"), begin,
                                 alloc("oid", 8), addRange("root", 16), copy("obj", "oid"),
                                 end("abort"), begin, free("obj", 0), print_pass_flag,
                                 write("obj", 0, 8), end("none"), print_fail_flag, close>>[k]
  BY DEF use_after_free, WithDummy, Rooted, Finish
<1>2. \A k \in 1 .. 14 : k \in {1, 2, 3, 4, 5, 6, 7, 8, 9, 10, 11, 12, 13, 14}
  OBVIOUS
<1>3. Reach(4) = 0 /\ FaultLine[4] = 11
  BY LineFacts DEF Reach
<1>4. \A k \in 1 .. 14 : Leads(4, 1, k, use_after_free[k])
  BY <1>1, <1>2 DEF Leads, Culprit, Locals
<1>5. \A k \in 1 .. 14 : Strikes(4, 1, k, use_after_free[k])
  BY <1>1, <1>2, <1>3 DEF Strikes, Culprit, Locals
<1> QED
  BY <1>1, <1>4, <1>5 DEF Bares

LEMMA UseAfterFreeNtxBares == Bares(5, 1, use_after_free_ntx)
<1>1. /\ Len(use_after_free_ntx) = 9
      /\ \A k \in 1 .. 9 :
           use_after_free_ntx[k] = <<create("assert"), rootObj(16, "assert"), new("obj", 8),
                                     copy("toid", "obj"), delete("obj"), print_pass_flag,
                                     write("toid", 0, 8), print_fail_flag, close>>[k]
  BY DEF use_after_free_ntx, Rooted, Finish
<1>2. \A k \in 1 .. 9 : k \in {1, 2, 3, 4, 5, 6, 7, 8, 9}
  OBVIOUS
<1>3. Reach(5) = 0 /\ FaultLine[5] = 7
  BY LineFacts DEF Reach
<1>4. \A k \in 1 .. 9 : Leads(5, 1, k, use_after_free_ntx[k])
  BY <1>1, <1>2 DEF Leads, Culprit, Locals
<1>5. \A k \in 1 .. 9 : Strikes(5, 1, k, use_after_free_ntx[k])
  BY <1>1, <1>2, <1>3 DEF Strikes, Culprit, Locals
<1> QED
  BY <1>1, <1>4, <1>5 DEF Bares

LEMMA UseAfterReallocBares == Bares(6, 1, use_after_realloc)
<1>1. /\ Len(use_after_realloc) = 12
      /\ \A k \in 1 .. 12 :
           use_after_realloc[k] = <<create("assert"), begin, alloc("oid1", 16), end("abort"),
                                    begin, realloc("oid2", "oid1", Stretch),
                                    write("oid2", 0, 8), print_pass_flag, write("oid1", 0, 8),
                                    print_fail_flag, end("failabort"), close>>[k]
  BY DEF use_after_realloc
<1>2. \A k \in 1 .. 12 : k \in {1, 2, 3, 4, 5, 6, 7, 8, 9, 10, 11, 12}
  OBVIOUS
<1>3. Reach(6) = 0 /\ FaultLine[6] = 9
  BY LineFacts DEF Reach
<1>4. \A k \in 1 .. 12 : Leads(6, 1, k, use_after_realloc[k])
  BY <1>1, <1>2 DEF Leads, Culprit, Locals
<1>5. \A k \in 1 .. 12 : Strikes(6, 1, k, use_after_realloc[k])
  BY <1>1, <1>2, <1>3 DEF Strikes, Culprit, Locals
<1> QED
  BY <1>1, <1>4, <1>5 DEF Bares

LEMMA OverflowNtxBares == Bares(8, 1, overflow_ntx)
<1>1. /\ Len(overflow_ntx) = 9
      /\ \A k \in 1 .. 9 :
           overflow_ntx[k] = <<create("assert"), rootObj(16, "abort"), new("obj", 16),
                               write("obj", 0, 8), write("obj", 8, 8), print_pass_flag,
                               write("obj", 16, 8), print_fail_flag, close>>[k]
  BY DEF overflow_ntx, Finish
<1>2. \A k \in 1 .. 9 : k \in {1, 2, 3, 4, 5, 6, 7, 8, 9}
  OBVIOUS
<1>3. Reach(8) = 2 /\ FaultLine[8] = 7
  BY LineFacts DEF Reach
<1>4. \A k \in 1 .. 9 : Leads(8, 1, k, overflow_ntx[k])
  BY <1>1, <1>2 DEF Leads, Culprit, Locals
<1>5. \A k \in 1 .. 9 : Strikes(8, 1, k, overflow_ntx[k])
  BY <1>1, <1>2, <1>3 DEF Strikes, Culprit, Locals
<1> QED
  BY <1>1, <1>4, <1>5 DEF Bares

LEMMA RootOverflowBares == Bares(9, 1, root_overflow)
<1>1. /\ Len(root_overflow) = 8
      /\ \A k \in 1 .. 8 :
           root_overflow[k] = <<create("assert"), rootObj(16, "assert"), write("root", 0, 8),
                                write("root", 8, 8), print_pass_flag, write("root", 16, 8),
                                print_fail_flag, close>>[k]
  BY DEF root_overflow, Rooted, Finish
<1>2. \A k \in 1 .. 8 : k \in {1, 2, 3, 4, 5, 6, 7, 8}
  OBVIOUS
<1>3. Reach(9) = 2 /\ FaultLine[9] = 6
  BY LineFacts DEF Reach
<1>4. \A k \in 1 .. 8 : Leads(9, 1, k, root_overflow[k])
  BY <1>1, <1>2 DEF Leads, Culprit, Locals
<1>5. \A k \in 1 .. 8 : Strikes(9, 1, k, root_overflow[k])
  BY <1>1, <1>2, <1>3 DEF Strikes, Culprit, Locals
<1> QED
  BY <1>1, <1>4, <1>5 DEF Bares

LEMMA AttemptOverflowBares == Bares(10, 2, attemptOverflow)
<1>1. /\ Len(attemptOverflow) = 8
      /\ \A k \in 1 .. 8 :
           attemptOverflow[k] = <<openPool("assert"), rootObj(16, "assert"),
                                  write("root", 0, 8), write("root", 8, 8), print_pass_flag,
                                  write("root", 16, 8), print_fail_flag, close>>[k]
  BY DEF attemptOverflow, Finish
<1>2. \A k \in 1 .. 8 : k \in {1, 2, 3, 4, 5, 6, 7, 8}
  OBVIOUS
<1>3. Reach(10) = 2 /\ FaultLine[10] = 6
  BY LineFacts DEF Reach
<1>4. \A k \in 1 .. 8 : Leads(10, 2, k, attemptOverflow[k])
  BY <1>1, <1>2 DEF Leads, Culprit, Locals
<1>5. \A k \in 1 .. 8 : Strikes(10, 2, k, attemptOverflow[k])
  BY <1>1, <1>2, <1>3 DEF Strikes, Culprit, Locals
<1> QED
  BY <1>1, <1>4, <1>5 DEF Bares

LEMMA RootUnderflowBares == Bares(11, 1, root_underflow)
<1>1. /\ Len(root_underflow) = 8
      /\ \A k \in 1 .. 8 :
           root_underflow[k] = <<create("assert"), rootObj(16, "assert"), write("root", 0, 8),
                                 write("root", 8, 8), print_pass_flag, write("root", -8, 8),
                                 print_fail_flag, close>>[k]
  BY DEF root_underflow, Rooted, Finish
<1>2. \A k \in 1 .. 8 : k \in {1, 2, 3, 4, 5, 6, 7, 8}
  OBVIOUS
<1>3. Reach(11) = -1 /\ FaultLine[11] = 6
  BY LineFacts DEF Reach
<1>4. \A k \in 1 .. 8 : Leads(11, 1, k, root_underflow[k])
  BY <1>1, <1>2 DEF Leads, Culprit, Locals
<1>5. \A k \in 1 .. 8 : Strikes(11, 1, k, root_underflow[k])
  BY <1>1, <1>2, <1>3 DEF Strikes, Culprit, Locals
<1> QED
  BY <1>1, <1>4, <1>5 DEF Bares

LEMMA Int32Bares == Bares(12, 1, int32)
<1>1. /\ Len(int32) = 7
      /\ \A k \in 1 .. 7 :
           int32[k] = <<create("assert"), rootObj(4, "assert"), write("root", 0, 4),
                        print_pass_flag, write("root", 0, 8), print_fail_flag, close>>[k]
  BY DEF int32, Rooted, Finish
<1>2. \A k \in 1 .. 7 : k \in {1, 2, 3, 4, 5, 6, 7}
  OBVIOUS
<1>3. Reach(12) = 0 /\ FaultLine[12] = 5
  BY LineFacts DEF Reach
<1>4. \A k \in 1 .. 7 : Leads(12, 1, k, int32[k])
  BY <1>1, <1>2 DEF Leads, Culprit, Locals
<1>5. \A k \in 1 .. 7 : Strikes(12, 1, k, int32[k])
  BY <1>1, <1>2, <1>3 DEF Strikes, Culprit, Locals
<1> QED
  BY <1>1, <1>4, <1>5 DEF Bares

\* The first process of overflow_persistence.sh accesses nothing.
LEMMA CreatePoolBares == Bares(10, 1, createPool)
<1>1. Len(createPool) = 3
  BY DEF createPool, Rooted
<1>2. \A k \in 1 .. 4 : Culprit(10, 1, k) = "none" /\ k # FaultLine[10]
  BY LineFacts DEF Culprit
<1> QED
  BY <1>1, <1>2 DEF Bares, Leads, Strikes

HIDE DEF create, openPool, rootObj, begin, alloc, free, realloc, addRange, end, new, delete,
         copy, write, flag, close, print_pass_flag, print_fail_flag

LEMMA AllBares ==
  \A t \in Accessing : \A s \in 1 .. Len(Suite[t].stages) : Bares(t, s, Suite[t].stages[s])
<1> SUFFICES ASSUME NEW t \in Accessing, NEW s \in 1 .. Len(Suite[t].stages)
             PROVE  Bares(t, s, Suite[t].stages[s])
  OBVIOUS
<1>1. t \in 1 .. 16 /\ t \in {4, 5, 6, 8, 9, 10, 11, 12}
  BY DEF Accessing
<1>2. (t = 10 /\ s = 2) \/ s = 1
  <2>1. Len(Suite[t].stages) = IF t = 10 THEN 2 ELSE 1
    BY <1>1, StageCount
  <2> QED
    BY <2>1
<1>3. CASE t = 10
  BY <1>2, <1>3, SuiteFacts, CreatePoolBares, AttemptOverflowBares
<1>4. CASE t # 10
  BY <1>1, <1>2, <1>4, SuiteFacts, UseAfterFreeBares, UseAfterFreeNtxBares, UseAfterReallocBares,
     OverflowNtxBares, RootOverflowBares, RootUnderflowBares, Int32Bares
<1> QED
  BY <1>3, <1>4

-----------------------------------------------------------------------------
(* Accessible memory                                                       *)

\* Granule d of a new object of n bytes is accessible without the protection
\* that would seal it.
Unsealed(n, d) ==
  \/ n \in {8, 16} /\ d = 0
  \/ n = 16 /\ d = 2 /\ "right" \notin features
  \/ n = 16 /\ d = -1 /\ "left" \notin features
  \/ n = 4 /\ d = 0 /\ "partial" \notin features

LEMMA PaintedBare ==
  ASSUME NEW b \in Granules, NEW n, NEW d, Unsealed(n, d), Fits(b, n)
  PROVE  b + d \in Granules /\ b + d \in Space(b, n) /\ Painted(b, n)[b + d] = 0
<1>1. b \in Nat /\ Redzone \in Nat \ {0}
  BY HeapAssumption DEF Granules
<1>2. Units(4) = 1 /\ Units(8) = 1 /\ Units(16) = 2
  BY DEF Units
<1>3. b + d \in Space(b, n)
  BY <1>1, <1>2 DEF Unsealed, Space
<1>4. b + d \in Granules
  BY <1>3 DEF Fits
<1>5. Tag(b, n, b + d) = 0
  <2>1. CASE n \in {8, 16} /\ d = 0
    BY <1>1, <1>2, <2>1 DEF Tag, FullTag
  <2>2. CASE n = 16 /\ d = 2 /\ "right" \notin features
    BY <1>1, <1>2, <2>2 DEF Tag
  <2>3. CASE n = 16 /\ d = -1 /\ "left" \notin features
    BY <1>1, <1>2, <2>3 DEF Tag
  <2>4. CASE n = 4 /\ d = 0 /\ "partial" \notin features
    BY <1>1, <1>2, <2>4 DEF Tag
  <2> QED
    BY <2>1, <2>2, <2>3, <2>4 DEF Unsealed
<1> QED
  BY <1>3, <1>4, <1>5 DEF Painted

\* Bare in a shadow S.
Exposed(S, p, d) ==
  \/ p \in {Null, Unassigned}
  \/ \E b \in Granules : p = 8 * b /\ b + d \in Granules /\ S[b + d] = 0

LEMMA BareIsExposed == \A p, d : Bare(p, d) <=> Exposed(shadow, p, d)
  BY DEF Bare, Exposed

\* What is allocated there.
LEMMA NewlyBare ==
  ASSUME NEW b \in Granules, NEW n, NEW d, Unsealed(n, d), Fits(b, n), shadow' = Painted(b, n)
  PROVE  Exposed(shadow', 8 * b, d)
  BY PaintedBare DEF Exposed

\* A write of eight bytes that no check stops does not end the process, unless
\* there is no address to write to.
LEMMA BareWrite ==
  ASSUME Ready, Process, proc'.status = "dead", ~indet', Instr.op = "write", Instr.w = 8,
         NEW d \in Int, Instr.off = 8 * d, Bare(proc.env[Instr.v], d)
  PROVE  proc'.report = "segv"
<1> DEFINE p == proc.env[Instr.v]
<1>1. Write
  BY DEF Process, Create, OpenPool, UseNoPool, RootObj, Begin, Alloc, Free, Realloc, AddRange, AbortTx,
         End, New, Delete, Copy, Flag, Close, Derail, At, Instr
<1>2. CASE p = Null /\ Die("segv")
  BY <1>2, OnlyDead
<1>3. CASE p = Unassigned /\ TouchAnywhere
  BY <1>3 DEF TouchAnywhere
<1>4. CASE p >= 0 /\ Touch(p + 8 * d, 8)
  <2>1. p \notin {Null, Unassigned}
    BY <1>4 DEF Null, Unassigned
  <2>2. PICK b \in Granules : p = 8 * b /\ b + d \in Granules /\ shadow[b + d] = 0
    BY <2>1 DEF Bare
  <2> DEFINE a == p + 8 * d
             g == b + d
  <2>3. b \in Int /\ g \in Int
    BY HeapAssumption DEF Granules
  <2>4. a \div 8 = g /\ (a + 8 - 1) \div 8 = g
    BY <2>2, <2>3
  <2>5. Faults(a, 8) = {}
    <3>1. \A w : ~Poisoned(g, w)
      BY <2>2 DEF Poisoned
    <3>2. \A h \in g .. g : h = g
      BY <2>3
    <3> HIDE DEF a, g
    <3> QED
      BY <2>2, <2>4, <3>1, <3>2 DEF Faults, g
  <2>6. Advance \/ AdvanceWild
    BY <1>4, <2>5 DEF Touch
  <2> QED
    BY <2>6, Moving
<1> QED
  BY <1>1, <1>2, <1>3, <1>4 DEF Write

LEMMA LeftBareStep ==
  ASSUME Shapes, Orderly, UseAfterFreeTame, Process, ~indet', test \in Accessing,
         Notices[test] \notin features, LeftBare,
         test = 10 => PersistenceMissed /\ ~Fails
  PROVE  LeftBare'
<1> DEFINE t == test
           s == stage
           k == proc.pc
           i == Instr
           u == Culprit(t, s, k)
           w == Culprit(t, s, k + 1)
           d == Reach(t)
<1>1. /\ Ready /\ test' = t /\ stage' = s /\ t \in 1 .. 16 /\ t <= 16 /\ s \in 1 .. Len(Suite[t].stages)
      /\ k \in 1 .. Len(Suite[t].stages[s]) /\ i = Suite[t].stages[s][k] /\ k \in Nat
      /\ Lawful(t, s, k) /\ proc.status = "run" /\ HeapTyped /\ s \in 1 .. 2
  BY Lines DEF Ready
<1>2. Leads(t, s, k, i)
  BY <1>1, AllBares DEF Bares
<1>3. /\ k = 1 => ~proc.pool
      /\ k >= 3 => proc.pool
      /\ proc.aborted => i.op = "end"
      /\ s = 1 /\ k = 2 /\ proc.pool => root = NoRoot
  BY <1>1 DEF Orderly
<1> SUFFICES ASSUME proc'.status = "run", ~proc'.aborted, Culprit(t, s, proc'.pc) # "none"
             PROVE  Exposed(shadow', proc'.env[Culprit(t, s, proc'.pc)], d)
  BY <1>1 DEF LeftBare, Bare, Exposed
<1>4. ~Leaps
  BY DEF Leaps
<1>5. proc'.pc = k + 1 /\ proc'.status # "dead"
  BY <1>1, <1>3, <1>4, Onward
<1>6. w # "none" /\ w \in Locals
  BY <1>2, <1>5 DEF Leads
<1> SUFFICES Exposed(shadow', proc'.env[w], d)
  BY <1>1, <1>5
<1>7. ~proc.aborted /\ u # "none" => Bare(proc.env[u], d)
  BY <1>1 DEF LeftBare
<1>8. i.op \in {"alloc", "realloc", "new", "copy", "delete", "write", "range", "free"} => i.v \in Locals
  BY <1>1, Names
<1>9. ASSUME u = w, ~proc.aborted, proc'.env[w] = proc.env[w], UNCHANGED shadow
      PROVE  Exposed(shadow', proc'.env[w], d)
  <2>1. Bare(proc.env[w], d)
    BY <1>6, <1>7, <1>9
  <2> QED
    BY <1>9, <2>1, BareIsExposed
<1>10. Notices[4] = "eager" /\ Notices[5] = "poison" /\ Notices[6] = "move" /\ Notices[8] = "atomic"
       /\ Notices[9] = "right" /\ Notices[10] = "persist" /\ Notices[11] = "left" /\ Notices[12] = "partial"
  BY DEF Notices
<1>11. Reach(4) = 0 /\ Reach(5) = 0 /\ Reach(6) = 0 /\ Reach(8) = 2 /\ Reach(9) = 2 /\ Reach(10) = 2
       /\ Reach(11) = -1 /\ Reach(12) = 0
  BY DEF Reach
<1>12. w # "none" /\ "none" \notin Locals
  BY <1>6 DEF Locals
<1> HIDE DEF t, s, k, i, u, w, d
<1>13. CASE i.op \in {"write", "range", "flag"} /\ u = w
  <2>1. MovesOn("none") /\ UNCHANGED heapVars
    BY <1>1, <1>4, <1>5, <1>13, QuietOn DEF i
  <2>2. proc'.env[w] = proc.env[w] /\ UNCHANGED shadow
    BY <1>6, <1>12, <2>1 DEF MovesOn, heapVars
  <2> QED
    BY <1>3, <1>9, <1>13, <2>2
<1>14. CASE i.op = "begin" /\ u = w
  <2>1. proc'.env[w] = proc.env[w] /\ UNCHANGED shadow
    BY <1>1, <1>5, <1>14, BeginOn DEF i
  <2> QED
    BY <1>3, <1>9, <1>14, <2>1
<1>15. CASE i.op = "copy" /\ i.v = w /\ i.u = u /\ u # "none"
  <2>1. proc'.env[w] = proc.env[u] /\ UNCHANGED shadow
    BY <1>1, <1>5, <1>6, <1>15, CopyOn DEF i, heapVars
  <2>2. Bare(proc.env[u], d)
    BY <1>3, <1>7, <1>15
  <2> QED
    BY <2>1, <2>2, BareIsExposed
<1>16. CASE i.op = "alloc" /\ i.v = w /\ ((t = 4 /\ i.n = 8) \/ (t = 6 /\ i.n = 16))
  <2>1. PICK b \in Granules : TxAlloc(b, i.n) /\ proc'.env[w] = 8 * b
    BY <1>1, <1>4, <1>5, <1>6, <1>16, AllocOn DEF i
  <2>2. Unsealed(i.n, d)
    BY <1>11, <1>16 DEF Unsealed, d
  <2>3. Exposed(shadow', 8 * b, d)
    BY <2>1, <2>2, NewlyBare DEF TxAlloc
  <2> QED
    BY <2>1, <2>3
<1>17. CASE i.op = "new" /\ i.v = w /\ ((t = 5 /\ i.n = 8) \/ (t = 8 /\ i.n = 16))
  <2>1. PICK b \in Granules : AtomicAlloc(b, i.n) /\ proc'.env[w] = 8 * b
    BY <1>1, <1>5, <1>6, <1>17, NewOn DEF i
  <2>2. CASE t = 5
    <3>1. Unsealed(i.n, d)
      BY <1>11, <1>17, <2>2 DEF Unsealed, d
    <3>2. b + d \in Granules /\ b + d \in Space(b, i.n) /\ Painted(b, i.n)[b + d] = 0
      BY <2>1, <3>1, PaintedBare DEF AtomicAlloc
    <3>3. shadow'[b + d] = 0
      BY <2>1, <3>2 DEF AtomicAlloc
    <3> QED
      BY <2>1, <3>2, <3>3 DEF Exposed
  <2>3. CASE t = 8
    <3>1. "atomic" \notin features /\ d = 2 /\ i.n = 16
      BY <1>10, <1>11, <1>17, <2>3 DEF t, d
    <3>2. b \in Nat /\ Redzone \in Nat \ {0} /\ Units(16) = 2
      BY HeapAssumption DEF Granules, Units
    <3>3. b + d \in Space(b, i.n)
      BY <3>1, <3>2 DEF Space
    <3>4. b + d \in Granules
      BY <2>1, <3>3 DEF AtomicAlloc, Fits
    <3>5. shadow'[b + d] = 0
      BY <2>1, <3>1, <3>3, <3>4 DEF AtomicAlloc
    <3> QED
      BY <2>1, <3>4, <3>5 DEF Exposed
  <2> QED
    BY <1>17, <2>2, <2>3
<1>18. CASE i.op = "root" /\ k = 2 /\ w = "root" /\ t \in 9 .. 12 /\ i.n = (IF t = 12 THEN 4 ELSE 16)
  <2>1. /\ proc.pool
        /\ \/ root # NoRoot /\ proc'.env["root"] = 8 * root /\ UNCHANGED heapVars
           \/ \E b \in Granules : RootAlloc(b, i.n) /\ proc'.env["root"] = 8 * b
           \/ Fails /\ proc'.env["root"] = Null /\ UNCHANGED heapVars
    BY <1>1, <1>5, <1>18, RootOn DEF i
  <2>2. CASE t = 10 /\ s = 2
    <3>1. root \in Granules /\ root + 2 \in Granules /\ shadow[root + 2] = 0 /\ ~Fails /\ d = 2
      BY <1>1, <1>11, <1>18, <2>2 DEF PersistenceMissed, t, s, k, d
    <3>2. root # NoRoot
      BY <3>1, HeapAssumption DEF Granules, NoRoot
    <3>3. proc'.env["root"] = 8 * root /\ UNCHANGED shadow
      BY <2>1, <3>1, <3>2 DEF RootAlloc, heapVars
    <3>4. Exposed(shadow, 8 * root, d)
      BY <3>1 DEF Exposed
    <3> QED
      BY <1>18, <3>3, <3>4
  <2>3. CASE ~(t = 10 /\ s = 2)
    <3>1. root = NoRoot
      <4>1. s = 1
        <5>1. Len(Suite[t].stages) = IF t = 10 THEN 2 ELSE 1
          BY <1>1, StageCount
        <5> QED
          BY <1>1, <2>3, <5>1
      <4> QED
        BY <1>3, <1>18, <2>1, <4>1
    <3>2. CASE proc'.env["root"] = Null
      BY <1>18, <3>2 DEF Exposed
    <3>3. ASSUME NEW b \in Granules, RootAlloc(b, i.n), proc'.env["root"] = 8 * b
          PROVE  Exposed(shadow', 8 * b, d)
      <4>1. t # 10
        <5>1. Culprit(10, 1, 3) = "none"
          BY DEF Culprit
        <5>2. s = 1 \/ s = 2
          BY <1>1
        <5>3. k + 1 = 3
          BY <1>18
        <5> QED
          BY <1>12, <2>3, <5>1, <5>2, <5>3 DEF w
      <4>2. t \in {9, 11, 12}
        BY <1>18, <4>1
      <4>3. Unsealed(i.n, d)
        BY <1>10, <1>11, <1>18, <4>2 DEF Unsealed, t, d
      <4> QED
        BY <3>3, <4>3, NewlyBare DEF RootAlloc
    <3> QED
      BY <1>18, <2>1, <3>1, <3>2, <3>3
  <2> QED
    BY <2>2, <2>3
<1>19. CASE i.op = "free" /\ t = 4 /\ u = w
  <2>1. "eager" \notin features
    BY <1>10, <1>19 DEF t
  <2>2. MovesOn("none") /\ (UNCHANGED heapVars \/ \E b : TxFree(b))
    BY <1>1, <1>4, <1>5, <1>19, FreeOn DEF i
  <2>3. proc'.env[w] = proc.env[w] /\ UNCHANGED shadow
    BY <1>6, <1>12, <2>1, <2>2 DEF MovesOn, heapVars, TxFree
  <2> QED
    BY <1>3, <1>9, <1>19, <2>3
<1>20. CASE i.op = "delete" /\ t = 5 /\ u = w /\ i.v # w
  <2>1. "poison" \notin features
    BY <1>10, <1>20 DEF t
  <2>2. MovesOn(i.v) /\ (UNCHANGED heapVars \/ \E b : AtomicFree(b))
    BY <1>1, <1>5, <1>8, <1>20, DeleteOn DEF i
  <2>3. proc'.env[w] = proc.env[w] /\ UNCHANGED shadow
    BY <1>6, <1>20, <2>1, <2>2 DEF MovesOn, heapVars, AtomicFree
  <2> QED
    BY <1>3, <1>9, <1>20, <2>3
<1>21. CASE i.op = "realloc" /\ t = 6 /\ u = w /\ i.u = w /\ i.v # w
  <2>1. "move" \notin features /\ d = 0
    BY <1>10, <1>11, <1>21 DEF t, d
  <2>2. MovesOn(i.v) /\ \E c \in Granules : TxMove(proc.env[w] \div 8, c, i.n)
    BY <1>1, <1>4, <1>5, <1>8, <1>21, ReallocOn DEF i
  <2>3. PICK c \in Granules : TxMove(proc.env[w] \div 8, c, i.n)
    BY <2>2
  <2>4. proc'.env[w] = proc.env[w] /\ shadow' = Painted(c, i.n)
    BY <1>6, <1>21, <2>1, <2>2, <2>3 DEF MovesOn, TxMove
  <2>5. Bare(proc.env[w], d)
    BY <1>3, <1>6, <1>7, <1>21
  <2>6. CASE proc.env[w] \in {Null, Unassigned}
    BY <2>4, <2>6 DEF Exposed
  <2>7. ASSUME NEW b \in Granules, proc.env[w] = 8 * b, b + d \in Granules, shadow[b + d] = 0
        PROVE  Exposed(shadow', proc'.env[w], d)
    <3>1. b \in Nat /\ b + d = b /\ (8 * b) \div 8 = b
      BY <2>1, HeapAssumption DEF Granules
    <3>2. b \in Live /\ Fits(c, i.n)
      BY <2>3, <2>7, <3>1 DEF TxMove
    <3>3. b \notin Space(c, i.n)
      BY <3>2, <1>1, Inside DEF Live, Blocks, Taken, HeapTyped, Fits
    <3>4. shadow'[b + d] = 0
      BY <2>4, <2>7, <3>1, <3>3 DEF Painted
    <3> QED
      BY <2>4, <2>7, <3>4 DEF Exposed
  <2> QED
    BY <2>5, <2>6, <2>7 DEF Bare
<1>22. CASE i.op = "end" /\ i.handler # "none" /\ u = w /\ (t = 6 \/ (t = 4 /\ k = 7))
  <2>1. proc'.env = proc.env /\ ~proc.aborted /\ TxCommit
    BY <1>1, <1>5, <1>22, EndOn DEF i
  <2>2. CASE t = 6
    <3>1. "move" \notin features
      BY <1>10, <2>2 DEF t
    <3>2. UNCHANGED shadow
      BY <2>1, <3>1 DEF TxCommit
    <3> QED
      BY <1>9, <1>22, <2>1, <3>2
  <2>3. CASE t = 4 /\ k = 7
    <3>1. freed = {}
      BY <1>1, <1>3, <2>1, <2>3 DEF UseAfterFreeTame, t, k
    <3>2. Wiped(shadow, {}) = shadow
      BY <1>1, WipeNone DEF HeapTyped
    <3>3. UNCHANGED shadow
      BY <2>1, <3>1, <3>2 DEF TxCommit
    <3> QED
      BY <1>9, <1>22, <2>1, <3>3
  <2> QED
    BY <1>22, <2>2, <2>3
<1> QED
  BY <1>2, <1>6, <1>13, <1>14, <1>15, <1>16, <1>17, <1>18, <1>19, <1>20, <1>21, <1>22 DEF Leads, u, w

-----------------------------------------------------------------------------
(* overflow_persistence.sh                                                 *)

LEMMA CreatePoolLines ==
  /\ Len(createPool) = 3
  /\ createPool[1].op = "create" /\ createPool[2].op = "root" /\ createPool[2].n = 16
  /\ createPool[3].op = "close"
  BY DEF createPool, Rooted, create, rootObj, close

\* Without a failing call nothing stops the first process.
LEMMA Undisturbed ==
  ASSUME Ready, Process, ~Fails, ~proc.wild, Instr.op \in {"create", "root", "close"},
         Instr.op = "root" => proc.pool
  PROVE  proc'.status # "dead"
<1> USE DEF At, Instr
<1>1. Create \/ RootObj \/ Close
  BY DEF Process, OpenPool, UseNoPool, Begin, Alloc, Free, Realloc, AddRange, AbortTx,
         End, New, Delete, Copy, Write, Flag, Derail
<1>2. proc \in Procs /\ proc.status = "run"
  BY DEF Ready, Running
<1>3. CASE Create
  BY <1>2, <1>3 DEF Create, Procs
<1>4. CASE RootObj
  <2>1. \E p : AdvanceWith("root", p)
    BY <1>4 DEF RootObj
  <2> QED
    BY <1>2, <2>1 DEF AdvanceWith, Procs
<1>5. CASE Close
  BY <1>2, <1>5 DEF Close, Procs
<1> QED
  BY <1>1, <1>3, <1>4, <1>5

LEMMA PersistenceMissedStep ==
  ASSUME Shapes, Orderly, Process, test = 10, "persist" \notin features, ~Fails, PersistenceMissed
  PROVE  PersistenceMissed'
<1> DEFINE k == proc.pc
           i == Instr
<1>1. /\ Ready /\ test' = test /\ stage' = stage /\ k \in Nat /\ k >= 1 /\ proc.status = "run"
      /\ Program = Suite[test].stages[stage] /\ Lawful(test, stage, k) /\ i = Suite[test].stages[stage][k]
      /\ k \in 1 .. Len(Suite[test].stages[stage]) /\ test <= 16 /\ stage \in 1 .. 2
      /\ proc'.pc \in Nat
  BY Lines, ProcessSteps DEF Proper, Procs
<1>2. /\ k = 1 => ~proc.pool
      /\ proc.aborted => i.op = "end"
      /\ stage = 1 /\ k = 2 /\ proc.pool => root = NoRoot /\ ~tx /\ file
  BY <1>1 DEF Orderly
<1>3. CASE stage = 1
  <2>1. Suite[test].stages[stage] = createPool /\ k \in 1 .. 3
    BY <1>1, <1>3, SuiteFacts, CreatePoolLines
  <2>2. k = 1 \/ k = 2 \/ k = 3
    BY <2>1
  <2>3. ~proc.wild /\ (k = 2 => proc.pool) /\ (k = 3 => Planted)
    BY <1>1, <1>3 DEF PersistenceMissed
  <2>4. proc'.status # "dead"
    <3>1. i.op \in {"create", "root", "close"} /\ (i.op = "root" => k = 2)
      BY <1>1, <2>1, <2>2, CreatePoolLines
    <3> QED
      BY <1>1, <2>3, <3>1, Undisturbed
  <2>5. CASE k = 1
    <3>1. i.op = "create"
      BY <1>1, <2>1, <2>5, CreatePoolLines
    <3>2. proc'.status = "run" /\ proc'.pc = 2 /\ proc'.wild = proc.wild /\ proc'.pool
      BY <1>1, <1>2, <2>4, <2>5, <3>1, CreateOn
    <3> QED
      BY <1>1, <1>3, <2>3, <3>2 DEF PersistenceMissed
  <2>6. CASE k = 2
    <3>1. i.op = "root" /\ i.n = 16
      BY <1>1, <2>1, <2>6, CreatePoolLines
    <3>2. /\ MovesOn("root") /\ proc'.wild = proc.wild /\ UNCHANGED file
          /\ \/ root # NoRoot
             \/ \E b \in Granules : RootAlloc(b, 16)
      BY <1>1, <2>4, <3>1, RootOn
    <3>3. PICK b \in Granules : RootAlloc(b, 16)
      BY <1>2, <1>3, <2>3, <2>6, <3>2
    <3>4. b + 2 \in Granules
      <4>1. b \in Nat /\ Redzone \in Nat \ {0} /\ Units(16) = 2
        BY HeapAssumption DEF Granules, Units
      <4>2. b + 2 \in Space(b, 16)
        BY <4>1 DEF Space
      <4> QED
        BY <3>3, <4>2 DEF RootAlloc, Fits
    <3>5. Planted'
      BY <1>2, <1>3, <2>3, <2>6, <3>2, <3>3, <3>4 DEF Planted, RootAlloc
    <3>6. proc'.pc = 3
      BY <2>6, <3>2 DEF MovesOn
    <3> QED
      BY <1>1, <1>3, <2>3, <3>2, <3>5, <3>6 DEF PersistenceMissed
  <2>7. CASE k = 3
    <3>1. i.op = "close"
      BY <1>1, <2>1, <2>7, CreatePoolLines
    <3>2. proc'.status = "exit" /\ proc'.pc = 3 /\ proc'.wild = proc.wild /\ Detach /\ UNCHANGED file
      BY <1>1, <2>4, <2>7, <3>1, CloseOn
    <3>3. Planted'
      BY <2>3, <2>7, <3>2 DEF Planted, Detach
    <3> QED
      BY <1>1, <1>3, <2>3, <3>2, <3>3 DEF PersistenceMissed
  <2> QED
    BY <2>2, <2>5, <2>6, <2>7
<1>4. CASE stage = 2
  <2> SUFFICES ASSUME proc'.status = "run", proc'.pc = 1 \/ proc'.pc = 2
               PROVE  proc'.pc = 2 /\ root' \in Granules /\ root' + 2 \in Granules /\ shadow'[root' + 2] = 0
    BY <1>1, <1>4 DEF PersistenceMissed
  <2>1. proc'.pc = k + 1 \/ proc'.pc > k + 1
    <3>1. Leaps => proc'.pc \in k + 1 .. Len(Program)
      BY DEF Leaps
    <3>2. Leaps => Len(Program) \in Nat
      BY <1>1 DEF Ready, Form
    <3> QED
      BY <1>1, <1>2, <3>1, <3>2, Onward
  <2>2. k = 1 /\ proc'.pc = 2
    BY <1>1, <2>1
  <2>3. i.op = "open" /\ ~proc.pool
    BY <1>1, <1>2, <1>4, <2>2 DEF Lawful
  <2>4. Planted
    BY <1>1, <1>4, <2>2 DEF PersistenceMissed
  <2>5. Reopen
    BY <1>1, <2>3, <2>4, OpenOn DEF Planted
  <2>6. shadow' = [g \in Granules |-> 0] /\ root' = root
    BY <2>4, <2>5 DEF Planted, Reopen
  <2> QED
    BY <2>2, <2>4, <2>6 DEF Planted
<1> QED
  BY <1>1, <1>3, <1>4

-----------------------------------------------------------------------------
(* alloc_tx_abort and free_tx_abort                                        *)

LEMMA AllocTxAbortLines ==
  /\ Len(alloc_tx_abort) = 9
  /\ \A k \in 1 .. 9 : LET i == alloc_tx_abort[k] IN
       /\ k = 1 => i.op = "create"
       /\ k = 2 => i.op = "begin"
       /\ k = 3 => i.op = "alloc" /\ i.v = "oid" /\ i.n = 16
       /\ k = 4 => i.op = "abort"
       /\ i.op = "end" <=> k = 5
       /\ k \in {6, 8} => i.op = "flag"
       /\ k = 7 => i.op = "write" /\ i.v = "oid" /\ i.off = 0 /\ i.w = 8
<1>1. /\ Len(alloc_tx_abort) = 9
      /\ \A k \in 1 .. 9 :
           alloc_tx_abort[k] = <<create("assert"), begin, alloc("oid", 16), abortTx, end("none"),
                                 print_pass_flag, write("oid", 0, 8), print_fail_flag, close>>[k]
  BY DEF alloc_tx_abort, Finish
<1>2. \A k \in 1 .. 9 : k \in {1, 2, 3, 4, 5, 6, 7, 8, 9}
  OBVIOUS
<1> QED
  BY <1>1, <1>2 DEF create, begin, alloc, abortTx, end, print_pass_flag, write, print_fail_flag, close, flag

LEMMA FreeTxAbortLines ==
  /\ Len(free_tx_abort) = 10
  /\ \A k \in 1 .. 10 : LET i == free_tx_abort[k] IN
       /\ k = 1 => i.op = "create"
       /\ k \in {2, 5} => i.op = "begin"
       /\ k = 3 => i.op = "alloc" /\ i.v = "oid" /\ i.n = 16
       /\ i.op = "end" <=> k \in {4, 8}
       /\ k = 6 => i.op = "free" /\ i.v = "oid" /\ i.off = 0
       /\ k = 7 => i.op = "abort"
       /\ k = 9 => i.op = "write" /\ i.v = "oid" /\ i.off = 0 /\ i.w = 8
<1>1. /\ Len(free_tx_abort) = 10
      /\ \A k \in 1 .. 10 :
           free_tx_abort[k] = <<create("assert"), begin, alloc("oid", 16), end("none"), begin,
                                free("oid", 0), abortTx, end("none"), write("oid", 0, 8), close>>[k]
  BY DEF free_tx_abort
<1>2. \A k \in 1 .. 10 : k \in {1, 2, 3, 4, 5, 6, 7, 8, 9, 10}
  OBVIOUS
<1> QED
  BY <1>1, <1>2 DEF create, begin, alloc, free, abortTx, end, write, close

LEMMA AllocNotUndoneStep ==
  ASSUME Shapes, Orderly, Process, test = 13, "undoalloc" \notin features, AllocNotUndone
  PROVE  AllocNotUndone'
<1> SUFFICES ASSUME proc'.status = "run" PROVE AllocNotUndone'
  BY DEF AllocNotUndone
<1> DEFINE k == proc.pc
           i == Instr
           oid == proc.env["oid"]
           P == alloc_tx_abort
<1>1. /\ Ready /\ test' = test /\ stage' = stage /\ k \in Nat /\ k >= 1 /\ proc.status = "run"
      /\ Lawful(test, stage, k) /\ test <= 16 /\ stage = 1 /\ Program = P /\ i = P[k] /\ k \in 1 .. 9
      /\ HeapTyped /\ proc'.status # "dead"
  <2>1. Len(Suite[13].stages) = 1 /\ Suite[13].stages[1] = P
    BY SuiteFacts
  <2>2. stage \in 1 .. Len(Suite[test].stages) /\ stage = 1
    BY <2>1, Lines
  <2> QED
    BY <2>1, <2>2, Lines, AllocTxAbortLines DEF Ready
<1>2. /\ k = 1 => ~proc.pool
      /\ proc.aborted => k = 5
      /\ k = 2 /\ proc.pool => freed = {}
  BY <1>1, AllocTxAbortLines DEF Orderly
<1>3. /\ k \in 1 .. 3 => oid = Unassigned
      /\ k \in 3 .. 4 => proc.saved["oid"] = Unassigned /\ freed = {}
      /\ k \in 4 .. 7 => Exposed(shadow, oid, 0)
      /\ k = 5 => proc.aborted
  BY <1>1, BareIsExposed DEF AllocNotUndone
<1>4. "oid" \in Locals /\ "oid" \notin {"obj", "none"}
  BY DEF Locals
<1> SUFFICES /\ proc'.pc \in 1 .. 3 => proc'.env["oid"] = Unassigned
             /\ proc'.pc \in 3 .. 4 => proc'.saved["oid"] = Unassigned /\ freed' = {}
             /\ proc'.pc \in 4 .. 7 => Exposed(shadow', proc'.env["oid"], 0)
             /\ proc'.pc = 5 => proc'.aborted
  BY DEF AllocNotUndone, Bare, Exposed
<1>5. Exposed(shadow', Unassigned, 0)
  BY DEF Exposed
<1>6. Leaps => proc'.pc = 5 /\ proc'.aborted
  BY <1>1, AllocTxAbortLines DEF Leaps, NextEnd
<1>7. CASE k = 1
  <2>1. proc'.pc = 2 /\ proc'.env = proc.env
    BY <1>1, <1>2, <1>7, AllocTxAbortLines, CreateOn
  <2> QED
    BY <1>3, <1>7, <2>1
<1>8. CASE k = 2
  <2>1. /\ proc'.pc = 3 /\ proc'.env = proc.env /\ proc'.saved = proc.env /\ UNCHANGED freed
        /\ proc.pool
    BY <1>1, <1>8, AllocTxAbortLines, BeginOn
  <2> QED
    BY <1>2, <1>3, <1>8, <2>1
<1>9. CASE k = 3
  <2>1. i.op = "alloc" /\ i.v = "oid" /\ i.n = 16
    BY <1>1, <1>9, AllocTxAbortLines
  <2>2. CASE Leaps
    <3>1. proc'.env["oid"] = Unassigned
      BY <1>3, <1>4, <1>9, <2>2 DEF Leaps
    <3> QED
      BY <1>5, <1>6, <2>2, <3>1
  <2>3. CASE MovesOn("oid") /\ \E b \in Granules : TxAlloc(b, 16) /\ proc'.env["oid"] = 8 * b
    <3>1. PICK b \in Granules : TxAlloc(b, 16) /\ proc'.env["oid"] = 8 * b
      BY <2>3
    <3>2. Exposed(shadow', 8 * b, 0)
      BY <3>1, NewlyBare DEF TxAlloc, Unsealed
    <3>3. proc'.pc = 4 /\ proc'.saved = proc.saved /\ freed' = freed
      BY <1>9, <2>3, <3>1 DEF MovesOn, TxAlloc
    <3> QED
      BY <1>3, <1>9, <3>1, <3>2, <3>3
  <2> QED
    BY <1>1, <1>4, <2>1, <2>2, <2>3, AllocOn
<1>10. CASE k = 4
  <2>1. Leaps
    BY <1>1, <1>10, AllocTxAbortLines, AbortOn
  <2>2. freed = {} /\ proc.saved["oid"] = Unassigned /\ Exposed(shadow, oid, 0)
    BY <1>3, <1>10
  <2>3. \A g \in Granules : shadow'[g] = shadow[g]
    BY <2>1, <2>2 DEF Leaps, RolledBack
  <2>4. Exposed(shadow', oid, 0)
    BY <2>2, <2>3 DEF Exposed
  <2>5. proc'.env["oid"] \in {oid, Unassigned}
    BY <1>4, <2>1, <2>2 DEF Leaps
  <2> QED
    BY <1>5, <1>6, <2>1, <2>4, <2>5
<1>11. CASE k = 5
  <2>1. proc'.pc = 6 /\ proc'.env = proc.env /\ UNCHANGED shadow
    BY <1>1, <1>3, <1>11, AllocTxAbortLines, EndOn DEF heapVars
  <2> QED
    BY <1>3, <1>11, <2>1
<1>12. CASE k = 6
  <2>1. i.op = "flag"
    BY <1>1, <1>12, AllocTxAbortLines
  <2>2. MovesOn("none") /\ UNCHANGED heapVars
    BY <1>1, <2>1, QuietOn
  <2>3. proc'.pc = 7 /\ proc'.env["oid"] = oid /\ UNCHANGED shadow
    BY <1>4, <1>12, <2>2 DEF MovesOn, heapVars
  <2> QED
    BY <1>3, <1>12, <2>3
<1>13. CASE k >= 7
  <2>1. proc'.pc = k + 1 \/ Leaps
    BY <1>1, <1>2, Onward
  <2>2. proc'.pc = k + 1
    <3>1. Leaps => proc'.pc \in k + 1 .. Len(Program)
      BY DEF Leaps
    <3> QED
      BY <1>1, <1>6, <1>13, <2>1, <3>1, AllocTxAbortLines
  <2> QED
    BY <1>1, <1>13, <2>2
<1> QED
  BY <1>1, <1>7, <1>8, <1>9, <1>10, <1>11, <1>12, <1>13

\* A write to memory that is sealed as freed ends the process.
LEMMA SealedWrite ==
  ASSUME Ready, Process, Instr.op = "write", Instr.off = 0, Instr.w = 8, NEW b \in Granules,
         proc.env[Instr.v] = 8 * b, shadow[b] = FD
  PROVE  proc'.status = "dead"
<1> DEFINE p == proc.env[Instr.v]
<1>1. Write
  BY DEF Process, Create, OpenPool, UseNoPool, RootObj, Begin, Alloc, Free, Realloc, AddRange, AbortTx,
         End, New, Delete, Copy, Flag, Close, Derail, At, Instr
<1>2. b \in Nat /\ p \notin {Null, Unassigned}
  BY HeapAssumption DEF Granules, Null, Unassigned
<1>3. Touch(8 * b + 0, 8)
  BY <1>1, <1>2 DEF Write
<1>4. (8 * b + 0) \div 8 = b /\ ((8 * b + 0) + 8 - 1) \div 8 = b
  BY <1>2
<1>5. \A w : Poisoned(b, w)
  BY DEF Poisoned, FD
<1>6. b \in b .. b
  BY <1>2
<1>7. b \in Faults(8 * b + 0, 8)
  BY <1>4, <1>5, <1>6 DEF Faults
<1>8. \E r : Die(r)
  BY <1>3, <1>7 DEF Touch
<1> QED
  BY <1>8, OnlyDead

LEMMA FreeNotUndoneStep ==
  ASSUME Shapes, Orderly, Process, ~indet', ~Fails, test = 14, "undofree" \notin features,
         {"eager", "poison", "freecheck", "undoalloc"} \subseteq features, FreeNotUndone
  PROVE  FreeNotUndone'
<1> DEFINE k == proc.pc
           i == Instr
           oid == proc.env["oid"]
           P == free_tx_abort
<1>1. /\ Ready /\ test' = test /\ stage' = stage /\ k \in Nat /\ k >= 1 /\ proc.status = "run"
      /\ Lawful(test, stage, k) /\ test <= 16 /\ stage = 1 /\ Program = P /\ i = P[k] /\ k \in 1 .. 10
      /\ HeapTyped
  <2>1. Len(Suite[14].stages) = 1 /\ Suite[14].stages[1] = P
    BY SuiteFacts
  <2>2. stage \in 1 .. Len(Suite[test].stages) /\ stage = 1
    BY <2>1, Lines
  <2> QED
    BY <2>1, <2>2, Lines, FreeTxAbortLines DEF Ready
<1>2. /\ k = 1 => ~proc.pool
      /\ proc.aborted => i.op = "end"
      /\ k = 2 /\ proc.pool => blk = NoBlocks
  BY <1>1 DEF Orderly
<1>3. /\ k # 10
      /\ k = 3 => blk = NoBlocks
      /\ k \in 4 .. 6 => \E b \in Granules : oid = 8 * b
      /\ k \in 6 .. 7 => proc.saved["oid"] = oid
      /\ k \in 7 .. 9 => \E b \in Granules : oid = 8 * b /\ shadow[b] = FD
  BY <1>1 DEF FreeNotUndone, Sealed
<1>4. "oid" \in Locals /\ "oid" \notin {"obj", "none"}
  BY DEF Locals
<1>5. proc'.status # "exit"
  <2>1. proc'.status = "exit" => i.op = "close"
    BY ProcessSteps DEF Proper, GoesOn, Jumps, Dies, Exits
  <2>2. i.op = "close" => k = 10
    <3>1. Form(P)
      BY FreeTxAbortForm
    <3> QED
      BY <1>1, <3>1, FreeTxAbortLines DEF Form
  <2> QED
    BY <1>3, <2>1, <2>2
<1> SUFFICES ASSUME proc'.status = "run"
             PROVE  /\ proc'.pc # 10
                    /\ proc'.pc = 3 => blk' = NoBlocks
                    /\ proc'.pc \in 4 .. 6 => \E b \in Granules : proc'.env["oid"] = 8 * b
                    /\ proc'.pc \in 6 .. 7 => proc'.saved["oid"] = proc'.env["oid"]
                    /\ proc'.pc \in 7 .. 9 =>
                         \E b \in Granules : proc'.env["oid"] = 8 * b /\ shadow'[b] = FD
  BY <1>5 DEF FreeNotUndone, Sealed, NoBlocks
<1>6. proc'.status # "dead"
  OBVIOUS
<1>7. Leaps => proc'.pc \in k + 1 .. 10 /\ NextEnd(P, k, proc'.pc)
  BY <1>1, FreeTxAbortLines DEF Leaps
<1>8. CASE k = 1
  <2>1. proc'.pc = 2
    BY <1>1, <1>2, <1>6, <1>8, FreeTxAbortLines, CreateOn
  <2> QED
    BY <2>1
<1>9. CASE k = 2
  <2>1. proc'.pc = 3 /\ proc.pool /\ blk' = blk
    BY <1>1, <1>6, <1>9, FreeTxAbortLines, BeginOn
  <2> QED
    BY <1>2, <1>9, <2>1
<1>10. CASE k = 3
  <2>1. i.op = "alloc" /\ i.v = "oid" /\ i.n = 16
    BY <1>1, <1>10, FreeTxAbortLines
  <2>2. ~Full(16)
    <3>1. Blocks = {}
      BY <1>3, <1>10 DEF Blocks, NoBlocks
    <3>2. Units(16) = 2 /\ Redzone \in Nat \ {0} /\ HeapSize \in Nat
      BY HeapAssumption DEF Units
    <3>3. HeapSize >= 2 * Units(40) + Units(16) + 6 * Redzone - 1 /\ Units(40) = 5
      BY RoomAssumption DEF Roomy, Units
    <3> QED
      BY <3>1, <3>2, <3>3, RoomInEmpty
  <2>3. MovesOn("oid") /\ \E b \in Granules : proc'.env["oid"] = 8 * b
    BY <1>1, <1>4, <1>6, <2>1, <2>2, AllocOn
  <2>4. proc'.pc = 4
    BY <1>10, <2>3 DEF MovesOn
  <2> QED
    BY <2>3, <2>4
<1>11. CASE k = 4
  <2>1. proc'.pc = 5 /\ proc'.env = proc.env
    BY <1>1, <1>6, <1>11, FreeTxAbortLines, EndOn
  <2> QED
    BY <1>3, <1>11, <2>1
<1>12. CASE k = 5
  <2>1. proc'.pc = 6 /\ proc'.env = proc.env /\ proc'.saved = proc.env
    BY <1>1, <1>6, <1>12, FreeTxAbortLines, BeginOn
  <2> QED
    BY <1>3, <1>12, <2>1
<1>13. CASE k = 6
  <2>1. i.op = "free" /\ i.v = "oid" /\ i.off = 0
    BY <1>1, <1>13, FreeTxAbortLines
  <2>2. MovesOn("none") /\ TxFree((oid + 0) \div 8)
    BY <1>1, <1>6, <2>1, FreeOn
  <2>3. PICK b \in Granules : oid = 8 * b
    BY <1>3, <1>13
  <2>4. (oid + 0) \div 8 = b
    BY <2>3, HeapAssumption DEF Granules
  <2>5. shadow'[b] = FD
    <3>1. shadow' = Wiped(shadow, {b})
      BY <2>2, <2>4 DEF TxFree
    <3>2. b \in Taken(b)
      BY <1>1, Inside DEF Taken, HeapTyped
    <3> QED
      BY <3>1, <3>2 DEF Wiped
  <2>6. proc'.pc = 7 /\ proc'.env["oid"] = oid /\ proc'.saved = proc.saved
    BY <1>4, <1>13, <2>2 DEF MovesOn
  <2> QED
    BY <1>3, <1>13, <2>3, <2>5, <2>6
<1>14. CASE k = 7
  <2>1. Leaps
    BY <1>1, <1>6, <1>14, FreeTxAbortLines, AbortOn
  <2>2. proc'.pc = 8
    BY <1>7, <1>14, <2>1, FreeTxAbortLines DEF NextEnd
  <2>3. proc'.env["oid"] = oid
    BY <1>3, <1>4, <1>14, <2>1 DEF Leaps
  <2>4. PICK b \in Granules : oid = 8 * b /\ shadow[b] = FD
    BY <1>3, <1>14
  <2>5. shadow'[b] = FD
    BY <2>1, <2>4 DEF Leaps, RolledBack
  <2> QED
    BY <2>2, <2>3, <2>4, <2>5
<1>15. CASE k = 8
  <2>1. proc'.pc = 9 /\ proc'.env = proc.env /\ (TxCommit \/ UNCHANGED heapVars)
    BY <1>1, <1>6, <1>15, FreeTxAbortLines, EndOn
  <2>2. PICK b \in Granules : oid = 8 * b /\ shadow[b] = FD
    BY <1>3, <1>15
  <2>3. shadow'[b] = FD
    BY <2>1, <2>2 DEF TxCommit, Wiped, heapVars
  <2> QED
    BY <2>1, <2>2, <2>3
<1>16. CASE k = 9
  <2>1. i.op = "write" /\ i.v = "oid" /\ i.off = 0 /\ i.w = 8
    BY <1>1, <1>16, FreeTxAbortLines
  <2> QED
    BY <1>1, <1>3, <1>6, <1>16, <2>1, SealedWrite
<1> QED
  BY <1>1, <1>3, <1>8, <1>9, <1>10, <1>11, <1>12, <1>13, <1>14, <1>15, <1>16

-----------------------------------------------------------------------------
(* zalloc                                                                  *)

LEMMA ZallocOps ==
  /\ 2 * Rounds \in Nat /\ Len(zalloc) = 6 * (2 * Rounds) + 2
  /\ \A k \in 1 .. Len(zalloc) : LET i == zalloc[k]
                                     r == (k - 2) % 6 IN
       /\ k = 1 => i.op = "create"
       /\ i.op = "close" <=> k = Len(zalloc)
       /\ 1 < k /\ k < Len(zalloc) =>
            /\ r \in {0, 3} => i.op = "begin"
            /\ r = 1 => i.op = "alloc" /\ i.v = "oid" /\ i.n = BigDummy
            /\ r \in {2, 5} => i.op = "end" /\ i.handler = "abort"
            /\ r = 4 => i.op = "free"
<1> USE DEF create, begin, alloc, end, free, close
<1>1. 2 * Rounds \in Nat /\ Len(zalloc) = 12 * Rounds + 2 /\ 12 * Rounds = 6 * (2 * Rounds)
      /\ 12 * Rounds \in Nat
  BY SizesAssumption, ZallocLines
<1> SUFFICES ASSUME NEW k \in 1 .. Len(zalloc)
             PROVE  LET i == zalloc[k]
                        r == (k - 2) % 6 IN
                    /\ k = 1 => i.op = "create"
                    /\ i.op = "close" <=> k = Len(zalloc)
                    /\ 1 < k /\ k < Len(zalloc) =>
                         /\ r \in {0, 3} => i.op = "begin"
                         /\ r = 1 => i.op = "alloc" /\ i.v = "oid" /\ i.n = BigDummy
                         /\ r \in {2, 5} => i.op = "end" /\ i.handler = "abort"
                         /\ r = 4 => i.op = "free"
  BY <1>1
<1>2. zalloc[k].op = "close" <=> k = Len(zalloc)
  BY ZallocForm DEF Form
<1>3. k = 1 => zalloc[k].op = "create"
  BY ZallocLines
<1>4. 1 < k /\ k < Len(zalloc) => zalloc[k] = AllocFree[((k - 2) % 6) + 1]
  BY <1>1, ZallocLines
<1> QED
  BY <1>2, <1>3, <1>4, AllocFreeSteps

LEMMA SpaceSize ==
  \A b \in Granules : \A n \in Nat :
    Cardinality(Space(b, n)) = Units(n) + 2 * Redzone /\ IsFiniteSet(Space(b, n))
<1> SUFFICES ASSUME NEW b \in Granules, NEW n \in Nat
             PROVE  Cardinality(Space(b, n)) = Units(n) + 2 * Redzone /\ IsFiniteSet(Space(b, n))
  OBVIOUS
<1> DEFINE lo == b - Redzone
           hi == b + Units(n) + Redzone - 1
<1>1. b \in Nat /\ Redzone \in Nat \ {0} /\ Units(n) \in Nat
  BY HeapAssumption DEF Granules, Units
<1>2. lo \in Int /\ hi \in Int /\ lo <= hi /\ hi - lo + 1 = Units(n) + 2 * Redzone
  BY <1>1
<1> HIDE DEF lo, hi
<1>3. IsFiniteSet(lo .. hi) /\ Cardinality(lo .. hi) = IF lo > hi THEN 0 ELSE hi - lo + 1
  BY <1>2, FS_Interval
<1>4. Cardinality(lo .. hi) = hi - lo + 1
  BY <1>2, <1>3
<1> QED
  BY <1>2, <1>3, <1>4 DEF Space, lo, hi

LEMMA HeapFinite == IsFiniteSet(Granules) /\ Cardinality(Granules) = HeapSize
<1>1. HeapSize \in Nat \ {0} /\ HeapSize - 1 \in Int
  BY HeapAssumption
<1> QED
  BY <1>1, FS_Interval DEF Granules

\* A new object takes its share of what is not used.
LEMMA UsedAfter ==
  ASSUME HeapTyped, NEW b \in Granules, NEW n \in Nat \ {0}, Fits(b, n), blk' = [blk EXCEPT ![b] = n],
         Used \subseteq Granules
  PROVE  Used' \subseteq Granules /\ Cardinality(Used') = Cardinality(Used) + (Units(n) + 2 * Redzone)
<1>1. blk \in [Granules -> Nat]
  BY DEF HeapTyped
<1>2. Blocks' = Blocks \cup {b}
  BY <1>1 DEF Blocks
<1>3. b \notin Blocks
  BY FitsFresh
<1>4. \A c \in Blocks : Space(c, blk'[c]) = Taken(c)
  BY <1>1, <1>3 DEF Taken, Blocks
<1>5. Space(b, blk'[b]) = Space(b, n)
  BY <1>1
<1>6. Used' = UNION {Space(c, blk'[c]) : c \in Blocks'}
  BY DEF Used, Taken
<1>7. Used' = Used \cup Space(b, n)
  BY <1>2, <1>4, <1>5, <1>6 DEF Used
<1>8. Used \cap Space(b, n) = {}
  BY DEF Used, Fits
<1>9. IsFiniteSet(Used) /\ Cardinality(Used) \in Nat
  <2>1. IsFiniteSet(Used)
    BY HeapFinite, FS_Subset
  <2> QED
    BY <2>1, FS_CardinalityType
<1>10. IsFiniteSet(Space(b, n)) /\ Cardinality(Space(b, n)) = Units(n) + 2 * Redzone
  BY SpaceSize
<1>11. Cardinality({}) = 0
  BY FS_EmptySet
<1>12. Cardinality(Used \cup Space(b, n)) = Cardinality(Used) + (Units(n) + 2 * Redzone) - 0
  BY <1>8, <1>9, <1>10, <1>11, FS_Union
<1>13. Units(n) + 2 * Redzone \in Nat
  BY HeapAssumption DEF Units
<1> QED
  BY <1>7, <1>9, <1>12, <1>13 DEF Fits

\* Of the lines of a round only the second allocates.
LEMMA AllocatedNext ==
  \A k \in Nat : k >= 2 =>
    /\ Allocated(k) \in Nat
    /\ Allocated(k + 1) = IF (k - 2) % 6 = 1 THEN Allocated(k) + 1 ELSE Allocated(k)
<1> SUFFICES ASSUME NEW k \in Nat, k >= 2
             PROVE  /\ Allocated(k) \in Nat
                    /\ Allocated(k + 1) = IF (k - 2) % 6 = 1 THEN Allocated(k) + 1 ELSE Allocated(k)
  OBVIOUS
<1> DEFINE m == k - 2
           q == m \div 6
           r == m % 6
<1>1. m \in Nat /\ q \in Nat /\ r \in 0 .. 5 /\ m = 6 * q + r /\ (k + 1) - 2 = m + 1
  OBVIOUS
<1>2. (m + 1) \div 6 = (IF r = 5 THEN q + 1 ELSE q) /\ (m + 1) % 6 = (IF r = 5 THEN 0 ELSE r + 1)
  BY <1>1
<1> HIDE DEF q, r
<1>3. Allocated(k) = q + (IF r >= 2 THEN 1 ELSE 0)
  BY DEF Allocated, q, r
<1>4. Allocated(k + 1) = (m + 1) \div 6 + (IF (m + 1) % 6 >= 2 THEN 1 ELSE 0)
  BY <1>1 DEF Allocated
<1> QED
  BY <1>1, <1>2, <1>3, <1>4 DEF r

LEMMA NothingReclaimedStep ==
  ASSUME Shapes, Orderly, Process, test = 16, "reclaim" \notin features, NothingReclaimed
  PROVE  NothingReclaimed'
<1> DEFINE k == proc.pc
           i == Instr
           P == zalloc
<1>1. /\ Ready /\ test' = test /\ stage' = stage /\ k \in Nat /\ k >= 1 /\ proc.status = "run"
      /\ Lawful(test, stage, k) /\ test <= 16 /\ stage = 1 /\ Program = P /\ i = P[k]
      /\ k \in 1 .. Len(zalloc) /\ HeapTyped
  <2>1. Len(Suite[16].stages) = 1 /\ Suite[16].stages[1] = P
    BY SuiteFacts
  <2>2. stage \in 1 .. Len(Suite[test].stages) /\ stage = 1
    BY <2>1, Lines
  <2> QED
    BY <2>1, <2>2, Lines DEF Ready
<1>2. /\ k = 1 => ~proc.pool
      /\ k >= 3 => proc.pool
      /\ proc.aborted => i.op = "end"
      /\ k = 2 /\ proc.pool => blk = NoBlocks
  BY <1>1 DEF Orderly
<1>3. ~proc.aborted /\ k >= 2 /\ proc.pool =>
        Used \subseteq Granules /\ Cardinality(Used) = Share * Allocated(k)
  BY <1>1 DEF NothingReclaimed
<1>4. Share \in Nat /\ Units(BigDummy) \in Nat
  BY HeapAssumption, SizesAssumption DEF Share, Units
<1>5. k # Len(zalloc)
  <2> SUFFICES ASSUME k = Len(zalloc) PROVE FALSE
    OBVIOUS
  <2> DEFINE m == 2 * Rounds
  <2>1. m \in Nat /\ k = 6 * m + 2
    BY ZallocOps
  <2>2. HeapSize < m * Share
    BY CrampedAssumption DEF Share
  <2> HIDE DEF m
  <2>3. m >= 1
    <3>1. m = 0 => m * Share = 0
      BY <1>4
    <3> QED
      BY <2>1, <2>2, <3>1, HeapAssumption
  <2>4. Allocated(k) = m
    <3>1. k - 2 = 6 * m /\ (6 * m) \div 6 = m /\ (6 * m) % 6 = 0
      BY <2>1
    <3> QED
      BY <2>1, <3>1 DEF Allocated
  <2>5. i.op = "close"
    BY <1>1, ZallocOps
  <2>6. Used \subseteq Granules /\ Cardinality(Used) = Share * m
    BY <1>2, <1>3, <2>1, <2>3, <2>4, <2>5
  <2>7. Cardinality(Used) <= HeapSize
    BY <2>6, HeapFinite, FS_Subset
  <2>8. Share * m = m * Share /\ Share * m \in Nat
    BY <1>4, <2>1
  <2> QED
    BY <2>2, <2>6, <2>7, <2>8, HeapAssumption
<1>6. k < Len(zalloc)
  <2>1. Len(zalloc) \in Nat
    BY ZallocOps
  <2> QED
    BY <1>1, <1>5, <2>1
<1>7. proc'.status # "exit"
  <2>1. proc'.status = "exit" => i.op = "close"
    BY ProcessSteps DEF Proper, GoesOn, Jumps, Dies, Exits
  <2> QED
    BY <1>1, <1>5, <2>1, ZallocOps
<1> SUFFICES ASSUME proc'.status = "run", ~proc'.aborted, proc'.pc >= 2, proc'.pool
             PROVE  Used' \subseteq Granules /\ Cardinality(Used') = Share * Allocated(proc'.pc)
  BY <1>7 DEF NothingReclaimed, Share, Allocated
<1>8. proc'.status # "dead" /\ ~Leaps
  BY DEF Leaps
<1>9. ASSUME UNCHANGED blk
      PROVE  Used' = Used
  BY <1>9 DEF Used, Blocks, Taken
<1>10. CASE k = 1
  <2>1. proc'.pc = 2 /\ Format
    BY <1>1, <1>2, <1>8, <1>10, ZallocOps, CreateOn
  <2>2. Used' = {}
    <3>1. Blocks' = {}
      BY <2>1 DEF Format, Blocks, NoBlocks
    <3>2. Used' = UNION {Space(c, blk'[c]) : c \in Blocks'}
      BY DEF Used, Taken
    <3> QED
      BY <3>1, <3>2
  <2>3. Allocated(2) = 0
    BY DEF Allocated
  <2>4. Share * 0 = 0
    BY <1>4
  <2> QED
    BY <2>1, <2>2, <2>3, <2>4, FS_EmptySet
<1>11. CASE k > 1
  <2> DEFINE r == (k - 2) % 6
  <2>1. r \in 0 .. 5 /\ (r = 0 \/ r = 1 \/ r = 2 \/ r = 3 \/ r = 4 \/ r = 5)
    BY <1>1
  <2>2. /\ r \in {0, 3} => i.op = "begin"
        /\ r = 1 => i.op = "alloc" /\ i.v = "oid" /\ i.n = BigDummy
        /\ r \in {2, 5} => i.op = "end" /\ i.handler = "abort"
        /\ r = 4 => i.op = "free"
    BY <1>1, <1>6, <1>11, ZallocOps
  <2>3. Allocated(k) \in Nat /\ Allocated(k + 1) = IF r = 1 THEN Allocated(k) + 1 ELSE Allocated(k)
    <3>1. k \in Nat /\ k >= 2
      BY <1>1, <1>11
    <3> HIDE DEF k
    <3> QED
      BY <3>1, AllocatedNext
  <2> HIDE DEF r
  <2>4. proc'.pc = k + 1 /\ ~proc.aborted /\ proc.pool
    <3>1. CASE i.op \in {"begin"}
      BY <1>1, <1>2, <1>8, <3>1, BeginOn
    <3>2. CASE i.op \in {"alloc", "free"}
      <4>1. "oid" \in Locals
        BY DEF Locals
      <4>2. proc'.pc = proc.pc + 1 /\ proc'.pool = proc.pool
        BY <1>1, <1>8, <2>1, <2>2, <3>2, <4>1, AllocOn, FreeOn DEF MovesOn
      <4> QED
        BY <1>2, <3>2, <4>2
    <3>3. CASE i.op = "end" /\ i.handler = "abort"
      BY <1>1, <1>8, <3>3, EndOn
    <3> QED
      BY <2>1, <2>2, <3>1, <3>2, <3>3
  <2>5. Used \subseteq Granules /\ Cardinality(Used) = Share * Allocated(k)
    BY <1>1, <1>3, <1>11, <2>4
  <2>6. CASE r # 1
    <3>1. UNCHANGED blk
      <4>1. CASE i.op = "begin"
        BY <1>1, <1>8, <4>1, BeginOn
      <4>2. CASE i.op = "free"
        BY <1>1, <1>8, <4>2, FreeOn DEF TxFree, heapVars
      <4>3. CASE i.op = "end"
        BY <1>1, <1>8, <4>3, EndOn DEF TxCommit, heapVars
      <4> QED
        BY <2>1, <2>2, <2>6, <4>1, <4>2, <4>3
    <3> QED
      BY <1>9, <2>3, <2>4, <2>5, <2>6, <3>1
  <2>7. CASE r = 1
    <3>1. "oid" \in Locals
      BY DEF Locals
    <3>2. PICK b \in Granules : TxAlloc(b, BigDummy)
      BY <1>1, <1>8, <2>2, <2>7, <3>1, AllocOn
    <3>3. Used' \subseteq Granules /\ Cardinality(Used') = Cardinality(Used) + Share
      BY <1>1, <2>5, <3>2, SizesAssumption, UsedAfter DEF TxAlloc, Share
    <3>4. Share * Allocated(k) + Share = Share * (Allocated(k) + 1)
      BY <1>4, <2>3
    <3> QED
      BY <2>3, <2>4, <2>5, <2>7, <3>3, <3>4
  <2> QED
    BY <2>6, <2>7
<1> QED
  BY <1>1, <1>10, <1>11

-----------------------------------------------------------------------------
(* What a library lacks is noticed.                                        *)

\* A segmentation fault is none of the reports test.sh looks for, an assertion
\* of PMDK only in the two double frees.
LEMMA ShowsOnly ==
  /\ Shows[Suite[1].snippet] = {"Invalid free"}
  /\ \A t \in 1 .. 16 : t \notin {2, 3, 14, 16} =>
       "segv" \notin Shows[Suite[t].snippet] /\ "palloc" \notin Shows[Suite[t].snippet]
<1>1. /\ Shows["Invalid free"] = {"Invalid free"}
      /\ \A s \in {"Invalid free", "[fd]", "00[fa]", "[fa]", "[04]"} :
           "segv" \notin Shows[s] /\ "palloc" \notin Shows[s]
  BY DEF Shows
<1>2. Suite[1].snippet = "Invalid free"
  BY SuiteFacts
<1>3. \A t \in {1, 4, 5, 6, 7, 8, 9, 10, 11, 12, 13, 15} :
        Suite[t].snippet \in {"Invalid free", "[fd]", "00[fa]", "[fa]", "[04]"}
  <2>1. Suite[15].snippet = "00[fa]" /\ Suite[4].snippet = "[fd]"
    BY SuiteFacts
  <2> QED
    BY <1>2, <2>1, Snippets
<1>4. Shows[Suite[1].snippet] = {"Invalid free"}
  BY <1>1, <1>2, Zenon
<1>5. \A t \in 1 .. 16 : t \notin {2, 3, 14, 16} => t \in {1, 4, 5, 6, 7, 8, 9, 10, 11, 12, 13, 15}
  BY Tests
<1> QED
  BY <1>1, <1>3, <1>4, <1>5, Zenon

\* A free, or a range, that nobody checks.
LEMMA UncheckedFree ==
  ASSUME Ready, Process, Instr.op = "free", "freecheck" \notin features, ~indet', proc'.status = "dead"
  PROVE  proc'.report # "Invalid free"
<1>1. Free \/ Derail
  BY DEF Process, Create, OpenPool, UseNoPool, RootObj, Begin, Alloc, Write, Realloc, AddRange, AbortTx,
         End, New, Delete, Copy, Flag, Close, At, Instr
<1>2. CASE Derail
  <2>1. PICK r : Die(r) /\ r \in Derailings
    BY <1>2 DEF Derail, Derailings
  <2>2. r \in {"segv", "palloc"} \cup GranuleReports
    BY <2>1, ReportTyped DEF Derailings
  <2> QED
    BY <2>1, <2>2, OnlyDead DEF GranuleReports
<1>3. CASE Free
  <2>1. Advance \/ AdvanceWild \/ Unwind
    BY <1>3 DEF Free, BadFree
  <2> QED
    BY <2>1, Moving, Unwound DEF Leaving
<1> QED
  BY <1>1, <1>2, <1>3

LEMMA UncheckedRange ==
  ASSUME Ready, Process, Instr.op = "range", "rangecheck" \notin features, ~proc.wild, proc'.status = "dead"
  PROVE  proc'.report = "segv"
<1>1. AddRange
  BY DEF Process, Create, OpenPool, UseNoPool, RootObj, Begin, Alloc, Write, Realloc, Free, AbortTx,
         End, New, Delete, Copy, Flag, Close, Derail, At, Instr
<1>2. Advance \/ Unwind \/ Die("segv")
  BY <1>1 DEF AddRange
<1> QED
  BY <1>2, Moving, Unwound, OnlyDead DEF Leaving

LEMMA FaultUnnoticed ==
  ASSUME Shapes, Orderly, TxAddOverflowTame, Process, ~indet', LastStage,
         test \notin {2, 3, 7, 14, 16}, Notices[test] \notin features,
         test \in Accessing => LeftBare, test = 13 => AllocNotUndone,
         proc'.status = "dead", proc.pc = FaultLine[test]
  PROVE  proc'.report \notin Shows[Suite[test].snippet]
<1> DEFINE t == test
           s == stage
           k == proc.pc
           i == Instr
<1>1. /\ Ready /\ t \in 1 .. 16 /\ t <= 16 /\ s \in 1 .. Len(Suite[t].stages) /\ proc.status = "run"
      /\ k \in 1 .. Len(Suite[t].stages[s]) /\ i = Suite[t].stages[s][k] /\ k \in Nat /\ proc \in Procs
  BY Lines DEF Ready
<1>2. proc.aborted => i.op = "end"
  BY <1>1 DEF Orderly
<1>3. "segv" \notin Shows[Suite[t].snippet]
  BY <1>1, ShowsOnly
<1>4. t \in {1, 4, 5, 6, 8, 9, 10, 11, 12, 13, 15}
  BY <1>1, Tests
<1>5. CASE t \in Accessing
  <2> DEFINE u == Culprit(t, s, k)
  <2>1. i.op = "write" /\ i.v = u /\ i.v \in Locals /\ i.off = 8 * Reach(t) /\ i.w = 8
    BY <1>1, <1>5, AllBares DEF Bares, Strikes
  <2>2. u # "none"
    BY <2>1 DEF Locals
  <2>3. Bare(proc.env[u], Reach(t))
    BY <1>1, <1>2, <1>5, <2>1, <2>2 DEF LeftBare
  <2>4. Reach(t) \in Int
    BY DEF Reach
  <2> HIDE DEF u
  <2>5. proc'.report = "segv"
    BY <1>1, <2>1, <2>3, <2>4, BareWrite
  <2> QED
    BY <1>3, <2>5
<1>6. CASE t = 13
  <2>1. Suite[t].stages[s] = alloc_tx_abort /\ k = 7
    <3>1. Len(Suite[t].stages) = 1
      BY <1>6, SuiteFacts
    <3>2. s = 1
      BY <1>1, <3>1
    <3>3. FaultLine[13] = 7
      BY LineFacts
    <3> QED
      BY <1>6, <3>2, <3>3, SuiteFacts
  <2>2. i.op = "write" /\ i.v = "oid" /\ i.off = 8 * 0 /\ i.w = 8
    BY <1>1, <2>1, AllocTxAbortLines
  <2>3. Bare(proc.env["oid"], 0)
    BY <1>1, <1>6, <2>1 DEF AllocNotUndone
  <2>4. \E d \in Int : Instr.off = 8 * d /\ Bare(proc.env["oid"], d)
    <3>1. Instr.off = 8 * 0 /\ 0 \in Int
      BY <2>2
    <3> QED
      BY <2>3, <3>1
  <2>5. proc'.report = "segv"
    BY <1>1, <2>2, <2>4, BareWrite
  <2> QED
    BY <1>3, <2>5
<1>7. CASE t = 1
  <2>1. Suite[t].stages[s] = mismatched_free /\ k = 10
    <3>1. Len(Suite[t].stages) = 1
      BY <1>7, SuiteFacts
    <3>2. s = 1
      BY <1>1, <3>1
    <3>3. FaultLine[1] = 10
      BY LineFacts
    <3> QED
      BY <1>7, <3>2, <3>3, SuiteFacts
  <2>2. mismatched_free[10].op = "free"
    BY DEF mismatched_free, WithDummy, Rooted, Finish, free
  <2>3. "freecheck" \notin features
    BY <1>7 DEF Notices
  <2>4. proc'.report # "Invalid free"
    BY <1>1, <2>1, <2>2, <2>3, UncheckedFree
  <2>5. Shows[Suite[test].snippet] = {"Invalid free"}
    BY <1>7, ShowsOnly
  <2> QED
    BY <2>4, <2>5
<1>8. CASE t = 15
  <2>1. Suite[t].stages[s] = tx_add_overflow /\ k = 6
    <3>1. Len(Suite[t].stages) = 1
      BY <1>8, SuiteFacts
    <3>2. s = 1
      BY <1>1, <3>1
    <3>3. FaultLine[15] = 6
      BY LineFacts
    <3> QED
      BY <1>8, <3>2, <3>3, SuiteFacts
  <2>2. tx_add_overflow[6].op = "range"
    BY DEF tx_add_overflow, Rooted, Finish, addRange
  <2>3. "rangecheck" \notin features
    BY <1>8 DEF Notices
  <2>4. ~proc.wild
    BY <1>8, <2>1 DEF TxAddOverflowTame
  <2> QED
    BY <1>1, <1>3, <2>1, <2>2, <2>3, <2>4, UncheckedRange
<1> QED
  BY <1>4, <1>5, <1>6, <1>7, <1>8 DEF Accessing

\* What is missing is the test's own to notice.
LEMMA TellingMeans ==
  ASSUME NEW t \in 1 .. 16, Telling(t)
  PROVE  Notices[t] \notin features /\ t \notin {2, 3, 7}
<1>1. Notices[t] \in Features /\ Notices[t] \notin features
  BY DEF Telling
<1>2. Notices[2] = "none" /\ Notices[3] = "none" /\ Notices[7] = "none"
  BY DEF Notices
<1>3. "none" \notin Features
  BY DEF Features
<1> QED
  BY <1>1, <1>2, <1>3

\* A test that begins has nothing behind it.
Beginning == test \in 1 .. 16 /\ stage = 1 /\ proc = Launched
NoneNoticed == \A t \in 1 .. 16 : test = t => Unnoticed(t)

LEMMA BeginsUnnoticed == Beginning => NoneNoticed
<1> SUFFICES ASSUME Beginning PROVE Unnoticed(test)
  BY DEF NoneNoticed, Beginning
<1>1. /\ proc.status = "run" /\ proc.pc = 1 /\ ~proc.wild /\ proc.env["oid"] = Unassigned /\ stage = 1
  BY DEF Beginning, Launched, Locals
<1>2. Culprit(test, stage, 1) = "none"
  BY <1>1 DEF Culprit
<1> QED
  BY <1>1, <1>2 DEF Unnoticed, LeftBare, PersistenceMissed, AllocNotUndone, FreeNotUndone, NothingReclaimed

LEMMA BeginsUnnoticedNext == Beginning' => NoneNoticed'
  BY BeginsUnnoticed, PTL

\* The verdict on it is not OK.
LEMMA VerdictTells ==
  ASSUME CaughtInv, Ended, LastStage, Telling(test), Unnoticed(test)
  PROVE  Verdict # "OK"
<1>1. /\ test \in 1 .. 16 /\ test <= 16 /\ proc.status # "run" /\ proc \in Procs
      /\ stage \in 1 .. Len(Suite[test].stages) /\ proc.pc \in 1 .. Len(Program)
  BY WithinSuite DEF CaughtInv, Shapes, Ended
<1>2. test \notin {2, 3, 7}
  BY <1>1, TellingMeans
<1>3. CASE test \in {14, 16}
  <2>1. proc.status # "exit"
    BY <1>3 DEF Unnoticed, FreeNotUndone, NothingReclaimed
  <2>2. Suite[test].kind = "run"
    BY <1>3, SuiteFacts
  <2> QED
    BY <2>1, <2>2 DEF Verdict, should_not_crash_verdict
<1>4. CASE test \notin {14, 16}
  <2> SUFFICES ASSUME Verdict = "OK" PROVE FALSE
    OBVIOUS
  <2>1. Suite[test].kind = "crash"
    BY <1>1, <1>4, CrashTests
  <2>2. proc.status = "dead" /\ (AtFaultLine \/ proc.report = "palloc")
    BY <2>1, CaughtInvMeans DEF OKMeansCaught
  <2>3. proc.report \in Shows[Suite[test].snippet]
    BY <2>1 DEF Verdict, should_crash_verdict
  <2>4. proc.report # "palloc"
    BY <1>1, <1>2, <1>4, <2>3, ShowsOnly
  <2>5. AtFault(test, stage, proc.pc)
    BY <2>2, <2>4 DEF AtFaultLine, AtFault, Program
  <2>6. proc.pc = FaultLine[test]
    BY <1>1, <2>5, FaultIs DEF Program
  <2> QED
    BY <1>4, <2>2, <2>3, <2>6 DEF Unnoticed
<1> QED
  BY <1>3, <1>4

\* As long as the test runs it goes unnoticed.
LEMMA UnnoticedStep ==
  ASSUME CaughtInv, Orderly, Process, ~indet', NEW t \in 1 .. 16, test = t, Telling(t), Unnoticed(t),
         Notices[t] \in Maskable => ~Fails
  PROVE  Unnoticed(t)'
<1>1. Shapes /\ UseAfterFreeTame /\ TxAddOverflowTame
  BY DEF CaughtInv
<1>2. Notices[t] \notin features /\ t \notin {2, 3, 7}
  BY TellingMeans
<1>3. /\ Notices[10] = "persist" /\ Notices[13] = "undoalloc" /\ Notices[14] = "undofree"
      /\ Notices[16] = "reclaim"
  BY DEF Notices
<1>4. ASSUME t \notin {14, 16}, LastStage', proc'.status = "dead", proc'.pc = FaultLine[t]
      PROVE  proc'.report \notin Shows[Suite[t].snippet]
  <2>1. LastStage
    BY <1>1, <1>4, Lines, SameProgram
  <2>2. proc.pc = FaultLine[test]
    BY <1>1, <1>4, ProcessSteps DEF Proper, GoesOn, Jumps, Dies, Exits
  <2>3. test \in Accessing => LeftBare
    BY DEF Unnoticed, Accessing
  <2>4. test = 13 => AllocNotUndone
    BY DEF Unnoticed
  <2> QED
    BY <1>1, <1>2, <1>4, <2>1, <2>2, <2>3, <2>4, FaultUnnoticed
<1>5. t = 10 => PersistenceMissed /\ ~Fails
  BY <1>3 DEF Unnoticed, Maskable
<1>6. t \in Accessing => LeftBare'
  <2> SUFFICES ASSUME t \in Accessing PROVE LeftBare'
    OBVIOUS
  <2>1. LeftBare
    BY DEF Unnoticed, Accessing
  <2> QED
    BY <1>1, <1>2, <1>5, <2>1, LeftBareStep
<1>7. t = 10 => PersistenceMissed'
  BY <1>1, <1>2, <1>3, <1>5, PersistenceMissedStep
<1>8. t = 13 => AllocNotUndone'
  BY <1>1, <1>2, <1>3, AllocNotUndoneStep DEF Unnoticed
<1>9. t = 14 => FreeNotUndone'
  <2> SUFFICES ASSUME t = 14 PROVE FreeNotUndone'
    OBVIOUS
  <2>1. Features \ features \subseteq Maskable /\ ~Fails
    BY <1>3 DEF Telling, Maskable
  <2>2. {"eager", "poison", "freecheck", "undoalloc"} \subseteq features
    BY <2>1 DEF Features, Maskable
  <2>3. FreeNotUndone
    BY DEF Unnoticed
  <2> QED
    BY <1>1, <1>2, <1>3, <2>1, <2>2, <2>3, FreeNotUndoneStep
<1>10. t = 16 => NothingReclaimed'
  BY <1>1, <1>2, <1>3, NothingReclaimedStep DEF Unnoticed
<1> QED
  BY <1>4, <1>6, <1>7, <1>8, <1>9, <1>10 DEF Unnoticed, Accessing

\* The two processes of overflow_persistence.sh.
LEMMA SecondProcess ==
  ASSUME Shapes, NextStage, NEW t \in 1 .. 16, test = t, Unnoticed(t)
  PROVE  Unnoticed(t)'
<1>1. /\ test <= 16 /\ ~LastStage /\ stage \in 1 .. Len(Suite[test].stages) /\ proc.status # "run"
  BY WithinSuite DEF NextStage, Ended, Shapes
<1>2. Len(Suite[test].stages) = IF test = 10 THEN 2 ELSE 1
  BY StageCount
<1>3. test = 10 /\ stage = 1
  BY <1>1, <1>2 DEF LastStage
<1>4. stage' = 2 /\ proc' = Launched /\ UNCHANGED <<tx, root, file>> /\ test' = test
  BY <1>3 DEF NextStage, heapVars
<1>5. proc'.status = "run" /\ proc'.pc = 1
  BY <1>4 DEF Launched
<1>6. Planted
  BY <1>1, <1>3 DEF Unnoticed, PersistenceMissed
<1>7. Planted'
  BY <1>4, <1>6 DEF Planted
<1>8. PersistenceMissed'
  BY <1>4, <1>5, <1>7 DEF PersistenceMissed
<1>9. LeftBare'
  <2>1. Culprit(test', stage', 1) = "none"
    BY <1>3, <1>4 DEF Culprit
  <2> QED
    BY <1>5, <2>1 DEF LeftBare
<1> QED
  BY <1>3, <1>5, <1>8, <1>9 DEF Unnoticed

LEMMA TellsInTimeStep == CaughtInv /\ Orderly /\ TellsInTime /\ [Next]_vars => TellsInTime'
<1> SUFFICES ASSUME CaughtInv, Orderly, TellsInTime, [Next]_vars, ~indet',
                    NEW t \in 1 .. 16, Telling(t)'
             PROVE  (test' = t => Unnoticed(t)') /\ (test' > t => ~allOK')
  BY DEF TellsInTime
<1>1. Shapes /\ features' = features /\ failures \in 0 .. MaxFailures
  BY SameLibrary DEF CaughtInv, Shapes
<1>2. CASE UNCHANGED vars
  <2>1. /\ UNCHANGED <<features, shadow, blk, tx, added, freed, root, open>>
        /\ UNCHANGED <<build, test, stage, allOK, rc>>
        /\ UNCHANGED <<proc, out, file, failures, indet>>
    BY <1>2 DEF vars, suiteVars, heapVars
  <2>2. Telling(t) /\ ~indet
    BY <2>1 DEF Telling
  <2>3. Unnoticed(t)' <=> Unnoticed(t)
    <3>1. /\ LastStage' <=> LastStage
          /\ LeftBare' <=> LeftBare
          /\ PersistenceMissed' <=> PersistenceMissed
      BY <2>1 DEF LastStage, LeftBare, Bare, PersistenceMissed, Planted
    <3>2. /\ AllocNotUndone' <=> AllocNotUndone
          /\ FreeNotUndone' <=> FreeNotUndone
      BY <2>1 DEF AllocNotUndone, Bare, FreeNotUndone, Sealed
    <3>3. NothingReclaimed' <=> NothingReclaimed
      <4>1. Used' = Used
        BY <2>1 DEF Used, Blocks, Taken
      <4> QED
        BY <2>1, <4>1 DEF NothingReclaimed
    <3> QED
      BY <2>1, <3>1, <3>2, <3>3 DEF Unnoticed
  <2> QED
    BY <2>1, <2>2, <2>3 DEF TellsInTime
<1>3. CASE Process
  <2>1. (Fails \/ UNCHANGED failures) /\ ~indet
    BY <1>3, Resources
  <2>2. failures' = MaxFailures => failures = MaxFailures /\ ~Fails
    BY <1>1, <2>1, SuiteAssumption DEF Fails
  <2>3. Telling(t) /\ (Notices[t] \in Maskable => ~Fails)
    BY <1>1, <2>2 DEF Telling
  <2>4. (test = t => Unnoticed(t)) /\ (test > t => ~allOK)
    BY <2>1, <2>3 DEF TellsInTime
  <2>5. test' = test /\ allOK' = allOK
    BY <1>1, <1>3, Lines
  <2>6. test = t => Unnoticed(t)'
    BY <1>3, <2>3, <2>4, UnnoticedStep
  <2> QED
    BY <2>4, <2>5, <2>6
<1>4. CASE NextStage \/ Judge
  <2>1. Telling(t) /\ ~indet
    BY <1>1, <1>4 DEF Telling, NextStage, Judge
  <2>2. (test = t => Unnoticed(t)) /\ (test > t => ~allOK)
    BY <2>1 DEF TellsInTime
  <2>3. CASE NextStage
    <3>1. test' = test /\ allOK' = allOK
      BY <2>3 DEF NextStage
    <3> QED
      BY <1>1, <2>2, <2>3, <3>1, SecondProcess
  <2>4. CASE Judge
    <3>1. test \in 1 .. 16 /\ test' = test + 1 /\ stage' = 1 /\ proc' = Launched
      BY <1>1, <2>4, WithinSuite DEF Judge, Ended, Shapes
    <3>2. allOK' <=> allOK /\ Verdict = "OK"
      BY <2>4 DEF Judge
    <3>3. test' = t => Unnoticed(t)'
      <4>1. test' = t => Beginning'
        BY <3>1 DEF Beginning
      <4> QED
        BY <4>1, BeginsUnnoticedNext DEF NoneNoticed
    <3>4. test = t => ~allOK'
      <4>1. test = t => Verdict # "OK"
        BY <2>1, <2>2, <2>4, VerdictTells DEF Judge
      <4> QED
        BY <3>2, <4>1
    <3>5. test' > t => test = t \/ test > t
      BY <3>1
    <3> QED
      BY <2>2, <3>2, <3>3, <3>4, <3>5
  <2> QED
    BY <1>4, <2>3, <2>4
<1> QED
  BY <1>2, <1>3, <1>4 DEF Next

\* Each protection has its test.
LEMMA AllNoticed == \A f \in Features : \E t \in 1 .. 16 : Notices[t] = f
<1>1. /\ Notices[9] = "right" /\ Notices[11] = "left" /\ Notices[12] = "partial" /\ Notices[5] = "poison"
      /\ Notices[4] = "eager" /\ Notices[6] = "move" /\ Notices[1] = "freecheck"
  BY DEF Notices
<1>2. /\ Notices[15] = "rangecheck" /\ Notices[13] = "undoalloc" /\ Notices[14] = "undofree"
      /\ Notices[10] = "persist" /\ Notices[16] = "reclaim" /\ Notices[8] = "atomic"
  BY DEF Notices
<1>3. /\ 9 \in 1 .. 16 /\ 11 \in 1 .. 16 /\ 12 \in 1 .. 16 /\ 5 \in 1 .. 16 /\ 4 \in 1 .. 16
      /\ 6 \in 1 .. 16 /\ 1 \in 1 .. 16 /\ 15 \in 1 .. 16 /\ 13 \in 1 .. 16 /\ 14 \in 1 .. 16
      /\ 10 \in 1 .. 16 /\ 16 \in 1 .. 16 /\ 8 \in 1 .. 16
  OBVIOUS
<1> QED
  BY <1>1, <1>2, <1>3, Zenon DEF Features

\* At the end of the script every test that tells is over.
LEMMA AllTold == CaughtInv /\ TellsInTime => DefectsNoticed
<1> SUFFICES ASSUME CaughtInv, TellsInTime, Done, features # Features, ~indet,
                    Features \ features \subseteq Maskable => failures = MaxFailures
             PROVE  ~allOK
  BY DEF DefectsNoticed
<1>1. \A t \in 1 .. 16 : test > t
  <2>1. test \in 1 .. 17 /\ Len(Suite) = 16
    BY SuiteFacts DEF CaughtInv, Shapes
  <2> QED
    BY <2>1 DEF Done
<1>2. features \subseteq Features
  BY SuiteAssumption DEF CaughtInv, Shapes, HeapTyped
<1>3. PICK f \in Features \ features : f \in Maskable => Features \ features \subseteq Maskable
  BY <1>2
<1>4. PICK t \in 1 .. 16 : Notices[t] = f
  BY AllNoticed
<1>5. Telling(t)
  BY <1>3, <1>4 DEF Telling
<1> QED
  BY <1>1, <1>5 DEF TellsInTime

\* DefectsNoticed: a library that lacks one protection or more, whichever and
\* however many, does not get through the suite (test.sh:72-87, Readme.md:51),
\* wherever the allocator places objects, in both builds and with failing calls.
THEOREM DefectsNoticedAlways == Spec => []DefectsNoticed
<1> DEFINE IInv == CaughtInv /\ Orderly /\ TellsInTime
<1>1. Init => IInv
  <2> SUFFICES ASSUME Init PROVE IInv
    OBVIOUS
  <2>1. Beginning /\ proc = Launched
    BY DEF Init, Beginning
  <2>2. Orderly
    BY <2>1 DEF Orderly, Launched
  <2>3. TellsInTime
    BY <2>1, BeginsUnnoticed DEF Init, Beginning, NoneNoticed, TellsInTime
  <2> QED
    BY <2>2, <2>3, CaughtInvInit
<1>2. IInv /\ [Next]_vars => IInv'
  <2>1. CaughtInv /\ [Next]_vars => CaughtInv'
    BY ShapesStep, CaughtStep, UseAfterFreeTameStep, TxAddOverflowTameStep DEF CaughtInv
  <2>2. CaughtInv => Shapes
    BY DEF CaughtInv
  <2> QED
    BY <2>1, <2>2, OrderlyStep, TellsInTimeStep
<1>3. IInv => DefectsNoticed
  BY AllTold
<1> QED
  BY <1>1, <1>2, <1>3, PTL DEF Spec

=============================================================================
