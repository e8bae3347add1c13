---------------------------- MODULE TestPrograms ----------------------------
(***************************************************************************)
(* The programs under tests/ and the list of test.sh, as data.  A program  *)
(* is a sequence of instructions, one per library call, access through a   *)
(* pool pointer, flag printed, or TX_END with its handler.  TestSuite runs *)
(* them.  Object sizes are those of the code, except where a program needs *)
(* an object to be large: BigDummy stands for the 8 KB struct of zalloc    *)
(* and Stretch for the 300 of use_after_realloc, so that a small heap      *)
(* shows what the 32 MB pool does.                                         *)
(***************************************************************************)
EXTENDS Sequences, Integers

CONSTANTS BigDummy,    \* bytes of zalloc's struct dummy
          Stretch,     \* bytes use_after_realloc asks realloc for
          Rounds       \* iterations of each loop of zalloc

\* use_after_realloc writes eight bytes to the object it asked for.
ASSUME SizesAssumption == BigDummy \in Nat \ {0} /\ Stretch \in Nat /\ Stretch >= 8 /\ Rounds \in Nat

Flags == {"PASS", "FAIL"}
Locals == {"root", "obj", "oid", "oid1", "oid2", "toid"}

-----------------------------------------------------------------------------
(* Instructions.  v and u are pointer variables; "obj" is the field obj of *)
(* the root object.  Missing results are checked with `assert', which      *)
(* RelWithDebInfo compiles away, or with an if that calls `abort'.         *)

create(check)       == [op |-> "create", check |-> check]
openPool(check)     == [op |-> "open", check |-> check]
rootObj(n, check)   == [op |-> "root", n |-> n, check |-> check]
begin               == [op |-> "begin"]
alloc(v, n)         == [op |-> "alloc", v |-> v, n |-> n]
free(v, off)        == [op |-> "free", v |-> v, off |-> off]
realloc(v, u, n)    == [op |-> "realloc", v |-> v, u |-> u, n |-> n]
addRange(v, n)      == [op |-> "range", v |-> v, n |-> n]
abortTx             == [op |-> "abort"]
end(handler)        == [op |-> "end", handler |-> handler]
new(v, n)           == [op |-> "new", v |-> v, n |-> n]
delete(v)           == [op |-> "delete", v |-> v]
copy(v, u)          == [op |-> "copy", v |-> v, u |-> u]
write(v, off, w)    == [op |-> "write", v |-> v, off |-> off, w |-> w]
flag(f)             == [op |-> "flag", f |-> f]
close               == [op |-> "close"]

print_pass_flag == flag("PASS")
print_fail_flag == flag("FAIL")

-----------------------------------------------------------------------------
(* Programs *)

Finish == <<print_fail_flag, close>>

Rooted(n) == <<create("assert"), rootObj(n, "assert")>>

\* A pool whose root object points to an object of n bytes.
WithDummy(n) == Rooted(16) \o
  <<begin, alloc("oid", n), addRange("root", 16), copy("obj", "oid"), end("abort")>>

WithDummyNtx(n) == <<create("abort"), rootObj(16, "abort"), new("obj", n)>>

alloc_tx_abort ==
  <<create("assert"), begin, alloc("oid", 16), abortTx, end("none"),
    print_pass_flag, write("oid", 0, 8)>> \o Finish

\* Deviation: the abort is left out, and the free takes effect.
free_tx_commit ==
  <<create("assert"), begin, alloc("oid", 16), end("none"),
    begin, free("oid", 0), end("none"), write("oid", 0, 8), close>>

free_tx_abort ==
  <<create("assert"), begin, alloc("oid", 16), end("none"),
    begin, free("oid", 0), abortTx, end("none"), write("oid", 0, 8), close>>

mismatched_free == WithDummy(40) \o
  <<begin, print_pass_flag, free("obj", 8), end("none")>> \o Finish

double_free == WithDummy(8) \o
  <<begin, free("obj", 0), print_pass_flag, free("obj", 0), end("none")>> \o Finish

use_after_free == WithDummy(8) \o
  <<begin, free("obj", 0), print_pass_flag, write("obj", 0, 8), end("none")>> \o Finish

overflow == WithDummy(16) \o
  <<write("obj", 0, 8), write("obj", 8, 8), print_pass_flag, write("obj", 16, 8)>> \o Finish

double_free_ntx == WithDummyNtx(8) \o
  <<copy("toid", "obj"), delete("obj"), print_pass_flag, delete("toid")>> \o Finish

\* The root is checked with assert here and the new object with abort.
use_after_free_ntx == Rooted(16) \o
  <<new("obj", 8), copy("toid", "obj"), delete("obj"),
    print_pass_flag, write("toid", 0, 8)>> \o Finish

overflow_ntx == <<create("assert"), rootObj(16, "abort"), new("obj", 16),
    write("obj", 0, 8), write("obj", 8, 8), print_pass_flag, write("obj", 16, 8)>> \o Finish

use_after_realloc ==
  <<create("assert"), begin, alloc("oid1", 16), end("abort"),
    begin, realloc("oid2", "oid1", Stretch), write("oid2", 0, 8),
    print_pass_flag, write("oid1", 0, 8), print_fail_flag, end("failabort"), close>>

root_overflow == Rooted(16) \o
  <<write("root", 0, 8), write("root", 8, 8), print_pass_flag, write("root", 16, 8)>> \o Finish

\* Deviation: the access lies above the array, not below it.
root_above == Rooted(16) \o
  <<write("root", 0, 8), write("root", 8, 8), print_pass_flag, write("root", 16, 8)>> \o Finish

root_underflow == Rooted(16) \o
  <<write("root", 0, 8), write("root", 8, 8), print_pass_flag, write("root", -8, 8)>> \o Finish

int32 == Rooted(4) \o
  <<write("root", 0, 4), print_pass_flag, write("root", 0, 8)>> \o Finish

tx_add_overflow == Rooted(24) \o
  <<begin, addRange("root", 24), print_pass_flag, addRange("root", 25), end("none")>> \o Finish

createPool == Rooted(16) \o <<close>>

attemptOverflow ==
  <<openPool("assert"), rootObj(16, "assert"), write("root", 0, 8), write("root", 8, 8),
    print_pass_flag, write("root", 16, 8)>> \o Finish

\* Deviation: a round does not free what it allocated.
AllocOnly == <<begin, alloc("oid", BigDummy), end("abort")>>

\* One round of a loop of zalloc; the two loops differ in the name of the call.
AllocFree == <<begin, alloc("oid", BigDummy), end("abort"), begin, free("oid", 0), end("abort")>>

zalloc ==
  <<create("assert")>> \o
  [i \in 1 .. 2 * Rounds * Len(AllocFree) |-> AllocFree[((i - 1) % Len(AllocFree)) + 1]] \o
  <<close>>

-----------------------------------------------------------------------------
(* test.sh: the tests in order, the verdict function and the snippet the   *)
(* output must show.  A test is one process, or two for the shell script   *)
(* overflow_persistence.sh.                                                *)

should_crash(snippet, prog) == [kind |-> "crash", snippet |-> snippet, stages |-> <<prog>>]
should_not_crash(prog) == [kind |-> "run", snippet |-> "", stages |-> <<prog>>]

overflow_persistence == <<createPool, attemptOverflow>>

Suite == <<
  should_crash("Invalid free", mismatched_free),
  should_crash("Invalid free|palloc", double_free),
  should_crash("Invalid free|palloc", double_free_ntx),
  should_crash("[fd]", use_after_free),
  should_crash("[fd]", use_after_free_ntx),
  should_crash("[fd]", use_after_realloc),
  should_crash("00[fa]", overflow),
  should_crash("00[fa]", overflow_ntx),
  should_crash("00[fa]", root_overflow),
  [should_crash("00[fa]", <<>>) EXCEPT !.stages = overflow_persistence],
  should_crash("[fa]", root_underflow),
  should_crash("[04]", int32),
  should_crash("[fd]", alloc_tx_abort),
  should_not_crash(free_tx_abort),
  should_crash("00[fa]", tx_add_overflow),
  should_not_crash(zalloc) >>

=============================================================================
