---------------------------- MODULE PoolAtomicity ----------------------------
(***************************************************************************)
(* What the test programs and the recovery benchmark expect of a pool.     *)
(* There are two maps from places to object sizes (0: no object): the one  *)
(* the program works on and the one a restart would find.  A transaction   *)
(* works on the first; its commit makes it the second, and anything else   *)
(* that ends it (abort, exit, crash) brings the second back.  At every     *)
(* instant the protection of memory is the one the working map calls for:  *)
(* an object freed by a running transaction is out of bounds before the    *)
(* commit (use_after_free.cpp:44), one it allocated is out of bounds after *)
(* an abort (alloc_tx_abort.cpp:29), one whose free was undone is usable   *)
(* (free_tx_abort.cpp:31).                                                 *)
(***************************************************************************)
EXTENDS Integers

CONSTANTS Places,          \* where objects may start, and the cells of memory
          Guards(_, _)     \* Guards(m, w): memory m has the protection map w calls for

VARIABLES work, committed, mem, active

Maps == [Places -> Nat]

Init ==
  /\ work = [p \in Places |-> 0]
  /\ committed = work
  /\ active = FALSE
  /\ Guards(mem, work)

Begin ==
  /\ ~active /\ active' = TRUE
  /\ UNCHANGED <<work, committed, mem>>

\* An allocation, a free or a move inside a transaction.
Change ==
  /\ active
  /\ work' \in Maps /\ Guards(mem', work')
  /\ UNCHANGED <<committed, active>>

Commit ==
  /\ active /\ active' = FALSE
  /\ committed' = work
  /\ UNCHANGED <<work, mem>>

\* An abort, or the recovery that follows a crash.
Rollback ==
  /\ active /\ active' = FALSE
  /\ work' = committed /\ Guards(mem', committed)
  /\ UNCHANGED committed

\* An atomic allocation or free, outside transactions.
Atomic ==
  /\ ~active
  /\ work' \in Maps /\ committed' = work' /\ Guards(mem', work')
  /\ UNCHANGED active

Next == Begin \/ Change \/ Commit \/ Rollback \/ Atomic

Spec == Init /\ [][Next]_<<work, committed, mem, active>>

=============================================================================
