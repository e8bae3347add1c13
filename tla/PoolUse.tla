------------------------------- MODULE PoolUse -------------------------------
(***************************************************************************)
(* A program that uses a SafePM pool legally and in every order: objects   *)
(* are allocated, freed and moved in transactions or atomically, a         *)
(* transaction commits, aborts or is cut off by the end of the process,    *)
(* and the pool is opened again (recovery_run.c closes its pool inside a   *)
(* transaction on purpose, lines 105-134).                                 *)
(***************************************************************************)
EXTENDS PMHeap

CONSTANT Sizes      \* sizes in bytes of the objects the program asks for

ASSUME SizesAssumption == Sizes \subseteq Nat \ {0}

Init == HeapInit(Features) /\ open = FALSE

Next ==
  \/ TxBegin
  \/ \E b \in Granules, n \in Sizes : TxAlloc(b, n)
  \/ \E b \in Granules \ {root} : TxFree(b)
  \/ \E b \in Granules \ {root}, c \in Granules, n \in Sizes : TxMove(b, c, n)
  \/ TxCommit
  \/ TxAbort
  \/ \E b \in Granules, n \in Sizes : AtomicAlloc(b, n)
  \/ \E b \in Granules \ {root} : AtomicFree(b)
  \/ \E b \in Granules, n \in Sizes : RootAlloc(b, n)
  \/ Detach
  \/ Reopen

Spec == Init /\ [][Next]_heapVars

-----------------------------------------------------------------------------

\* The map of objects as the running program sees it, and as a restart would.
Work == [b \in Granules |-> IF b \in freed THEN 0 ELSE blk[b]]
Committed == [b \in Granules |-> IF b \in added THEN 0 ELSE blk[b]]

\* Shadow s is what SafePM promises for the objects of map w: each byte of an
\* object may be accessed, both its redzones are poisoned, and memory of no
\* object is poisoned as freed.
Guarded(s, w) ==
  \A g \in Granules :
    \/ \E b \in Granules : w[b] > 0 /\ g \in Space(b, w[b]) /\ s[g] = FullTag(b, w[b], g)
    \/ s[g] = FD /\ \A b \in Granules : w[b] > 0 => g \notin Space(b, w[b])

\* Type invariant.
TypeOK ==
  /\ features = Features
  /\ shadow \in [Granules -> (0 .. 7) \cup {FA, FD}]
  /\ blk \in [Granules -> Nat]
  /\ tx \in BOOLEAN /\ open \in BOOLEAN
  /\ added \subseteq Blocks /\ freed \subseteq Blocks
  /\ root \in Granules \cup {NoRoot}

\* Two objects never share a granule, redzones included, and this counts the
\* objects a running transaction has freed: their place is not given away
\* before the commit, since an abort needs it back (free_tx_abort.cpp:26-31).
NoOverlap ==
  \A b, c \in Blocks : b # c => Taken(b) \cap Taken(c) = {}

\* At every instant, also inside a transaction, after an abort and after
\* recovery, the shadow is exact for the objects the program sees.
ShadowExact == Guarded(shadow, Work)

\* The heap keeps the promise stated in PoolAtomicity.
Promise == INSTANCE PoolAtomicity WITH
  Places <- Granules, Guards <- Guarded,
  work <- Work, committed <- Committed, mem <- shadow, active <- tx

Atomicity == Promise!Spec

=============================================================================
