------------------------------- MODULE PMHeap -------------------------------
(***************************************************************************)
(* The persistent heap the test programs and the benchmarks run on:        *)
(* libpmemobj with the SafePM wrappers, which live in the pmdk submodule   *)
(* and are not part of this repository.  The module is the contract the    *)
(* programs under src/ rely on, and no more.                               *)
(*                                                                         *)
(* Memory is a row of 8-byte granules, each with one shadow byte, as in    *)
(* AddressSanitizer: 0 says that the whole granule may be accessed, k in   *)
(* 1..7 that only its first k bytes may, FA that it is a redzone and FD    *)
(* that it belongs to no object.  The shadow is persistent.                *)
(*                                                                         *)
(* `features' is the set of protections the linked build has.  SafePM has  *)
(* all of them, upstream PMDK none; a defective SafePM lacks some.         *)
(***************************************************************************)
EXTENDS Integers, FiniteSets

CONSTANTS HeapSize,   \* granules in the heap
          Redzone     \* granules of redzone on each side of an object

ASSUME HeapAssumption == HeapSize \in Nat \ {0} /\ Redzone \in Nat \ {0}

VARIABLES features,   \* protections of the linked library
          shadow,     \* granule -> shadow byte
          blk,        \* granule -> bytes of the object that starts there, 0 if none
          tx,         \* an undo log is active
          added,      \* objects allocated by the transaction
          freed,      \* objects freed and not yet reusable
          root,       \* the root object, NoRoot before pmemobj_root
          open        \* the pool is mapped by a process

heapVars == <<features, shadow, blk, tx, added, freed, root, open>>

FA == 250
FD == 253
NoRoot == -1
Granules == 0 .. (HeapSize - 1)

Features == {"right",       \* a redzone after the object
             "left",        \* a redzone before the object
             "partial",     \* the last granule keeps only n % 8 bytes
             "poison",      \* memory of a freed object becomes FD
             "eager",       \* ... at the call, not at the commit
             "move",        \* ... also when a realloc moved the object
             "freecheck",   \* a free of what is no object is reported
             "rangecheck",  \* pmemobj_tx_add_range checks the range
             "undoalloc",   \* an abort poisons what the transaction allocated
             "undofree",    \* an abort restores what the transaction freed
             "persist",     \* the shadow survives a close
             "reclaim",     \* a commit makes the freed memory reusable
             "atomic"}      \* POBJ_NEW and POBJ_FREE are wrapped as well

-----------------------------------------------------------------------------
(* Layout *)

Units(n) == (n + 7) \div 8

Space(b, n) == (b - Redzone) .. (b + Units(n) + Redzone - 1)

\* Deviation: the last granule is tagged with the size, not with its remainder.
FullTagWholeSize(b, n, g) ==
  IF g < b \/ g >= b + Units(n) THEN FA
  ELSE IF g < b + n \div 8 THEN 0 ELSE n

\* The shadow byte SafePM gives granule g of an object of n bytes at b.
FullTag(b, n, g) ==
  IF g < b \/ g >= b + Units(n) THEN FA
  ELSE IF g < b + n \div 8 THEN 0 ELSE n % 8

\* The shadow byte the linked build gives it.
Tag(b, n, g) ==
  IF \/ g < b /\ "left" \notin features
     \/ g >= b + Units(n) /\ "right" \notin features
     \/ b <= g /\ g < b + Units(n) /\ "partial" \notin features
  THEN 0 ELSE FullTag(b, n, g)

Blocks == {b \in Granules : blk[b] > 0}
Live == Blocks \ freed
Taken(b) == Space(b, blk[b])

\* Deviation: the place of an object freed by the running transaction is
\* given away before the commit.
FitsAmongLive(b, n) ==
  /\ Space(b, n) \subseteq Granules
  /\ \A c \in Live : Space(b, n) \cap Taken(c) = {}

\* An object of n bytes fits at b: memory freed by the running transaction
\* stays reserved until it commits.
Fits(b, n) ==
  /\ Space(b, n) \subseteq Granules
  /\ \A c \in Blocks : Space(b, n) \cap Taken(c) = {}

Painted(b, n) == [g \in Granules |-> IF g \in Space(b, n) THEN Tag(b, n, g) ELSE shadow[g]]
Wiped(s, B) == [g \in Granules |-> IF \E b \in B : g \in Taken(b) THEN FD ELSE s[g]]

\* An access to bytes a .. a + w - 1 touches a granule that may not be accessed.
Poisoned(g, w) == shadow[g] # 0 /\ ~(shadow[g] \in 1 .. 7 /\ w <= shadow[g])
Faults(a, w) ==
  {g \in (a \div 8) .. ((a + w - 1) \div 8) :
      g \notin Granules \/ Poisoned(g, a + w - 8 * g)}

-----------------------------------------------------------------------------
(* Operations of the library *)

\* The shadow of a pool without objects, in a build with protections f.
EmptyShadow(f) == [g \in Granules |-> IF "poison" \in f THEN FD ELSE 0]
NoBlocks == [g \in Granules |-> 0]

HeapInit(f) ==
  /\ features = f
  /\ shadow = EmptyShadow(f) /\ blk = NoBlocks
  /\ tx = FALSE /\ added = {} /\ freed = {} /\ root = NoRoot

\* pmemobj_create, after the programs unlinked the old pool.
Format ==
  /\ ~open /\ open' = TRUE
  /\ shadow' = EmptyShadow(features) /\ blk' = NoBlocks
  /\ tx' = FALSE /\ added' = {} /\ freed' = {} /\ root' = NoRoot
  /\ UNCHANGED features

TxBegin ==
  /\ open /\ ~tx /\ tx' = TRUE
  /\ UNCHANGED <<features, shadow, blk, added, freed, root, open>>

TxAlloc(b, n) ==
  /\ open /\ tx /\ Fits(b, n)
  /\ blk' = [blk EXCEPT ![b] = n]
  /\ shadow' = Painted(b, n)
  /\ added' = added \cup {b}
  /\ UNCHANGED <<features, tx, freed, root, open>>

TxFree(b) ==
  /\ open /\ tx /\ b \in Live
  /\ freed' = freed \cup {b}
  /\ shadow' = IF {"poison", "eager"} \subseteq features THEN Wiped(shadow, {b}) ELSE shadow
  /\ UNCHANGED <<features, blk, tx, added, root, open>>

\* pmemobj_tx_realloc to a new place: the object at b is freed, one of n
\* bytes starts at c.
TxMove(b, c, n) ==
  /\ open /\ tx /\ b \in Live /\ Fits(c, n)
  /\ blk' = [blk EXCEPT ![c] = n]
  /\ added' = added \cup {c}
  /\ freed' = freed \cup {b}
  /\ shadow' = IF {"poison", "eager", "move"} \subseteq features
               THEN Wiped(Painted(c, n), {b}) ELSE Painted(c, n)
  /\ UNCHANGED <<features, tx, root, open>>

\* Deviation: the commit leaves the undo log as it is.
TxCommitKeepsLog ==
  /\ open /\ tx /\ tx' = FALSE
  /\ freed' = {} /\ blk' = [b \in Granules |-> IF b \in freed THEN 0 ELSE blk[b]]
  /\ UNCHANGED <<features, shadow, added, root, open>>

TxCommit ==
  /\ open /\ tx /\ tx' = FALSE
  /\ added' = {}
  /\ IF "reclaim" \in features
     THEN freed' = {} /\ blk' = [b \in Granules |-> IF b \in freed THEN 0 ELSE blk[b]]
     ELSE UNCHANGED <<freed, blk>>
  /\ shadow' = IF {"poison", "move"} \subseteq features THEN Wiped(shadow, freed) ELSE shadow
  /\ UNCHANGED <<features, root, open>>

\* Deviation: the abort restores the objects but not their shadow.
RolledBackNoRepaint ==
  /\ tx' = FALSE /\ added' = {} /\ freed' = {}
  /\ blk' = [b \in Granules |-> IF b \in added THEN 0 ELSE blk[b]]
  /\ shadow' = Wiped(shadow, added)

\* What the undo log restores: objects the transaction allocated go, objects
\* it freed come back.
RolledBack ==
  /\ tx' = FALSE /\ added' = {} /\ freed' = {}
  /\ blk' = [b \in Granules |-> IF b \in added THEN 0 ELSE blk[b]]
  /\ shadow' = [g \in Granules |->
       IF \E b \in added : g \in Taken(b)
       THEN IF "undoalloc" \in features THEN FD ELSE shadow[g]
       ELSE IF "undofree" \in features /\ \E b \in freed : g \in Taken(b)
       THEN LET b == CHOOSE c \in freed : g \in Taken(c) IN Tag(b, blk[b], g)
       ELSE shadow[g]]

TxAbort ==
  /\ open /\ tx /\ RolledBack
  /\ UNCHANGED <<features, root, open>>

AtomicAlloc(b, n) ==
  /\ open /\ ~tx /\ Fits(b, n)
  /\ blk' = [blk EXCEPT ![b] = n]
  /\ shadow' = IF "atomic" \in features THEN Painted(b, n)
               ELSE [g \in Granules |-> IF g \in Space(b, n) THEN 0 ELSE shadow[g]]
  /\ UNCHANGED <<features, tx, added, freed, root, open>>

AtomicFree(b) ==
  /\ open /\ ~tx /\ b \in Live
  /\ blk' = [blk EXCEPT ![b] = 0]
  /\ shadow' = IF {"poison", "atomic"} \subseteq features THEN Wiped(shadow, {b}) ELSE shadow
  /\ UNCHANGED <<features, tx, added, freed, root, open>>

\* pmemobj_root in a pool that has no root object yet.
RootAlloc(b, n) ==
  /\ open /\ ~tx /\ root = NoRoot /\ Fits(b, n)
  /\ root' = b
  /\ blk' = [blk EXCEPT ![b] = n]
  /\ shadow' = Painted(b, n)
  /\ UNCHANGED <<features, tx, added, freed, open>>

\* pmemobj_close, or the end of the process: the undo log stays on the medium.
Detach ==
  /\ open /\ open' = FALSE
  /\ UNCHANGED <<features, shadow, blk, tx, added, freed, root>>

\* pmemobj_open: an active undo log is applied first.
Reopen ==
  /\ ~open /\ open' = TRUE
  /\ IF tx THEN RolledBack
     ELSE /\ shadow' = IF "persist" \in features THEN shadow ELSE [g \in Granules |-> 0]
          /\ UNCHANGED <<blk, tx, added, freed>>
  /\ UNCHANGED <<features, root>>

=============================================================================
