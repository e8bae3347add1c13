---------------------------- MODULE PoolUseProofs ----------------------------
(***************************************************************************)
(* The heap keeps its promise for every size of the heap, every width of   *)
(* the redzones and all object sizes.                                      *)
(***************************************************************************)
EXTENDS PoolUse, TLAPS

\* The shadow bytes of a live object are those of its size.
Exact == \A b \in Live : \A g \in Taken(b) : shadow[g] = FullTag(b, blk[b], g)

\* Memory of no live object is poisoned.
Vacant == \A g \in Granules : (\A b \in Live : g \notin Taken(b)) => shadow[g] = FD

\* Objects lie in the heap with their redzones.
Inside == \A b \in Blocks : Taken(b) \subseteq Granules

\* Outside transactions nothing waits for a commit.
Quiet == ~tx => added = {} /\ freed = {}

\* The inductive invariant.  ShadowExact alone is not inductive: an abort
\* repaints the objects freed by the transaction, which is right only if their
\* place was not given away (NoOverlap) and their sizes are still known.
Layout == NoOverlap /\ Inside /\ Exact /\ Vacant
IInv == TypeOK /\ Layout /\ Quiet

-----------------------------------------------------------------------------

\* An object occupies the place where it starts.
LEMMA OwnPlace == \A b \in Int, n \in Nat : b \in Space(b, n)
<1> SUFFICES ASSUME NEW b \in Int, NEW n \in Nat PROVE b \in Space(b, n)
  OBVIOUS
<1>1. Units(n) \in Nat
  BY DEF Units
<1> QED
  BY <1>1, HeapAssumption DEF Space

\* A place that fits is not the start of an object.
LEMMA FitsFresh ==
  ASSUME TypeOK, NEW b \in Granules, NEW n \in Nat, Fits(b, n)
  PROVE  b \notin Blocks /\ blk[b] = 0
<1>1. b \in Int /\ blk[b] \in Nat
  BY HeapAssumption DEF Granules, TypeOK
<1>2. b \in Space(b, n) /\ b \in Taken(b)
  BY <1>1, OwnPlace DEF Taken
<1>3. b \notin Blocks
  BY <1>2 DEF Fits
<1> QED
  BY <1>1, <1>3 DEF Blocks

\* With all its protections the library tags memory as documented.
LEMMA TagIsFull ==
  ASSUME features = Features
  PROVE  \A b, n, g : Tag(b, n, g) = FullTag(b, n, g)
BY DEF Features, Tag

\* A shadow byte is one of those the module speaks of.
LEMMA FullTagType ==
  \A b, n \in Nat, g \in Int : FullTag(b, n, g) \in (0 .. 7) \cup {FA, FD}
BY DEF FullTag, Units, FA, FD

\* What an allocation does to the layout, whichever call makes it; a move
\* frees the objects of F at the same time.
LEMMA AllocKeepsLayout ==
  ASSUME TypeOK, Layout,
         NEW b \in Granules, NEW n \in Nat \ {0}, Fits(b, n),
         NEW F \in SUBSET Live,
         blk' = [blk EXCEPT ![b] = n],
         shadow' = Wiped(Painted(b, n), F),
         freed' = freed \cup F
  PROVE  /\ Layout'
         /\ blk' \in [Granules -> Nat]
         /\ shadow' \in [Granules -> (0 .. 7) \cup {FA, FD}]
         /\ Blocks' = Blocks \cup {b}
<1> USE DEF TypeOK, Layout
<1>1. b \notin Blocks /\ b \notin freed /\ b \notin F
  BY FitsFresh DEF Live
<1>2. blk' \in [Granules -> Nat] /\ blk'[b] = n
      /\ \A c \in Granules \ {b} : blk'[c] = blk[c]
  OBVIOUS
<1>3. Blocks' = Blocks \cup {b}
  BY <1>2 DEF Blocks
<1>4. Live' = (Live \ F) \cup {b}
  BY <1>1, <1>3 DEF Live
<1>5. Taken(b)' = Space(b, n) /\ \A c \in Blocks : Taken(c)' = Taken(c)
  BY <1>1, <1>2 DEF Taken, Blocks
<1>6. \A c \in Blocks : Taken(b)' \cap Taken(c) = {}
  BY <1>5 DEF Fits
<1>7. \A g \in Granules : shadow'[g] =
        IF \E c \in F : g \in Taken(c) THEN FD
        ELSE IF g \in Space(b, n) THEN FullTag(b, n, g) ELSE shadow[g]
  BY TagIsFull DEF Wiped, Painted
<1>8. shadow' \in [Granules -> (0 .. 7) \cup {FA, FD}]
  <2>1. \A g \in Granules : FullTag(b, n, g) \in (0 .. 7) \cup {FA, FD}
    BY FullTagType, HeapAssumption DEF Granules
  <2> QED
    BY <2>1, <1>7 DEF Wiped
<1>9. NoOverlap'
  BY <1>3, <1>5, <1>6 DEF NoOverlap
<1>10. Inside'
  BY <1>3, <1>5 DEF Inside, Fits
<1>11. Exact'
  <2> SUFFICES ASSUME NEW c \in Live', NEW g \in Taken(c)'
               PROVE  shadow'[g] = FullTag(c, blk'[c], g)
    BY DEF Exact
  <2>1. CASE c = b
    <3>1. g \in Space(b, n) /\ g \in Granules
      BY <2>1, <1>5 DEF Fits
    <3>2. \A d \in F : g \notin Taken(d)
      BY <2>1, <1>6 DEF Live
    <3> QED
      BY <2>1, <3>1, <3>2, <1>2, <1>7
  <2>2. CASE c # b
    <3>1. c \in Live \ F /\ c \in Blocks /\ g \in Taken(c)
      BY <2>2, <1>4, <1>5 DEF Live
    <3>2. g \notin Space(b, n) /\ g \in Granules
      BY <3>1, <1>5, <1>6 DEF Inside
    <3>3. blk'[c] = blk[c]
      BY <2>2, <3>1, <1>2 DEF Blocks
    <3>4. \A d \in F : g \notin Taken(d)
      BY <3>1 DEF NoOverlap, Live
    <3> QED
      BY <3>1, <3>2, <3>3, <3>4, <1>7 DEF Exact
  <2> QED
    BY <2>1, <2>2
<1>12. Vacant'
  <2> SUFFICES ASSUME NEW g \in Granules, \A c \in Live' : g \notin Taken(c)'
               PROVE  shadow'[g] = FD
    BY DEF Vacant
  <2>1. g \notin Space(b, n)
    BY <1>4, <1>5
  <2>2. \A c \in Live \ F : g \notin Taken(c)
    BY <1>4, <1>5 DEF Live
  <2> QED
    BY <2>1, <2>2, <1>7 DEF Vacant
<1> QED
  BY <1>2, <1>3, <1>8, <1>9, <1>10, <1>11, <1>12

\* What the end of some objects does to the layout: a free, in or outside a
\* transaction, and the commit that makes the places of freed objects free.
LEMMA FreeKeepsLayout ==
  ASSUME TypeOK, Layout,
         NEW F \in SUBSET Blocks,
         Live' = Live \ F, Blocks' \in SUBSET Blocks,
         \A c \in Blocks' : blk'[c] = blk[c],
         shadow' = Wiped(shadow, F)
  PROVE  Layout' /\ shadow' \in [Granules -> (0 .. 7) \cup {FA, FD}]
<1> USE DEF TypeOK, Layout
<1>1. \A c \in Blocks' : Taken(c)' = Taken(c)
  BY DEF Taken
<1>2. \A g \in Granules :
        shadow'[g] = IF \E c \in F : g \in Taken(c) THEN FD ELSE shadow[g]
  BY DEF Wiped
<1>3. shadow' \in [Granules -> (0 .. 7) \cup {FA, FD}]
  BY <1>2 DEF Wiped
<1>4. NoOverlap' /\ Inside'
  BY <1>1 DEF NoOverlap, Inside
<1>5. Exact'
  <2> SUFFICES ASSUME NEW c \in Live', NEW g \in Taken(c)'
               PROVE  shadow'[g] = FullTag(c, blk'[c], g)
    BY DEF Exact
  <2>1. c \in Live \ F /\ c \in Blocks' /\ g \in Taken(c) /\ g \in Granules
    BY <1>1 DEF Live, Inside
  <2>2. \A d \in F : g \notin Taken(d)
    BY <2>1 DEF NoOverlap, Live
  <2> QED
    BY <2>1, <2>2, <1>2 DEF Exact
<1>6. Vacant'
  <2> SUFFICES ASSUME NEW g \in Granules, \A c \in Live' : g \notin Taken(c)'
               PROVE  shadow'[g] = FD
    BY DEF Vacant
  <2>1. \A c \in Live \ F : g \notin Taken(c)
    BY <1>1 DEF Live
  <2> QED
    BY <2>1, <1>2 DEF Vacant
<1> QED
  BY <1>3, <1>4, <1>5, <1>6

\* The undo log brings back exactly the objects from before the transaction,
\* and with them their protection.
LEMMA RollbackKeepsLayout ==
  ASSUME TypeOK, Layout, RolledBack
  PROVE  /\ Layout'
         /\ blk' \in [Granules -> Nat]
         /\ shadow' \in [Granules -> (0 .. 7) \cup {FA, FD}]
<1> USE DEF TypeOK, Layout
<1>1. blk' = [b \in Granules |-> IF b \in added THEN 0 ELSE blk[b]] /\ freed' = {}
  BY DEF RolledBack
<1>2. Blocks' = Blocks \ added /\ Live' = Blocks \ added
  BY <1>1 DEF Blocks, Live
<1>3. \A c \in Blocks' : blk'[c] = blk[c] /\ Taken(c)' = Taken(c)
  BY <1>1, <1>2 DEF Taken, Blocks
<1>4. \A g \in Granules : (\E b \in added : g \in Taken(b)) => shadow'[g] = FD
  BY DEF RolledBack, Features
<1>5. \A c \in freed \ added : \A g \in Taken(c) : shadow'[g] = FullTag(c, blk[c], g)
  <2> SUFFICES ASSUME NEW c \in freed \ added, NEW g \in Taken(c)
               PROVE  shadow'[g] = FullTag(c, blk[c], g)
    OBVIOUS
  <2>1. g \in Granules
    BY DEF Inside
  <2>2. \A b \in added : g \notin Taken(b)
    BY DEF NoOverlap
  <2>3. c = CHOOSE d \in freed : g \in Taken(d)
    BY DEF NoOverlap
  <2>4. shadow'[g] = Tag(c, blk[c], g)
    BY <2>1, <2>2, <2>3 DEF RolledBack, Features
  <2> QED
    BY <2>4, TagIsFull
<1>6. \A g \in Granules : (\A b \in added \cup freed : g \notin Taken(b)) => shadow'[g] = shadow[g]
  BY DEF RolledBack
<1>7. blk' \in [Granules -> Nat]
  BY <1>1
<1>8. NoOverlap' /\ Inside'
  BY <1>2, <1>3 DEF NoOverlap, Inside
<1>9. Exact'
  <2> SUFFICES ASSUME NEW c \in Live', NEW g \in Taken(c)'
               PROVE  shadow'[g] = FullTag(c, blk'[c], g)
    BY DEF Exact
  <2>1. c \in Blocks \ added /\ g \in Taken(c) /\ blk'[c] = blk[c] /\ g \in Granules
    BY <1>2, <1>3 DEF Inside
  <2>2. CASE c \in freed
    BY <2>1, <2>2, <1>5
  <2>3. CASE c \notin freed
    <3>1. \A b \in added \cup freed : g \notin Taken(b)
      BY <2>1, <2>3 DEF NoOverlap
    <3> QED
      BY <2>1, <2>3, <3>1, <1>6 DEF Exact, Live
  <2> QED
    BY <2>2, <2>3
<1>10. Vacant'
  <2> SUFFICES ASSUME NEW g \in Granules, \A c \in Live' : g \notin Taken(c)'
               PROVE  shadow'[g] = FD
    BY DEF Vacant
  <2>1. \A c \in Blocks \ added : g \notin Taken(c)
    BY <1>2, <1>3
  <2>2. CASE \E b \in added : g \in Taken(b)
    BY <2>2, <1>4
  <2>3. CASE \A b \in added : g \notin Taken(b)
    BY <2>1, <2>3, <1>6 DEF Vacant, Live
  <2> QED
    BY <2>2, <2>3
<1>11. shadow' \in [Granules -> (0 .. 7) \cup {FA, FD}]
  <2>1. \A g \in Granules : shadow'[g] \in (0 .. 7) \cup {FA, FD}
    <3> SUFFICES ASSUME NEW g \in Granules PROVE shadow'[g] \in (0 .. 7) \cup {FA, FD}
      OBVIOUS
    <3>1. CASE \E b \in added : g \in Taken(b)
      BY <3>1, <1>4
    <3>2. CASE \E b \in freed \ added : g \in Taken(b)
      <4>1. PICK c \in freed \ added : g \in Taken(c)
        BY <3>2
      <4>2. c \in Nat /\ blk[c] \in Nat /\ g \in Int
        BY HeapAssumption DEF Granules, Blocks
      <4> QED
        BY <4>1, <4>2, <1>5, FullTagType
    <3>3. CASE \A b \in added \cup freed : g \notin Taken(b)
      BY <3>3, <1>6
    <3> QED
      BY <3>1, <3>2, <3>3
  <2> QED
    BY <2>1 DEF RolledBack
<1> QED
  BY <1>7, <1>8, <1>9, <1>10, <1>11

-----------------------------------------------------------------------------

LEMMA InitIInv == Init => IInv
<1> SUFFICES ASSUME Init PROVE IInv
  OBVIOUS
<1> USE DEF Init, HeapInit, EmptyShadow, NoBlocks
<1>1. Blocks = {} /\ Live = {}
  BY DEF Blocks, Live
<1>2. \A g \in Granules : shadow[g] = FD
  BY DEF Features
<1>3. TypeOK
  BY <1>1 DEF TypeOK, Features
<1> QED
  BY <1>1, <1>2, <1>3 DEF IInv, Layout, NoOverlap, Inside, Exact, Vacant, Quiet

\* Nothing is wiped for no object.
LEMMA WipeNone ==
  ASSUME NEW s, DOMAIN s = Granules, s = [g \in Granules |-> s[g]] PROVE Wiped(s, {}) = s
BY DEF Wiped

LEMMA NextIInv == IInv /\ [Next]_heapVars => IInv'
<1> SUFFICES ASSUME IInv, [Next]_heapVars PROVE IInv'
  OBVIOUS
<1> USE DEF IInv
<1>0. /\ TypeOK /\ features = Features /\ {"poison", "eager", "move", "atomic", "persist", "reclaim"} \subseteq features
      /\ \A b \in Granules : b \in Int
  BY HeapAssumption DEF TypeOK, Features, Granules
<1>1. CASE TxBegin
  BY <1>1 DEF TxBegin, TypeOK, Layout, NoOverlap, Inside, Exact, Vacant, Quiet,
              Blocks, Live, Taken
<1>2. ASSUME NEW b \in Granules, NEW n \in Sizes, TxAlloc(b, n) PROVE IInv'
  <2>1. n \in Nat \ {0}
    BY SizesAssumption
  <2>2. shadow' = Wiped(Painted(b, n), {}) /\ freed' = freed \cup {} /\ {} \in SUBSET Live
    BY <1>2, WipeNone DEF TxAlloc, Painted
  <2>3. Layout' /\ blk' \in [Granules -> Nat] /\ Blocks' = Blocks \cup {b}
        /\ shadow' \in [Granules -> (0 .. 7) \cup {FA, FD}]
    BY <1>2, <2>1, <2>2, AllocKeepsLayout DEF TxAlloc
  <2> QED
    BY <1>2, <2>3 DEF TxAlloc, TypeOK, Quiet
<1>3. ASSUME NEW b \in Granules \ {root}, TxFree(b) PROVE IInv'
  <2>1. Live' = Live \ {b} /\ Blocks' = Blocks /\ {b} \in SUBSET Blocks
    BY <1>3 DEF TxFree, Live, Blocks
  <2>2. Layout' /\ shadow' \in [Granules -> (0 .. 7) \cup {FA, FD}]
    BY <1>0, <1>3, <2>1, FreeKeepsLayout DEF TxFree
  <2> QED
    BY <1>3, <2>1, <2>2 DEF TxFree, TypeOK, Quiet, Live
<1>4. ASSUME NEW b \in Granules \ {root}, NEW c \in Granules, NEW n \in Sizes, TxMove(b, c, n)
      PROVE IInv'
  <2>1. n \in Nat \ {0}
    BY SizesAssumption
  <2>2. shadow' = Wiped(Painted(c, n), {b}) /\ freed' = freed \cup {b} /\ {b} \in SUBSET Live
    BY <1>0, <1>4 DEF TxMove
  <2>3. Layout' /\ blk' \in [Granules -> Nat] /\ Blocks' = Blocks \cup {c}
        /\ shadow' \in [Granules -> (0 .. 7) \cup {FA, FD}]
    BY <1>4, <2>1, <2>2, AllocKeepsLayout DEF TxMove
  <2> QED
    BY <1>4, <2>3 DEF TxMove, TypeOK, Quiet, Live
<1>5. CASE TxCommit
  <2>1. blk' = [b \in Granules |-> IF b \in freed THEN 0 ELSE blk[b]] /\ freed' = {}
        /\ shadow' = Wiped(shadow, freed)
    BY <1>0, <1>5 DEF TxCommit
  <2>2. Blocks' = Blocks \ freed /\ Live' = Live \ freed
    BY <2>1 DEF Blocks, Live, TypeOK
  <2>3. Layout' /\ shadow' \in [Granules -> (0 .. 7) \cup {FA, FD}]
    <3>1. \A c \in Blocks' : blk'[c] = blk[c]
      BY <2>1, <2>2 DEF Blocks
    <3> QED
      BY <2>1, <2>2, <3>1, FreeKeepsLayout DEF TypeOK
  <2> QED
    BY <1>5, <2>1, <2>3 DEF TxCommit, TypeOK, Quiet
<1>6. ASSUME RolledBack, UNCHANGED <<features, root>>, open' \in BOOLEAN PROVE IInv'
  BY <1>6, RollbackKeepsLayout DEF RolledBack, TypeOK, Quiet
<1>7. CASE TxAbort
  BY <1>6, <1>7 DEF TxAbort, TypeOK
<1>8. ASSUME NEW b \in Granules, NEW n \in Sizes, AtomicAlloc(b, n) \/ RootAlloc(b, n) PROVE IInv'
  <2>1. n \in Nat \ {0}
    BY SizesAssumption
  <2>2. shadow' = Wiped(Painted(b, n), {}) /\ freed' = freed \cup {} /\ {} \in SUBSET Live
    BY <1>0, <1>8, WipeNone DEF AtomicAlloc, RootAlloc, Painted
  <2>3. Layout' /\ blk' \in [Granules -> Nat] /\ Blocks' = Blocks \cup {b}
        /\ shadow' \in [Granules -> (0 .. 7) \cup {FA, FD}]
    BY <1>8, <2>1, <2>2, AllocKeepsLayout DEF AtomicAlloc, RootAlloc
  <2> QED
    BY <1>8, <2>3 DEF AtomicAlloc, RootAlloc, TypeOK, Quiet
<1>9. ASSUME NEW b \in Granules \ {root}, AtomicFree(b) PROVE IInv'
  <2>1. blk' = [blk EXCEPT ![b] = 0] /\ freed' = freed /\ freed = {} /\ added' = {}
        /\ shadow' = Wiped(shadow, {b}) /\ b \in Live
    BY <1>0, <1>9 DEF AtomicFree, Quiet
  <2>2. blk' \in [Granules -> Nat]
    BY <2>1 DEF TypeOK
  <2>3. Blocks' = Blocks \ {b} /\ Live' = Live \ {b} /\ {b} \in SUBSET Blocks
    BY <2>1 DEF Blocks, Live, TypeOK
  <2>4. \A c \in Blocks' : blk'[c] = blk[c]
    BY <2>1, <2>3 DEF Blocks, TypeOK
  <2>5. Layout' /\ shadow' \in [Granules -> (0 .. 7) \cup {FA, FD}]
    BY <2>1, <2>3, <2>4, FreeKeepsLayout
  <2> QED
    BY <1>9, <2>1, <2>2, <2>5 DEF AtomicFree, TypeOK, Quiet
<1>10. CASE Detach
  BY <1>10 DEF Detach, TypeOK, Layout, NoOverlap, Inside, Exact, Vacant, Quiet,
               Blocks, Live, Taken
<1>11. CASE Reopen
  <2>1. CASE tx
    BY <1>6, <1>11, <2>1 DEF Reopen
  <2>2. CASE ~tx
    BY <1>0, <1>11, <2>2 DEF Reopen, TypeOK, Layout, NoOverlap, Inside, Exact, Vacant,
                      Quiet, Blocks, Live, Taken
  <2> QED
    BY <2>1, <2>2
<1>12. CASE UNCHANGED heapVars
  BY <1>12 DEF heapVars, TypeOK, Layout, NoOverlap, Inside, Exact, Vacant, Quiet,
               Blocks, Live, Taken
<1> QED
  BY <1>1, <1>2, <1>3, <1>4, <1>5, <1>7, <1>8, <1>9, <1>10, <1>11, <1>12 DEF Next

\* The heap is well laid out and protected at every instant.
THEOREM Invariance == Spec => []IInv
BY InitIInv, NextIInv, PTL DEF Spec

\* Every variable keeps its type.
THEOREM TypeCorrect == Spec => []TypeOK
<1>1. IInv => TypeOK
  BY DEF IInv
<1> QED
  BY <1>1, Invariance, PTL

\* Objects and their redzones never overlap, and a freed object keeps its
\* place until the commit.
THEOREM NoOverlapAlways == Spec => []NoOverlap
<1>1. IInv => NoOverlap
  BY DEF IInv, Layout
<1> QED
  BY <1>1, Invariance, PTL

\* The shadow is exact for the objects the program sees.
LEMMA LayoutGuards == IInv => Guarded(shadow, Work)
<1> SUFFICES ASSUME IInv, NEW g \in Granules
             PROVE  \/ \E b \in Granules : Work[b] > 0 /\ g \in Space(b, Work[b])
                                           /\ shadow[g] = FullTag(b, Work[b], g)
                    \/ shadow[g] = FD /\ \A b \in Granules : Work[b] > 0 => g \notin Space(b, Work[b])
  BY DEF Guarded
<1> USE DEF IInv, TypeOK, Layout
<1>1. \A b \in Granules : Work[b] > 0 <=> b \in Live
  BY DEF Work, Live, Blocks
<1>2. \A b \in Live : b \in Granules /\ Work[b] = blk[b] /\ Taken(b) = Space(b, Work[b])
  BY DEF Work, Live, Blocks, Taken
<1>3. CASE \E b \in Live : g \in Taken(b)
  BY <1>1, <1>2, <1>3 DEF Exact
<1>4. CASE \A b \in Live : g \notin Taken(b)
  BY <1>1, <1>2, <1>4 DEF Vacant
<1> QED
  BY <1>3, <1>4

\* Each byte of an object may be accessed, and nothing else, at every instant:
\* inside a transaction, after an abort, after a crash and its recovery.
THEOREM ShadowExactAlways == Spec => []ShadowExact
<1>1. IInv => ShadowExact
  BY LayoutGuards DEF ShadowExact
<1> QED
  BY <1>1, Invariance, PTL

-----------------------------------------------------------------------------
(* The refinement: each step of the heap is a step of PoolAtomicity, or    *)
(* leaves what PoolAtomicity sees alone.                                   *)

LEMMA StepSimulated ==
  IInv /\ IInv' /\ [Next]_heapVars =>
    [Promise!Next]_<<Work, Committed, shadow, tx>>
<1> SUFFICES ASSUME IInv, IInv', [Next]_heapVars
             PROVE  [Promise!Next]_<<Work, Committed, shadow, tx>>
  OBVIOUS
<1>0. /\ TypeOK /\ TypeOK'
      /\ Quiet /\ Quiet'
      /\ Guarded(shadow, Work)' /\ Guarded(shadow', Work')
      /\ Work' \in [Granules -> Nat]
      /\ features = Features
  <2>1. Guarded(shadow, Work) /\ Guarded(shadow, Work)'
    BY LayoutGuards, PTL
  <2>2. TypeOK /\ TypeOK' /\ Quiet /\ Quiet'
    BY DEF IInv
  <2>3. Work' \in [Granules -> Nat]
    BY <2>2 DEF TypeOK, Work
  <2>4. Guarded(shadow', Work')
    BY <2>1 DEF Guarded
  <2> QED
    BY <2>1, <2>2, <2>3, <2>4 DEF TypeOK
<1> USE DEF Promise!Next, Promise!Maps
<1>1. CASE TxBegin
  BY <1>1 DEF TxBegin, Promise!Begin, Work, Committed
<1>2. ASSUME tx, tx', Committed' = Committed PROVE Promise!Next
  BY <1>0, <1>2 DEF Promise!Change
<1>3. ASSUME ~tx, tx' = tx PROVE Promise!Next
  <2>1. Work' = Committed'
    BY <1>0, <1>3 DEF Quiet, Work, Committed
  <2> QED
    BY <1>0, <1>3, <2>1 DEF Promise!Atomic
<1>4. ASSUME NEW b \in Granules, NEW n \in Sizes, TxAlloc(b, n) PROVE Promise!Next
  <2>1. blk[b] = 0
    BY <1>0, <1>4, FitsFresh, SizesAssumption DEF TxAlloc
  <2>2. Committed' = Committed
    BY <1>0, <1>4, <2>1 DEF TxAlloc, Committed, TypeOK
  <2> QED
    BY <1>2, <1>4, <2>2 DEF TxAlloc
<1>5. ASSUME NEW b \in Granules, TxFree(b) PROVE Promise!Next
  BY <1>2, <1>5 DEF TxFree, Committed
<1>6. ASSUME NEW b \in Granules, NEW c \in Granules, NEW n \in Sizes, TxMove(b, c, n)
      PROVE Promise!Next
  <2>1. blk[c] = 0
    BY <1>0, <1>6, FitsFresh, SizesAssumption DEF TxMove
  <2>2. Committed' = Committed
    BY <1>0, <1>6, <2>1 DEF TxMove, Committed, TypeOK
  <2> QED
    BY <1>2, <1>6, <2>2 DEF TxMove
<1>7. CASE TxCommit
  <2>1. /\ blk' = [b \in Granules |-> IF b \in freed THEN 0 ELSE blk[b]]
        /\ freed' = {} /\ added' = {} /\ shadow' = Wiped(shadow, freed) /\ tx /\ tx' = FALSE
    BY <1>0, <1>7 DEF TxCommit, Features
  <2>2. Work' = Work /\ Committed' = Work
    BY <2>1 DEF Work, Committed
  <2>3. shadow' = shadow
    <3>1. \A g \in Granules : (\E b \in freed : g \in Taken(b)) => shadow[g] = FD
      BY DEF IInv, TypeOK, Layout, NoOverlap, Vacant, Live
    <3>2. \A g \in Granules : shadow'[g] = shadow[g]
      BY <2>1, <3>1 DEF Wiped
    <3> QED
      BY <1>0, <3>2 DEF TypeOK
  <2> QED
    BY <2>1, <2>2, <2>3 DEF Promise!Commit
<1>8. ASSUME tx, RolledBack PROVE Promise!Next
  <2>1. Work' = Committed /\ Committed' = Committed
    BY <1>8 DEF RolledBack, Work, Committed
  <2>2. tx /\ tx' = FALSE
    BY <1>8 DEF RolledBack
  <2> QED
    BY <1>0, <2>1, <2>2 DEF Promise!Rollback
<1>9. CASE TxAbort
  BY <1>8, <1>9 DEF TxAbort
<1>10. ASSUME NEW b \in Granules, NEW n \in Sizes, AtomicAlloc(b, n) \/ RootAlloc(b, n)
       PROVE Promise!Next
  BY <1>3, <1>10 DEF AtomicAlloc, RootAlloc
<1>11. ASSUME NEW b \in Granules, AtomicFree(b) PROVE Promise!Next
  BY <1>3, <1>11 DEF AtomicFree
<1>12. CASE Detach
  BY <1>12 DEF Detach, Work, Committed
<1>13. CASE Reopen
  <2>1. CASE tx
    BY <1>8, <1>13, <2>1 DEF Reopen
  <2>2. CASE ~tx
    BY <1>0, <1>13, <2>2 DEF Reopen, Work, Committed, Features
  <2> QED
    BY <2>1, <2>2
<1>14. CASE UNCHANGED heapVars
  BY <1>14 DEF heapVars, Work, Committed
<1> QED
  BY <1>1, <1>4, <1>5, <1>6, <1>7, <1>9, <1>10, <1>11, <1>12, <1>13, <1>14 DEF Next

\* The detailed heap keeps the promise the test programs rely on: a
\* transaction takes effect at its commit or not at all, whatever ends it, and
\* protection follows the program's view of its objects at every step.
THEOREM AtomicityHolds == Spec => Atomicity
<1>1. Init => Promise!Init
  <2> SUFFICES ASSUME Init PROVE Promise!Init
    OBVIOUS
  <2>1. Guarded(shadow, Work)
    BY InitIInv, LayoutGuards
  <2>2. Work = [p \in Granules |-> 0] /\ Committed = Work /\ tx = FALSE
    BY DEF Init, HeapInit, NoBlocks, Work, Committed
  <2> QED
    BY <2>1, <2>2 DEF Promise!Init
<1> QED
  BY <1>1, StepSimulated, Invariance, PTL DEF Spec, Atomicity, Promise!Spec

=============================================================================
