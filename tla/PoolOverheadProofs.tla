------------------------- MODULE PoolOverheadProofs -------------------------
(***************************************************************************)
(* The search of pool_overhead.cpp, for every pool, every set of sizes it  *)
(* can allocate, every tolerance and every limit.                          *)
(***************************************************************************)
EXTENDS PoolOverhead, TLAPS

\* POOL_SIZE is read as some size, whatever its high bits.
LEMMA AtoiType == \A n \in Nat : atoi(n) \in Nat
<1> SUFFICES ASSUME NEW n \in Nat PROVE atoi(n) \in Nat
  OBVIOUS
<1>1. n % IntRange \in 0 .. IntRange - 1
  BY WidthAssumption
<1> QED
  BY <1>1, WidthAssumption DEF atoi

\* The middle of the interval lies in it and below its upper end.
LEMMA MiddleInside ==
  ASSUME lb \in Nat \ {0}, ub \in Nat \ {0}, lb < ub
  PROVE  middle \in Nat \ {0} /\ lb <= middle /\ middle < ub
BY DEF middle

\* The loop goes on only while the interval is not empty.
LEMMA TooFarApart ==
  ASSUME lb \in Nat \ {0}, ub \in Nat \ {0}, TooFar
  PROVE  lb < ub
<1>1. lb \div Tolerance \in Nat
  BY SearchAssumption
<1> QED
  BY <1>1 DEF TooFar

-----------------------------------------------------------------------------

\* Every variable keeps its type; in particular both bounds of the search
\* stay positive.
THEOREM TypeCorrect == Spec => []TypeOK
<1>1. Init => TypeOK
  BY DEF Init, TypeOK, Phases
<1>2. TypeOK /\ [Next]_vars => TypeOK'
  <2> SUFFICES ASSUME TypeOK, [Next]_vars PROVE TypeOK'
    OBVIOUS
  <2> USE DEF TypeOK, Phases
  <2>1. CASE NoEnvironment
    BY <2>1 DEF NoEnvironment
  <2>2. CASE ReadEnvironment
    <3>1. request \in Nat
      BY <2>2, RequestsAssumption DEF ReadEnvironment
    <3> QED
      BY <3>1, <2>2, AtoiType DEF ReadEnvironment
  <2>3. CASE CreatePool
    BY <2>3 DEF CreatePool
  <2>4. CASE CreateFails
    BY <2>4 DEF CreateFails
  <2>5. CASE GiveUp
    BY <2>5 DEF GiveUp
  <2>6. CASE Double
    BY <2>6 DEF Double
  <2>7. CASE FirstFailure
    BY <2>7 DEF FirstFailure
  <2>8. CASE Narrow
    <3>1. lb < ub
      BY <2>8, TooFarApart DEF Narrow
    <3>2. middle \in Nat \ {0}
      BY <3>1, MiddleInside
    <3> QED
      BY <2>8, <3>2 DEF Narrow
  <2>9. CASE Report
    BY <2>9 DEF Report
  <2>10. CASE UNCHANGED vars
    BY <2>10 DEF vars
  <2> QED
    BY <2>1, <2>2, <2>3, <2>4, <2>5, <2>6, <2>7, <2>8, <2>9, <2>10 DEF Next
<1> QED
  BY <1>1, <1>2, PTL DEF Spec

-----------------------------------------------------------------------------

\* Before the pool exists the search has not begun; afterwards no object that
\* fits is larger than the usable part of the pool.
Usable ==
  /\ phase \in {"start", "create"} => fits = {} /\ lb = 1 /\ ub = 1
  /\ Searching => Overhead < poolSize /\ fits \subseteq 1 .. (poolSize - Overhead)

\* The lower bound moves only in the bisection.
LowerBound == phase \in {"double", "nolimit"} => lb = 1

\* The result is printed only once the loop of the bisection has ended.
Converged == phase = "report" => ~TooFar

\* The inductive invariant: Bracketed needs to know that the doubling leaves
\* lb at 1, NoWrap that what fits is smaller than the pool, EstimateTight that
\* the bounds are close when they are printed.
IInv == TypeOK /\ Usable /\ LowerBound /\ Bracketed /\ Converged

LEMMA InitIInv == Init => IInv
BY SearchAssumption
   DEF Init, IInv, TypeOK, Phases, Usable, Searching, LowerBound, Bracketed, Converged

LEMMA NextIInv == IInv /\ TypeOK' /\ [Next]_vars => IInv'
<1> SUFFICES ASSUME IInv, TypeOK', [Next]_vars PROVE IInv'
  OBVIOUS
<1> USE DEF IInv, TypeOK, Phases, Usable, Searching, LowerBound, Bracketed, Converged, test
<1>1. CASE NoEnvironment
  BY <1>1 DEF NoEnvironment
<1>2. CASE ReadEnvironment
  BY <1>2 DEF ReadEnvironment
<1>3. CASE CreatePool
  BY <1>3 DEF CreatePool
<1>4. CASE CreateFails
  BY <1>4 DEF CreateFails
<1>5. CASE GiveUp
  BY <1>5 DEF GiveUp
<1>6. CASE Double
  BY <1>6 DEF Double
<1>7. CASE FirstFailure
  BY <1>7 DEF FirstFailure
<1>8. CASE Narrow
  <2>1. lb < ub
    BY <1>8, TooFarApart DEF Narrow
  <2>2. middle \in Nat \ {0} /\ lb <= middle /\ middle < ub
    BY <2>1, MiddleInside
  <2>3. CASE test(middle)
    BY <1>8, <2>2, <2>3 DEF Narrow
  <2>4. CASE ~test(middle)
    BY <1>8, <2>2, <2>4 DEF Narrow
  <2> QED
    BY <2>3, <2>4
<1>9. CASE Report
  BY <1>9 DEF Report, TooFar
<1>10. CASE UNCHANGED vars
  BY <1>10 DEF vars, TooFar
<1> QED
  BY <1>1, <1>2, <1>3, <1>4, <1>5, <1>6, <1>7, <1>8, <1>9, <1>10 DEF Next

\* IInv holds throughout: what the theorems below rest on.
THEOREM Invariance == Spec => []IInv
BY InitIInv, NextIInv, TypeCorrect, PTL DEF Spec

\* The bisection never loses the boundary between the sizes that succeed and
\* those that fail (pool_overhead.cpp:56-64), even when success does not
\* depend monotonically on the size.
THEOREM BracketedAlways == Spec => []Bracketed
<1>1. IInv => Bracketed
  BY DEF IInv
<1> QED
  BY <1>1, Invariance, PTL

\* The printed estimate is within the announced tolerance of the capacity,
\* for a pool that has one (pool_overhead.cpp:56,66).
THEOREM EstimateTightAlways == Spec => []EstimateTight
<1>1. IInv => EstimateTight
  <2> SUFFICES ASSUME IInv, phase = "report",
                      NEW capacity \in 0 .. poolSize, fits = 1 .. capacity
               PROVE  lb - 1 <= capacity /\ capacity < lb + 1 + lb \div Tolerance
    BY DEF EstimateTight
  <2> USE DEF IInv, TypeOK, Bracketed, test
  <2>1. lb - 1 <= capacity
    OBVIOUS
  <2>2. capacity < ub
    OBVIOUS
  <2>3. lb \div Tolerance \in Nat
    BY SearchAssumption
  <2>4. ub - lb <= lb \div Tolerance
    BY <2>3 DEF Converged, TooFar
  <2> QED
    BY <2>1, <2>2, <2>3, <2>4
<1> QED
  BY <1>1, Invariance, PTL

\* The unsigned subtraction of pool_overhead.cpp:67 never wraps around.
THEOREM NoWrapAlways == Spec => []NoWrap
<1>1. IInv => NoWrap
  <2> SUFFICES ASSUME IInv, phase = "report" PROVE lb <= poolSize
    BY DEF NoWrap
  <2>1. Overhead < poolSize /\ fits \subseteq 1 .. (poolSize - Overhead)
    BY DEF IInv, Usable, Searching
  <2>2. CASE lb = 1
    BY <2>1, <2>2, SearchAssumption DEF IInv, TypeOK
  <2>3. CASE lb - 1 \in fits
    BY <2>1, <2>3, SearchAssumption DEF IInv, TypeOK
  <2> QED
    BY <2>2, <2>3 DEF IInv, Bracketed, test
<1> QED
  BY <1>1, Invariance, PTL

\* Each round of the bisection makes the interval strictly smaller and keeps
\* it inside the one before, so rounding cannot make the loop endless.
THEOREM ShrinksAlways == Spec => Shrinks
<1>1. IInv /\ [Next]_vars =>
        [phase = "bisect" /\ phase' = "bisect" =>
           lb <= lb' /\ ub' <= ub /\ ub' - lb' < ub - lb]_vars
  <2> SUFFICES ASSUME IInv, Next, phase = "bisect", phase' = "bisect"
               PROVE  lb <= lb' /\ ub' <= ub /\ ub' - lb' < ub - lb
    OBVIOUS
  <2>1. Narrow
    BY DEF Next, NoEnvironment, ReadEnvironment, CreatePool, CreateFails,
           GiveUp, Double, FirstFailure, Report
  <2>2. lb < ub
    BY <2>1, TooFarApart DEF Narrow, IInv, TypeOK
  <2>3. lb <= middle /\ middle < ub /\ middle \in Nat
    BY <2>2, MiddleInside DEF IInv, TypeOK
  <2> QED
    BY <2>1, <2>2, <2>3 DEF Narrow, IInv, TypeOK
<1> QED
  BY <1>1, Invariance, PTL DEF Spec, Shrinks

=============================================================================
