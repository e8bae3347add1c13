---------------------------- MODULE PoolOverhead ----------------------------
(***************************************************************************)
(* utils/pool_overhead.cpp: how much of a pool can the program allocate?   *)
(* main reads POOL_SIZE, creates a pool, doubles the size ub of a trial    *)
(* allocation until one fails, then bisects between lb and ub.  A trial is *)
(* test(): allocate and free in one transaction, so that the pool is left  *)
(* as it was; which sizes succeed is a property `fits' of the pool, and    *)
(* need not be an interval.                                                *)
(***************************************************************************)
EXTENDS Integers

CONSTANTS Requests,     \* values POOL_SIZE may have, without Unset
          Unset,        \* POOL_SIZE is not set
          IntRange,     \* 2^32: atoi returns an int
          SizeRange,    \* 2^64: poolSize is a size_t
          MaxPool,      \* the largest pool the file system holds
          Overhead,     \* bytes of a pool no object can use
          SizeLimit,    \* 2^48, where main gives up
          Tolerance     \* 1000, a tolerance of .1%

ASSUME RequestsAssumption == Requests \subseteq Nat /\ Unset \notin Requests
ASSUME WidthAssumption ==
  /\ IntRange \in Nat \ {0} /\ SizeRange \in Nat /\ IntRange <= SizeRange
  /\ MaxPool \in Nat
ASSUME SearchAssumption ==
  /\ Overhead \in Nat \ {0} /\ SizeLimit \in Nat \ {0} /\ Tolerance \in Nat \ {0}

VARIABLES phase,      \* where main is
          request,    \* the environment variable
          poolSize,   \* the constant of line 37
          fits,       \* sizes for which test() returns true
          lb, ub      \* the bounds of the search

vars == <<phase, request, poolSize, fits, lb, ub>>

-----------------------------------------------------------------------------

\* Deviation: the int is not converted to size_t.
atoi_signed(n) ==
  LET low == n % IntRange IN
  IF low < IntRange \div 2 THEN low ELSE low - IntRange

\* atoi, in glibc a strtol cut to int, then converted to size_t.
atoi(n) ==
  LET low == n % IntRange IN
  IF low < IntRange \div 2 THEN low ELSE low - IntRange + SizeRange

test(size) == size \in fits

Init ==
  /\ phase = "start"
  /\ request \in Requests \cup {Unset}
  /\ poolSize = 0 /\ fits = {} /\ lb = 1 /\ ub = 1

NoEnvironment ==
  /\ phase = "start" /\ request = Unset
  /\ phase' = "failed"
  /\ UNCHANGED <<request, poolSize, fits, lb, ub>>

ReadEnvironment ==
  /\ phase = "start" /\ request # Unset
  /\ poolSize' = atoi(request)
  /\ phase' = "create"
  /\ UNCHANGED <<request, fits, lb, ub>>

\* No object is larger than the pool without its metadata.
CreatePool ==
  /\ phase = "create" /\ Overhead < poolSize /\ poolSize <= MaxPool
  /\ fits' \in SUBSET (1 .. (poolSize - Overhead))
  /\ phase' = "double"
  /\ UNCHANGED <<request, poolSize, lb, ub>>

\* The assertion of line 41, or the NULL pool without it, ends the process.
CreateFails ==
  /\ phase = "create"
  /\ phase' = "failed"
  /\ UNCHANGED <<request, poolSize, fits, lb, ub>>

GiveUp ==
  /\ phase = "double" /\ ub > SizeLimit
  /\ phase' = "nolimit"
  /\ UNCHANGED <<request, poolSize, fits, lb, ub>>

Double ==
  /\ phase = "double" /\ ub <= SizeLimit /\ test(ub)
  /\ ub' = 2 * ub
  /\ UNCHANGED <<phase, request, poolSize, fits, lb>>

\* Deviation: the bisection starts from the size that failed.
FirstFailureRaisesLb ==
  /\ phase = "double" /\ ub <= SizeLimit /\ ~test(ub)
  /\ phase' = "bisect" /\ lb' = ub
  /\ UNCHANGED <<request, poolSize, fits, ub>>

FirstFailure ==
  /\ phase = "double" /\ ub <= SizeLimit /\ ~test(ub)
  /\ phase' = "bisect"
  /\ UNCHANGED <<request, poolSize, fits, lb, ub>>

\* Deviation: the difference is compared with lb itself.
TooFarWhole == (ub - lb) > lb

TooFar == (ub - lb) > lb \div Tolerance

\* Deviation: the parentheses are missing.
middle_precedence == lb + ub \div 2

middle == (lb + ub) \div 2

\* Deviations: ub skips a size that was not tried; lb stays on the middle.
NarrowBelowMiddle ==
  /\ phase = "bisect" /\ TooFar
  /\ IF test(middle)
     THEN lb' = middle + 1 /\ ub' = ub
     ELSE ub' = middle - 1 /\ lb' = lb
  /\ UNCHANGED <<phase, request, poolSize, fits>>

NarrowToMiddle ==
  /\ phase = "bisect" /\ TooFar
  /\ IF test(middle)
     THEN lb' = middle /\ ub' = ub
     ELSE ub' = middle /\ lb' = lb
  /\ UNCHANGED <<phase, request, poolSize, fits>>

Narrow ==
  /\ phase = "bisect" /\ TooFar
  /\ IF test(middle)
     THEN lb' = middle + 1 /\ ub' = ub
     ELSE ub' = middle /\ lb' = lb
  /\ UNCHANGED <<phase, request, poolSize, fits>>

Report ==
  /\ phase = "bisect" /\ ~TooFar
  /\ phase' = "report"
  /\ UNCHANGED <<request, poolSize, fits, lb, ub>>

Next ==
  \/ NoEnvironment \/ ReadEnvironment \/ CreatePool \/ CreateFails
  \/ GiveUp \/ Double \/ FirstFailure \/ Narrow \/ Report

Spec == Init /\ [][Next]_vars

FairSpec == Spec /\ WF_vars(Next)

-----------------------------------------------------------------------------
(* Properties *)

Phases == {"start", "create", "double", "bisect", "report", "nolimit", "failed"}
Searching == phase \in {"double", "bisect", "report", "nolimit"}

\* Type invariant.
TypeOK ==
  /\ phase \in Phases
  /\ request \in Requests \cup {Unset}
  /\ poolSize \in Nat
  /\ fits \subseteq Nat \ {0}
  /\ lb \in Nat \ {0} /\ ub \in Nat \ {0}

\* The bisection never loses the boundary it looks for: the upper bound has
\* been seen to fail, the size below the lower bound to succeed, and the two
\* never cross, although lb moves past the middle and sizes are rounded down
\* (pool_overhead.cpp:56-64).
Bracketed ==
  phase \in {"bisect", "report"} =>
    /\ lb <= ub
    /\ ~test(ub)
    /\ lb = 1 \/ test(lb - 1)

\* If the pool allocates exactly the sizes up to some capacity, the printed
\* estimate lb is within the announced tolerance of it: never below it by
\* more than lb/1000, and above it by one byte at most (line 66).
EstimateTight ==
  phase = "report" =>
    \A capacity \in 0 .. poolSize :
      fits = 1 .. capacity =>
        lb - 1 <= capacity /\ capacity < lb + 1 + lb \div Tolerance

\* poolSize - lb on line 67 is an unsigned subtraction: it must not wrap.
NoWrap == phase = "report" => lb <= poolSize

\* Every trial of the bisection discards some size, and the interval only
\* shrinks: the loop cannot run forever on rounding.
Shrinks ==
  [][phase = "bisect" /\ phase' = "bisect" =>
       lb <= lb' /\ ub' <= ub /\ ub' - lb' < ub - lb]_vars

\* The tool always comes to an end.
Terminates == <>(phase \in {"report", "nolimit", "failed"})

=============================================================================
