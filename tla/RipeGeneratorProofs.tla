------------------------- MODULE RipeGeneratorProofs -------------------------
(***************************************************************************)
(* The form generators: whatever options they are given, an accepted form  *)
(* is the one asked for, and the lists of segments are complete.           *)
(***************************************************************************)
EXTENDS RipeGenerator, TLAPS

Fields == {"technique", "location", "code_ptr", "inject_param", "function"}
Known(field) == ToSet(Lists[field])

\* An option that was read has its field set, but for an unknown technique.
SetAsAsked(field) ==
  attack[field] = args[field] \/ (field = "technique" /\ args[field] = Unknown)

\* The inductive invariant: what was read is set, as it was asked for.
IInv ==
  /\ heap \in {"pmemobj", "system"}
  /\ outcome \in {"none", "abort", "error", "impossible", "perform"}
  /\ args = [f \in Fields |-> args[f]] /\ \A f \in Fields : args[f] \in Known(f) \cup {Unknown}
  /\ attack = [f \in Fields |-> attack[f]] /\ \A f \in Fields : attack[f] \in Known(f) \cup {Zero}
  /\ opt \in 0 .. 6
  /\ \A i \in 1 .. 5 : i < opt => SetAsAsked(Options[i])
  /\ outcome = "perform" => opt = 6

-----------------------------------------------------------------------------
(* The options *)

LEMMA OptionFacts ==
  /\ Len(Options) = 5 /\ ToSet(Options) = Fields
  /\ Options[1] = "technique" /\ Options[2] = "location" /\ Options[3] = "code_ptr"
  /\ Options[4] = "inject_param" /\ Options[5] = "function"
  /\ \A i \in 1 .. 5 : Options[i] \in Fields
  /\ \A i, j \in 1 .. 5 : Options[i] = Options[j] => i = j
<1>1. /\ Len(Options) = 5 /\ DOMAIN Options = 1 .. 5
      /\ Options[1] = "technique" /\ Options[2] = "location" /\ Options[3] = "code_ptr"
      /\ Options[4] = "inject_param" /\ Options[5] = "function"
  BY DEF Options
<1>2. \A i \in 1 .. 5 : i = 1 \/ i = 2 \/ i = 3 \/ i = 4 \/ i = 5
  OBVIOUS
<1>3. \A i \in 1 .. 5 : Options[i] \in Fields
  BY <1>1, <1>2 DEF Fields
<1>4. \A i, j \in 1 .. 5 : Options[i] = Options[j] => i = j
  BY <1>1, <1>2
<1>5. ToSet(Options) = Fields
  <2>1. \A f \in Fields : \E i \in 1 .. 5 : f = Options[i]
    BY <1>1 DEF Fields
  <2> QED
    BY <1>1, <1>3, <2>1 DEF ToSet
<1> QED
  BY <1>1, <1>3, <1>4, <1>5

LEMMA ListFacts ==
  /\ Known("location") = {"stack", "heap", "bss", "data"}
  /\ Known("code_ptr") =
       {"ret", "baseptr", "funcptrstackvar", "funcptrstackparam", "funcptrheap", "funcptrbss",
        "funcptrdata", "longjmpstackvar", "longjmpstackparam", "longjmpheap", "longjmpbss",
        "longjmpdata", "structfuncptrstack", "structfuncptrheap", "structfuncptrdata",
        "structfuncptrbss"}
  /\ "direct" \in Known("technique") /\ "indirect" \in Known("technique")
  /\ \A f \in Fields : Unknown \notin Known(f)
  /\ Unknown # Zero
<1>1. Known("location") = {"stack", "heap", "bss", "data"}
  BY DEF Known, Lists, opt_locations, ToSet
<1>2. Known("code_ptr") =
       {"ret", "baseptr", "funcptrstackvar", "funcptrstackparam", "funcptrheap", "funcptrbss",
        "funcptrdata", "longjmpstackvar", "longjmpstackparam", "longjmpheap", "longjmpbss",
        "longjmpdata", "structfuncptrstack", "structfuncptrheap", "structfuncptrdata",
        "structfuncptrbss"}
  BY DEF Known, Lists, opt_code_ptrs, ToSet
<1>3. "direct" \in Known("technique") /\ "indirect" \in Known("technique")
  BY DEF Known, Lists, opt_techniques, ToSet
<1>4. \A f \in Fields : Unknown \notin Known(f)
  <2>1. /\ Known("technique") = ToSet(opt_techniques) /\ Known("location") = ToSet(opt_locations)
        /\ Known("code_ptr") = ToSet(opt_code_ptrs)
        /\ Known("inject_param") = ToSet(opt_inject_params) /\ Known("function") = ToSet(opt_funcs)
    BY DEF Known, Lists
  <2>2. \A list \in {opt_techniques, opt_locations, opt_code_ptrs, opt_inject_params, opt_funcs} :
          Unknown \notin ToSet(list)
    BY UnknownAssumption
  <2> QED
    BY <2>1, <2>2 DEF Fields
<1>5. Unknown # Zero
  BY UnknownAssumption DEF Zero
<1> QED
  BY <1>1, <1>2, <1>3, <1>4, <1>5

\* The segments of the pointers against the four lists.
LEMMA SegmentLists ==
  ASSUME NEW p \in Known("code_ptr"), NEW l \in Known("location")
  PROVE  p \in Elsewhere[l] <=> SegmentOf(p) # l
<1>1. CASE l = "stack"
  BY <1>1, ListFacts DEF Elsewhere, SegmentOf
<1>2. CASE l = "heap"
  BY <1>2, ListFacts DEF Elsewhere, SegmentOf
<1>3. CASE l = "bss"
  BY <1>3, ListFacts DEF Elsewhere, SegmentOf
<1>4. CASE l = "data"
  BY <1>4, ListFacts DEF Elsewhere, SegmentOf
<1> QED
  BY <1>1, <1>2, <1>3, <1>4, ListFacts

-----------------------------------------------------------------------------
(* The invariant *)

THEOREM InitHolds == Init => IInv
<1> SUFFICES ASSUME Init PROVE IInv
  OBVIOUS
<1>1. args = [f \in Fields |-> args[f]] /\ \A f \in Fields : args[f] \in Known(f) \cup {Unknown}
  <2>1. args \in [technique : Values("technique"), location : Values("location"),
                  code_ptr : Values("code_ptr"), inject_param : Values("inject_param"),
                  function : Values("function")]
    BY DEF Init
  <2>2. args = [f \in Fields |-> args[f]]
    BY <2>1 DEF Fields
  <2>3. \A f \in Fields : args[f] \in Values(f)
    BY <2>1 DEF Fields
  <2> QED
    BY <2>2, <2>3 DEF Values, Known
<1>2. attack = [f \in Fields |-> Zero] /\ opt = 0 /\ outcome = "none" /\ heap \in {"pmemobj", "system"}
  BY OptionFacts DEF Init
<1> QED
  BY <1>1, <1>2 DEF IInv

\* Steps that set no field.
LEMMA FormKept ==
  ASSUME IInv, UNCHANGED <<heap, args, attack>>, opt' \in {opt, opt + 1}, opt' \in 0 .. 6,
         opt' = opt + 1 /\ opt \in 1 .. 5 => SetAsAsked(Options[opt]),
         outcome' \in {"none", "abort", "error", "impossible", "perform"},
         outcome' = "perform" => opt' = 6
  PROVE  IInv'
<1>1. \A i \in 1 .. 5 : i < opt' => SetAsAsked(Options[i])
  <2>1. \A i \in 1 .. 5 : i < opt' => i < opt \/ (i = opt /\ opt' = opt + 1)
    BY DEF IInv
  <2> QED
    BY <2>1 DEF IInv
<1>2. \A i \in 1 .. 5 : i < opt' => SetAsAsked(Options[i])'
  BY <1>1 DEF SetAsAsked
<1> QED
  BY <1>2 DEF IInv, Known

LEMMA SetOptionStep == IInv /\ SetOption => IInv'
<1> SUFFICES ASSUME IInv, SetOption PROVE IInv'
  OBVIOUS
<1>1. /\ outcome = "none" /\ opt \in 1 .. 5 /\ UNCHANGED <<heap, args>> /\ Options[opt] \in Fields
  BY OptionFacts DEF SetOption
<1>2. PICK field : field = Options[opt] /\ field \in Fields
  BY <1>1
<1>3. CASE args[field] # Unknown /\ attack' = [attack EXCEPT ![field] = args[field]]
           /\ opt' = opt + 1 /\ outcome' = outcome
  <2>1. attack' = [f \in Fields |-> IF f = field THEN args[field] ELSE attack[f]]
    BY <1>3 DEF IInv
  <2>2. args[field] \in Known(field)
    BY <1>2, <1>3 DEF IInv
  <2>3. /\ attack' = [f \in Fields |-> attack'[f]]
        /\ \A f \in Fields : attack'[f] \in Known(f) \cup {Zero}
    <3>1. \A f \in Fields : attack'[f] = IF f = field THEN args[field] ELSE attack[f]
      BY <2>1
    <3> QED
      BY <2>1, <2>2, <3>1 DEF IInv
  <2>4. \A i \in 1 .. 5 : i < opt' => SetAsAsked(Options[i])'
    <3> SUFFICES ASSUME NEW i \in 1 .. 5, i < opt' PROVE SetAsAsked(Options[i])'
      OBVIOUS
    <3>1. i < opt \/ i = opt
      BY <1>1, <1>3
    <3>2. Options[i] \in Fields /\ (Options[i] = field <=> i = opt)
      BY <1>1, <1>2, OptionFacts
    <3>3. PICK g : g = Options[i]
      OBVIOUS
    <3>4. SetAsAsked(g)'
      <4>1. CASE i = opt
        BY <1>1, <1>2, <2>1, <3>2, <3>3, <4>1 DEF SetAsAsked
      <4>2. CASE i < opt
        <5>1. SetAsAsked(g) /\ g # field /\ g \in Fields
          BY <1>1, <3>2, <3>3, <4>2 DEF IInv
        <5> QED
          BY <1>1, <2>1, <5>1 DEF SetAsAsked
      <4> QED
        BY <3>1, <4>1, <4>2
    <3> QED
      BY <3>3, <3>4 DEF Options
  <2> QED
    BY <1>1, <1>3, <2>3, <2>4 DEF IInv, Known
<1>4. CASE args[field] = Unknown /\ field = "technique" /\ opt' = opt + 1
           /\ UNCHANGED <<attack, outcome>>
  <2>1. SetAsAsked(Options[opt])
    BY <1>2, <1>4 DEF SetAsAsked
  <2> QED
    BY <1>1, <1>4, <2>1, FormKept
<1>5. CASE outcome' = "error" /\ UNCHANGED <<attack, opt>>
  BY <1>1, <1>5, FormKept
<1> QED
  BY <1>2, <1>3, <1>4, <1>5 DEF SetOption

THEOREM StepHolds == IInv /\ [Next]_vars => IInv'
<1> SUFFICES ASSUME IInv, [Next]_vars PROVE IInv'
  OBVIOUS
<1>0. opt \in 0 .. 6
  BY DEF IInv
<1>1. CASE init_pool \/ main_dummy_buffer
  <2>1. /\ UNCHANGED <<heap, args, attack>> /\ opt = 0 /\ outcome = "none"
        /\ opt' \in {0, 1} /\ outcome' \in {"none", "abort"}
    BY <1>1 DEF init_pool, main_dummy_buffer
  <2> QED
    BY <2>1, FormKept
<1>2. CASE Check
  <2>1. /\ UNCHANGED <<heap, args, attack, opt>> /\ opt > 5 /\ outcome' \in {"perform", "impossible"}
    BY <1>2, OptionFacts DEF Check
  <2> QED
    BY <1>0, <2>1, FormKept
<1>3. CASE UNCHANGED vars
  BY <1>0, <1>3, FormKept DEF vars, IInv
<1> QED
  BY <1>1, <1>2, <1>3, SetOptionStep DEF Next

-----------------------------------------------------------------------------
(* The theorems *)

\* The fields of a form are values of their options
\* (attack_gen_pmemobj_heap.c:1333-1451).
THEOREM TypeCorrect == Spec => []TypeOK
<1>1. IInv => TypeOK
  BY OptionFacts DEF IInv, TypeOK, Known, Values
<1> QED
  BY InitHolds, StepHolds, <1>1, PTL DEF Spec

\* The lists of is_attack_possible are those of the segments
\* (attack_gen_pmemobj_heap.c:1456-1540, attack_gen_system_heap.c:1421-1505).
THEOREM SegmentsRight == Spec => []SegmentsListedRight
<1>1. IInv => SegmentsListedRight
  <2> SUFFICES ASSUME IInv, opt > 5, attack.location # Zero
               PROVE  InOtherSegment(attack) <=>
                        attack.technique = "direct" /\ SegmentOf(attack.code_ptr) # attack.location
    BY OptionFacts DEF SegmentsListedRight
  <2>1. attack.location \in Known("location")
    BY DEF IInv, Fields
  <2>2. attack.code_ptr \in Known("code_ptr")
    <3>1. SetAsAsked("code_ptr")
      BY OptionFacts DEF IInv
    <3>2. attack.code_ptr = args.code_ptr
      BY <3>1 DEF SetAsAsked
    <3>3. attack.code_ptr # Unknown
      BY ListFacts DEF IInv, Fields
    <3> QED
      BY <3>2, <3>3 DEF IInv, Fields
  <2> QED
    BY <2>1, <2>2, SegmentLists DEF InOtherSegment
<1> QED
  BY InitHolds, StepHolds, <1>1, PTL DEF Spec

\* A form that is carried out is the one the tester asked for
\* (attack_gen_pmemobj_heap.c:132-171, attack_gen_system_heap.c:96-134).
THEOREM AsAsked == Spec => []PerformsWhatWasAsked
<1>1. IInv => PerformsWhatWasAsked
  <2> SUFFICES ASSUME IInv, outcome = "perform", args.technique # Unknown PROVE attack = args
    BY DEF PerformsWhatWasAsked
  <2>1. \A i \in 1 .. 5 : SetAsAsked(Options[i])
    BY DEF IInv
  <2>2. \A f \in Fields : SetAsAsked(f)
    BY <2>1, OptionFacts DEF Fields
  <2>3. \A f \in Fields : attack[f] = args[f]
    BY <2>2 DEF SetAsAsked
  <2> QED
    BY <2>3 DEF IInv
<1> QED
  BY InitHolds, StepHolds, <1>1, PTL DEF Spec

=============================================================================
