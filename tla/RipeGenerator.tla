---------------------------- MODULE RipeGenerator ----------------------------
(***************************************************************************)
(* main of the two form generators, attack_gen_pmemobj_heap.c and          *)
(* attack_gen_system_heap.c, up to the point where a form is accepted or   *)
(* rejected: the one creates the pool that stands in for the heap, the     *)
(* other has the heap of the system; the options are read one by one, and  *)
(* is_attack_possible decides.  What an accepted form does is not          *)
(* modelled.                                                               *)
(***************************************************************************)
EXTENDS RipeForms, Integers, SequencesExt

CONSTANT Unknown     \* an option value that is in none of the lists

ASSUME UnknownAssumption ==
  /\ Unknown # "zero"
  /\ \A list \in {opt_techniques, opt_locations, opt_code_ptrs, opt_inject_params, opt_funcs} :
       Unknown \notin ToSet(list)

VARIABLES heap,      \* which generator: "pmemobj" or "system"
          args,      \* the values of the options, in the tester's order
          opt,       \* the next option
          attack,    \* the form read so far
          outcome    \* "none", "abort", "error", "impossible" or "perform"

vars == <<heap, args, opt, attack, outcome>>

Options == <<"technique", "location", "code_ptr", "inject_param", "function">>

\* The value of a field that no option has set.
Zero == "zero"

Lists == [technique |-> opt_techniques, location |-> opt_locations,
          code_ptr |-> opt_code_ptrs, inject_param |-> opt_inject_params,
          function |-> opt_funcs]

Values(field) == ToSet(Lists[field]) \cup {Unknown}

Init ==
  /\ heap \in {"pmemobj", "system"}
  /\ args \in [technique : Values("technique"), location : Values("location"),
               code_ptr : Values("code_ptr"), inject_param : Values("inject_param"),
               function : Values("function")]
  /\ opt = 0
  /\ attack = [f \in ToSet(Options) |-> Zero]
  /\ outcome = "none"

\* The old pool is unlinked; without a new one, or its first object, the
\* process aborts.
init_pool ==
  /\ heap = "pmemobj" /\ outcome = "none" /\ opt = 0
  /\ \/ opt' = 1 /\ UNCHANGED outcome
     \/ outcome' = "abort" /\ UNCHANGED opt
  /\ UNCHANGED <<heap, args, attack>>

\* The generator of the system heap has no pool, but prints a buffer if a byte
\* of it that was never written has a certain value; it has no terminating zero,
\* so that the print may end the process.
main_dummy_buffer ==
  /\ heap = "system" /\ outcome = "none" /\ opt = 0
  /\ \/ opt' = 1 /\ UNCHANGED outcome
     \/ outcome' = "abort" /\ UNCHANGED opt
  /\ UNCHANGED <<heap, args, attack>>

\* Deviations: an option sets the field of the next one; every unknown value
\* is ignored.
SetOptionNextField ==
  /\ outcome = "none" /\ opt \in 1 .. Len(Options)
  /\ attack' = [attack EXCEPT ![Options[(opt % Len(Options)) + 1]] = args[Options[opt]]]
  /\ opt' = opt + 1 /\ UNCHANGED <<heap, args, outcome>>

SetOptionForgiving ==
  /\ outcome = "none" /\ opt \in 1 .. Len(Options)
  /\ LET field == Options[opt] IN
     attack' = IF args[field] = Unknown THEN attack
               ELSE [attack EXCEPT ![field] = args[field]]
  /\ opt' = opt + 1 /\ UNCHANGED <<heap, args, outcome>>

\* The functions set_... : an unknown value ends the process, except that of
\* the technique, which is reported and otherwise ignored.
SetOption ==
  /\ outcome = "none" /\ opt \in 1 .. Len(Options)
  /\ LET field == Options[opt] IN
     \/ /\ args[field] # Unknown
        /\ attack' = [attack EXCEPT ![field] = args[field]]
        /\ opt' = opt + 1 /\ UNCHANGED outcome
     \/ /\ args[field] = Unknown /\ field = "technique"
        /\ opt' = opt + 1 /\ UNCHANGED <<attack, outcome>>
     \/ /\ args[field] = Unknown /\ field # "technique"
        /\ outcome' = "error" /\ UNCHANGED <<attack, opt>>
  /\ UNCHANGED <<heap, args>>

Check ==
  /\ outcome = "none" /\ opt > Len(Options)
  /\ outcome' = IF is_attack_possible(attack) THEN "perform" ELSE "impossible"
  /\ UNCHANGED <<heap, args, opt, attack>>

Next == init_pool \/ main_dummy_buffer \/ SetOption \/ Check

Spec == Init /\ [][Next]_vars

-----------------------------------------------------------------------------
(* Properties *)

\* The segment a code pointer lies in (parameters.h:53-60, by their names).
SegmentOf(ptr) ==
  IF ptr \in {"funcptrheap", "longjmpheap", "structfuncptrheap"} THEN "heap"
  ELSE IF ptr \in {"funcptrbss", "longjmpbss", "structfuncptrbss"} THEN "bss"
  ELSE IF ptr \in {"funcptrdata", "longjmpdata", "structfuncptrdata"} THEN "data"
  ELSE "stack"

\* Type invariant.
TypeOK ==
  /\ heap \in {"pmemobj", "system"}
  /\ opt \in 0 .. Len(Options) + 1
  /\ outcome \in {"none", "abort", "error", "impossible", "perform"}
  /\ \A f \in ToSet(Options) : attack[f] \in Values(f) \cup {Zero}

\* The four hand-written lists of is_attack_possible are complete and no
\* longer than that: a direct form is rejected as one of another segment
\* exactly if its pointer is in another segment than its buffer.
SegmentsListedRight ==
  opt > Len(Options) /\ attack.location # Zero =>
    (InOtherSegment(attack) <=>
       attack.technique = "direct" /\ SegmentOf(attack.code_ptr) # attack.location)

\* A form is only performed as it was asked for, when its technique is known.
PerformsWhatWasAsked ==
  outcome = "perform" /\ args.technique # Unknown => attack = args

=============================================================================
