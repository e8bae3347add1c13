------------------------------ MODULE RipeForms ------------------------------
(***************************************************************************)
(* The forms of the RIPE benchmark: the lists ripe_tester.py goes through, *)
(* the options the generator knows (parameters.h), and the test by which   *)
(* the generator rejects a combination before it does anything with it.    *)
(***************************************************************************)
EXTENDS Sequences

\* parameters.h, in its order; the tester leaves out the first two
\* inject_params and orders the last two code_ptrs differently.
opt_techniques == <<"direct", "indirect">>
opt_locations == <<"stack", "heap", "bss", "data">>
opt_code_ptrs ==
  <<"ret", "baseptr", "funcptrstackvar", "funcptrstackparam", "funcptrheap",
    "funcptrbss", "funcptrdata", "longjmpstackvar", "longjmpstackparam",
    "longjmpheap", "longjmpbss", "longjmpdata", "structfuncptrstack",
    "structfuncptrheap", "structfuncptrdata", "structfuncptrbss">>
opt_inject_params == <<"nonop", "simplenop", "simplenopequival", "r2libc", "rop">>
opt_funcs ==
  <<"memcpy", "strcpy", "strncpy", "sprintf", "snprintf", "strcat", "strncat",
    "sscanf", "fscanf", "homebrew">>

LongJmps == {"longjmpstackvar", "longjmpstackparam", "longjmpheap", "longjmpbss", "longjmpdata"}

\* Deviation: structfuncptrbss is missing from the list of the heap.
ElsewhereIncomplete == [
  stack |-> {"funcptrheap", "funcptrbss", "funcptrdata", "longjmpheap", "longjmpbss",
             "longjmpdata", "structfuncptrheap", "structfuncptrdata", "structfuncptrbss"},
  heap  |-> {"ret", "baseptr", "funcptrstackvar", "funcptrstackparam", "funcptrbss",
             "funcptrdata", "longjmpstackvar", "longjmpstackparam", "longjmpbss",
             "longjmpdata", "structfuncptrdata", "structfuncptrstack"},
  bss   |-> {"ret", "baseptr", "funcptrstackvar", "funcptrstackparam", "funcptrheap",
             "funcptrdata", "longjmpstackvar", "longjmpstackparam", "longjmpheap",
             "longjmpdata", "structfuncptrdata", "structfuncptrstack", "structfuncptrheap"},
  data  |-> {"ret", "baseptr", "funcptrstackvar", "funcptrstackparam", "funcptrheap",
             "funcptrbss", "longjmpstackvar", "longjmpstackparam", "longjmpheap",
             "longjmpbss", "structfuncptrstack", "structfuncptrheap", "structfuncptrbss"}]

\* For each place of the buffer, the code pointers the generator lists as
\* being in another segment.
Elsewhere == [
  stack |-> {"funcptrheap", "funcptrbss", "funcptrdata", "longjmpheap", "longjmpbss",
             "longjmpdata", "structfuncptrheap", "structfuncptrdata", "structfuncptrbss"},
  heap  |-> {"ret", "baseptr", "funcptrstackvar", "funcptrstackparam", "funcptrbss",
             "funcptrdata", "longjmpstackvar", "longjmpstackparam", "longjmpbss",
             "longjmpdata", "structfuncptrdata", "structfuncptrstack", "structfuncptrbss"},
  bss   |-> {"ret", "baseptr", "funcptrstackvar", "funcptrstackparam", "funcptrheap",
             "funcptrdata", "longjmpstackvar", "longjmpstackparam", "longjmpheap",
             "longjmpdata", "structfuncptrdata", "structfuncptrstack", "structfuncptrheap"},
  data  |-> {"ret", "baseptr", "funcptrstackvar", "funcptrstackparam", "funcptrheap",
             "funcptrbss", "longjmpstackvar", "longjmpstackparam", "longjmpheap",
             "longjmpbss", "structfuncptrstack", "structfuncptrheap", "structfuncptrbss"}]

InOtherSegment(form) ==
  form.technique = "direct" /\ form.code_ptr \in Elsewhere[form.location]

NoParameter(form) ==
  /\ form.inject_param = "r2libc" /\ form.technique = "indirect"
  /\ form.code_ptr \in {"ret"} \cup LongJmps

StringFunctionStops(form) ==
  /\ form.function \notin {"memcpy", "homebrew"}
  /\ \/ form.code_ptr = "baseptr"
     \/ /\ form.technique = "direct" /\ form.code_ptr = "ret"
        /\ form.inject_param \in {"rop", "r2libc"}

NoGadget(form) ==
  /\ form.inject_param = "rop"
  /\ \/ form.technique = "direct" /\ form.code_ptr \notin {"ret", "baseptr"} \cup LongJmps
     \/ form.technique = "indirect" /\ form.code_ptr # "baseptr"

is_attack_possible(form) ==
  /\ form.location \in DOMAIN Elsewhere
  /\ ~InOtherSegment(form)
  /\ ~NoParameter(form)
  /\ ~StringFunctionStops(form)
  /\ ~NoGadget(form)

=============================================================================
