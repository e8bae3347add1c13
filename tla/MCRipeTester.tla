---------------------------- MODULE MCRipeTester ----------------------------
EXTENDS RipeTester

MCForm(t, c) == [technique |-> t, location |-> "heap", code_ptr |-> c,
                 inject_param |-> "r2libc", function |-> "memcpy"]

\* Two forms the generator accepts around one it rejects.
MCForms == <<MCForm("direct", "funcptrheap"), MCForm("direct", "ret"),
             MCForm("indirect", "funcptrheap")>>

MCCompilers == <<"gcc", "clang">>

=============================================================================
