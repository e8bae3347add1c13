---------------------------- MODULE ResultArchive ----------------------------
(***************************************************************************)
(* What the import scripts promise of the results they have taken over:    *)
(* for each library there is a log of them.  Results come and go where the *)
(* benchmarks put them; an import adds what is there at that moment to the *)
(* end of the log of its library; and only all logs together are ever      *)
(* emptied.  In the code the log is a set of numbered files and one file   *)
(* without a number, which is renamed before it is replaced                *)
(* (import_pmembench.sh:25-39).                                            *)
(***************************************************************************)
EXTENDS Sequences

CONSTANT NoFile      \* where a library has no result

VARIABLES results,   \* library -> what the benchmarks last put there
          log        \* library -> the results that were imported

Empty == [lib \in DOMAIN log |-> <<>>]

Init == log = Empty

\* The benchmarks run.
Produce == UNCHANGED log

Import(lib) ==
  /\ results[lib] # NoFile
  /\ log' = [log EXCEPT ![lib] = Append(@, results[lib])]
  /\ UNCHANGED results

Remove == log' = Empty /\ UNCHANGED results

Next == Produce \/ Remove \/ \E lib \in DOMAIN log : Import(lib)

Spec == Init /\ [][Next]_<<results, log>>

=============================================================================
