----------------------------- MODULE MCTestSuite -----------------------------
EXTENDS TestSuite

\* SafePM, upstream PMDK, and each library that lacks one protection.
MCLibraries == {Features, {}} \cup {Features \ {f} : f \in Features}

\* SafePM and upstream PMDK.
MCBothLibraries == {Features, {}}

=============================================================================
