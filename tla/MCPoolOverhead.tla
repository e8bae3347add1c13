--------------------------- MODULE MCPoolOverhead ---------------------------
EXTENDS PoolOverhead

\* With an int of 5 bits: small numbers are read as they are, 20 is read as a
\* negative number and 43 loses its high bits.
MCRequests == {0, 1, 3, 9, 12, 20, 43}

=============================================================================
