------------------------------ MODULE MCPoolUse ------------------------------
EXTENDS PoolUse

\* A whole granule, a granule and a half, and the two words of struct dummy.
MCSizes == {8, 12, 16}

=============================================================================
