--------------------------- MODULE MCPmemkvBench ---------------------------
EXTENDS PmemkvBench

\* All sections of all scripts.
MCSections ==
  {fill_keysize, fill_valuesize, fill_threads, read, delete, randomreadwrite,
   numops_old, numops_new}

=============================================================================
