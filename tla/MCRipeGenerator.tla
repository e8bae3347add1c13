--------------------------- MODULE MCRipeGenerator ---------------------------
EXTENDS RipeGenerator

=============================================================================
