--------------------------- MODULE MCJobDispatch ---------------------------
EXTENDS JobDispatch
CONSTANTS s1, p1, d1, d2
=============================================================================
