--------------------------- MODULE MCSelfUpdate ----------------------------
EXTENDS SelfUpdate
CONSTANTS v0, v1, v2
=============================================================================
