------------------------- MODULE MCBitemporalStore -------------------------
EXTENDS BitemporalStore, TLC
CONSTANTS k1, k2, a, b, w1, w2

\* Keys, payloads and writers are each alike.
Symmetry == Permutations({k1, k2}) \cup Permutations({a, b}) \cup Permutations({w1, w2})
=============================================================================
