--------------------------- MODULE MCSecondFactor ---------------------------
\* SecondFactor on a small instance: two overlapping requests.
EXTENDS SecondFactor, TLC

CONSTANTS r1, r2

Symmetry == Permutations({r1, r2})
=============================================================================
