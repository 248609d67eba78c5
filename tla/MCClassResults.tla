-------------------------- MODULE MCClassResults --------------------------
\* ClassResults on small instances: two subjects, two pupils who stay and one who moves.
EXTENDS ClassResults, TLC

CONSTANTS p1, p2, p3, x1, x2, w1, w2

Symmetry == Permutations({w1, w2}) \cup Permutations({x1, x2})
=============================================================================
