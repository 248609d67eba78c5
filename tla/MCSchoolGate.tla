---------------------------- MODULE MCSchoolGate ----------------------------
\* SchoolGate on a small instance: copies live one tick, an answer takes up to one.
EXTENDS SchoolGate, TLC

CONSTANTS p1, p2, q1, q2

Symmetry == Permutations({p1, p2}) \cup Permutations({q1, q2})
=============================================================================
