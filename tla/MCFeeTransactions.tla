-------------------------- MODULE MCFeeTransactions --------------------------
\* FeeTransactions on a small instance: two overlapping requests on the invoices of a class.
EXTENDS FeeTransactions, TLC

CONSTANTS s1, s2, i1, i2

MCTime == 0..1

Symmetry == Permutations({s1, s2}) \cup Permutations({i1, i2})
=============================================================================
