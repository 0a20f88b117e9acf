--------------------------- MODULE MCFixedWaiters ---------------------------
EXTENDS FixedWaiters, TLC

Symmetry == Permutations(Tasks)
=============================================================================
