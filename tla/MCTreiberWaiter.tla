--------------------------- MODULE MCTreiberWaiter ---------------------------
EXTENDS TreiberWaiter, TLC

Symmetry == Permutations(Callers) \cup Permutations(Nodes)
=============================================================================
