--------------------------- MODULE MCBuddyWaiters ---------------------------
(***************************************************************************)
(* BuddyWaiters for TLC.                                                   *)
(***************************************************************************)
EXTENDS BuddyWaiters, TLC

Symmetry == Permutations(Tasks) \cup Permutations(Entries) \cup Permutations(Wakers)
=============================================================================
