---------------------------- MODULE MCBuddyArena ----------------------------
(***************************************************************************)
(* SequentialBuddy for TLC.                                                *)
(***************************************************************************)
EXTENDS SequentialBuddy, TLC

MCWidth == [o \in Orders |-> 2 ^ o]

Symmetry == Permutations(Threads)
=============================================================================
