---------------------------- MODULE MCAsyncBuddy ----------------------------
(***************************************************************************)
(* AsyncBuddy for TLC.                                                     *)
(***************************************************************************)
EXTENDS AsyncBuddy, TLC

Symmetry == Permutations(Tasks) \cup Permutations(Entries)
=============================================================================
