---------------------------- MODULE MCGroundwork ----------------------------
(***************************************************************************)
(* What every arena stands on, one part at a time: its bitmaps, and the    *)
(* sizes and the memory it is built from.                                  *)
(***************************************************************************)
EXTENDS BitmapUses, MCConstruction, TLC

VARIABLE part   \* which of the two runs

uses == <<use, vars, zeroed>>

MCInit ==
  /\ part \in {"bitmaps", "construction"}
  /\ UsesInit
  /\ ConstructionInit
  /\ part = "construction" => use = "slots" /\ marked = {}

(* There is no arena, or no arena any more. *)
Ended ==
  /\ stage \in {"failed", "hung", "dropped"}
  /\ UNCHANGED construction

MCNext ==
  \/ part = "bitmaps" /\ UsesNext /\ UNCHANGED <<part, construction>>
  \/ part = "construction" /\ (ConstructionNext \/ Ended) /\ UNCHANGED <<part, uses>>

MCSpec == MCInit /\ [][MCNext]_<<part, uses, construction>>

Symmetry == Permutations(Threads) \cup Permutations(Owners)
=============================================================================
