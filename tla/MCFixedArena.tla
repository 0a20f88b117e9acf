---------------------------- MODULE MCFixedArena ----------------------------
(***************************************************************************)
(* FixedArena for TLC, and beside it the counters that such lives leave    *)
(* behind, of either arena.                                                *)
(***************************************************************************)
EXTENDS FixedArena, Metrics, TLC

VARIABLE part   \* which of the two runs

MCInit ==
  /\ part \in {"lives", "counters"}
  /\ Init
  /\ MetricsInit
  /\ part = "lives" => kind = "fixed"

MCNext ==
  \/ part = "lives" /\ Next /\ UNCHANGED <<part, counters>>
  \/ part = "counters" /\ MetricsNext /\ UNCHANGED <<part, vars>>

MCSpec == MCInit /\ [][MCNext]_<<part, vars, counters>>

Symmetry == Permutations(Owners) \cup Permutations(Slots) \cup Permutations(Clients)
=============================================================================
