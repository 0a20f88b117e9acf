----------------------------- MODULE RegionPool -----------------------------
(***************************************************************************)
(* What an arena promises the owners of its buffers: the regions handed    *)
(* out and not yet given back never share a byte.  How the arena finds a   *)
(* region, and which one, is left open.                                    *)
(***************************************************************************)
CONSTANTS
  Owners,      \* those who may have a region
  Extents      \* the regions that can be handed out, as sets of units

VARIABLE region      \* region[o]: the region o has, {} when it has none

Init == region = [o \in Owners |-> {}]

HandOut(o) ==
  /\ region[o] = {}
  /\ region'[o] \in Extents
  /\ region' = [region EXCEPT ![o] = region'[o]]
  /\ \A p \in Owners : region'[o] \cap region[p] = {}

GiveBack(o) ==
  /\ region[o] # {}
  /\ region' = [region EXCEPT ![o] = {}]

Next == \E o \in Owners : HandOut(o) \/ GiveBack(o)

Spec == Init /\ [][Next]_region
=============================================================================
