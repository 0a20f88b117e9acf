-------------------------- MODULE SequentialBuddy --------------------------
(***************************************************************************)
(* The buddy arena with a note of whether two calls ever overlapped: what  *)
(* release_block promises to calls that only follow each other, it does    *)
(* not promise to overlapping ones (see Coalesced).                        *)
(***************************************************************************)
EXTENDS BuddyArena

VARIABLE overlapped   \* history: two threads have been inside calls at once

SeqInit == Init /\ overlapped = FALSE

SeqNext ==
  /\ Next
  /\ overlapped' = (overlapped \/ \E t, u \in Threads :
                      t # u /\ pc'[t] # "idle" /\ pc'[u] # "idle")

SeqSpec == SeqInit /\ [][SeqNext]_<<vars, overlapped>>
-----------------------------------------------------------------------------
(* While calls only ever follow each other, whichever threads make them,   *)
(* releases coalesce completely: between calls no two free blocks are      *)
(* buddies.                                                                *)
SequentialCoalesced == ~ overlapped => Coalesced
=============================================================================
