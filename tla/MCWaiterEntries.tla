--------------------------- MODULE MCWaiterEntries ---------------------------
(***************************************************************************)
(* Both lists of entries LIVE, WOKEN or REVOKED over which wakes and       *)
(* registrations compete: the queues of BuddyWaiters, and the stack of     *)
(* TreiberWaiter.  The queues also stand over an arena, with more pops to  *)
(* a wake than there are entries.                                          *)
(***************************************************************************)
EXTENDS BuddyWaiters, TreiberWaiter, TLC

VARIABLES list, free, bufs, got

arena == <<free, bufs, got>>

Arena == INSTANCE AsyncBuddy WITH MaxPops <- Cardinality(Entries) + 1

MCInit ==
  /\ list \in {"queues", "queues of an arena", "stack"}
  /\ Arena!AsyncInit
  /\ StackInit
  /\ list # "stack" => flavor = "multi_thread"

(* The bound on the entries is reached, or somebody is abandoned. *)
Stopped ==
  /\ (\A e \in Entries : ~ Unused(e)) \/ (\E t \in Tasks : Arena!Abandoned(t))
  /\ UNCHANGED <<vars, arena>>

MCNext ==
  \/ list = "queues" /\ Next /\ UNCHANGED <<list, arena, treiber>>
  \/ list = "queues of an arena" /\ (Arena!AsyncNext \/ Stopped) /\ UNCHANGED <<list, treiber>>
  \/ list = "stack" /\ StackNext /\ UNCHANGED <<list, vars, arena>>

MCSpec == MCInit /\ [][MCNext]_<<list, vars, arena, treiber>>

Symmetry == Permutations(Tasks) \cup Permutations(Entries)

(* Without overlapping releases and with pops to spare, nobody is left     *)
(* asleep beside a free arena unless the head timestamp hides them.  See   *)
(* AsyncBuddy.                                                             *)
OnlyHiddenAbandoned == list = "queues of an arena" => Arena!OnlyHiddenAbandoned
=============================================================================
