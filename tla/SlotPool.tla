------------------------------ MODULE SlotPool ------------------------------
(***************************************************************************)
(* What an allocator of numbered slots promises its callers, with every    *)
(* call taking effect at one instant between its start and its return:     *)
(* a successful call takes a slot that is free at that instant, a failed   *)
(* call has lived through an instant when no slot was free, and a freed    *)
(* slot is available at once.  AtomicBitmap is compared with this specification.   *)
(***************************************************************************)

CONSTANTS
  Threads,     \* the threads that call the allocator
  Slots        \* the slot indices

VARIABLES
  free,        \* the slots nobody holds
  held,        \* held[t]: the slots handed to t and not yet given back
  calling,     \* the threads inside an allocation call
  full         \* those of them whose call has seen an instant with free = {}

vars == <<free, held, calling, full>>

Init ==
  /\ free = Slots
  /\ held = [t \in Threads |-> {}]
  /\ calling = {}
  /\ full = {}

(* Every step notes the calls that live through an instant with no free slot. *)
NoteFull == full' = IF free' = {} THEN calling' ELSE full \cap calling'

(* A thread enters the allocator. *)
Call(t) ==
  /\ t \notin calling
  /\ calling' = calling \cup {t}
  /\ UNCHANGED <<free, held>>
  /\ NoteFull

(* The call takes a free slot. *)
Grant(t, s) ==
  /\ t \in calling
  /\ s \in free
  /\ free' = free \ {s}
  /\ held' = [held EXCEPT ![t] = @ \cup {s}]
  /\ calling' = calling \ {t}
  /\ NoteFull

(* The call reports that every slot is taken: it was so at some instant     *)
(* since the call began.                                                    *)
Refuse(t) ==
  /\ t \in full
  /\ calling' = calling \ {t}
  /\ UNCHANGED <<free, held>>
  /\ NoteFull

(* A particular slot is taken if it is free; otherwise nothing happens. *)
GrantExact(t, s) ==
  /\ t \notin calling
  /\ s \in free
  /\ free' = free \ {s}
  /\ held' = [held EXCEPT ![t] = @ \cup {s}]
  /\ UNCHANGED calling
  /\ NoteFull

(* A slot handed to u comes back. *)
GiveBack(u, s) ==
  /\ s \in held[u]
  /\ free' = free \cup {s}
  /\ held' = [held EXCEPT ![u] = @ \ {s}]
  /\ UNCHANGED calling
  /\ NoteFull

Next ==
  \E t \in Threads :
    \/ Call(t)
    \/ Refuse(t)
    \/ \E s \in Slots : Grant(t, s) \/ GrantExact(t, s) \/ GiveBack(t, s)

Spec == Init /\ [][Next]_vars
=============================================================================
