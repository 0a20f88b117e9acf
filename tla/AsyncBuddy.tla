----------------------------- MODULE AsyncBuddy -----------------------------
(***************************************************************************)
(* AsyncBuddyArena (async_alloc.rs): BuddyWaiters over an arena.  A retry  *)
(* succeeds if a block is there and fails if none is, and wakes come from  *)
(* releases and from nowhere else.  allocate and the publishing of a       *)
(* released block are a step each: how they interleave is BuddyArena's.    *)
(* No future is dropped while it waits.                                    *)
(***************************************************************************)
EXTENDS BuddyWaiters

VARIABLES
  free,      \* the free blocks
  bufs,      \* the blocks of live buffers
  got       \* got[t]: the buffer that t's call is about to return

arena == <<free, bufs, got>>

AsyncInit ==
  /\ Init
  /\ free = {[order |-> MaxOrder, idx |-> 0]}
  /\ bufs = {}
  /\ got = [t \in Tasks |-> None]

-----------------------------------------------------------------------------
(* BuddyArena, undisturbed *)

(* The free blocks of the lowest order that will do. *)
Fitting(o) ==
  {b \in free : b.order >= o /\ \A c \in free : c.order >= o => b.order <= c.order}

(* split_down: the left block of order o, and the right halves *)
Left(b, o) == [order |-> o, idx |-> b.idx * 2 ^ (b.order - o)]

Rights(b, o) ==
  {[order |-> p, idx |-> b.idx * 2 ^ (b.order - p) + 1] : p \in o .. b.order - 1}

Allocate(b, o) ==
  /\ free' = (free \ {b}) \cup Rights(b, o)
  /\ bufs' = bufs \cup {Left(b, o)}

Around(b, k) == [order |-> b.order + k, idx |-> b.idx \div 2 ^ k]

Buddy(b) == [b EXCEPT !.idx = IF b.idx % 2 = 0 THEN b.idx + 1 ELSE b.idx - 1]

(* release_block: as long as the buddy is free, it is merged. *)
Merged(b) ==
  Around(b, CHOOSE k \in 0 .. MaxOrder - b.order :
              /\ \A j \in 0 .. k - 1 : Buddy(Around(b, j)) \in free
              /\ Buddy(Around(b, k)) \notin free)

MergedWith(b) == {Buddy(Around(b, j)) : j \in 0 .. Merged(b).order - b.order - 1}

-----------------------------------------------------------------------------
TryTakes(t) ==
  /\ pc[t] = "try"
  /\ \E b \in Fitting(order[t]) :
       /\ Allocate(b, order[t])
       /\ got' = [got EXCEPT ![t] = Left(b, order[t])]
  /\ Goto(t, "revoke")
  /\ UNCHANGED <<shared, state, tx, order, entry, wakers>>

TryFails(t) ==
  /\ pc[t] = "try"
  /\ Fitting(order[t]) = {}
  /\ Goto(t, "await")
  /\ UNCHANGED <<shared, state, tx, order, entry, wakers, arena>>

(* Mutant: the wake is for the order of the block that was released, not   *)
(* of the block it was merged into.                                        *)
ReleaseUnmerged(w, b) ==
  /\ b \in bufs
  /\ \A t \in Tasks : got[t] # b
  /\ bufs' = bufs \ {b}
  /\ free' = (free \ MergedWith(b)) \cup {Merged(b)}
  /\ Wake(w, b.order)
  /\ UNCHANGED got

(* A Buffer is dropped: release_block publishes the block, and wakes. *)
Release(w, b) ==
  /\ b \in bufs
  /\ \A t \in Tasks : got[t] # b
  /\ bufs' = bufs \ {b}
  /\ free' = (free \ MergedWith(b)) \cup {Merged(b)}
  /\ Wake(w, Merged(b).order)
  /\ UNCHANGED got

(* The steps that leave the arena alone; with the last, the call returns. *)
Wait(t) ==
  /\ \/ \E o \in Orders : Call(t, o)
     \/ \E e \in Entries : Register(t, e)
     \/ Prepare(t) \/ StoreHead(t) \/ Uncount(t)
     \/ pc[t] = "revoke" /\ (Revoke(t) \/ RevokeTooLate(t))
     \/ Poll(t)
  /\ got' = [got EXCEPT ![t] = IF pc'[t] = "idle" THEN None ELSE @]
  /\ UNCHANGED <<free, bufs>>

AsyncNext ==
  \/ \E t \in Tasks : Wait(t) \/ TryTakes(t) \/ TryFails(t)
  \/ \E w \in Wakers :
       \/ WakerStep(w) /\ UNCHANGED arena
       \/ \E b \in bufs : Release(w, b)

AsyncSpec == AsyncInit /\ [][AsyncNext]_<<vars, arena>>

-----------------------------------------------------------------------------
(* Nothing is under way, no buffer is left, and t sleeps: nobody would     *)
(* ever wake it.                                                           *)
Abandoned(t) ==
  /\ Asleep(t)
  /\ bufs = {}
  /\ \A u \in Tasks : pc[u] = "idle" \/ Asleep(u)
  /\ \A w \in Wakers : wpc[w] = "idle"

(* allocate_async "parks until a large-enough block becomes available": no *)
(* task is left asleep beside an arena that is free altogether.            *)
NobodyAbandoned == \A t \in Tasks : ~ Abandoned(t)

(* Where no two releases overlap and no wake runs out of pops, only one    *)
(* thing leaves a task asleep beside a free arena: the head timestamp of   *)
(* its order hides it from score_orders.                                   *)
OnlyHiddenAbandoned == \A t \in Tasks : Abandoned(t) => ~ head[order[t]]
=============================================================================
