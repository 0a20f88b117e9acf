---------------------------- MODULE FixedWaiters ----------------------------
(***************************************************************************)
(* Waiting for a slot of a fixed arena: allocate_async, its loop           *)
(* allocate_with_waiter, NotifyRegistration and NotifyWaiters::wake        *)
(* (async_alloc.rs), over tokio's Notify, which is external: a FIFO of     *)
(* futures and one stored permit.                                          *)
(*                                                                         *)
(* One poll of the loop runs from register to await without a pause, but   *)
(* other threads interleave with each of its atomic operations.  A task    *)
(* can be cancelled only where it is parked.  A scan of the bitmap gives   *)
(* what AtomicBitmap guarantees: a slot that is free when it is claimed,   *)
(* or None if no slot was free for the whole of the scan.                  *)
(***************************************************************************)
EXTENDS Integers, FiniteSets, Sequences

CONSTANTS
  Tasks,
  Slots,
  None          \* no slot

ASSUME SlotsAssumption == None \notin Slots

ASSUME TasksAssumption == IsFiniteSet(Tasks)

VARIABLES
  free,      \* bitmap: the free slots
  count,     \* fixed_slot.count: the registered waiters
  permit,    \* Notify: a stored permit
  queue,     \* Notify: the futures in line, by task
  fut,       \* fut[t]: the OwnedNotified of t: "none", "waiting" in line,
             \*   "notified" and out of it, or "done"
  pc,        \* pc[t]: what t does next
  held,      \* held[t]: the slot of the Buffer that t has
  seen       \* seen[t]: the slots free since t's scan of the bitmap began

vars == <<free, count, permit, queue, fut, pc, held, seen>>

notify == <<permit, queue, fut>>

Init ==
  /\ free = Slots
  /\ count = 0
  /\ permit = FALSE
  /\ queue = << >>
  /\ fut = [t \in Tasks |-> "none"]
  /\ pc = [t \in Tasks |-> "idle"]
  /\ held = [t \in Tasks |-> None]
  /\ seen = [t \in Tasks |-> {}]

Goto(t, place) == pc' = [pc EXCEPT ![t] = place]

(* free becomes S; what scans under way can still count on shrinks. *)
SetFree(S) ==
  /\ free' = S
  /\ seen' = [t \in Tasks |-> seen[t] \cap S]

(* The line q without its i-th future. *)
Without(q, i) == SubSeq(q, 1, i - 1) \o SubSeq(q, i + 1, Len(q))

(* notify_one, with the futures f and the line q. *)
NotifyOne(f, q) ==
  IF q = << >>
  THEN permit' = TRUE /\ queue' = q /\ fut' = f
  ELSE UNCHANGED permit /\ queue' = Tail(q) /\ fut' = [f EXCEPT ![Head(q)] = "notified"]

-----------------------------------------------------------------------------
(* allocate_with_waiter *)

(* register: the future is made, and not yet in line. *)
Call(t) ==
  /\ pc[t] = "idle"
  /\ Goto(t, "enable")
  /\ UNCHANGED <<free, count, notify, held, seen>>

(* prepare, first half: enable takes the permit or joins the line. *)
Enable(t) ==
  /\ pc[t] = "enable"
  /\ permit' = FALSE
  /\ IF permit
     THEN UNCHANGED queue /\ fut' = [fut EXCEPT ![t] = "done"]
     ELSE queue' = Append(queue, t) /\ fut' = [fut EXCEPT ![t] = "waiting"]
  /\ Goto(t, "count")
  /\ UNCHANGED <<free, count, held, seen>>

(* prepare, second half; then allocate begins its scan. *)
CountIn(t) ==
  /\ pc[t] = "count"
  /\ count' = count + 1
  /\ seen' = [seen EXCEPT ![t] = free]
  /\ Goto(t, "try")
  /\ UNCHANGED <<free, notify, held>>

Take(t, s) ==
  /\ pc[t] = "try"
  /\ s \in free
  /\ SetFree(free \ {s})
  /\ held' = [held EXCEPT ![t] = s]
  /\ Goto(t, "revoke")
  /\ UNCHANGED <<count, notify>>

(* The scan found nothing: await. *)
Fail(t) ==
  /\ pc[t] = "try"
  /\ seen[t] = {}
  /\ Goto(t, "await")
  /\ UNCHANGED <<free, count, notify, held, seen>>

(* Mutant: the registration goes, its count stays. *)
RevokeUncounted(t) ==
  /\ pc[t] = "revoke"
  /\ Goto(t, "leave")
  /\ UNCHANGED <<free, count, notify, held, seen>>

(* revoke *)
Revoke(t) ==
  /\ pc[t] = "revoke"
  /\ count' = count - 1
  /\ Goto(t, "leave")
  /\ UNCHANGED <<free, notify, held, seen>>

(* The task is dropped where it is parked; the registration is still      *)
(* counted and was not woken.                                              *)
Cancel(t) ==
  /\ pc[t] = "await"
  /\ fut[t] # "done"
  /\ count' = count - 1
  /\ Goto(t, "leave")
  /\ UNCHANGED <<free, notify, held, seen>>

(* The OwnedNotified is dropped: it leaves the line, and passes on a       *)
(* notification that no poll has seen.                                     *)
Leave(t) ==
  /\ pc[t] = "leave"
  /\ LET f == [fut EXCEPT ![t] = "none"] IN
     \/ fut[t] = "notified" /\ NotifyOne(f, queue)
     \/ fut[t] = "done" /\ fut' = f /\ UNCHANGED <<queue, permit>>
     \/ /\ fut[t] = "waiting"
        /\ \E i \in 1 .. Len(queue) : queue[i] = t /\ queue' = Without(queue, i)
        /\ fut' = f
        /\ UNCHANGED permit
  /\ Goto(t, IF held[t] = None THEN "idle" ELSE "holding")
  /\ UNCHANGED <<free, count, held, seen>>

(* poll finds the future notified.  A poll before that changes nothing. *)
Poll(t) ==
  /\ pc[t] = "await"
  /\ fut[t] \in {"notified", "done"}
  /\ fut' = [fut EXCEPT ![t] = "done"]
  /\ Goto(t, "polled")
  /\ UNCHANGED <<free, count, permit, queue, held, seen>>

(* The rest of poll: no longer registered, and woken. *)
CountOut(t) ==
  /\ pc[t] = "polled"
  /\ count' = count - 1
  /\ Goto(t, "drop")
  /\ UNCHANGED <<free, notify, held, seen>>

(* The registration is dropped at the end of the loop's body, woken as it  *)
(* is.  Nobody else is registered: start over.                             *)
DropAlone(t) ==
  /\ pc[t] = "drop"
  /\ count = 0
  /\ fut' = [fut EXCEPT ![t] = "none"]
  /\ Goto(t, "enable")
  /\ UNCHANGED <<free, count, permit, queue, held, seen>>

(* Somebody else is ... *)
DropAmongOthers(t) ==
  /\ pc[t] = "drop"
  /\ count > 0
  /\ Goto(t, "pass")
  /\ UNCHANGED <<free, count, notify, held, seen>>

(* ... and the wake is passed on. *)
PassOn(t) ==
  /\ pc[t] = "pass"
  /\ NotifyOne([fut EXCEPT ![t] = "none"], queue)
  /\ Goto(t, "enable")
  /\ UNCHANGED <<free, count, held, seen>>

-----------------------------------------------------------------------------
(* FixedArena, through Deref, and the release of a Buffer. *)

(* A plain allocate does not wait in line. *)
AllocateSync(t, s) ==
  /\ pc[t] = "idle"
  /\ s \in free
  /\ SetFree(free \ {s})
  /\ held' = [held EXCEPT ![t] = s]
  /\ Goto(t, "holding")
  /\ UNCHANGED <<count, notify>>

(* release, up to bitmap.free *)
Release(t) ==
  /\ pc[t] = "holding"
  /\ SetFree(free \cup {held[t]})
  /\ held' = [held EXCEPT ![t] = None]
  /\ Goto(t, "freed")
  /\ UNCHANGED <<count, notify>>

(* Mutant: one waiter is not thought worth a wake. *)
WakeNobodyOfOne(t) ==
  /\ pc[t] = "freed"
  /\ count <= 1
  /\ Goto(t, "idle")
  /\ UNCHANGED <<free, count, notify, held, seen>>

(* wake: nobody is registered. *)
WakeNobody(t) ==
  /\ pc[t] = "freed"
  /\ count = 0
  /\ Goto(t, "idle")
  /\ UNCHANGED <<free, count, notify, held, seen>>

SeeWaiters(t) ==
  /\ pc[t] = "freed"
  /\ count > 0
  /\ Goto(t, "wake")
  /\ UNCHANGED <<free, count, notify, held, seen>>

WakeOne(t) ==
  /\ pc[t] = "wake"
  /\ NotifyOne(fut, queue)
  /\ Goto(t, "idle")
  /\ UNCHANGED <<free, count, held, seen>>

-----------------------------------------------------------------------------
(* The steps of a call once it is under way. *)
Step(t) ==
  \/ Enable(t) \/ CountIn(t)
  \/ \E s \in Slots : Take(t, s)
  \/ Fail(t) \/ Revoke(t) \/ Leave(t)
  \/ Poll(t) \/ CountOut(t) \/ DropAlone(t) \/ DropAmongOthers(t) \/ PassOn(t)
  \/ WakeNobody(t) \/ SeeWaiters(t) \/ WakeOne(t)

(* What a program may do. *)
Use(t) ==
  \/ Call(t)
  \/ Cancel(t)
  \/ \E s \in Slots : AllocateSync(t, s)
  \/ Release(t)

Next == \E t \in Tasks : Step(t) \/ Use(t)

Spec == Init /\ [][Next]_vars

(* Threads run, and the executor polls the tasks it was told to. *)
RunSpec == Spec /\ \A t \in Tasks : WF_vars(Step(t))

(* And whoever has a Buffer drops it some day. *)
FairSpec == RunSpec /\ \A t \in Tasks : WF_vars(Release(t))

-----------------------------------------------------------------------------
Places == {"idle", "enable", "count", "try", "revoke", "leave", "await",
           "polled", "drop", "pass", "holding", "freed", "wake"}

Registered(t) == pc[t] \in {"try", "revoke", "await", "polled"}

(* Types. *)
TypeOK ==
  /\ free \subseteq Slots
  /\ count \in 0 .. Cardinality(Tasks)
  /\ permit \in BOOLEAN
  /\ queue \in Seq(Tasks)
  /\ fut \in [Tasks -> {"none", "waiting", "notified", "done"}]
  /\ pc \in [Tasks -> Places]
  /\ held \in [Tasks -> Slots \cup {None}]
  /\ seen \in [Tasks -> SUBSET Slots]

(* The count that wake and the drop of a registration go by is exactly the *)
(* registrations there are: a revoke, a poll, a cancel and a drop never    *)
(* take one out twice or leave it in.                                      *)
CountMatches == TypeOK /\ count = Cardinality({t \in Tasks : Registered(t)})

(* Parked, with no notification on its way to it. *)
Asleep(t) == pc[t] = "await" /\ fut[t] = "waiting"

AtRest(t) == pc[t] \in {"idle", "holding"} \/ Asleep(t)

(* No wake is lost (release, wake, prepare before the retry, revoke, the   *)
(* drop of a registration): when nothing is under way any more, nobody     *)
(* sleeps beside a free slot.                                              *)
NobodyOverslept ==
  (\A t \in Tasks : AtRest(t)) /\ free # {} => \A t \in Tasks : ~ Asleep(t)

(* "parks until a slot becomes available": as long as buffers keep being   *)
(* dropped, every parked task is woken, whoever else calls or cancels.     *)
AwaitEnds == \A t \in Tasks : pc[t] = "await" ~> pc[t] # "await"

(* What the comment on the registration's drop wants: passing wakes on     *)
(* ends.  When no more calls, cancels and releases come, the tasks stop    *)
(* retrying.                                                               *)
RetriesEnd == <>[][\E t \in Tasks : Step(t)]_vars => <>[](\A t \in Tasks : AtRest(t))
=============================================================================
