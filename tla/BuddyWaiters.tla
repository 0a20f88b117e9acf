---------------------------- MODULE BuddyWaiters ----------------------------
(***************************************************************************)
(* The waiters of a buddy arena (async_alloc.rs): a locked queue per       *)
(* order, entries over which a wake and a revoke compete with a            *)
(* compare-exchange, and buddy_wake, which scores the orders without a     *)
(* lock and wakes one task of each.                                        *)
(*                                                                         *)
(* The arena itself is left open: try_allocate succeeds or fails, and      *)
(* release_block calls wake, whenever.  So is time: the ages by which      *)
(* score_orders sorts are any order of the candidates, and a head          *)
(* timestamp is there or not.  An entry that nobody refers to any more is  *)
(* used again, which bounds the entries alive and not the registrations.   *)
(***************************************************************************)
EXTENDS Integers, FiniteSets, Sequences

CONSTANTS
  Tasks,
  Wakers,           \* threads in release_block
  MaxOrder,
  Entries,          \* bound: the WaiterEntry values alive at once
  MaxPops,          \* MAX_POPS_PER_WAKE
  MaxConsecutive,   \* MAX_CONSECUTIVE
  None              \* no entry

Orders == 0 .. MaxOrder

ASSUME BoundsAssumption ==
  /\ MaxOrder \in Nat
  /\ MaxPops \in Nat \ {0}
  /\ MaxConsecutive \in Nat \ {0}
  /\ None \notin Entries

ASSUME FiniteAssumption == IsFiniteSet(Tasks) /\ IsFiniteSet(Wakers)

VARIABLES
  queue,     \* queue[o]: the entries queued at order o
  count,     \* count[o]
  head,      \* head[o]: head_timestamp is not NO_WAITERS_TIMESTAMP
  last,      \* streak_state: the order that won last ...
  streak,    \* ... and how often in a row, up to MaxConsecutive
  state,     \* state[e]: "LIVE", "WOKEN" or "REVOKED"
  tx,        \* tx[e]: the sender is "here", "sent" its message, or is "gone"
  pc,        \* pc[t]: what task t does next
  order,     \* order[t]: the order of its request
  entry,     \* entry[t]: the entry of its registration
  wpc,       \* wpc[w]: what waker w does next
  job        \* job[w]: the locals of its buddy_wake

vars == <<queue, count, head, last, streak, state, tx, pc, order, entry, wpc, job>>

shared == <<queue, count, head, last, streak>>

tasks == <<pc, order, entry>>

wakers == <<wpc, job>>

NoJob == [freed |-> 0, at |-> 0, found |-> {}, pops |-> 0, entry |-> None,
          last |-> 0, streak |-> 0]

Init ==
  /\ queue = [o \in Orders |-> << >>]
  /\ count = [o \in Orders |-> 0]
  /\ head = [o \in Orders |-> FALSE]
  /\ last = 0
  /\ streak = 0
  /\ state = [e \in Entries |-> "REVOKED"]
  /\ tx = [e \in Entries |-> "gone"]
  /\ pc = [t \in Tasks |-> "idle"]
  /\ order = [t \in Tasks |-> 0]
  /\ entry = [t \in Tasks |-> None]
  /\ wpc = [w \in Wakers |-> "idle"]
  /\ job = [w \in Wakers |-> NoJob]

Goto(t, place) == pc' = [pc EXCEPT ![t] = place]

WGoto(w, place) == wpc' = [wpc EXCEPT ![w] = place]

Queued(e) == \E o \in Orders : \E i \in 1 .. Len(queue[o]) : queue[o][i] = e

(* The last Arc of the entry is gone. *)
Unused(e) ==
  /\ ~ Queued(e)
  /\ \A t \in Tasks : entry[t] # e
  /\ \A w \in Wakers : job[w].entry # e

(* Nobody has the lock of the queue of order o. *)
Unlocked(o) ==
  /\ \A t \in Tasks : ~ (pc[t] = "head" /\ order[t] = o)
  /\ \A w \in Wakers : ~ (wpc[w] \in {"pop", "count", "head"} /\ job[w].at = o)

-----------------------------------------------------------------------------
(* allocate_with_buddy_waiter *)

Call(t, o) ==
  /\ pc[t] = "idle"
  /\ order' = [order EXCEPT ![t] = o]
  /\ Goto(t, "register")
  /\ UNCHANGED <<shared, state, tx, entry, wakers>>

(* buddy_register: a new entry, not queued yet. *)
Register(t, e) ==
  /\ pc[t] = "register"
  /\ Unused(e)
  /\ entry' = [entry EXCEPT ![t] = e]
  /\ state' = [state EXCEPT ![e] = "LIVE"]
  /\ tx' = [tx EXCEPT ![e] = "here"]
  /\ Goto(t, "prepare")
  /\ UNCHANGED <<shared, order, wakers>>

(* prepare: lock, push_back and fetch_add; the head is stored under the    *)
(* same lock if the count was 0.                                           *)
Prepare(t) ==
  LET o == order[t] IN
  /\ pc[t] = "prepare"
  /\ Unlocked(o)
  /\ queue' = [queue EXCEPT ![o] = Append(@, entry[t])]
  /\ count' = [count EXCEPT ![o] = @ + 1]
  /\ Goto(t, IF count[o] = 0 THEN "head" ELSE "try")
  /\ UNCHANGED <<head, last, streak, state, tx, order, entry, wakers>>

StoreHead(t) ==
  /\ pc[t] = "head"
  /\ head' = [head EXCEPT ![order[t]] = TRUE]
  /\ Goto(t, "try")
  /\ UNCHANGED <<queue, count, last, streak, state, tx, order, entry, wakers>>

(* try_allocate *)
Try(t) ==
  /\ pc[t] = "try"
  /\ \/ Goto(t, "revoke")
     \/ Goto(t, "await")
  /\ UNCHANGED <<shared, state, tx, order, entry, wakers>>

(* The registration is dropped: its Arc, and its receiver with a message   *)
(* read or not.                                                            *)
Drop(t, place) ==
  /\ Goto(t, place)
  /\ entry' = [entry EXCEPT ![t] = None]
  /\ tx' = [tx EXCEPT ![entry[t]] = IF @ = "sent" THEN "gone" ELSE @]

(* Mutant: a store of REVOKED instead of a compare_exchange. *)
RevokeBlindly(t) ==
  /\ pc[t] \in {"revoke", "await"}
  /\ state' = [state EXCEPT ![entry[t]] = "REVOKED"]
  /\ Goto(t, "uncount")
  /\ UNCHANGED <<shared, tx, order, entry, wakers>>

(* revoke after a success, or the drop of a parked registration: whoever   *)
(* wins the entry takes it out of the count ...                            *)
Revoke(t) ==
  /\ pc[t] \in {"revoke", "await"}
  /\ state[entry[t]] = "LIVE"
  /\ state' = [state EXCEPT ![entry[t]] = "REVOKED"]
  /\ Goto(t, "uncount")
  /\ UNCHANGED <<shared, tx, order, entry, wakers>>

Uncount(t) ==
  /\ pc[t] = "uncount"
  /\ tx' = [tx EXCEPT ![entry[t]] = "gone"]
  /\ count' = [count EXCEPT ![order[t]] = @ - 1]
  /\ entry' = [entry EXCEPT ![t] = None]
  /\ Goto(t, "idle")
  /\ UNCHANGED <<queue, head, last, streak, state, order, wakers>>

(* Mutant: the count goes down for an entry that a wake has won, too. *)
RevokeCounts(t) ==
  /\ pc[t] \in {"revoke", "await"}
  /\ state[entry[t]] = "WOKEN"
  /\ count' = [count EXCEPT ![order[t]] = @ - 1]
  /\ Drop(t, "idle")
  /\ UNCHANGED <<queue, head, last, streak, state, order, wakers>>

(* ... and if a wake has won it, its message is left unread. *)
RevokeTooLate(t) ==
  /\ pc[t] \in {"revoke", "await"}
  /\ state[entry[t]] = "WOKEN"
  /\ Drop(t, "idle")
  /\ UNCHANGED <<shared, state, order, wakers>>

(* poll has the message: the loop starts over with a new registration. *)
Poll(t) ==
  /\ pc[t] = "await"
  /\ tx[entry[t]] = "sent"
  /\ Drop(t, "register")
  /\ UNCHANGED <<shared, state, order, wakers>>

-----------------------------------------------------------------------------
(* buddy_wake *)

(* score_orders loads the streak first ... *)
Wake(w, o) ==
  /\ wpc[w] = "idle"
  /\ job' = [job EXCEPT ![w] = [NoJob EXCEPT !.freed = o, !.last = last, !.streak = streak]]
  /\ WGoto(w, "score")
  /\ UNCHANGED <<shared, state, tx, tasks>>

(* ... then the count of each order, and if it is not 0 its head. *)
NextScore(w) ==
  /\ job' = [job EXCEPT ![w].at = @ + 1]
  /\ WGoto(w, "score")

LoadCount(w) ==
  /\ wpc[w] = "score"
  /\ job[w].at <= job[w].freed
  /\ IF count[job[w].at] = 0
     THEN NextScore(w)
     ELSE WGoto(w, "stamp") /\ UNCHANGED job
  /\ UNCHANGED <<shared, state, tx, tasks>>

LoadHead(w) ==
  /\ wpc[w] = "stamp"
  /\ job' = [job EXCEPT ![w].at = @ + 1,
               ![w].found = IF head[job[w].at] THEN @ \cup {job[w].at} ELSE @]
  /\ WGoto(w, "score")
  /\ UNCHANGED <<shared, state, tx, tasks>>

(* The winner of a long streak is left out, unless it is the only one. *)
Ban(w) ==
  LET j == job[w] IN
  /\ wpc[w] = "score"
  /\ j.at > j.freed
  /\ job' = [job EXCEPT ![w] = [NoJob EXCEPT !.found =
               IF j.streak >= MaxConsecutive /\ Cardinality(j.found) > 1
               THEN j.found \ {j.last} ELSE j.found]]
  /\ WGoto(w, "pick")
  /\ UNCHANGED <<shared, state, tx, tasks>>

(* The next candidate's queue is locked. *)
Pick(w, o) ==
  /\ wpc[w] = "pick"
  /\ o \in job[w].found
  /\ job[w].pops < MaxPops
  /\ Unlocked(o)
  /\ job' = [job EXCEPT ![w].at = o, ![w].found = @ \ {o}]
  /\ WGoto(w, "pop")
  /\ UNCHANGED <<shared, state, tx, tasks>>

WakeDone(w) ==
  /\ wpc[w] = "pick"
  /\ job[w].found = {} \/ job[w].pops >= MaxPops
  /\ job' = [job EXCEPT ![w] = NoJob]
  /\ WGoto(w, "idle")
  /\ UNCHANGED <<shared, state, tx, tasks>>

(* Mutant: the bound is looked at after the pop. *)
PopBeforeBound(w) ==
  LET o == job[w].at
      e == Head(queue[o])
      won == job[w].pops < MaxPops /\ state[e] = "LIVE"
  IN
  /\ wpc[w] = "pop"
  /\ queue[o] # << >>
  /\ queue' = [queue EXCEPT ![o] = Tail(@)]
  /\ job' = [job EXCEPT ![w].pops = IF @ < MaxPops THEN @ + 1 ELSE @,
                        ![w].entry = IF won THEN e ELSE None]
  /\ state' = [state EXCEPT ![e] = IF won THEN "WOKEN" ELSE @]
  /\ WGoto(w, IF won THEN "count" ELSE "pop")
  /\ UNCHANGED <<count, head, last, streak, tx, tasks>>

(* pop_front, and the compare_exchange to WOKEN: an entry that is no       *)
(* longer live is thrown away.  The load before the compare_exchange only  *)
(* finds out sooner.                                                       *)
Pop(w) ==
  LET o == job[w].at
      e == Head(queue[o])
      won == state[e] = "LIVE"
  IN
  /\ wpc[w] = "pop"
  /\ job[w].pops < MaxPops
  /\ queue[o] # << >>
  /\ queue' = [queue EXCEPT ![o] = Tail(@)]
  /\ job' = [job EXCEPT ![w].pops = @ + 1, ![w].entry = IF won THEN e ELSE None]
  /\ state' = [state EXCEPT ![e] = IF won THEN "WOKEN" ELSE @]
  /\ WGoto(w, IF won THEN "count" ELSE "pop")
  /\ UNCHANGED <<count, head, last, streak, tx, tasks>>

(* Nothing left at this order, or nothing left of the bound. *)
PopNone(w) ==
  /\ wpc[w] = "pop"
  /\ job[w].pops >= MaxPops \/ queue[job[w].at] = << >>
  /\ WGoto(w, "pick")
  /\ UNCHANGED <<shared, state, tx, tasks, job>>

CountOut(w) ==
  /\ wpc[w] = "count"
  /\ count' = [count EXCEPT ![job[w].at] = @ - 1]
  /\ WGoto(w, "head")
  /\ UNCHANGED <<queue, head, last, streak, state, tx, tasks, job>>

(* update_head_timestamp and the unlock.  States only leave LIVE and the   *)
(* queue is locked, so its loads may as well be one.                       *)
UpdateHead(w) ==
  LET o == job[w].at IN
  /\ wpc[w] = "head"
  /\ head' = [head EXCEPT ![o] = \E i \in 1 .. Len(queue[o]) : state[queue[o][i]] = "LIVE"]
  /\ WGoto(w, "send")
  /\ UNCHANGED <<queue, count, last, streak, state, tx, tasks, job>>

(* take_tx and send, which fails if the receiver was dropped. *)
Send(w) ==
  LET e == job[w].entry IN
  /\ wpc[w] = "send"
  /\ IF \E t \in Tasks : entry[t] = e
     THEN tx' = [tx EXCEPT ![e] = "sent"] /\ WGoto(w, "streak")
     ELSE tx' = [tx EXCEPT ![e] = "gone"] /\ WGoto(w, "pick")
  /\ job' = [job EXCEPT ![w].entry = None]
  /\ UNCHANGED <<shared, state, tasks>>

(* update_streak, a load and a store. *)
LoadStreak(w) ==
  /\ wpc[w] = "streak"
  /\ job' = [job EXCEPT ![w].last = last, ![w].streak = streak]
  /\ WGoto(w, "store")
  /\ UNCHANGED <<shared, state, tx, tasks>>

StoreStreak(w) ==
  LET j == job[w] IN
  /\ wpc[w] = "store"
  /\ last' = j.at
  /\ streak' = IF j.at # j.last THEN 1
               ELSE IF j.streak < MaxConsecutive THEN j.streak + 1 ELSE j.streak
  /\ job' = [job EXCEPT ![w].last = 0, ![w].streak = 0]
  /\ WGoto(w, "pick")
  /\ UNCHANGED <<queue, count, head, state, tx, tasks>>

-----------------------------------------------------------------------------
TaskStep(t) ==
  \/ Prepare(t) \/ StoreHead(t) \/ Try(t) \/ Uncount(t)
  \/ pc[t] = "revoke" /\ (Revoke(t) \/ RevokeTooLate(t))
  \/ Poll(t)
  \/ \E e \in Entries : Register(t, e)

WakerStep(w) ==
  \/ LoadCount(w) \/ LoadHead(w) \/ Ban(w)
  \/ \E o \in Orders : Pick(w, o)
  \/ WakeDone(w) \/ Pop(w) \/ PopNone(w) \/ CountOut(w)
  \/ UpdateHead(w) \/ Send(w) \/ LoadStreak(w) \/ StoreStreak(w)

(* A parked task is cancelled. *)
Cancel(t) == pc[t] = "await" /\ (Revoke(t) \/ RevokeTooLate(t))

Next ==
  \/ \E t \in Tasks :
       \/ TaskStep(t)
       \/ Cancel(t)
       \/ \E o \in Orders : Call(t, o)
  \/ \E w \in Wakers :
       \/ WakerStep(w)
       \/ \E o \in Orders : Wake(w, o)

Spec == Init /\ [][Next]_vars

-----------------------------------------------------------------------------
(* The entries somebody has won and not yet taken out of the count. *)
InFlight(o) ==
  Cardinality({t \in Tasks : pc[t] = "uncount" /\ order[t] = o})
    + Cardinality({w \in Wakers : wpc[w] = "count" /\ job[w].at = o})

(* Parked, its entry not won by anybody. *)
Asleep(t) == pc[t] = "await" /\ state[entry[t]] = "LIVE"

(* Types. *)
TypeOK ==
  /\ queue \in [Orders -> Seq(Entries)]
  /\ count \in [Orders -> 0 .. Cardinality(Tasks)]
  /\ head \in [Orders -> BOOLEAN]
  /\ last \in Orders
  /\ streak \in 0 .. MaxConsecutive
  /\ state \in [Entries -> {"LIVE", "WOKEN", "REVOKED"}]
  /\ tx \in [Entries -> {"here", "sent", "gone"}]
  /\ pc \in [Tasks -> {"idle", "register", "prepare", "head", "try", "revoke", "uncount",
                       "await"}]
  /\ order \in [Tasks -> Orders]
  /\ entry \in [Tasks -> Entries \cup {None}]
  /\ wpc \in [Wakers -> {"idle", "score", "stamp", "pick", "pop", "count",
                         "head", "send", "streak", "store"}]
  /\ \A w \in Wakers :
       /\ job[w].freed \in Orders
       /\ job[w].at \in 0 .. MaxOrder + 1
       /\ job[w].found \subseteq Orders
       /\ job[w].pops \in Nat
       /\ job[w].entry \in Entries \cup {None}

(* Whoever takes the sender is the only one to ("Caller must have won the  *)
(* CAS on `state`"), however a wake and a revoke or a drop interleave.     *)
SenderTakenOnce ==
  \A e \in Entries :
    LET takers == {t \in Tasks : pc[t] = "uncount" /\ entry[t] = e} \cup
                  {w \in Wakers : wpc[w] \in {"count", "head", "send"} /\ job[w].entry = e}
    IN takers # {} => Cardinality(takers) = 1 /\ tx[e] = "here"

(* count[o] is the live entries of the queue, and those that a winner is   *)
(* about to take out: no wake, revoke or drop counts an entry out twice or *)
(* not at all.                                                             *)
CountMatches ==
  /\ TypeOK
  /\ \A o \in Orders :
       count[o] = InFlight(o) + Cardinality({t \in Tasks :
                    /\ order[t] = o
                    /\ pc[t] \in {"head", "try", "revoke", "await"}
                    /\ state[entry[t]] = "LIVE"})

(* No live waiter is stranded: the entry of a task that sleeps is in the   *)
(* queue of its order until a wake wins it, whatever the bound on the pops *)
(* of a wake ("stranding a live waiter forever").                          *)
SleepersQueued ==
  \A t \in Tasks : Asleep(t) =>
    \E i \in 1 .. Len(queue[order[t]]) : queue[order[t]][i] = entry[t]

(* What the comment in update_head_timestamp is about: a task that sleeps  *)
(* is not invisible to scoring, at least when nothing is under way.        *)
SleepersVisible ==
  LET atRest == /\ \A t \in Tasks : pc[t] = "idle" \/ Asleep(t)
                /\ \A w \in Wakers : wpc[w] = "idle"
  IN atRest => \A t \in Tasks : Asleep(t) => head[order[t]]
=============================================================================
