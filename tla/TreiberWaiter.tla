--------------------------- MODULE TreiberWaiter ---------------------------
(***************************************************************************)
(* The Waiter of examples/treiber_waker.rs: a Treiber stack of parked      *)
(* wakers, under the loop allocate_with_waiter (async_alloc.rs) of a fixed *)
(* arena whose slots fit one bitmap word, so that allocate is one step.    *)
(*                                                                         *)
(* A node and its Entry are one here.  crossbeam's epochs are external: a  *)
(* node is not used again while anybody can still reach it.  A future may  *)
(* be polled without having been woken, and may move to another task, so   *)
(* that the waker its entry has no longer polls it.                        *)
(***************************************************************************)
EXTENDS Integers, FiniteSets

CONSTANTS
  Callers,      \* the tasks
  Nodes,        \* bounds the nodes there are at once
  SlotCount,
  Null          \* a null pointer

ASSUME NodesAssumption == Null \notin Nodes

ASSUME CallersAssumption == IsFiniteSet(Callers) /\ SlotCount \in Nat

VARIABLES
  flavor,    \* of the runtime: main's is "current_thread", and nothing there
             \*   drops a future that is parked
  idle,      \* the number of free slots
  top,       \* stack.head
  next,      \* next[n]: the node below n
  status,    \* status[n]
  waker,     \* waker[n]: "current" for the waker of the task that polls the
             \*   future now, "stale" for one before it, or "taken"
  woken,     \* the tasks the executor was told to poll
  cpc,       \* cpc[t]: what t does next
  mine,      \* mine[t]: the entry of t's registration
  ptr,       \* ptr[t]: the head that t loaded last
  below      \* below[t]: the next that pop_and_wake loaded from it

treiber == <<flavor, idle, top, next, status, waker, woken, cpc, mine, ptr, below>>

stack == <<top, next>>

StackInit ==
  /\ flavor \in {"current_thread", "multi_thread"}
  /\ idle = SlotCount
  /\ top = Null
  /\ next = [n \in Nodes |-> Null]
  /\ status = [n \in Nodes |-> "LIVE"]
  /\ waker = [n \in Nodes |-> "taken"]
  /\ woken = {}
  /\ cpc = [t \in Callers |-> "idle"]
  /\ mine = [t \in Callers |-> Null]
  /\ ptr = [t \in Callers |-> Null]
  /\ below = [t \in Callers |-> Null]

(* A set of nodes that has the head and, with a node, the one below it. *)
Closed(S) ==
  /\ top \in S \cup {Null}
  /\ \A n \in S : next[n] \in S \cup {Null}

(* The nodes from the head down. *)
Stacked == {n \in Nodes : \A S \in SUBSET Nodes : Closed(S) => n \in S}

(* What an Owned::new may return. *)
UnusedNodes ==
  Nodes \ (Stacked \cup {mine[t] : t \in Callers} \cup {ptr[t] : t \in Callers}
                   \cup {below[t] : t \in Callers})

Resting(t) == cpc[t] \in {"idle", "parked", "holding"}

(* On one thread a poll, or a drop, runs to its end before the next. *)
MayRun(t) == flavor = "current_thread" => \A u \in Callers \ {t} : Resting(u)

MoveOn(t, place) ==
  /\ MayRun(t)
  /\ cpc' = [cpc EXCEPT ![t] = place]
  /\ UNCHANGED flavor

-----------------------------------------------------------------------------
(* allocate_with_waiter, and the polls of the registration *)

(* register, and prepare, which only arms: there is no entry yet. *)
Arm(t) ==
  /\ cpc[t] = "idle"
  /\ MoveOn(t, "try")
  /\ UNCHANGED <<idle, stack, status, waker, woken, mine, ptr, below>>

(* The retry succeeds; revoke and the drop have no entry to revoke. *)
TryTakes(t) ==
  /\ cpc[t] = "try"
  /\ idle > 0
  /\ idle' = idle - 1
  /\ MoveOn(t, "holding")
  /\ UNCHANGED <<stack, status, waker, woken, mine, ptr, below>>

(* The retry fails, and the first poll makes the entry. *)
TryFails(t, n) ==
  /\ cpc[t] = "try"
  /\ idle = 0
  /\ n \in UnusedNodes
  /\ status' = [status EXCEPT ![n] = "LIVE"]
  /\ waker' = [waker EXCEPT ![n] = "current"]
  /\ mine' = [mine EXCEPT ![t] = n]
  /\ MoveOn(t, "push")
  /\ UNCHANGED <<idle, stack, woken, ptr, below>>

(* push: the head is loaded, and the node points to it. *)
PushLoad(t) ==
  /\ cpc[t] = "push"
  /\ ptr' = [ptr EXCEPT ![t] = top]
  /\ next' = [next EXCEPT ![mine[t]] = top]
  /\ MoveOn(t, "link")
  /\ UNCHANGED <<idle, top, status, waker, woken, mine, below>>

(* Mutant: the exchange is a plain store. *)
PushStores(t) ==
  /\ cpc[t] = "link"
  /\ top' = mine[t]
  /\ MoveOn(t, "parked")
  /\ ptr' = [ptr EXCEPT ![t] = Null]
  /\ UNCHANGED <<idle, next, status, waker, woken, mine, below>>

(* push: the exchange of the head; poll returns Pending. *)
PushLink(t) ==
  /\ cpc[t] = "link"
  /\ IF top = ptr[t]
     THEN top' = mine[t] /\ MoveOn(t, "parked")
     ELSE UNCHANGED top /\ MoveOn(t, "push")
  /\ ptr' = [ptr EXCEPT ![t] = Null]
  /\ UNCHANGED <<idle, next, status, waker, woken, mine, below>>

(* poll is Ready: the loop tries again with a new registration. *)
Ready(t) ==
  /\ status[mine[t]] = "WOKEN"
  /\ mine' = [mine EXCEPT ![t] = Null]
  /\ MoveOn(t, "try")
  /\ UNCHANGED <<idle, stack, status, waker, ptr, below>>

(* poll, up to its first look at the status *)
PollReady(t) ==
  /\ cpc[t] = "parked"
  /\ woken' = woken \ {t}
  /\ Ready(t)

PollPending(t) ==
  /\ cpc[t] = "parked"
  /\ status[mine[t]] # "WOKEN"
  /\ woken' = woken \ {t}
  /\ MoveOn(t, "refresh")
  /\ UNCHANGED <<idle, stack, status, waker, mine, ptr, below>>

(* poll puts the waker of the task that polls. *)
Refresh(t) ==
  /\ cpc[t] = "refresh"
  /\ waker' = [waker EXCEPT ![mine[t]] = "current"]
  /\ MoveOn(t, "recheck")
  /\ UNCHANGED <<idle, stack, status, woken, mine, ptr, below>>

(* poll looks again. *)
RecheckReady(t) ==
  /\ cpc[t] = "recheck"
  /\ UNCHANGED woken
  /\ Ready(t)

(* Mutant: poll does not look again. *)
NoRecheck(t) ==
  /\ cpc[t] = "recheck"
  /\ MoveOn(t, "parked")
  /\ UNCHANGED <<idle, stack, status, waker, woken, mine, ptr, below>>

RecheckPending(t) ==
  /\ cpc[t] = "recheck"
  /\ status[mine[t]] # "WOKEN"
  /\ MoveOn(t, "parked")
  /\ UNCHANGED <<idle, stack, status, waker, woken, mine, ptr, below>>

(* Another task has the future now, and will poll it. *)
Move(t) ==
  /\ cpc[t] = "parked"
  /\ waker[mine[t]] = "current"
  /\ waker' = [waker EXCEPT ![mine[t]] = "stale"]
  /\ woken' = woken \cup {t}
  /\ MoveOn(t, "parked")
  /\ UNCHANGED <<idle, stack, status, mine, ptr, below>>

(* The registration is dropped: do_revoke, whatever its exchange returns. *)
DropParked(t) ==
  /\ flavor # "current_thread"
  /\ cpc[t] = "parked"
  /\ status' = [status EXCEPT ![mine[t]] = IF @ = "LIVE" THEN "REVOKED" ELSE @]
  /\ mine' = [mine EXCEPT ![t] = Null]
  /\ woken' = woken \ {t}
  /\ MoveOn(t, "idle")
  /\ UNCHANGED <<idle, stack, waker, ptr, below>>

-----------------------------------------------------------------------------
(* The drop of a Buffer, and wake, which is pop_and_wake *)

(* Mutant: nobody is woken. *)
DropSilently(t) ==
  /\ cpc[t] = "holding"
  /\ idle' = idle + 1
  /\ MoveOn(t, "idle")
  /\ UNCHANGED <<stack, status, waker, woken, mine, ptr, below>>

DropBuffer(t) ==
  /\ cpc[t] = "holding"
  /\ idle' = idle + 1
  /\ MoveOn(t, "pop")
  /\ UNCHANGED <<stack, status, waker, woken, mine, ptr, below>>

PopEmpty(t) ==
  /\ cpc[t] = "pop"
  /\ top = Null
  /\ MoveOn(t, "idle")
  /\ UNCHANGED <<idle, stack, status, waker, woken, mine, ptr, below>>

PopLoad(t) ==
  /\ cpc[t] = "pop"
  /\ top # Null
  /\ ptr' = [ptr EXCEPT ![t] = top]
  /\ MoveOn(t, "next")
  /\ UNCHANGED <<idle, stack, status, waker, woken, mine, below>>

PopNext(t) ==
  /\ cpc[t] = "next"
  /\ below' = [below EXCEPT ![t] = next[ptr[t]]]
  /\ MoveOn(t, "unlink")
  /\ UNCHANGED <<idle, stack, status, waker, woken, mine, ptr>>

(* The exchange of the head: the node is this pop's, or all is to do over. *)
PopUnlink(t) ==
  /\ cpc[t] = "unlink"
  /\ below' = [below EXCEPT ![t] = Null]
  /\ IF top = ptr[t]
     THEN top' = below[t] /\ UNCHANGED ptr /\ MoveOn(t, "arbitrate")
     ELSE UNCHANGED top /\ ptr' = [ptr EXCEPT ![t] = Null] /\ MoveOn(t, "pop")
  /\ UNCHANGED <<idle, next, status, waker, woken, mine>>

(* The entry was revoked: the next one, then. *)
PopRevoked(t) ==
  /\ cpc[t] = "arbitrate"
  /\ status[ptr[t]] # "LIVE"
  /\ ptr' = [ptr EXCEPT ![t] = Null]
  /\ MoveOn(t, "pop")
  /\ UNCHANGED <<idle, stack, status, waker, woken, mine, below>>

PopLive(t) ==
  /\ cpc[t] = "arbitrate"
  /\ status[ptr[t]] = "LIVE"
  /\ status' = [status EXCEPT ![ptr[t]] = "WOKEN"]
  /\ MoveOn(t, "wake")
  /\ UNCHANGED <<idle, stack, waker, woken, mine, ptr, below>>

(* The waker is taken and called. *)
PopWake(t) ==
  /\ cpc[t] = "wake"
  /\ waker' = [waker EXCEPT ![ptr[t]] = "taken"]
  /\ woken' = IF waker[ptr[t]] = "current"
              THEN woken \cup {u \in Callers : mine[u] = ptr[t]}
              ELSE woken
  /\ ptr' = [ptr EXCEPT ![t] = Null]
  /\ MoveOn(t, "idle")
  /\ UNCHANGED <<idle, stack, status, mine, below>>

-----------------------------------------------------------------------------
StackNext ==
  \E t \in Callers :
    \/ Arm(t) \/ TryTakes(t)
    \/ \E n \in Nodes : TryFails(t, n)
    \/ PushLoad(t) \/ PushLink(t)
    \/ PollReady(t) \/ PollPending(t) \/ Refresh(t) \/ RecheckReady(t) \/ RecheckPending(t)
    \/ Move(t) \/ DropParked(t)
    \/ DropBuffer(t)
    \/ PopEmpty(t) \/ PopLoad(t) \/ PopNext(t) \/ PopUnlink(t)
    \/ PopRevoked(t) \/ PopLive(t) \/ PopWake(t)

StackSpec == StackInit /\ [][StackNext]_treiber

-----------------------------------------------------------------------------
PollPlaces == {"idle", "try", "push", "link", "parked", "refresh", "recheck",
           "holding", "pop", "next", "unlink", "arbitrate", "wake"}

(* Types; every slot is free, held, or (of a release under way) free again. *)
StackTypeOK ==
  /\ idle = SlotCount - Cardinality({t \in Callers : cpc[t] = "holding"})
  /\ top \in Nodes \cup {Null}
  /\ next \in [Nodes -> Nodes \cup {Null}]
  /\ status \in [Nodes -> {"LIVE", "WOKEN", "REVOKED"}]
  /\ waker \in [Nodes -> {"current", "stale", "taken"}]
  /\ woken \subseteq Callers
  /\ cpc \in [Callers -> PollPlaces]
  /\ mine \in [Callers -> Nodes \cup {Null}]
  /\ ptr \in [Callers -> Nodes \cup {Null}]
  /\ below \in [Callers -> Nodes \cup {Null}]

Waiting(t) == cpc[t] \in {"parked", "refresh", "recheck"}

Popping(t) == cpc[t] \in {"arbitrate", "wake"}

(* Pushes and pops that race lose no entry and wake none twice: the entry  *)
(* of a registration that was neither woken nor dropped is in the stack or *)
(* in the hands of the one wake that popped it, and a popped node is       *)
(* nobody else's and never back in the stack.                              *)
EntriesKept ==
  /\ StackTypeOK
  /\ \A t \in Callers :
       Waiting(t) /\ status[mine[t]] = "LIVE" =>
         \/ mine[t] \in Stacked
         \/ \E u \in Callers : cpc[u] = "arbitrate" /\ ptr[u] = mine[t]
  /\ \A t, u \in Callers :
       Popping(t) => ptr[t] \notin Stacked /\ (Popping(u) /\ ptr[u] = ptr[t] => u = t)

(* Between the pop that marks an entry WOKEN and the poll that may have    *)
(* looked just before, the wake is never lost: a parked future whose entry *)
(* is WOKEN will be polled, or its waker, the current one, is about to be  *)
(* called.                                                                 *)
WokenArePolled ==
  \A t \in Callers :
    cpc[t] = "parked" /\ status[mine[t]] = "WOKEN" =>
      \/ t \in woken
      \/ /\ waker[mine[t]] = "current"
         /\ \E u \in Callers : cpc[u] = "wake" /\ ptr[u] = mine[t]

(* "Arm the registration before the post-registration allocation retry"    *)
(* (prepare): so that, when nothing is under way, nobody is left parked    *)
(* beside a free slot.                                                     *)
NobodyLeftParked ==
  (\A t \in Callers : Resting(t) /\ t \notin woken) /\ idle > 0 =>
    \A t \in Callers : cpc[t] # "parked"

(* On one thread, where no release comes between the failed retry and the  *)
(* push, and where nobody drops a future that pop_and_wake chose, nobody   *)
(* is left parked beside a free slot.                                      *)
OneThreadNobodyOverslept == flavor = "current_thread" => NobodyLeftParked
=============================================================================
