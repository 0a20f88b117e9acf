------------------------- MODULE BuddyWaitersProofs -------------------------
(***************************************************************************)
(* For every number of tasks, wakers, orders and entries: one side wins an *)
(* entry, the counts match, and no sleeper falls out of its queue.         *)
(*                                                                         *)
(* A live entry always has its task, which has no other, and its sender    *)
(* (Owned); it is in the queue of the order of that task and in no other   *)
(* (InQueues).  So whoever changes a live entry's state takes it away from *)
(* exactly one task, and the count it is about to lower is the one that    *)
(* task was counted in (Counted).  The bound on a count needs the lock     *)
(* (Locked): while a waker is between its win and its fetch_sub, the task  *)
(* it has won cannot come back to the same order (Spare).                  *)
(***************************************************************************)
EXTENDS BuddyWaiters, FiniteSetTheorems, TLAPS

InLine(q, e) == \E i \in 1 .. Len(q) : q[i] = e

(* The places of a task with a queued entry, and of a waker with one that  *)
(* it has won.                                                             *)
Here == {"head", "try", "revoke", "await"}

Won == {"count", "head", "send"}

Jobs == [freed : Orders, at : 0 .. MaxOrder + 1, found : SUBSET Orders, pops : Nat,
         entry : Entries \cup {None}, last : Orders, streak : 0 .. MaxConsecutive]

TaskTypes ==
  /\ queue \in [Orders -> Seq(Entries)]
  /\ count \in [Orders -> Int]
  /\ head \in [Orders -> BOOLEAN]
  /\ last \in Orders
  /\ streak \in 0 .. MaxConsecutive
  /\ state \in [Entries -> {"LIVE", "WOKEN", "REVOKED"}]
  /\ tx \in [Entries -> {"here", "sent", "gone"}]
  /\ pc \in [Tasks -> {"idle", "register", "prepare", "head", "try", "revoke", "uncount",
                       "await"}]
  /\ order \in [Tasks -> Orders]
  /\ entry \in [Tasks -> Entries \cup {None}]

WakerPlaces == {"idle", "score", "stamp", "pick", "pop", "count", "head", "send", "streak",
                "store"}

(* The places of a waker that is at an order. *)
AtOrder == {"stamp", "pop", "count", "head", "send", "streak", "store"}

WakerTypes ==
  /\ wpc \in [Wakers -> WakerPlaces]
  /\ job \in [Wakers -> Jobs]
  /\ \A w \in Wakers : wpc[w] \in AtOrder => job[w].at \in Orders

Types == TaskTypes /\ WakerTypes

(* Who has which entry, and what that says of its state and its sender: a  *)
(* task ...                                                                *)
TaskEntries ==
  \A t \in Tasks :
    /\ entry[t] = None <=> pc[t] \in {"idle", "register"}
    /\ pc[t] = "prepare" => state[entry[t]] = "LIVE"
    /\ pc[t] = "uncount" => state[entry[t]] = "REVOKED" /\ tx[entry[t]] = "here"

TasksApart == \A t, u \in Tasks : entry[t] = entry[u] /\ entry[t] # None => t = u

(* ... a waker ... *)
WakerEntries ==
  \A w \in Wakers :
    /\ job[w].entry # None <=> wpc[w] \in Won
    /\ wpc[w] \in Won => state[job[w].entry] = "WOKEN" /\ tx[job[w].entry] = "here"

WakersApart ==
  \A w, v \in Wakers : job[w].entry = job[v].entry /\ job[w].entry # None => w = v

(* ... and, of a live one, some task. *)
LiveOwned ==
  \A e \in Entries :
    state[e] = "LIVE" => tx[e] = "here" /\ \E t \in Tasks : entry[t] = e

Owned == TaskEntries /\ TasksApart /\ WakerEntries /\ WakersApart /\ LiveOwned

(* A live entry is queued where its task wants it, once it is queued. *)
InQueues ==
  \A t \in Tasks :
    /\ pc[t] = "prepare" => \A o \in Orders : ~ InLine(queue[o], entry[t])
    /\ pc[t] \in Here /\ state[entry[t]] = "LIVE" =>
         \A o \in Orders : InLine(queue[o], entry[t]) <=> o = order[t]

(* One waker at a time has the lock of a queue. *)
Locked ==
  \A w, v \in Wakers :
    /\ wpc[w] \in {"pop", "count", "head"}
    /\ wpc[v] \in {"pop", "count", "head"}
    /\ job[w].at = job[v].at
    => w = v

Leaving(o) == {t \in Tasks : pc[t] = "uncount" /\ order[t] = o}

Winning(o) == {w \in Wakers : wpc[w] = "count" /\ job[w].at = o}

Listed(o) == {t \in Tasks : order[t] = o /\ pc[t] \in Here /\ state[entry[t]] = "LIVE"}

Counted ==
  \A o \in Orders :
    count[o] = Cardinality(Leaving(o)) + Cardinality(Winning(o)) + Cardinality(Listed(o))

(* Some task is not counted where a waker is about to count one out. *)
Spare ==
  \A o \in Orders : Winning(o) # {} => \E t \in Tasks : t \notin Leaving(o) \cup Listed(o)

IInv == Types /\ Owned /\ InQueues /\ Locked /\ Counted /\ Spare

-----------------------------------------------------------------------------
(* Sequences, and the sets that are counted *)

(* push_back adds one entry. *)
LEMMA LineAppend ==
  ASSUME NEW q \in Seq(Entries), NEW e \in Entries
  PROVE  /\ Append(q, e) \in Seq(Entries)
         /\ \A x : InLine(Append(q, e), x) <=> (InLine(q, x) \/ x = e)
<1> DEFINE r == Append(q, e)
<1>1. r \in Seq(Entries) /\ Len(r) = Len(q) + 1 /\ r[Len(q) + 1] = e
      /\ \A i \in 1 .. Len(q) : r[i] = q[i]
  OBVIOUS
<1>2. Len(q) \in Nat
  OBVIOUS
<1> HIDE DEF r
<1>3. ASSUME NEW x PROVE InLine(r, x) <=> (InLine(q, x) \/ x = e)
  BY <1>1, <1>2 DEF InLine
<1> QED
  BY <1>1, <1>3 DEF r

(* pop_front takes one away. *)
LEMMA LineTail ==
  ASSUME NEW q \in Seq(Entries), q # << >>
  PROVE  /\ Head(q) \in Entries
         /\ Tail(q) \in Seq(Entries)
         /\ \A x : InLine(q, x) <=> (InLine(Tail(q), x) \/ x = Head(q))
<1> DEFINE r == Tail(q)
<1>1. r \in Seq(Entries) /\ Len(r) = Len(q) - 1 /\ Head(q) = q[1] /\ Head(q) \in Entries
      /\ \A i \in 1 .. Len(r) : r[i] = q[i + 1]
  OBVIOUS
<1>2. Len(q) \in Nat /\ Len(q) >= 1
  OBVIOUS
<1> HIDE DEF r
<1>3. ASSUME NEW x PROVE InLine(q, x) <=> (InLine(r, x) \/ x = Head(q))
  <2>1. ASSUME InLine(q, x), x # Head(q) PROVE InLine(r, x)
    <3>1. PICK i \in 1 .. Len(q) : q[i] = x
      BY <2>1 DEF InLine
    <3>2. i - 1 \in 1 .. Len(r) /\ r[i - 1] = x
      BY <1>1, <1>2, <2>1, <3>1
    <3> QED
      BY <3>2 DEF InLine
  <2>2. ASSUME InLine(r, x) PROVE InLine(q, x)
    <3>1. PICK i \in 1 .. Len(r) : r[i] = x
      BY <2>2 DEF InLine
    <3>2. i + 1 \in 1 .. Len(q) /\ q[i + 1] = x
      BY <1>1, <1>2, <3>1
    <3> QED
      BY <3>2 DEF InLine
  <2>3. InLine(q, Head(q))
    BY <1>1, <1>2 DEF InLine
  <2> QED
    BY <2>1, <2>2, <2>3
<1> QED
  BY <1>1, <1>3 DEF r

(* What is counted is finite. *)
LEMMA Finite ==
  ASSUME NEW o \in Orders
  PROVE  /\ IsFiniteSet(Leaving(o)) /\ Cardinality(Leaving(o)) \in Nat
         /\ IsFiniteSet(Winning(o)) /\ Cardinality(Winning(o)) \in Nat
         /\ IsFiniteSet(Listed(o)) /\ Cardinality(Listed(o)) \in Nat
<1>1. Leaving(o) \subseteq Tasks /\ Listed(o) \subseteq Tasks /\ Winning(o) \subseteq Wakers
  BY DEF Leaving, Listed, Winning
<1> QED
  BY <1>1, FiniteAssumption, FS_Subset, FS_CardinalityType

(* A step that leaves the counts and the counted alone. *)
LEMMA CountsSame ==
  ASSUME Counted, Spare, count' = count,
         \A o \in Orders : /\ Leaving(o)' = Leaving(o)
                           /\ Winning(o)' = Winning(o)
                           /\ Listed(o)' = Listed(o)
  PROVE  Counted' /\ Spare'
BY DEF Counted, Spare

(* One more in a finite set, and one less. *)
LEMMA OneMore ==
  ASSUME NEW S, IsFiniteSet(S), NEW x
  PROVE  /\ Cardinality(S) \in Nat
         /\ x \notin S => Cardinality(S \cup {x}) = Cardinality(S) + 1
         /\ x \in S => Cardinality(S \ {x}) = Cardinality(S) - 1
<1>1. Cardinality(S) \in Nat
  BY FS_CardinalityType
<1>2. x \notin S => Cardinality(S \cup {x}) = Cardinality(S) + 1
  BY FS_AddElement
<1>3. x \in S => Cardinality(S \ {x}) = Cardinality(S) - 1
  BY FS_RemoveElement
<1> QED
  BY <1>1, <1>2, <1>3

(* A step that changes the count of one order. *)
LEMMA CountsMove ==
  ASSUME Counted, NEW o \in Orders,
         \A p \in Orders \ {o} : /\ count'[p] = count[p]
                                 /\ Leaving(p)' = Leaving(p)
                                 /\ Winning(p)' = Winning(p)
                                 /\ Listed(p)' = Listed(p),
         count'[o] = Cardinality(Leaving(o)') + Cardinality(Winning(o)') + Cardinality(Listed(o)')
  PROVE  Counted'
BY DEF Counted

-----------------------------------------------------------------------------
(* The locals of a waker *)

(* A job that has just begun. *)
LEMMA JobNew == NoJob \in Jobs /\ NoJob.entry = None
BY BoundsAssumption DEF NoJob, Jobs, Orders

(* One waker moves on. *)
LEMMA JobStep ==
  ASSUME WakerTypes, NEW w \in Wakers, NEW j \in Jobs, NEW place \in WakerPlaces,
         job' = [job EXCEPT ![w] = j], WGoto(w, place), place \in AtOrder => j.at \in Orders
  PROVE  /\ WakerTypes'
         /\ job'[w] = j /\ wpc'[w] = place
         /\ \A v \in Wakers \ {w} : job'[v] = job[v] /\ wpc'[v] = wpc[v]
BY DEF WakerTypes, WGoto

(* A task between its registration and its drop has an entry. *)
LEMMA HasEntry ==
  ASSUME Types, Owned, NEW t \in Tasks, pc[t] \notin {"idle", "register"}
  PROVE  entry[t] \in Entries
BY DEF Types, TaskTypes, Owned, TaskEntries

(* And a waker between its win and its send. *)
LEMMA HasWon ==
  ASSUME Types, Owned, NEW w \in Wakers, wpc[w] \in Won
  PROVE  job[w].entry \in Entries /\ job[w].at \in Orders
<1>1. job[w].entry # None /\ job[w] \in Jobs /\ wpc[w] \in AtOrder
  BY DEF Types, WakerTypes, Owned, WakerEntries, Won, AtOrder
<1> QED
  BY <1>1 DEF Types, WakerTypes, Jobs

-----------------------------------------------------------------------------
(* The steps of a waker that neither win an entry nor have one. *)
LEMMA Quiet ==
  ASSUME IInv, TaskTypes', UNCHANGED <<queue, count, state, tx, tasks>>, NEW w \in Wakers,
         NEW j \in Jobs, NEW place \in WakerPlaces \ Won,
         job' = [job EXCEPT ![w] = j], WGoto(w, place), wpc[w] \notin Won, j.entry = None,
         place \in AtOrder => j.at \in Orders, place = "pop" => Unlocked(j.at)
  PROVE  IInv'
<1> USE DEF IInv
<1>0. /\ WakerTypes'
      /\ job'[w] = j /\ wpc'[w] = place
      /\ \A v \in Wakers \ {w} : job'[v] = job[v] /\ wpc'[v] = wpc[v]
  BY JobStep, Zenon DEF Types
<1>1. Owned'
  BY <1>0 DEF Owned, LiveOwned, WakersApart, WakerEntries, TasksApart, TaskEntries, tasks
<1>2. InQueues'
  BY DEF InQueues, InLine, tasks
<1>3. Counted' /\ Spare'
  <2>1. \A o \in Orders : Leaving(o)' = Leaving(o) /\ Listed(o)' = Listed(o)
    BY DEF Leaving, Listed, tasks
  <2>2. \A v \in Wakers : (wpc[v] = "count" <=> wpc'[v] = "count")
                          /\ (wpc[v] = "count" => job'[v] = job[v])
    BY <1>0 DEF Won
  <2>3. \A o \in Orders : Winning(o)' = Winning(o)
    BY <2>2 DEF Winning
  <2> QED
    BY <2>1, <2>3, CountsSame
<1>4. Locked'
  BY <1>0 DEF Locked, Unlocked, Won
<1> QED
  BY <1>0, <1>1, <1>2, <1>3, <1>4 DEF Types

(* allocate_with_buddy_waiter begins. *)
LEMMA CallInv ==
  ASSUME IInv, NEW t \in Tasks, NEW o \in Orders, Call(t, o)
  PROVE  IInv'
<1> USE DEF IInv
<1> USE BoundsAssumption
<1>1. Types'
  BY DEF Call, Types, TaskTypes, WakerTypes, Goto, shared, wakers
<1>2. Owned'
  <2>1. TaskEntries'
    BY DEF Call, Goto, Owned, TaskEntries, Types, TaskTypes
  <2>2. TasksApart'
    BY DEF Call, Goto, Owned, TasksApart
  <2>3. WakerEntries' /\ WakersApart'
    BY DEF Call, Goto, Owned, WakerEntries, WakersApart, wakers
  <2>4. LiveOwned'
    BY DEF Call, Goto, Owned, LiveOwned
  <2> QED
    BY <2>1, <2>2, <2>3, <2>4 DEF Owned
<1>3. InQueues'
  BY DEF Call, InQueues, Types, TaskTypes, Here, Goto, shared, wakers
<1>4. Locked'
  BY DEF Call, Locked, wakers
<1>5. Counted' /\ Spare'
  <2>1. \A p \in Orders : /\ Leaving(p)' = Leaving(p)
                          /\ Winning(p)' = Winning(p)
                          /\ Listed(p)' = Listed(p)
    BY DEF Call, Types, TaskTypes, Goto, Leaving, Winning, Listed, Here, shared, wakers
  <2>2. count' = count
    BY DEF Call, shared
  <2> QED
    BY <2>1, <2>2, CountsSame
<1> QED
  BY <1>1, <1>2, <1>3, <1>4, <1>5

(* A registration is made: the entry is new, and nobody else has it. *)
LEMMA RegisterInv ==
  ASSUME IInv, NEW t \in Tasks, NEW e \in Entries, Register(t, e)
  PROVE  IInv'
<1> USE DEF IInv
<1> USE BoundsAssumption
<1>1. Types'
  BY DEF Register, Unused, Queued, Types, TaskTypes, WakerTypes, Goto, shared, wakers
<1>2. Owned'
  <2>1. TaskEntries'
    BY DEF Register, Unused, Goto, Owned, TaskEntries, Types, TaskTypes
  <2>2. TasksApart'
    BY DEF Register, Unused, Goto, Owned, TasksApart, Types, TaskTypes
  <2>3. WakerEntries' /\ WakersApart'
    BY DEF Register, Unused, Goto, Owned, WakerEntries, WakersApart, wakers, WakerTypes,
       Jobs, Types, TaskTypes
  <2>4. LiveOwned'
    BY DEF Register, Unused, Goto, Owned, TaskEntries, LiveOwned, Types, TaskTypes
  <2> QED
    BY <2>1, <2>2, <2>3, <2>4 DEF Owned
<1>3. InQueues'
  <2>1. \A o \in Orders : ~ InLine(queue[o], e)
    BY DEF Register, Unused, Queued, InLine
  <2>2. \A u \in Tasks \ {t} : pc[u] \in Here => entry[u] \in Entries \ {e}
    BY HasEntry DEF Register, Unused, Here
  <2>3. \A u \in Tasks \ {t} : pc'[u] = pc[u] /\ entry'[u] = entry[u]
    BY DEF Register, Goto, Types, TaskTypes
  <2>4. \A x \in Entries \ {e} : state'[x] = state[x]
    BY DEF Register, Types, TaskTypes
  <2>5. pc'[t] = "prepare" /\ entry'[t] = e /\ queue' = queue /\ order' = order
    BY DEF Register, Goto, Types, TaskTypes, shared
  <2> QED
    BY <2>1, <2>2, <2>3, <2>4, <2>5 DEF InQueues, Here
<1>4. Locked'
  BY DEF Register, Unused, Queued, Locked, wakers
<1>5. Counted' /\ Spare'
  <2>1. \A o \in Orders : /\ Leaving(o)' = Leaving(o)
                          /\ Winning(o)' = Winning(o)
                          /\ Listed(o)' = Listed(o)
    BY DEF Register, Unused, Types, TaskTypes, Goto, Leaving, Winning, Listed, Here,
       shared, wakers
  <2>2. count' = count
    BY DEF Register, Unused, shared
  <2> QED
    BY <2>1, <2>2, CountsSame
<1> QED
  BY <1>1, <1>2, <1>3, <1>4, <1>5

(* The entry is queued under the lock and counted: its task is listed. *)
LEMMA PrepareInv ==
  ASSUME IInv, NEW t \in Tasks, Prepare(t)
  PROVE  IInv'
<1> USE DEF IInv
<1> USE BoundsAssumption
<1>o. PICK o \in Orders : o = order[t]
  BY DEF Types, TaskTypes
<1>b. pc[t] = "prepare" /\ entry[t] \in Entries /\ entry[t] # None
  BY HasEntry DEF Prepare
<1>0. /\ entry[t] \in Entries /\ state[entry[t]] = "LIVE"
      /\ pc[t] = "prepare" /\ pc'[t] \in {"head", "try"}
      /\ \A u \in Tasks \ {t} : pc'[u] = pc[u] /\ entry[u] # entry[t]
      /\ queue' = [queue EXCEPT ![o] = Append(queue[o], entry[t])]
      /\ queue[o] \in Seq(Entries)
  <2>1. pc'[t] \in {"head", "try"} /\ \A u \in Tasks \ {t} : pc'[u] = pc[u]
    BY DEF Prepare, Types, TaskTypes, Goto
  <2>2. state[entry[t]] = "LIVE" /\ \A u \in Tasks \ {t} : entry[u] # entry[t]
    BY <1>b DEF Owned, TasksApart, TaskEntries
  <2>3. queue' = [queue EXCEPT ![o] = Append(queue[o], entry[t])] /\ queue[o] \in Seq(Entries)
    BY <1>o DEF Prepare, Types, TaskTypes
  <2> QED
    BY <1>b, <2>1, <2>2, <2>3
<1>a. /\ queue'[o] \in Seq(Entries)
      /\ \A x : InLine(queue'[o], x) <=> (InLine(queue[o], x) \/ x = entry[t])
      /\ \A p \in Orders \ {o} : queue'[p] = queue[p]
  <2>1. queue'[o] = Append(queue[o], entry[t])
    BY <1>0 DEF Types, TaskTypes
  <2>2. \A p \in Orders \ {o} : queue'[p] = queue[p]
    BY <1>0 DEF Types, TaskTypes
  <2> QED
    BY <1>0, <2>1, <2>2, LineAppend
<1>1. Types'
  <2>1. queue' \in [Orders -> Seq(Entries)]
    BY <1>0, <1>a DEF Types, TaskTypes
  <2>2. count' \in [Orders -> Int]
    BY DEF Prepare, Types, TaskTypes
  <2>3. pc' \in [Tasks -> {"idle", "register", "prepare", "head", "try", "revoke", "uncount",
                           "await"}]
    BY DEF Prepare, Goto, Types, TaskTypes
  <2>4. TaskTypes'
    BY <2>1, <2>2, <2>3 DEF Prepare, Types, TaskTypes
  <2>5. WakerTypes'
    BY DEF Prepare, Types, WakerTypes, wakers
  <2> QED
    BY <2>4, <2>5 DEF Types
<1>2. Owned'
  <2>1. TaskEntries'
    BY <1>0 DEF Prepare, Owned, TaskEntries
  <2>2. TasksApart'
    BY <1>0, Zenon DEF Prepare, Owned, TasksApart
  <2>3. WakerEntries' /\ WakersApart'
    BY <1>0 DEF Prepare, Owned, WakerEntries, WakersApart, wakers
  <2>4. LiveOwned'
    BY <1>0 DEF Prepare, Owned, LiveOwned
  <2> QED
    BY <2>1, <2>2, <2>3, <2>4 DEF Owned
<1>3. InQueues'
  <2> SUFFICES ASSUME NEW u \in Tasks
               PROVE  /\ pc'[u] = "prepare" => \A p \in Orders : ~ InLine(queue'[p], entry'[u])
                      /\ pc'[u] \in Here /\ state'[entry'[u]] = "LIVE" =>
                           \A p \in Orders : InLine(queue'[p], entry'[u]) <=> p = order'[u]
    BY DEF InQueues
  <2>1. state' = state /\ entry' = entry /\ order' = order
    BY DEF Prepare
  <2>2. CASE u = t
    BY <1>o, <1>0, <1>a, <2>1, <2>2 DEF InQueues
  <2>3. CASE u # t
    <3>1. \A p \in Orders : InLine(queue'[p], entry[u]) <=> InLine(queue[p], entry[u])
      BY <1>0, <1>a, <2>3
    <3> QED
      BY <1>0, <2>1, <2>3, <3>1 DEF InQueues
  <2> QED
    BY <2>2, <2>3
<1>4. Locked'
  BY DEF Prepare, Locked, wakers
<1>5. /\ \A p \in Orders : Leaving(p)' = Leaving(p) /\ Winning(p)' = Winning(p)
      /\ \A p \in Orders \ {o} : Listed(p)' = Listed(p)
      /\ t \notin Listed(o) /\ Listed(o)' = Listed(o) \cup {t}
  BY <1>o, <1>0 DEF Prepare, Leaving, Winning, Listed, Here, Types, TaskTypes, wakers
<1>6. Counted'
  <2>1. count'[o] = count[o] + 1 /\ \A p \in Orders \ {o} : count'[p] = count[p]
    BY <1>o DEF Prepare, Types, TaskTypes
  <2>2. /\ IsFiniteSet(Listed(o))
        /\ Cardinality(Leaving(o)) \in Nat /\ Cardinality(Winning(o)) \in Nat
    BY <1>0, Finite
  <2>3. Cardinality(Listed(o)') = Cardinality(Listed(o)) + 1 /\ Cardinality(Listed(o)) \in Nat
    BY <1>5, <2>2, OneMore, Zenon
  <2>4. count[o] = Cardinality(Leaving(o)) + Cardinality(Winning(o)) + Cardinality(Listed(o))
    BY <1>0 DEF Counted
  <2>5. count'[o] = Cardinality(Leaving(o)') + Cardinality(Winning(o)') + Cardinality(Listed(o)')
    BY <1>0, <1>5, <2>1, <2>2, <2>3, <2>4
  <2> QED
    BY <1>0, <1>5, <2>1, <2>5, CountsMove, Zenon
<1>7. Spare'
  <2>1. Winning(o) = {}
    BY <1>o, Zenon DEF Prepare, Unlocked, Winning
  <2> QED
    BY <1>0, <1>5, <2>1 DEF Spare
<1> QED
  BY <1>1, <1>2, <1>3, <1>4, <1>6, <1>7

(* The head timestamp changes nothing that the invariant speaks of. *)
LEMMA StoreHeadInv ==
  ASSUME IInv, NEW t \in Tasks, StoreHead(t)
  PROVE  IInv'
<1> USE DEF IInv
<1> USE BoundsAssumption
<1>1. Types'
  BY DEF StoreHead, Types, TaskTypes, WakerTypes, Goto, shared, wakers
<1>2. Owned'
  <2>1. TaskEntries'
    BY DEF StoreHead, Goto, Owned, TaskEntries, Types, TaskTypes
  <2>2. TasksApart'
    BY DEF StoreHead, Goto, Owned, TasksApart
  <2>3. WakerEntries' /\ WakersApart'
    BY Zenon DEF StoreHead, Goto, Owned, WakerEntries, WakersApart, wakers
  <2>4. LiveOwned'
    BY DEF StoreHead, Goto, Owned, LiveOwned
  <2> QED
    BY <2>1, <2>2, <2>3, <2>4 DEF Owned
<1>3. InQueues'
  BY DEF StoreHead, InQueues, Types, TaskTypes, Here, Goto, shared, wakers
<1>4. Locked'
  BY DEF StoreHead, Locked, wakers
<1>5. Counted' /\ Spare'
  <2>1. \A o \in Orders : /\ Leaving(o)' = Leaving(o)
                          /\ Winning(o)' = Winning(o)
                          /\ Listed(o)' = Listed(o)
    BY DEF StoreHead, Types, TaskTypes, Goto, Leaving, Winning, Listed, Here, shared,
       wakers
  <2>2. count' = count
    BY DEF StoreHead, shared
  <2> QED
    BY <2>1, <2>2, CountsSame
<1> QED
  BY <1>1, <1>2, <1>3, <1>4, <1>5

(* The retry after the registration. *)
LEMMA TryInv ==
  ASSUME IInv, NEW t \in Tasks, Try(t)
  PROVE  IInv'
<1> USE DEF IInv
<1> USE BoundsAssumption
<1>1. Types'
  BY Zenon DEF Try, Types, TaskTypes, WakerTypes, Goto, shared, wakers
<1>2. Owned'
  <2>1. TaskEntries'
    BY DEF Try, Goto, Owned, TaskEntries, Types, TaskTypes
  <2>2. TasksApart'
    BY DEF Try, Goto, Owned, TasksApart
  <2>3. WakerEntries' /\ WakersApart'
    BY DEF Try, Goto, Owned, WakerEntries, WakersApart, wakers
  <2>4. LiveOwned'
    BY DEF Try, Goto, Owned, LiveOwned
  <2> QED
    BY <2>1, <2>2, <2>3, <2>4 DEF Owned
<1>3. InQueues'
  BY DEF Try, InQueues, Owned, TaskEntries, Types, TaskTypes, Here, Goto, shared, wakers
<1>4. Locked'
  BY DEF Try, Locked, wakers
<1>5. Counted' /\ Spare'
  <2>1. \A o \in Orders : /\ Leaving(o)' = Leaving(o)
                          /\ Winning(o)' = Winning(o)
                          /\ Listed(o)' = Listed(o)
    BY DEF Try, Types, TaskTypes, Goto, Leaving, Winning, Listed, Here, shared, wakers
  <2>2. count' = count
    BY DEF Try, shared
  <2> QED
    BY <2>1, <2>2, CountsSame
<1> QED
  BY <1>1, <1>2, <1>3, <1>4, <1>5

(* revoke wins: the task leaves, and is counted until it counts itself     *)
(* out.                                                                    *)
LEMMA RevokeInv ==
  ASSUME IInv, NEW t \in Tasks, Revoke(t)
  PROVE  IInv'
<1> USE DEF IInv
<1> USE BoundsAssumption
<1>1. Types'
  BY Zenon DEF Revoke, Types, TaskTypes, WakerTypes, Goto, shared, wakers
<1>2. Owned'
  <2>a. /\ entry[t] \in Entries
        /\ \A u \in Tasks \ {t} : entry[u] # entry[t]
    BY HasEntry DEF Revoke, Owned, TasksApart
  <2>b. \A w \in Wakers : wpc[w] \in Won => job[w].entry \in Entries
    BY HasWon
  <2>1. TaskEntries'
    BY <2>a DEF Revoke, Goto, Owned, TaskEntries, LiveOwned, Types, TaskTypes
  <2>2. TasksApart'
    BY <2>a, <2>b DEF Revoke, Goto, Owned, TasksApart
  <2>3. WakerEntries' /\ WakersApart'
    BY <2>a, <2>b, Zenon DEF Revoke, Goto, Owned, WakerEntries, WakersApart, wakers, Types,
       TaskTypes
  <2>4. LiveOwned'
    BY <2>a, <2>b, Zenon DEF Revoke, Goto, Owned, LiveOwned, Types, TaskTypes
  <2> QED
    BY <2>1, <2>2, <2>3, <2>4 DEF Owned
<1>3. InQueues'
  BY DEF Revoke, InQueues, Types, TaskTypes, Here, Goto, shared, wakers
<1>4. Locked'
  BY Zenon DEF Revoke, Locked, wakers
<1>0. PICK o \in Orders : o = order[t]
  BY DEF Types, TaskTypes
<1>5. /\ \A p \in Orders : Winning(p)' = Winning(p)
      /\ \A p \in Orders \ {o} : Leaving(p)' = Leaving(p) /\ Listed(p)' = Listed(p)
      /\ t \notin Leaving(o) /\ Leaving(o)' = Leaving(o) \cup {t}
      /\ t \in Listed(o) /\ Listed(o)' = Listed(o) \ {t}
  BY <1>0 DEF Revoke, Goto, Leaving, Winning, Listed, Here, Owned, TasksApart, Types,
     TaskTypes, wakers
<1>6. Counted'
  <2>1. count' = count
    BY DEF Revoke, shared
  <2>2. IsFiniteSet(Listed(o)) /\ IsFiniteSet(Leaving(o)) /\ Cardinality(Winning(o)) \in Nat
    BY <1>0, Finite
  <2>3. /\ Cardinality(Listed(o)') = Cardinality(Listed(o)) - 1
        /\ Cardinality(Leaving(o)') = Cardinality(Leaving(o)) + 1
        /\ Cardinality(Listed(o)) \in Nat /\ Cardinality(Leaving(o)) \in Nat
    BY <1>5, <2>2, OneMore, Zenon
  <2>4. count[o] = Cardinality(Leaving(o)) + Cardinality(Winning(o)) + Cardinality(Listed(o))
    BY <1>0 DEF Counted
  <2>5. count'[o] = Cardinality(Leaving(o)') + Cardinality(Winning(o)') + Cardinality(Listed(o)')
    BY <1>0, <1>5, <2>1, <2>2, <2>3, <2>4
  <2> QED
    BY <1>0, <1>5, <2>1, <2>5, CountsMove
<1>7. Spare'
  BY <1>0, <1>5 DEF Spare
<1> QED
  BY <1>1, <1>2, <1>3, <1>4, <1>6, <1>7

(* And counts itself out. *)
LEMMA UncountInv ==
  ASSUME IInv, NEW t \in Tasks, Uncount(t)
  PROVE  IInv'
<1> USE DEF IInv
<1> USE BoundsAssumption
<1>1. Types'
  <2>1. count' \in [Orders -> Int]
    BY DEF Uncount, Types, TaskTypes
  <2>2. TaskTypes'
    BY <2>1, Zenon DEF Uncount, Goto, Types, TaskTypes
  <2>3. WakerTypes'
    BY Zenon DEF Uncount, Types, WakerTypes, wakers
  <2> QED
    BY <2>2, <2>3 DEF Types
<1>2. Owned'
  <2>a. /\ entry[t] \in Entries
        /\ \A u \in Tasks \ {t} : entry[u] # entry[t]
    BY HasEntry DEF Uncount, Owned, TasksApart
  <2>b. \A w \in Wakers : wpc[w] \in Won => job[w].entry \in Entries
    BY HasWon
  <2>1. TaskEntries'
    BY <2>a, <2>b DEF Uncount, Goto, Owned, TaskEntries, Types, TaskTypes
  <2>2. TasksApart'
    BY <2>a, <2>b DEF Uncount, Goto, Owned, TasksApart, Types, TaskTypes
  <2>3. WakerEntries' /\ WakersApart'
    BY <2>a, <2>b, Zenon DEF Uncount, Owned, TaskEntries, WakerEntries, WakersApart, wakers,
       Types, TaskTypes
  <2>4. LiveOwned'
    BY <2>a, <2>b DEF Uncount, Goto, Owned, LiveOwned, TaskEntries, Types, TaskTypes
  <2> QED
    BY <2>1, <2>2, <2>3, <2>4 DEF Owned
<1>3. InQueues'
  BY DEF Uncount, InQueues, Types, TaskTypes, Here, Goto, shared, wakers
<1>4. Locked'
  BY DEF Uncount, Locked, wakers
<1>0. PICK o \in Orders : o = order[t]
  BY DEF Types, TaskTypes
<1>5. /\ \A p \in Orders : Winning(p)' = Winning(p) /\ Listed(p)' = Listed(p)
      /\ \A p \in Orders \ {o} : Leaving(p)' = Leaving(p)
      /\ t \in Leaving(o) /\ Leaving(o)' = Leaving(o) \ {t}
  <2>1. /\ pc[t] = "uncount" /\ pc'[t] = "idle" /\ order' = order /\ state' = state
        /\ \A u \in Tasks \ {t} : pc'[u] = pc[u] /\ entry'[u] = entry[u]
    BY DEF Uncount, Goto, Types, TaskTypes
  <2>2. \A p \in Orders : Winning(p)' = Winning(p)
    BY DEF Uncount, Winning, wakers
  <2>3. \A p \in Orders : Listed(p)' = Listed(p)
    BY <2>1 DEF Listed, Here
  <2>4. \A p \in Orders \ {o} : Leaving(p)' = Leaving(p)
    BY <1>0, <2>1 DEF Leaving
  <2>5. t \in Leaving(o) /\ Leaving(o)' = Leaving(o) \ {t}
    BY <1>0, <2>1 DEF Leaving
  <2> QED
    BY <2>2, <2>3, <2>4, <2>5
<1>6. Counted'
  <2>1. count'[o] = count[o] - 1 /\ \A p \in Orders \ {o} : count'[p] = count[p]
    BY <1>0 DEF Uncount, Types, TaskTypes
  <2>2. /\ IsFiniteSet(Leaving(o))
        /\ Cardinality(Listed(o)) \in Nat /\ Cardinality(Winning(o)) \in Nat
    BY <1>0, Finite
  <2>3. Cardinality(Leaving(o)') = Cardinality(Leaving(o)) - 1 /\ Cardinality(Leaving(o)) \in Nat
    BY <1>5, <2>2, OneMore
  <2>4. count[o] = Cardinality(Leaving(o)) + Cardinality(Winning(o)) + Cardinality(Listed(o))
    BY <1>0 DEF Counted
  <2>5. count'[o] = Cardinality(Leaving(o)') + Cardinality(Winning(o)') + Cardinality(Listed(o)')
    BY <1>0, <1>5, <2>1, <2>2, <2>3, <2>4
  <2> QED
    BY <1>0, <1>5, <2>1, <2>5, CountsMove
<1>7. Spare'
  BY <1>0, <1>5 DEF Spare
<1> QED
  BY <1>1, <1>2, <1>3, <1>4, <1>6, <1>7

(* revoke loses to a waker, which has the entry. *)
LEMMA RevokeTooLateInv ==
  ASSUME IInv, NEW t \in Tasks, RevokeTooLate(t)
  PROVE  IInv'
<1> USE DEF IInv
<1> USE BoundsAssumption
<1>1. Types'
  BY Zenon DEF RevokeTooLate, Drop, Types, TaskTypes, WakerTypes, Goto, shared, wakers
<1>2. Owned'
  <2>a. /\ entry[t] \in Entries
        /\ \A u \in Tasks \ {t} : entry[u] # entry[t]
    BY HasEntry DEF RevokeTooLate, Owned, TasksApart
  <2>b. \A w \in Wakers : wpc[w] \in Won => job[w].entry \in Entries
    BY HasWon
  <2>1. TaskEntries'
    BY <2>a, <2>b DEF RevokeTooLate, Drop, Goto, Owned, TaskEntries, Types, TaskTypes
  <2>2. TasksApart'
    BY <2>a, <2>b DEF RevokeTooLate, Drop, Goto, Owned, TasksApart, Types, TaskTypes
  <2>3. WakerEntries' /\ WakersApart'
    BY <2>a, <2>b, Zenon DEF RevokeTooLate, Drop, Goto, Owned, WakerEntries, WakersApart,
       wakers, Types, TaskTypes
  <2>4. LiveOwned'
    BY <2>a, <2>b, Zenon DEF RevokeTooLate, Drop, Goto, Owned, LiveOwned, Types, TaskTypes
  <2> QED
    BY <2>1, <2>2, <2>3, <2>4 DEF Owned
<1>3. InQueues'
  BY DEF RevokeTooLate, Drop, InQueues, Types, TaskTypes, Here, Goto, shared, wakers
<1>4. Locked'
  BY Zenon DEF RevokeTooLate, Drop, Locked, wakers
<1>5. Counted' /\ Spare'
  <2>1. \A o \in Orders : /\ Leaving(o)' = Leaving(o)
                          /\ Winning(o)' = Winning(o)
                          /\ Listed(o)' = Listed(o)
    BY DEF RevokeTooLate, Drop, Types, TaskTypes, Goto, Leaving, Winning, Listed, Here,
       shared, wakers
  <2>2. count' = count
    BY Zenon DEF RevokeTooLate, Drop, shared
  <2> QED
    BY <2>1, <2>2, CountsSame
<1> QED
  BY <1>1, <1>2, <1>3, <1>4, <1>5

(* poll has the message. *)
LEMMA PollInv ==
  ASSUME IInv, NEW t \in Tasks, Poll(t)
  PROVE  IInv'
<1> USE DEF IInv
<1> USE BoundsAssumption
<1>1. Types'
  BY Zenon DEF Poll, Drop, Types, TaskTypes, WakerTypes, Goto, shared, wakers
<1>2. Owned'
  <2>a. /\ entry[t] \in Entries
        /\ \A u \in Tasks \ {t} : entry[u] # entry[t]
    BY HasEntry, Zenon DEF Poll, Owned, TasksApart
  <2>b. \A w \in Wakers : wpc[w] \in Won => job[w].entry \in Entries
    BY HasWon
  <2>1. TaskEntries'
    BY <2>a, <2>b DEF Poll, Drop, Goto, Owned, TaskEntries, Types, TaskTypes
  <2>2. TasksApart'
    BY <2>a, <2>b DEF Poll, Drop, Goto, Owned, TasksApart, Types, TaskTypes
  <2>3. WakerEntries' /\ WakersApart'
    BY <2>a, <2>b, Zenon DEF Poll, Drop, Goto, Owned, WakerEntries, WakersApart, wakers, Types,
       TaskTypes
  <2>4. LiveOwned'
    BY <2>a, <2>b, Zenon DEF Poll, Drop, Goto, Owned, LiveOwned, Types, TaskTypes
  <2> QED
    BY <2>1, <2>2, <2>3, <2>4 DEF Owned
<1>3. InQueues'
  BY DEF Poll, Drop, InQueues, Types, TaskTypes, Here, Goto, shared, wakers
<1>4. Locked'
  BY Zenon DEF Poll, Drop, Locked, wakers
<1>5. Counted' /\ Spare'
  <2>1. \A o \in Orders : /\ Leaving(o)' = Leaving(o)
                          /\ Winning(o)' = Winning(o)
                          /\ Listed(o)' = Listed(o)
    <3>1. entry[t] \in Entries /\ state[entry[t]] # "LIVE"
      BY HasEntry DEF Poll, Owned, LiveOwned
    <3> QED
      BY <3>1
         DEF Poll, Drop, Types, TaskTypes, Goto, Leaving, Winning, Listed, Here,
             shared, wakers
  <2>2. count' = count
    BY DEF Poll, Drop, shared
  <2> QED
    BY <2>1, <2>2, CountsSame
<1> QED
  BY <1>1, <1>2, <1>3, <1>4, <1>5

(* The steps of a task. *)
LEMMA TaskInv ==
  ASSUME IInv, NEW t \in Tasks, TaskStep(t) \/ Cancel(t) \/ \E o \in Orders : Call(t, o)
  PROVE  IInv'
BY CallInv, RegisterInv, PrepareInv, StoreHeadInv, TryInv, RevokeInv, UncountInv,
   RevokeTooLateInv, PollInv DEF TaskStep, Cancel

-----------------------------------------------------------------------------
(* The steps of the wakers *)

(* A release begins to wake. *)
LEMMA WakeInv ==
  ASSUME IInv, NEW w \in Wakers, NEW o \in Orders, Wake(w, o)
  PROVE  IInv'
<1> USE DEF IInv
<1> USE BoundsAssumption
<1>at. Types /\ job[w] \in Jobs /\ wpc[w] \in WakerPlaces
  BY DEF Types, WakerTypes
<1>1. PICK j : j = [NoJob EXCEPT !.freed = o, !.last = last, !.streak = streak]
  OBVIOUS
<1>2. wpc[w] \notin Won /\ job[w].entry = None
  BY Zenon DEF Wake, Owned, WakerEntries, Won
<1>3. j \in Jobs /\ j.entry = None
  BY <1>at, <1>1, JobNew, Zenon DEF Types, TaskTypes, Jobs
<1>4. job' = [job EXCEPT ![w] = j] /\ WGoto(w, "score")
  BY <1>at, <1>1, Zenon DEF Wake, Types, WakerTypes
<1>5. TaskTypes' /\ UNCHANGED <<queue, count, state, tx, tasks>>
  BY Zenon DEF Wake, Types, TaskTypes, shared, tasks
<1> QED
  BY <1>2, <1>3, <1>4, <1>5, Quiet, Zenon DEF AtOrder, WakerPlaces, Won

(* The scan of the orders: a count is read, *)
LEMMA LoadCountInv ==
  ASSUME IInv, NEW w \in Wakers, LoadCount(w)
  PROVE  IInv'
<1> USE DEF IInv
<1> USE BoundsAssumption
<1>at. Types /\ job[w] \in Jobs /\ wpc[w] \in WakerPlaces
  BY DEF Types, WakerTypes
<1>1. CASE count[job[w].at] = 0
  <2>1. PICK j : j = [job[w] EXCEPT !.at = @ + 1]
    BY Zenon
  <2>2. wpc[w] \notin Won /\ job[w].entry = None
    BY DEF LoadCount, NextScore, Owned, WakerEntries, Won
  <2>3. j \in Jobs /\ j.entry = None
    <3>1. job[w].at \in 0 .. MaxOrder
      BY <1>at DEF LoadCount, Jobs, Orders
    <3>2. job[w].at + 1 \in 0 .. MaxOrder + 1
      BY <3>1
    <3> QED
      BY <1>at, <2>1, <2>2, <3>2 DEF Jobs
  <2>4. job' = [job EXCEPT ![w] = j] /\ WGoto(w, "score")
    BY <1>1, <1>at, <2>1 DEF LoadCount, NextScore, Types, WakerTypes
  <2>5. TaskTypes' /\ UNCHANGED <<queue, count, state, tx, tasks>>
    BY DEF LoadCount, NextScore, Types, TaskTypes, shared, tasks
  <2> QED
    BY <2>2, <2>3, <2>4, <2>5, Quiet, Zenon DEF AtOrder, WakerPlaces, Won
<1>2. CASE count[job[w].at] # 0
  <2>1. PICK j : j = job[w]
    OBVIOUS
  <2>2. wpc[w] \notin Won /\ job[w].entry = None
    BY DEF LoadCount, NextScore, Owned, WakerEntries, Won
  <2>3. j \in Jobs /\ j.entry = None /\ j.at \in Orders
    BY <1>2, <1>at, <2>1, <2>2 DEF LoadCount, Jobs, Orders
  <2>4. job' = [job EXCEPT ![w] = j] /\ WGoto(w, "stamp")
    BY <1>2, <1>at, <2>1 DEF LoadCount, NextScore, Types, WakerTypes
  <2>5. TaskTypes' /\ UNCHANGED <<queue, count, state, tx, tasks>>
    BY DEF LoadCount, NextScore, Types, TaskTypes, shared, tasks
  <2> QED
    BY <2>2, <2>3, <2>4, <2>5, Quiet, Zenon DEF WakerPlaces, Won
<1> QED
  BY <1>1, <1>2

(* and the timestamp of a head. *)
LEMMA LoadHeadInv ==
  ASSUME IInv, NEW w \in Wakers, LoadHead(w)
  PROVE  IInv'
<1> USE DEF IInv
<1> USE BoundsAssumption
<1>at. Types /\ job[w] \in Jobs /\ wpc[w] \in WakerPlaces
  BY DEF Types, WakerTypes
<1>1. PICK j : j = [job[w] EXCEPT !.at = @ + 1,
                      !.found = IF head[job[w].at] THEN @ \cup {job[w].at} ELSE @]
  OBVIOUS
<1>2. wpc[w] \notin Won /\ job[w].entry = None
  BY DEF LoadHead, Owned, WakerEntries, Won
<1>3. j \in Jobs /\ j.entry = None
  <2>1. job[w].at \in 0 .. MaxOrder
    BY DEF LoadHead, Types, WakerTypes, AtOrder, Orders
  <2>2. job[w].at + 1 \in 0 .. MaxOrder + 1
    BY <2>1
  <2>3. (IF head[job[w].at] THEN job[w].found \cup {job[w].at} ELSE job[w].found)
          \in SUBSET Orders
    BY <1>at, <2>1 DEF Jobs, Orders
  <2> QED
    BY <1>at, <1>1, <1>2, <2>2, <2>3, Zenon DEF Jobs
<1>4. job' = [job EXCEPT ![w] = j] /\ WGoto(w, "score")
  BY <1>at, <1>1, Zenon DEF LoadHead, Types, WakerTypes
<1>5. TaskTypes' /\ UNCHANGED <<queue, count, state, tx, tasks>>
  BY DEF LoadHead, Types, TaskTypes, shared, tasks
<1> QED
  BY <1>2, <1>3, <1>4, <1>5, Quiet, Zenon DEF AtOrder, WakerPlaces, Won

(* The winner of a long streak is left out. *)
LEMMA BanInv ==
  ASSUME IInv, NEW w \in Wakers, Ban(w)
  PROVE  IInv'
<1> USE DEF IInv
<1> USE BoundsAssumption
<1>at. Types /\ job[w] \in Jobs /\ wpc[w] \in WakerPlaces
  BY DEF Types, WakerTypes
<1>1. PICK j : j = [NoJob EXCEPT !.found =
                      IF job[w].streak >= MaxConsecutive /\ Cardinality(job[w].found) > 1
                      THEN job[w].found \ {job[w].last} ELSE job[w].found]
  BY Zenon
<1>2. wpc[w] \notin Won /\ job[w].entry = None
  BY DEF Ban, Owned, WakerEntries, Won
<1>3. j \in Jobs /\ j.entry = None
  <2>1. job[w].found \in SUBSET Orders /\ job[w].found \ {job[w].last} \in SUBSET Orders
    BY <1>at DEF Jobs
  <2> QED
    BY <1>1, <2>1, JobNew DEF Jobs
<1>4. job' = [job EXCEPT ![w] = j] /\ WGoto(w, "pick")
  BY <1>at, <1>1 DEF Ban, Types, WakerTypes
<1>5. TaskTypes' /\ UNCHANGED <<queue, count, state, tx, tasks>>
  BY DEF Ban, Types, TaskTypes, shared, tasks
<1> QED
  BY <1>2, <1>3, <1>4, <1>5, Quiet, Zenon DEF AtOrder, WakerPlaces, Won

(* The order to serve is chosen. *)
LEMMA PickInv ==
  ASSUME IInv, NEW w \in Wakers, NEW o \in Orders, Pick(w, o)
  PROVE  IInv'
<1> USE DEF IInv
<1> USE BoundsAssumption
<1>at. Types /\ job[w] \in Jobs /\ wpc[w] \in WakerPlaces
  BY DEF Types, WakerTypes
<1>1. PICK j : j = [job[w] EXCEPT !.at = o, !.found = @ \ {o}]
  OBVIOUS
<1>2. wpc[w] \notin Won /\ job[w].entry = None
  BY DEF Pick, Owned, WakerEntries, Won
<1>3. j \in Jobs /\ j.entry = None /\ j.at \in Orders
  <2>1. job[w].found \ {o} \in SUBSET Orders /\ o \in 0 .. MaxOrder + 1
    BY <1>at DEF Jobs, Orders
  <2> QED
    BY <1>at, <1>1, <1>2, <2>1, Zenon DEF Jobs
<1>4. job' = [job EXCEPT ![w] = j] /\ WGoto(w, "pop")
  BY <1>at, <1>1, Zenon DEF Pick, Types, WakerTypes
<1>5. TaskTypes' /\ UNCHANGED <<queue, count, state, tx, tasks>>
  BY DEF Pick, Types, TaskTypes, shared, tasks
<1>6. Unlocked(j.at)
  <2>1. j.at = o
    BY <1>at, <1>1 DEF Jobs
  <2> QED
    BY <2>1 DEF Pick
<1> QED
  BY <1>2, <1>3, <1>4, <1>5, <1>6, Quiet, Zenon DEF WakerPlaces, Won

(* Or there is none. *)
LEMMA WakeDoneInv ==
  ASSUME IInv, NEW w \in Wakers, WakeDone(w)
  PROVE  IInv'
<1> USE DEF IInv
<1> USE BoundsAssumption
<1>at. Types /\ job[w] \in Jobs /\ wpc[w] \in WakerPlaces
  BY DEF Types, WakerTypes
<1>1. PICK j : j = NoJob
  OBVIOUS
<1>2. wpc[w] \notin Won /\ job[w].entry = None
  BY DEF WakeDone, Owned, WakerEntries, Won
<1>3. j \in Jobs /\ j.entry = None
  BY <1>at, <1>1, <1>2, JobNew
<1>4. job' = [job EXCEPT ![w] = j] /\ WGoto(w, "idle")
  BY <1>at, <1>1 DEF WakeDone, Types, WakerTypes
<1>5. TaskTypes' /\ UNCHANGED <<queue, count, state, tx, tasks>>
  BY DEF WakeDone, Types, TaskTypes, shared, tasks
<1> QED
  BY <1>2, <1>3, <1>4, <1>5, Quiet, Zenon DEF AtOrder, WakerPlaces, Won

(* Nothing is left at this order, or of the bound on pops. *)
LEMMA PopNoneInv ==
  ASSUME IInv, NEW w \in Wakers, PopNone(w)
  PROVE  IInv'
<1> USE DEF IInv
<1> USE BoundsAssumption
<1>at. Types /\ job[w] \in Jobs /\ wpc[w] \in WakerPlaces
  BY DEF Types, WakerTypes
<1>1. PICK j : j = job[w]
  OBVIOUS
<1>2. wpc[w] \notin Won /\ job[w].entry = None
  BY DEF PopNone, Owned, WakerEntries, Won
<1>3. j \in Jobs /\ j.entry = None
  BY <1>at, <1>1, <1>2
<1>4. job' = [job EXCEPT ![w] = j] /\ WGoto(w, "pick")
  BY <1>at, <1>1, Zenon DEF PopNone, Types, WakerTypes
<1>5. TaskTypes' /\ UNCHANGED <<queue, count, state, tx, tasks>>
  BY Zenon DEF PopNone, Types, TaskTypes, shared, tasks
<1> QED
  BY <1>2, <1>3, <1>4, <1>5, Quiet, Zenon DEF AtOrder, WakerPlaces, Won

(* The streak is read, *)
LEMMA LoadStreakInv ==
  ASSUME IInv, NEW w \in Wakers, LoadStreak(w)
  PROVE  IInv'
<1> USE DEF IInv
<1> USE BoundsAssumption
<1>at. Types /\ job[w] \in Jobs /\ wpc[w] \in WakerPlaces
  BY DEF Types, WakerTypes
<1>1. PICK j : j = [job[w] EXCEPT !.last = last, !.streak = streak]
  OBVIOUS
<1>2. wpc[w] \notin Won /\ job[w].entry = None
  BY DEF LoadStreak, Owned, WakerEntries, Won
<1>3. j \in Jobs /\ j.entry = None /\ j.at \in Orders
  BY <1>at, <1>1, <1>2, Zenon
   DEF LoadStreak, Types, TaskTypes, WakerTypes, AtOrder, Jobs
<1>4. job' = [job EXCEPT ![w] = j] /\ WGoto(w, "store")
  BY <1>at, <1>1, Zenon DEF LoadStreak, Types, WakerTypes
<1>5. TaskTypes' /\ UNCHANGED <<queue, count, state, tx, tasks>>
  BY DEF LoadStreak, Types, TaskTypes, shared, tasks
<1> QED
  BY <1>2, <1>3, <1>4, <1>5, Quiet, Zenon DEF WakerPlaces, Won

(* and stored. *)
LEMMA StoreStreakInv ==
  ASSUME IInv, NEW w \in Wakers, StoreStreak(w)
  PROVE  IInv'
<1> USE DEF IInv
<1> USE BoundsAssumption
<1>at. Types /\ job[w] \in Jobs /\ wpc[w] \in WakerPlaces
  BY DEF Types, WakerTypes
<1>1. PICK j : j = [job[w] EXCEPT !.last = 0, !.streak = 0]
  OBVIOUS
<1>2. wpc[w] \notin Won /\ job[w].entry = None
  BY DEF StoreStreak, Owned, WakerEntries, Won
<1>3. j \in Jobs /\ j.entry = None
  <2>1. 0 \in Orders /\ 0 \in 0 .. MaxConsecutive
    BY DEF Orders
  <2> QED
    BY <1>at, <1>1, <1>2, <2>1, Zenon DEF Jobs
<1>4. job' = [job EXCEPT ![w] = j] /\ WGoto(w, "pick")
  BY <1>at, <1>1, Zenon DEF StoreStreak, Types, WakerTypes
<1>5. TaskTypes' /\ UNCHANGED <<queue, count, state, tx, tasks>>
  <2>1. last' \in Orders /\ streak' \in 0 .. MaxConsecutive
    BY <1>at DEF StoreStreak, Types, WakerTypes, AtOrder, Jobs
  <2> QED
    BY <2>1 DEF StoreStreak, Types, TaskTypes, tasks
<1> QED
  BY <1>2, <1>3, <1>4, <1>5, Quiet, Zenon DEF AtOrder, WakerPlaces, Won

(* An entry is popped under the lock: it is skipped, or won, and then its  *)
(* task is no longer listed, but the waker counts for it.                  *)
LEMMA PopInv ==
  ASSUME IInv, NEW w \in Wakers, Pop(w)
  PROVE  IInv'
<1> USE DEF IInv
<1> USE BoundsAssumption
<1>at. Types /\ job[w] \in Jobs /\ wpc[w] \in WakerPlaces
  BY DEF Types, WakerTypes
<1>o. PICK o \in Orders : o = job[w].at
  BY DEF Pop, Types, WakerTypes, AtOrder
<1>e. PICK e : e = Head(queue[o])
  OBVIOUS
<1>0. /\ wpc[w] = "pop" /\ queue[o] \in Seq(Entries) /\ queue[o] # << >>
      /\ queue' = [queue EXCEPT ![o] = Tail(queue[o])]
      /\ UNCHANGED <<count, head, last, streak, tx, pc, order, entry>>
      /\ job[w].entry = None
  <2>1. wpc[w] = "pop" /\ job[w].entry = None
    BY Zenon DEF Pop, Owned, WakerEntries, Won
  <2>2. /\ queue[o] \in Seq(Entries) /\ queue[o] # << >>
        /\ queue' = [queue EXCEPT ![o] = Tail(queue[o])]
    BY <1>o, Zenon DEF Pop, Types, TaskTypes
  <2> QED
    BY <2>1, <2>2, Zenon DEF Pop, tasks
<1>a. /\ e \in Entries
      /\ queue'[o] \in Seq(Entries)
      /\ \A x : InLine(queue[o], x) <=> (InLine(queue'[o], x) \/ x = e)
      /\ \A p \in Orders \ {o} : queue'[p] = queue[p]
  <2>1. queue'[o] = Tail(queue[o]) /\ \A p \in Orders \ {o} : queue'[p] = queue[p]
    BY <1>0, Zenon DEF Types, TaskTypes, WakerTypes
  <2> QED
    BY <1>e, <1>0, <2>1, LineTail
<1>b. CASE state[e] # "LIVE"
  <2>j. PICK j : j = [job[w] EXCEPT !.pops = @ + 1, !.entry = None]
    OBVIOUS
  <2>i. j \in Jobs /\ j.at = job[w].at /\ j.entry = None
    <3>1. job[w].pops + 1 \in Nat
      BY <1>at DEF Jobs
    <3> QED
      BY <1>at, <2>j, <3>1, Zenon DEF Jobs
  <2>0. state' = state /\ job' = [job EXCEPT ![w] = j] /\ WGoto(w, "pop")
    BY <1>o, <1>e, <1>0, <1>a, <1>b, <2>j, Zenon DEF Pop, Types, TaskTypes, WakerTypes
  <2>k. /\ WakerTypes'
        /\ job'[w] = j /\ wpc'[w] = "pop"
        /\ \A v \in Wakers \ {w} : job'[v] = job[v] /\ wpc'[v] = wpc[v]
    BY <1>o, <2>0, <2>i, JobStep, Zenon DEF Types, WakerPlaces
  <2>1. Types'
    BY <1>0, <1>a, <2>0, <2>k, Zenon DEF Types, TaskTypes
  <2>2. \A v \in Wakers : job'[v].at = job[v].at /\ job'[v].entry = job[v].entry
                          /\ wpc'[v] = wpc[v]
    BY <1>0, <2>i, <2>k, Zenon
  <2>3. Owned'
    <3>1. TaskEntries' /\ TasksApart' /\ LiveOwned'
      BY <1>0, <2>0 DEF Owned, LiveOwned, TasksApart, TaskEntries
    <3>2. WakerEntries'
      BY <1>0, <2>0, <2>2 DEF Owned, WakerEntries, Won
    <3>3. WakersApart'
      BY <2>2 DEF Owned, WakersApart
    <3> QED
      BY <3>1, <3>2, <3>3, Zenon DEF Owned
  <2>4. InQueues'
    <3>1. \A x : \A p \in Orders : InLine(queue'[p], x) => InLine(queue[p], x)
      BY <1>a
    <3>2. \A x : \A p \in Orders : x # e /\ InLine(queue[p], x) => InLine(queue'[p], x)
      BY <1>a
    <3>3. \A u \in Tasks : state[entry[u]] = "LIVE" => entry[u] # e
      BY <1>b
    <3> QED
      BY <1>0, <2>0, <3>1, <3>2, <3>3, Zenon DEF InQueues
  <2>5. Locked'
    BY <2>0, <2>2, Zenon DEF Locked
  <2>6. \A p \in Orders : /\ Leaving(p)' = Leaving(p)
                          /\ Winning(p)' = Winning(p)
                          /\ Listed(p)' = Listed(p)
    BY <1>0, <2>0, <2>2 DEF Leaving, Winning, Listed
  <2>7. Counted' /\ Spare'
    BY <1>0, <2>6, CountsSame, Zenon
  <2> QED
    BY <2>1, <2>3, <2>4, <2>5, <2>7
<1>c. CASE state[e] = "LIVE"
  <2>j. PICK j : j = [job[w] EXCEPT !.pops = @ + 1, !.entry = e]
    OBVIOUS
  <2>i. j \in Jobs /\ j.at = job[w].at /\ j.entry = e
    <3>1. job[w].pops + 1 \in Nat
      BY <1>at DEF Jobs
    <3> QED
      BY <1>at, <1>a, <2>j, <3>1, Zenon DEF Jobs
  <2>0. /\ state' = [state EXCEPT ![e] = "WOKEN"]
        /\ job' = [job EXCEPT ![w] = j] /\ WGoto(w, "count")
    BY <1>o, <1>e, <1>c, <2>j, Zenon DEF Pop, Types, WakerTypes
  <2>k. /\ WakerTypes'
        /\ job'[w] = j /\ wpc'[w] = "count"
        /\ \A v \in Wakers \ {w} : job'[v] = job[v] /\ wpc'[v] = wpc[v]
    BY <1>o, <2>0, <2>i, JobStep, Zenon DEF Types, WakerPlaces
  <2>1. Types'
    BY <1>0, <1>a, <2>0, <2>k, Zenon DEF Types, TaskTypes
  <2>2. /\ \A v \in Wakers : job'[v].at = job[v].at
        /\ \A v \in Wakers \ {w} : job'[v].entry = job[v].entry /\ wpc'[v] = wpc[v]
        /\ job'[w].entry = e /\ wpc'[w] = "count"
        /\ e # None
    BY <1>a, <2>i, <2>k, Zenon
  <2>3. PICK t \in Tasks : entry[t] = e
    BY <1>a, <1>c DEF Owned, LiveOwned
  <2>4. /\ \A u \in Tasks \ {t} : entry[u] # e
        /\ pc[t] \in Here /\ order[t] = o
        /\ \A x \in Entries \ {e} : state'[x] = state[x]
        /\ state'[e] = "WOKEN"
    <3>1. \A u \in Tasks \ {t} : entry[u] # e
      BY <2>2, <2>3, SMTT(30) DEF Owned, TasksApart
    <3>2. InLine(queue[o], e)
      BY <1>a, Zenon
    <3>3. pc[t] \notin {"idle", "register", "uncount"}
      BY <1>c, <2>2, <2>3 DEF Owned, TaskEntries
    <3>4. pc[t] # "prepare"
      BY <1>0, <2>3, <3>2, Zenon DEF InQueues
    <3>5. pc[t] \in Here
      BY <3>3, <3>4 DEF Types, TaskTypes, WakerTypes, Here
    <3>6. order[t] = o
      BY <1>0, <1>c, <2>3, <3>2, <3>5 DEF InQueues
    <3> QED
      BY <1>a, <2>0, <3>1, <3>5, <3>6, Zenon DEF Types, TaskTypes, WakerTypes
  <2>5. Owned'
    <3>1. \A v \in Wakers : job[v].entry # e
      BY <1>c, <2>2, Zenon DEF Owned, WakerEntries
    <3>2. tx[e] = "here"
      BY <1>a, <1>c DEF Owned, LiveOwned
    <3>3. \A v \in Wakers \ {w} : wpc[v] \in Won => job[v].entry \in Entries \ {e}
      BY <3>1 DEF Owned, WakerEntries, Types, TaskTypes, WakerTypes, Jobs
    <3>4. \A u \in Tasks \ {t} : entry[u] # None => entry[u] \in Entries \ {e}
      BY <2>4, Zenon DEF Types, TaskTypes, WakerTypes
    <3>5. \A u \in Tasks :
            /\ entry[u] = None <=> pc[u] \in {"idle", "register"}
            /\ pc[u] = "prepare" => state'[entry[u]] = "LIVE"
            /\ pc[u] = "uncount" => state'[entry[u]] = "REVOKED" /\ tx[entry[u]] = "here"
      BY <2>3, <2>4, <3>4 DEF Owned, TaskEntries, Here
    <3>6. \A v \in Wakers :
            /\ job'[v].entry # None <=> wpc'[v] \in Won
            /\ wpc'[v] \in Won => state'[job'[v].entry] = "WOKEN" /\ tx[job'[v].entry] = "here"
      BY <2>2, <2>4, <3>2, <3>3 DEF Owned, WakerEntries, Won
    <3>7. \A v, x \in Wakers : job'[v].entry = job'[x].entry /\ job'[v].entry # None => v = x
      BY <2>2, <3>1 DEF Owned, WakersApart
    <3>8. \A x \in Entries : state'[x] = "LIVE" => tx[x] = "here" /\ \E u \in Tasks : entry[u] = x
      BY <2>4, Zenon DEF Owned, LiveOwned
    <3>9. TaskEntries'
      BY <1>0, <3>5, Zenon DEF TaskEntries
    <3>10. WakerEntries'
      BY <1>0, <3>6, Zenon DEF WakerEntries
    <3>11. LiveOwned'
      BY <1>0, <3>8, Zenon DEF LiveOwned
    <3>12. TasksApart' /\ WakersApart'
      BY <1>0, <3>7, Zenon DEF Owned, WakersApart, TasksApart
    <3> QED
      BY <3>9, <3>10, <3>11, <3>12, Zenon DEF Owned
  <2>6. InQueues'
    <3>1. \A x : \A p \in Orders : InLine(queue'[p], x) => InLine(queue[p], x)
      BY <1>a, Zenon
    <3>2. \A x : \A p \in Orders : x # e /\ InLine(queue[p], x) => InLine(queue'[p], x)
      BY <1>a
    <3>3. \A u \in Tasks \ {t} : entry[u] \in Entries => state'[entry[u]] = state[entry[u]]
      BY <2>4
    <3>4. \A u \in Tasks : pc[u] \in Here => entry[u] \in Entries
      BY HasEntry DEF Here
    <3> QED
      BY <1>0, <2>3, <2>4, <3>1, <3>2, <3>3, <3>4, Zenon DEF InQueues, Here
  <2>7. Locked'
    BY <1>0, <2>2 DEF Locked
  <2>8. /\ \A p \in Orders : Leaving(p)' = Leaving(p)
        /\ \A p \in Orders \ {o} : Winning(p)' = Winning(p) /\ Listed(p)' = Listed(p)
        /\ w \notin Winning(o) /\ Winning(o)' = Winning(o) \cup {w}
        /\ t \in Listed(o) /\ Listed(o)' = Listed(o) \ {t} /\ t \notin Leaving(o)
    <3>1. \A u \in Tasks : u # t /\ pc[u] \in Here => state'[entry[u]] = state[entry[u]]
      BY <2>4, HasEntry, Zenon DEF Here
    <3>2. \A p \in Orders : Leaving(p)' = Leaving(p)
      BY <1>0 DEF Leaving
    <3>3. \A p \in Orders \ {o} : Winning(p)' = Winning(p)
      BY <1>o, <2>2 DEF Winning
    <3>4. w \notin Winning(o) /\ Winning(o)' = Winning(o) \cup {w}
      BY <1>o, <1>0, <2>2, Zenon DEF Winning
    <3>5. \A p \in Orders \ {o} : Listed(p)' = Listed(p)
      BY <1>0, <2>4, <3>1 DEF Listed
    <3>6. t \in Listed(o) /\ Listed(o)' = Listed(o) \ {t} /\ t \notin Leaving(o)
      BY <1>0, <1>c, <2>3, <2>4, <3>1, Zenon DEF Listed, Leaving, Here
    <3> QED
      BY <3>2, <3>3, <3>4, <3>5, <3>6
  <2>9. Counted'
    <3>1. IsFiniteSet(Listed(o)) /\ IsFiniteSet(Winning(o)) /\ Cardinality(Leaving(o)) \in Nat
      BY <1>0, Finite, Zenon
    <3>2. /\ Cardinality(Listed(o)') = Cardinality(Listed(o)) - 1
          /\ Cardinality(Winning(o)') = Cardinality(Winning(o)) + 1
          /\ Cardinality(Listed(o)) \in Nat /\ Cardinality(Winning(o)) \in Nat
      BY <2>8, <3>1, OneMore, Zenon
    <3>3. count[o] = Cardinality(Leaving(o)) + Cardinality(Winning(o)) + Cardinality(Listed(o))
      BY <1>0, Zenon DEF Counted
    <3>4. count'[o] =
          Cardinality(Leaving(o)') + Cardinality(Winning(o)') + Cardinality(Listed(o)')
      <4>1. count'[o] = count[o] /\ Cardinality(Leaving(o)') = Cardinality(Leaving(o))
        BY <1>0, <2>8, Zenon
      <4> QED
        BY <3>1, <3>2, <3>3, <4>1
    <3> QED
      BY <1>0, <2>8, <3>4, CountsMove, Zenon
  <2>10. Spare'
    BY <1>0, <2>8, Zenon DEF Spare
  <2> QED
    BY <2>1, <2>5, <2>6, <2>7, <2>9, <2>10
<1> QED
  BY <1>b, <1>c

(* The waker counts its entry out. *)
LEMMA CountOutInv ==
  ASSUME IInv, NEW w \in Wakers, CountOut(w)
  PROVE  IInv'
<1> USE DEF IInv
<1> USE BoundsAssumption
<1>0. PICK o \in Orders : o = job[w].at
  BY DEF CountOut, Types, WakerTypes, AtOrder
<1>1. Types'
  <2>1. count' \in [Orders -> Int]
    BY <1>0 DEF CountOut, Types, TaskTypes
  <2>2. TaskTypes'
    BY <2>1, Zenon DEF CountOut, Types, TaskTypes, tasks
  <2>3. WakerTypes'
    BY DEF CountOut, WGoto, Types, WakerTypes, WakerPlaces, AtOrder
  <2> QED
    BY <2>2, <2>3 DEF Types
<1>2. Owned'
  <2>1. TaskEntries'
    BY Zenon DEF CountOut, WGoto, tasks, Owned, TaskEntries
  <2>2. TasksApart'
    BY DEF CountOut, WGoto, tasks, Owned, TasksApart
  <2>3. WakerEntries' /\ WakersApart'
    BY DEF CountOut, WGoto, tasks, Owned, WakerEntries, WakersApart, wakers, WakerTypes,
       Won, Types, TaskTypes
  <2>4. LiveOwned'
    BY Zenon DEF CountOut, WGoto, tasks, Owned, LiveOwned
  <2> QED
    BY <2>1, <2>2, <2>3, <2>4 DEF Owned
<1>3. InQueues'
  BY Zenon DEF CountOut, InQueues, tasks
<1>4. Locked'
  BY Zenon DEF CountOut, WGoto, Locked, Types, TaskTypes, WakerTypes
<1>5. /\ \A p \in Orders : Leaving(p)' = Leaving(p) /\ Listed(p)' = Listed(p)
      /\ \A p \in Orders \ {o} : Winning(p)' = Winning(p)
      /\ w \in Winning(o) /\ Winning(o)' = Winning(o) \ {w}
  BY <1>0, Zenon
     DEF CountOut, WGoto, Leaving, Winning, Listed, Types, TaskTypes, WakerTypes, tasks
<1>6. Counted'
  <2>1. count'[o] = count[o] - 1 /\ \A p \in Orders \ {o} : count'[p] = count[p]
    BY <1>0, Zenon DEF CountOut, Types, TaskTypes, WakerTypes
  <2>2. /\ IsFiniteSet(Winning(o))
        /\ Cardinality(Listed(o)) \in Nat /\ Cardinality(Leaving(o)) \in Nat
    BY <1>0, Finite
  <2>3. Cardinality(Winning(o)') = Cardinality(Winning(o)) - 1 /\ Cardinality(Winning(o)) \in Nat
    BY <1>5, <2>2, OneMore, Zenon
  <2>4. count[o] = Cardinality(Leaving(o)) + Cardinality(Winning(o)) + Cardinality(Listed(o))
    BY <1>0, Zenon DEF Counted
  <2>5. count'[o] = Cardinality(Leaving(o)') + Cardinality(Winning(o)') + Cardinality(Listed(o)')
    <3>1. /\ Cardinality(Leaving(o)') = Cardinality(Leaving(o))
          /\ Cardinality(Listed(o)') = Cardinality(Listed(o))
      BY <1>0, <1>5, Zenon
    <3>2. (Cardinality(Leaving(o)) + Cardinality(Winning(o)) + Cardinality(Listed(o))) - 1 =
          Cardinality(Leaving(o)) + (Cardinality(Winning(o)) - 1) + Cardinality(Listed(o))
      <4>1. PICK l \in Nat, m \in Nat, n \in Nat :
              /\ l = Cardinality(Leaving(o)) /\ m = Cardinality(Winning(o))
              /\ n = Cardinality(Listed(o))
        BY <2>2, <2>3, Zenon
      <4>2. (l + m + n) - 1 = l + (m - 1) + n
        OBVIOUS
      <4> QED
        BY <4>1, <4>2, Zenon
    <3> QED
      BY <2>1, <2>3, <2>4, <3>1, <3>2, Zenon
  <2> QED
    BY <1>0, <1>5, <2>1, <2>5, CountsMove, Zenon
<1>7. Spare'
  BY <1>0, <1>5 DEF Spare
<1> QED
  BY <1>1, <1>2, <1>3, <1>4, <1>6, <1>7

(* The timestamp of the next head is stored, and the lock released. *)
LEMMA UpdateHeadInv ==
  ASSUME IInv, NEW w \in Wakers, UpdateHead(w)
  PROVE  IInv'
<1> USE DEF IInv
<1> USE BoundsAssumption
<1>0. /\ wpc[w] = "head" /\ wpc'[w] = "send" /\ job' = job
      /\ \A v \in Wakers \ {w} : wpc'[v] = wpc[v]
      /\ UNCHANGED <<queue, count, state, tx, pc, order, entry>>
  BY Zenon DEF UpdateHead, WGoto, Types, WakerTypes, tasks
<1>1. Types'
  <2>1. TaskTypes'
    BY Zenon DEF UpdateHead, Types, TaskTypes, tasks
  <2>2. WakerTypes'
    BY Zenon DEF UpdateHead, WGoto, Types, WakerTypes, WakerPlaces, AtOrder
  <2> QED
    BY <2>1, <2>2 DEF Types
<1>2. Owned'
  <2>1. TaskEntries'
    BY <1>0 DEF Won, Owned, TaskEntries
  <2>2. TasksApart'
    BY <1>0 DEF Won, Owned, TasksApart
  <2>3. WakerEntries' /\ WakersApart'
    BY <1>0, Zenon DEF Won, Owned, WakerEntries, WakersApart, wakers
  <2>4. LiveOwned'
    BY <1>0 DEF Won, Owned, LiveOwned
  <2> QED
    BY <2>1, <2>2, <2>3, <2>4 DEF Owned
<1>3. InQueues'
  BY <1>0, Zenon DEF InQueues
<1>4. Locked'
  BY <1>0 DEF Locked
<1>5. Counted' /\ Spare'
  <2>1. \A o \in Orders : /\ Leaving(o)' = Leaving(o)
                          /\ Winning(o)' = Winning(o)
                          /\ Listed(o)' = Listed(o)
    BY <1>0 DEF Leaving, Winning, Listed
  <2> QED
    BY <1>0, <2>1, CountsSame, Zenon
<1> QED
  BY <1>1, <1>2, <1>3, <1>4, <1>5

(* The sender is taken and sends. *)
LEMMA SendInv ==
  ASSUME IInv, NEW w \in Wakers, Send(w)
  PROVE  IInv'
<1> USE DEF IInv
<1> USE BoundsAssumption
<1>at. Types /\ job[w] \in Jobs /\ wpc[w] \in WakerPlaces
  BY DEF Types, WakerTypes
<1>e. PICK e \in Entries : e = job[w].entry /\ e # None /\ state[e] = "WOKEN"
  BY HasWon DEF Send, Owned, WakerEntries, Won
<1>j. PICK j : j = [job[w] EXCEPT !.entry = None]
  BY Zenon
<1>i. j \in Jobs /\ j.at = job[w].at /\ j.entry = None /\ j.at \in Orders
  BY <1>at, <1>j, HasWon DEF Send, Won, Jobs
<1>p. PICK place \in {"streak", "pick"} : WGoto(w, place)
  BY DEF Send
<1>0. /\ wpc[w] = "send" /\ job' = [job EXCEPT ![w] = j]
      /\ UNCHANGED <<queue, count, head, last, streak, state, pc, order, entry>>
      /\ \E x \in {"sent", "gone"} : tx' = [tx EXCEPT ![e] = x]
  BY <1>e, <1>j DEF Send, Types, WakerTypes, shared, tasks
<1>k. /\ WakerTypes'
      /\ job'[w] = j /\ wpc'[w] = place
      /\ \A v \in Wakers \ {w} : job'[v] = job[v] /\ wpc'[v] = wpc[v]
  BY <1>i, <1>p, <1>0, JobStep, Zenon DEF Types, WakerPlaces
<1>1. Types'
  BY <1>e, <1>0, <1>k DEF Types, TaskTypes
<1>2. Owned'
  <2>1. \A x \in Entries \ {e} : tx'[x] = tx[x]
    BY <1>0, Zenon DEF Types, TaskTypes
  <2>2. \A v \in Wakers \ {w} : wpc[v] \in Won => job[v].entry \in Entries \ {e}
    BY <1>e, HasWon, Zenon DEF Owned, WakersApart
  <2>3. \A t \in Tasks : pc[t] = "uncount" => entry[t] \in Entries \ {e}
    BY <1>e, HasEntry, Zenon DEF Owned, TaskEntries
  <2>4. \A t \in Tasks :
          /\ entry[t] = None <=> pc[t] \in {"idle", "register"}
          /\ pc[t] = "prepare" => state[entry[t]] = "LIVE"
          /\ pc[t] = "uncount" => state[entry[t]] = "REVOKED" /\ tx'[entry[t]] = "here"
    BY <2>1, <2>3, Zenon DEF Owned, TasksApart, TaskEntries
  <2>5. \A v \in Wakers :
          /\ job'[v].entry # None <=> wpc'[v] \in Won
          /\ wpc'[v] \in Won => state[job'[v].entry] = "WOKEN" /\ tx'[job'[v].entry] = "here"
    <3> SUFFICES ASSUME NEW v \in Wakers
                 PROVE  /\ job'[v].entry # None <=> wpc'[v] \in Won
                        /\ wpc'[v] \in Won => /\ state[job'[v].entry] = "WOKEN"
                                              /\ tx'[job'[v].entry] = "here"
      BY Zenon
    <3>1. CASE v = w
      BY <1>i, <1>k, <3>1 DEF Won
    <3>2. CASE v # w
      BY <1>k, <2>1, <2>2, <3>2 DEF Owned, WakerEntries
    <3> QED
      BY <3>1, <3>2, Zenon
  <2>6. \A v, x \in Wakers : job'[v].entry = job'[x].entry /\ job'[v].entry # None => v = x
    BY <1>i, <1>k DEF Owned, WakersApart
  <2>7. \A x \in Entries : state[x] = "LIVE" => tx'[x] = "here" /\ \E t \in Tasks : entry[t] = x
    BY <1>e, <2>1, Zenon DEF Owned, LiveOwned
  <2>8. TaskEntries'
    BY <1>0, <2>4, Zenon DEF TaskEntries
  <2>9. WakerEntries'
    BY <1>0, <2>5, Zenon DEF WakerEntries
  <2>10. LiveOwned'
    BY <1>0, <2>7, Zenon DEF LiveOwned
  <2>11. TasksApart' /\ WakersApart'
    BY <1>0, <2>6, Zenon DEF Owned, WakersApart, TasksApart
  <2> QED
    BY <2>8, <2>9, <2>10, <2>11, Zenon DEF Owned
<1>3. InQueues'
  BY <1>0, Zenon DEF InQueues
<1>4. Locked'
  BY <1>k DEF Locked
<1>5. Counted' /\ Spare'
  <2>1. \A o \in Orders : Leaving(o)' = Leaving(o) /\ Listed(o)' = Listed(o)
    BY <1>0, Zenon DEF Leaving, Listed
  <2>2. \A v \in Wakers : (wpc[v] = "count" <=> wpc'[v] = "count")
                          /\ (wpc[v] = "count" => job'[v] = job[v])
    BY <1>0, <1>k, Zenon
  <2>3. \A o \in Orders : Winning(o)' = Winning(o)
    BY <2>2 DEF Winning
  <2> QED
    BY <1>0, <2>1, <2>3, CountsSame
<1> QED
  BY <1>1, <1>2, <1>3, <1>4, <1>5

(* The steps of a waker. *)
LEMMA WakerInv ==
  ASSUME IInv, NEW w \in Wakers, WakerStep(w) \/ \E o \in Orders : Wake(w, o)
  PROVE  IInv'
BY WakeInv, LoadCountInv, LoadHeadInv, BanInv, PickInv, WakeDoneInv, PopNoneInv,
   LoadStreakInv,
   StoreStreakInv, PopInv, CountOutInv, UpdateHeadInv, SendInv DEF WakerStep

(* So the invariant holds throughout. *)
LEMMA Invariant == Spec => []IInv
<1>1. Init => IInv
  <2> SUFFICES ASSUME Init PROVE IInv
    OBVIOUS
  <2>1. TaskTypes
    BY BoundsAssumption DEF Init, TaskTypes, Orders
  <2>2. WakerTypes
    BY JobNew DEF Init, WakerTypes, WakerPlaces, AtOrder
  <2>3. Owned
    BY JobNew DEF Init, Owned, LiveOwned, WakersApart, WakerEntries, TasksApart,
       TaskEntries, Won
  <2>4. InQueues /\ Locked
    BY DEF Init, InQueues, Locked, Here
  <2>5. \A o \in Orders : Leaving(o) = {} /\ Winning(o) = {} /\ Listed(o) = {}
    BY DEF Init, Leaving, Winning, Listed, Here
  <2>6. Counted /\ Spare
    <3>1. Cardinality({}) = 0
      BY FS_EmptySet
    <3>2. \A o \in Orders : count[o] = 0
      BY DEF Init
    <3>3. \A o \in Orders : /\ Cardinality(Leaving(o)) = 0
                            /\ Cardinality(Winning(o)) = 0
                            /\ Cardinality(Listed(o)) = 0
      BY <2>5, <3>1
    <3>4. Counted
      BY <3>2, <3>3 DEF Counted
    <3>5. Spare
      BY <2>5 DEF Spare
    <3> QED
      BY <3>4, <3>5
  <2> QED
    BY <2>1, <2>2, <2>3, <2>4, <2>6 DEF IInv, Types
<1>2. IInv /\ [Next]_vars => IInv'
  <2> SUFFICES ASSUME IInv, [Next]_vars PROVE IInv'
    OBVIOUS
  <2>1. CASE Next
    BY <2>1, TaskInv, WakerInv DEF Next
  <2>2. CASE UNCHANGED vars
    <3> USE <2>2 DEF vars, IInv
    <3>1. Types'
      BY Zenon DEF Types, TaskTypes, WakerTypes
    <3>2. Owned'
      BY DEF Owned, LiveOwned, WakersApart, WakerEntries, TasksApart, TaskEntries
    <3>3. InQueues' /\ Locked'
      BY Zenon DEF InQueues, Locked
    <3>4. \A o \in Orders : /\ Leaving(o)' = Leaving(o)
                            /\ Winning(o)' = Winning(o)
                            /\ Listed(o)' = Listed(o)
      BY Zenon DEF Leaving, Winning, Listed
    <3>5. Counted' /\ Spare'
      BY <3>4, CountsSame
    <3> QED
      BY <3>1, <3>2, <3>3, <3>5
  <2> QED
    BY <2>1, <2>2
<1> QED
  BY <1>1, <1>2, PTL DEF Spec

-----------------------------------------------------------------------------
(* The results *)

(* The sender of an entry is taken by the one who won the compare-exchange *)
(* on its state, and is still there (revoke, the drop of a registration,   *)
(* buddy_wake).                                                            *)
THEOREM OneTaker == Spec => []SenderTakenOnce
<1>1. IInv => SenderTakenOnce
  <2> SUFFICES ASSUME IInv, NEW e \in Entries PROVE
        LET takers == {t \in Tasks : pc[t] = "uncount" /\ entry[t] = e} \cup
                      {w \in Wakers : wpc[w] \in {"count", "head", "send"} /\ job[w].entry = e}
        IN takers # {} => Cardinality(takers) = 1 /\ tx[e] = "here"
    BY Zenon DEF SenderTakenOnce
  <2> USE DEF IInv
  <2> DEFINE A == {t \in Tasks : pc[t] = "uncount" /\ entry[t] = e}
             B == {w \in Wakers : wpc[w] \in {"count", "head", "send"} /\ job[w].entry = e}
  <2>1. e # None
    BY BoundsAssumption
  <2>2. \A x, y \in A : x = y
    BY <2>1, SMTT(30) DEF Owned, TasksApart
  <2>3. \A x, y \in B : x = y
    BY <2>1 DEF Owned, WakersApart
  <2>4. A = {} \/ B = {}
    <3>1. A # {} => state[e] = "REVOKED"
      BY DEF Owned, TaskEntries
    <3>2. B # {} => state[e] = "WOKEN"
      BY DEF Owned, WakerEntries, Won
    <3> QED
      BY <3>1, <3>2, Zenon
  <2>5. A \cup B # {} => tx[e] = "here"
    BY DEF Owned, WakerEntries, TaskEntries, Won
  <2>6. A \cup B # {} => \E x : A \cup B = {x}
    BY <2>2, <2>3, <2>4
  <2>7. A \cup B # {} => Cardinality(A \cup B) = 1
    BY <2>6, FS_Singleton, Zenon
  <2> QED
    BY <2>5, <2>7, Zenon
<1> QED
  BY <1>1, Invariant, PTL

(* count[o] is the live entries of the queue and those a winner is about   *)
(* to take out, and never more than there are tasks (prepare, revoke,      *)
(* buddy_wake).                                                            *)
THEOREM CountExact == Spec => []CountMatches
<1>1. IInv => CountMatches
  <2> SUFFICES ASSUME IInv PROVE CountMatches
    OBVIOUS
  <2> USE DEF IInv
  <2>1. \A o \in Orders : count[o] \in 0 .. Cardinality(Tasks)
    <3> SUFFICES ASSUME NEW o \in Orders PROVE count[o] \in 0 .. Cardinality(Tasks)
      OBVIOUS
    <3> DEFINE L == Leaving(o)  W == Winning(o)  S == Listed(o)  T == L \cup S
    <3>1. /\ IsFiniteSet(L) /\ Cardinality(L) \in Nat
          /\ IsFiniteSet(W) /\ Cardinality(W) \in Nat
          /\ IsFiniteSet(S) /\ Cardinality(S) \in Nat
      BY Finite
    <3>2. count[o] = Cardinality(L) + Cardinality(W) + Cardinality(S)
      BY DEF Counted
    <3>3. L \cap S = {} /\ T \subseteq Tasks
      BY DEF Leaving, Listed, Here
    <3>4. Cardinality(T) = Cardinality(L) + Cardinality(S) /\ IsFiniteSet(T)
      <4>1. Cardinality(T) = Cardinality(L) + Cardinality(S) - Cardinality(L \cap S)
            /\ IsFiniteSet(T)
        BY <3>1, FS_Union, Zenon
      <4>2. Cardinality(L \cap S) = 0
        BY <3>3, FS_EmptySet
      <4> QED
        BY <3>1, <4>1, <4>2
    <3>5. Cardinality(Tasks) \in Nat
      BY FiniteAssumption, FS_CardinalityType
    <3>6. CASE W = {}
      <4>1. Cardinality(W) = 0
        BY <3>6, FS_EmptySet
      <4>2. Cardinality(T) <= Cardinality(Tasks)
        BY <3>3, FiniteAssumption, FS_Subset
      <4> QED
        BY <3>1, <3>2, <3>4, <3>5, <4>1, <4>2
    <3>7. CASE W # {}
      <4>1. \E w : W = {w}
        BY <3>7 DEF Winning, Locked
      <4>2. Cardinality(W) = 1
        BY <4>1, FS_Singleton, Zenon
      <4>3. PICK t \in Tasks : t \notin T
        BY <3>7 DEF Spare
      <4>4. Cardinality(T \cup {t}) = Cardinality(T) + 1
        BY <3>4, <4>3, OneMore
      <4>5. Cardinality(T \cup {t}) <= Cardinality(Tasks)
        <5>1. T \cup {t} \subseteq Tasks
          BY <3>3
        <5> QED
          BY <5>1, FiniteAssumption, FS_Subset
      <4> QED
        BY <3>1, <3>2, <3>4, <3>5, <4>2, <4>4, <4>5
    <3> QED
      BY <3>6, <3>7
  <2>2. count \in [Orders -> 0 .. Cardinality(Tasks)]
    BY <2>1 DEF Types, TaskTypes
  <2>3. TypeOK
    BY <2>2, Zenon DEF TypeOK, Types, TaskTypes, WakerTypes, WakerPlaces, Jobs
  <2>4. \A o \in Orders :
          count[o] = InFlight(o) + Cardinality({t \in Tasks :
                       /\ order[t] = o
                       /\ pc[t] \in {"head", "try", "revoke", "await"}
                       /\ state[entry[t]] = "LIVE"})
    BY Zenon DEF Counted, InFlight, Leaving, Winning, Listed, Here
  <2> QED
    BY <2>3, <2>4, Zenon DEF CountMatches
<1> QED
  BY <1>1, Invariant, PTL

(* No live waiter is stranded: the entry of a task that sleeps is in the   *)
(* queue of its order until a wake wins it (buddy_wake and its bound on    *)
(* pops).                                                                  *)
THEOREM NobodyStranded == Spec => []SleepersQueued
<1>1. IInv => SleepersQueued
  <2> SUFFICES ASSUME IInv, NEW t \in Tasks, Asleep(t)
               PROVE  InLine(queue[order[t]], entry[t])
    BY DEF SleepersQueued, InLine
  <2>1. order[t] \in Orders
    BY DEF IInv, Types, TaskTypes
  <2> QED
    BY <2>1 DEF IInv, InQueues, Asleep, Here
<1> QED
  BY <1>1, Invariant, PTL
=============================================================================
