---------------------------- MODULE WaiterProofs ----------------------------
(***************************************************************************)
(* For every number of tasks and slots: the count is the registrations,    *)
(* and no wake is lost.                                                    *)
(*                                                                         *)
(* The argument follows wakes.  Whoever frees a slot, and is about to      *)
(* notify; a future that was notified; and a task that has polled one and  *)
(* is about to pass the wake on: each carries a wake (Carries).  While     *)
(* somebody is in line a wake is passed on and never ends as a permit, and *)
(* while somebody is counted nobody skips it.  So a task that waits, and   *)
(* cannot count on its scan for some free slot, has a wake under way       *)
(* somewhere (WakesTravel).                                                *)
(***************************************************************************)
EXTENDS FixedWaiters, TreiberWaiter, FiniteSetTheorems, TLAPS

Futures == {"none", "waiting", "notified", "done"}

-----------------------------------------------------------------------------
(* The line of Notify *)

InLine(q, t) == \E i \in 1 .. Len(q) : q[i] = t

(* Nobody is in the line q twice, and the futures f know who is in it. *)
Line(f, q) ==
  /\ q \in Seq(Tasks)
  /\ \A i, j \in 1 .. Len(q) : q[i] = q[j] => i = j
  /\ \A t \in Tasks : f[t] = "waiting" <=> InLine(q, t)

(* Joining the line. *)
LEMMA LineJoin ==
  ASSUME NEW f \in [Tasks -> Futures], NEW q, Line(f, q), NEW t \in Tasks, f[t] # "waiting"
  PROVE  Line([f EXCEPT ![t] = "waiting"], Append(q, t))
<1> DEFINE r == Append(q, t)
<1>1. r \in Seq(Tasks) /\ Len(r) = Len(q) + 1 /\ r[Len(q) + 1] = t
      /\ \A i \in 1 .. Len(q) : r[i] = q[i]
  BY DEF Line
<1>2. Len(q) \in Nat
  BY DEF Line
<1>3. \A u \in Tasks : InLine(r, u) <=> (InLine(q, u) \/ u = t)
  BY <1>1, <1>2 DEF InLine
<1>4. \A i, j \in 1 .. Len(r) : r[i] = r[j] => i = j
  BY <1>1, <1>2 DEF Line, InLine
<1> QED
  BY <1>1, <1>3, <1>4 DEF Line

(* Two sequences joined. *)
LEMMA Joined ==
  ASSUME NEW S, NEW a \in Seq(S), NEW b \in Seq(S)
  PROVE  /\ a \o b \in Seq(S)
         /\ Len(a \o b) = Len(a) + Len(b)
         /\ \A j \in 1 .. Len(a) + Len(b) :
              (a \o b)[j] = IF j <= Len(a) THEN a[j] ELSE b[j - Len(a)]
OBVIOUS

(* Leaving the line at i. *)
LEMMA LineLeave ==
  ASSUME NEW f \in [Tasks -> Futures], NEW q, Line(f, q),
         NEW i \in 1 .. Len(q), NEW x \in Futures \ {"waiting"}
  PROVE  /\ q[i] \in Tasks
         /\ Line([f EXCEPT ![q[i]] = x], Without(q, i))
<1> DEFINE r == Without(q, i)
<1>1. q \in Seq(Tasks) /\ Len(q) \in Nat /\ i \in Nat /\ i >= 1 /\ q[i] \in Tasks
  BY DEF Line
<1>2. /\ r \in Seq(Tasks)
      /\ Len(r) = Len(q) - 1
      /\ \A j \in 1 .. Len(r) : r[j] = IF j < i THEN q[j] ELSE q[j + 1]
  <2> DEFINE a == SubSeq(q, 1, i - 1)
             b == SubSeq(q, i + 1, Len(q))
  <2>1. a \in Seq(Tasks) /\ Len(a) = i - 1 /\ \A j \in 1 .. i - 1 : a[j] = q[j]
    BY <1>1
  <2>2. b \in Seq(Tasks) /\ Len(b) = Len(q) - i /\ \A j \in 1 .. Len(q) - i : b[j] = q[i + j]
    BY <1>1
  <2> HIDE DEF a, b
  <2>3. /\ a \o b \in Seq(Tasks)
        /\ Len(a \o b) = Len(a) + Len(b)
        /\ \A j \in 1 .. Len(a) + Len(b) :
             (a \o b)[j] = IF j <= Len(a) THEN a[j] ELSE b[j - Len(a)]
    BY <2>1, <2>2, Joined, Zenon
  <2>4. r = a \o b
    BY DEF Without, a, b
  <2> HIDE DEF r
  <2>5. Len(r) = Len(q) - 1
    <3>1. Len(r) = (i - 1) + (Len(q) - i)
      BY <2>1, <2>2, <2>3, <2>4
    <3> QED
      BY <1>1, <3>1
  <2>6. ASSUME NEW j \in 1 .. Len(r) PROVE r[j] = IF j < i THEN q[j] ELSE q[j + 1]
    <3>1. CASE j < i
      BY <1>1, <2>1, <2>2, <2>3, <2>4, <2>5, <3>1
    <3>2. CASE ~ (j < i)
      <4>1. r[j] = b[j - (i - 1)]
        BY <1>1, <2>1, <2>2, <2>3, <2>4, <2>5, <3>2
      <4>2. j - (i - 1) \in 1 .. Len(q) - i
        BY <1>1, <2>5, <3>2
      <4>3. i + (j - (i - 1)) = j + 1
        BY <1>1, <2>5
      <4> QED
        BY <2>2, <3>2, <4>1, <4>2, <4>3
    <3> QED
      BY <3>1, <3>2
  <2> QED
    BY <2>3, <2>4, <2>5, <2>6
<1> HIDE DEF r
<1>3. \A u \in Tasks : InLine(r, u) <=> (InLine(q, u) /\ u # q[i])
  <2> SUFFICES ASSUME NEW u \in Tasks
               PROVE  InLine(r, u) <=> (InLine(q, u) /\ u # q[i])
    OBVIOUS
  <2>1. InLine(r, u) => (InLine(q, u) /\ u # q[i])
    BY <1>1, <1>2 DEF InLine, Line
  <2>2. ASSUME InLine(q, u), u # q[i] PROVE InLine(r, u)
    <3>1. PICK j \in 1 .. Len(q) : q[j] = u
      BY <2>2 DEF InLine
    <3>2. CASE j < i
      BY <1>1, <1>2, <3>1, <3>2 DEF InLine
    <3>3. CASE j > i
      <4>1. j - 1 \in 1 .. Len(r) /\ r[j - 1] = u
        BY <1>1, <1>2, <3>1, <3>3
      <4> QED
        BY <4>1 DEF InLine
    <3> QED
      BY <1>1, <2>2, <3>1, <3>2, <3>3
  <2> QED
    BY <2>1, <2>2
<1>4. ASSUME NEW j \in 1 .. Len(r), NEW k \in 1 .. Len(r), r[j] = r[k] PROVE j = k
  <2> DEFINE At(n) == IF n < i THEN n ELSE n + 1
  <2>1. At(j) \in 1 .. Len(q) /\ At(k) \in 1 .. Len(q) /\ q[At(j)] = q[At(k)]
    BY <1>1, <1>2, <1>4
  <2>2. At(j) = At(k)
    BY <2>1 DEF Line
  <2> QED
    BY <1>1, <1>2, <2>2
<1> QED
  BY <1>1, <1>2, <1>3, <1>4 DEF Line, r

(* The first in line is served. *)
LEMMA LineTail ==
  ASSUME NEW f \in [Tasks -> Futures], NEW q, Line(f, q), q # << >>
  PROVE  /\ Head(q) \in Tasks
         /\ f[Head(q)] = "waiting"
         /\ Line([f EXCEPT ![Head(q)] = "notified"], Tail(q))
<1>1. q \in Seq(Tasks) /\ Len(q) \in Nat /\ Len(q) >= 1 /\ Head(q) = q[1] /\ q[1] \in Tasks
  BY DEF Line
<1>2. Without(q, 1) = Tail(q)
  <2>1. SubSeq(q, 1, 0) = << >>
    BY <1>1
  <2>2. SubSeq(q, 2, Len(q)) = Tail(q)
    BY <1>1
  <2> QED
    BY <1>1, <2>1, <2>2 DEF Without
<1>3. f[q[1]] = "waiting"
  BY <1>1 DEF Line, InLine
<1>4. Line([f EXCEPT ![q[1]] = "notified"], Without(q, 1))
  <2>1. 1 \in 1 .. Len(q) /\ "notified" \in Futures \ {"waiting"}
    BY <1>1 DEF Futures
  <2> QED
    BY <2>1, LineLeave, Zenon
<1> QED
  BY <1>1, <1>2, <1>3, <1>4, Zenon

(* notify_one: somebody in line is notified, or nobody is in line. *)
LEMMA Notified ==
  ASSUME NEW f \in [Tasks -> Futures], permit \in BOOLEAN, Line(f, queue), NotifyOne(f, queue)
  PROVE  /\ permit' \in BOOLEAN
         /\ Line(fut', queue')
         /\ \/ fut' = f /\ \A t \in Tasks : f[t] # "waiting"
            \/ \E h \in Tasks : f[h] = "waiting" /\ fut' = [f EXCEPT ![h] = "notified"]
<1>1. CASE queue = << >>
  <2>1. permit' = TRUE /\ queue' = queue /\ fut' = f
    BY <1>1 DEF NotifyOne
  <2>2. \A t \in Tasks : ~ InLine(queue, t)
    BY <1>1 DEF InLine
  <2> QED
    BY <2>1, <2>2 DEF Line
<1>2. CASE queue # << >>
  BY <1>2, LineTail, Zenon DEF NotifyOne
<1> QED
  BY <1>1, <1>2

-----------------------------------------------------------------------------
(* The inductive invariant *)

Types ==
  /\ free \subseteq Slots
  /\ permit \in BOOLEAN
  /\ fut \in [Tasks -> Futures]
  /\ pc \in [Tasks -> Places]
  /\ held \in [Tasks -> Slots \cup {None}]
  /\ seen \in [Tasks -> SUBSET Slots]

(* Where a task may have which future, and a Buffer. *)
Calls ==
  \A t \in Tasks :
    /\ fut[t] = "none" <=> pc[t] \in {"idle", "enable", "holding", "freed", "wake"}
    /\ pc[t] \in {"polled", "drop", "pass"} => fut[t] = "done"
    /\ pc[t] = "holding" => held[t] # None
    /\ pc[t] = "await" => seen[t] = {}

Count == count = Cardinality({t \in Tasks : Registered(t)})

(* t has a wake in hand that it will not keep to itself. *)
Carries(t) ==
  \/ pc[t] \in {"freed", "wake"}
  \/ fut[t] = "notified"
  \/ pc[t] \in {"polled", "drop", "pass"}

Waits(t) == pc[t] \in {"try", "await"} /\ fut[t] = "waiting"

(* Some slot is free that the scan of t did not cover, or that it missed. *)
Uncovered(t) == ~ (free \subseteq seen[t])

WakesTravel ==
  \A t \in Tasks : Waits(t) /\ Uncovered(t) => \E u \in Tasks : Carries(u)

IInv == Types /\ Line(fut, queue) /\ Calls /\ Count /\ WakesTravel

-----------------------------------------------------------------------------
(* The count of the registrations *)

(* A step of t that registers it, deregisters it, or does neither. *)
LEMMA CountStep ==
  ASSUME Types, Count, NEW t \in Tasks, NEW place, Goto(t, place)
  PROVE  LET in == place \in {"try", "revoke", "await", "polled"} IN
         /\ Registered(t) /\ in /\ count' = count => Count'
         /\ ~ Registered(t) /\ ~ in /\ count' = count => Count'
         /\ ~ Registered(t) /\ in /\ count' = count + 1 => Count'
         /\ Registered(t) /\ ~ in /\ count' = count - 1 => Count'
<1> DEFINE R == {u \in Tasks : Registered(u)}
           in == place \in {"try", "revoke", "await", "polled"}
<1>1. IsFiniteSet(R) /\ Cardinality(R) \in Nat
  BY TasksAssumption, FS_Subset, FS_CardinalityType
<1>2. R' = IF in THEN R \cup {t} ELSE R \ {t}
  BY DEF Types, Goto, Registered
<1>3. Cardinality(R \cup {t}) = IF t \in R THEN Cardinality(R) ELSE Cardinality(R) + 1
  BY <1>1, FS_AddElement
<1>4. Cardinality(R \ {t}) = IF t \in R THEN Cardinality(R) - 1 ELSE Cardinality(R)
  BY <1>1, FS_RemoveElement, Zenon
<1>5. t \in R <=> Registered(t)
  OBVIOUS
<1>6. Count <=> count = Cardinality(R)
  BY DEF Count
<1>7. Count' <=> count' = Cardinality(R')
  BY DEF Count
<1> QED
  BY <1>2, <1>3, <1>4, <1>5, <1>6, <1>7

(* Somebody who waits is counted. *)
LEMMA WaitsCounted ==
  ASSUME Types, Count, NEW t \in Tasks, Registered(t)
  PROVE  count \in Nat /\ count # 0
<1> DEFINE R == {u \in Tasks : Registered(u)}
<1>1. IsFiniteSet(R) /\ Cardinality(R) \in Nat
  BY TasksAssumption, FS_Subset, FS_CardinalityType
<1>2. R # {}
  OBVIOUS
<1> QED
  BY <1>1, <1>2, FS_EmptySet DEF Count

-----------------------------------------------------------------------------
(* Every step keeps the invariant, action by action. *)
LEMMA InvStep ==
  ASSUME IInv, NEW t \in Tasks, Step(t) \/ Use(t)
  PROVE  IInv'
<1> USE DEF IInv
<1>1. CASE Call(t)
  <2>1. Types' /\ Calls'
    BY <1>1, SlotsAssumption DEF Call, Goto, Types, Calls, Places, Futures, notify
  <2>2. Line(fut, queue)'
    BY <1>1 DEF Call, notify
  <2>3. Count'
    <3>1. Goto(t, "enable")
      BY <1>1 DEF Call
    <3> QED
      BY <1>1, <3>1, CountStep DEF Call, Registered
  <2>4. WakesTravel'
    BY <1>1
       DEF Call, Goto, WakesTravel, Waits, Uncovered, Carries, Types, Calls, Futures, notify
  <2> QED
    BY <2>1, <2>2, <2>3, <2>4
<1>2. CASE Enable(t)
  <2>1. Types' /\ Calls'
    BY <1>2, Zenon DEF Enable, Goto, Types, Calls, Places, Futures
  <2>2. Line(fut, queue)'
    <3>1. fut[t] = "none"
      BY <1>2 DEF Calls, Enable
    <3>2. CASE permit
      BY <1>2, <3>1, <3>2 DEF Enable, Line, Types, Futures
    <3>3. CASE ~ permit
      <4>1. queue' = Append(queue, t) /\ fut' = [fut EXCEPT ![t] = "waiting"]
        BY <1>2, <3>3 DEF Enable
      <4>2. fut \in [Tasks -> Futures] /\ fut[t] # "waiting"
        BY <3>1 DEF Types
      <4>3. Line([fut EXCEPT ![t] = "waiting"], Append(queue, t))
        BY <4>2, LineJoin, Zenon
      <4> QED
        BY <4>1, <4>3
    <3> QED
      BY <3>2, <3>3
  <2>3. Count'
    <3>1. Goto(t, "count")
      BY <1>2 DEF Enable
    <3> QED
      BY <1>2, <3>1, CountStep DEF Enable, Registered
  <2>4. WakesTravel'
    BY <1>2
       DEF Enable, Goto, WakesTravel, Waits, Uncovered, Carries, Types, Calls, Futures, notify
  <2> QED
    BY <2>1, <2>2, <2>3, <2>4
<1>3. CASE CountIn(t)
  <2>1. Types' /\ Calls'
    BY <1>3, SlotsAssumption DEF CountIn, Goto, Types, Calls, Places, Futures, notify
  <2>2. Line(fut, queue)'
    BY <1>3 DEF CountIn, notify
  <2>3. Count'
    <3>1. Goto(t, "try")
      BY <1>3 DEF CountIn
    <3> QED
      BY <1>3, <3>1, CountStep DEF CountIn, Registered
  <2>4. WakesTravel'
    BY <1>3
       DEF CountIn, Goto, WakesTravel, Waits, Uncovered, Carries, Types, Calls, Futures, notify
  <2> QED
    BY <2>1, <2>2, <2>3, <2>4
<1>4. ASSUME NEW s \in Slots, Take(t, s) PROVE IInv'
  <2>1. Types' /\ Calls'
    BY <1>4, SlotsAssumption DEF Take, SetFree, Goto, Types, Calls, Places, Futures, notify
  <2>2. Line(fut, queue)'
    BY <1>4 DEF Take, SetFree, notify
  <2>3. Count'
    <3>1. Goto(t, "revoke")
      BY <1>4 DEF Take
    <3> QED
      BY <1>4, <3>1, CountStep DEF Take, Registered
  <2>4. WakesTravel'
    BY <1>4
       DEF Take, SetFree, Goto, WakesTravel, Waits, Uncovered, Carries, Types, Calls,
           Futures, notify
  <2> QED
    BY <2>1, <2>2, <2>3, <2>4
<1>5. CASE Fail(t)
  <2>1. Types' /\ Calls'
    BY <1>5, SlotsAssumption DEF Fail, Goto, Types, Calls, Places, Futures, notify
  <2>2. Line(fut, queue)'
    BY <1>5 DEF Fail, notify
  <2>3. Count'
    <3>1. Goto(t, "await")
      BY <1>5 DEF Fail
    <3> QED
      BY <1>5, <3>1, CountStep DEF Fail, Registered
  <2>4. WakesTravel'
    BY <1>5
       DEF Fail, Goto, WakesTravel, Waits, Uncovered, Carries, Types, Calls, Futures, notify
  <2> QED
    BY <2>1, <2>2, <2>3, <2>4
<1>6. CASE Revoke(t)
  <2>1. Types' /\ Calls'
    BY <1>6, SlotsAssumption DEF Revoke, Goto, Types, Calls, Places, Futures, notify
  <2>2. Line(fut, queue)'
    BY <1>6 DEF Revoke, notify
  <2>3. Count'
    <3>1. Goto(t, "leave")
      BY <1>6 DEF Revoke
    <3> QED
      BY <1>6, <3>1, CountStep DEF Revoke, Registered
  <2>4. WakesTravel'
    BY <1>6
       DEF Revoke, Goto, WakesTravel, Waits, Uncovered, Carries, Types, Calls, Futures, notify
  <2> QED
    BY <2>1, <2>2, <2>3, <2>4
<1>7. CASE Leave(t)
  <2> DEFINE f == [fut EXCEPT ![t] = "none"]
  <2>0. f \in [Tasks -> Futures] /\ (fut[t] # "waiting" => Line(f, queue))
    BY <1>7 DEF Leave, Line, Types, Futures
  <2>9. /\ permit' \in BOOLEAN /\ Line(fut', queue')
        /\ \/ fut' = f /\ (fut[t] = "notified" => \A u \in Tasks : f[u] # "waiting")
           \/ \E h \in Tasks : f[h] = "waiting" /\ fut' = [f EXCEPT ![h] = "notified"]
    <3>1. CASE fut[t] = "notified"
      <4>1. NotifyOne(f, queue)
        BY <1>7, <3>1 DEF Leave
      <4> QED
        BY <2>0, <3>1, <4>1, Notified, Zenon DEF Types
    <3>2. CASE fut[t] = "done"
      BY <1>7, <2>0, <3>2, Zenon DEF Leave, Types
    <3>3. CASE fut[t] = "waiting"
      <4>1. PICK i \in 1 .. Len(queue) : queue[i] = t /\ queue' = Without(queue, i)
        BY <1>7, <3>3 DEF Leave
      <4>2. fut' = f /\ permit' = permit
        BY <1>7, <3>3 DEF Leave
      <4>3. "none" \in Futures \ {"waiting"}
        BY DEF Futures
      <4>4. Line(f, queue')
        BY <4>1, <4>3, LineLeave, Zenon DEF Types
      <4> QED
        BY <3>3, <4>2, <4>4 DEF Types
    <3> QED
      BY <1>7, <3>1, <3>2, <3>3 DEF Leave
  <2>1. Types' /\ Calls'
    BY <1>7, <2>0, <2>9 DEF Leave, Goto, Types, Calls, Places, Futures
  <2>2. Line(fut, queue)'
    BY <2>9
  <2>3. Count'
    BY <1>7, CountStep DEF Leave, Registered
  <2>4. WakesTravel'
    <3>1. CASE fut' = f
      BY <1>7, <2>0, <2>9, <3>1, Zenon
         DEF Leave, Goto, WakesTravel, Waits, Uncovered, Carries, Types, Calls, Futures
    <3>2. CASE \E h \in Tasks : fut' = [f EXCEPT ![h] = "notified"]
      BY <2>0, <3>2 DEF WakesTravel, Carries
    <3> QED
      BY <2>9, <3>1, <3>2
  <2> QED
    BY <2>1, <2>2, <2>3, <2>4
<1>8. CASE Poll(t)
  <2>1. Types' /\ Calls'
    BY <1>8 DEF Poll, Goto, Types, Calls, Places, Futures
  <2>2. Line(fut, queue)'
    BY <1>8 DEF Poll, Line, Types, Calls, Futures
  <2>3. Count'
    <3>1. Goto(t, "polled")
      BY <1>8 DEF Poll
    <3> QED
      BY <1>8, <3>1, CountStep DEF Poll, Registered
  <2>4. WakesTravel'
    BY <1>8
       DEF Poll, Goto, WakesTravel, Waits, Uncovered, Carries, Types, Calls, Futures, notify
  <2> QED
    BY <2>1, <2>2, <2>3, <2>4
<1>9. CASE CountOut(t)
  <2>1. Types' /\ Calls'
    BY <1>9, SlotsAssumption DEF CountOut, Goto, Types, Calls, Places, Futures, notify
  <2>2. Line(fut, queue)'
    BY <1>9 DEF CountOut, notify
  <2>3. Count'
    <3>1. Goto(t, "drop")
      BY <1>9 DEF CountOut
    <3> QED
      BY <1>9, <3>1, CountStep DEF CountOut, Registered
  <2>4. WakesTravel'
    BY <1>9
       DEF CountOut, Goto, WakesTravel, Waits, Uncovered, Carries, Types, Calls, Futures, notify
  <2> QED
    BY <2>1, <2>2, <2>3, <2>4
<1>10. CASE DropAlone(t)
  <2>1. Types' /\ Calls'
    BY <1>10 DEF DropAlone, Goto, Types, Calls, Places, Futures
  <2>2. Line(fut, queue)'
    BY <1>10 DEF DropAlone, Line, Types, Calls, Futures
  <2>3. Count'
    <3>1. Goto(t, "enable")
      BY <1>10 DEF DropAlone
    <3> QED
      BY <1>10, <3>1, CountStep DEF DropAlone, Registered
  <2>4. WakesTravel'
    <3>1. \A u \in Tasks : ~ Waits(u)
      BY <1>10, WaitsCounted DEF DropAlone, Waits, Registered
    <3> QED
      BY <1>10, <3>1 DEF DropAlone, Goto, WakesTravel, Waits, Types, notify
  <2> QED
    BY <2>1, <2>2, <2>3, <2>4
<1>11. CASE DropAmongOthers(t)
  <2>1. Types' /\ Calls'
    BY <1>11, SlotsAssumption DEF DropAmongOthers, Goto, Types, Calls, Places, Futures, notify
  <2>2. Line(fut, queue)'
    BY <1>11 DEF DropAmongOthers, notify
  <2>3. Count'
    <3>1. Goto(t, "pass")
      BY <1>11 DEF DropAmongOthers
    <3> QED
      BY <1>11, <3>1, CountStep DEF DropAmongOthers, Registered
  <2>4. WakesTravel'
    BY <1>11
       DEF DropAmongOthers, Goto, WakesTravel, Waits, Uncovered, Carries, Types, Calls,
           Futures, notify
  <2> QED
    BY <2>1, <2>2, <2>3, <2>4
<1>12. CASE PassOn(t)
  <2> DEFINE f == [fut EXCEPT ![t] = "none"]
  <2>0. f \in [Tasks -> Futures] /\ Line(f, queue)
    BY <1>12 DEF PassOn, Line, Types, Calls, Futures
  <2>9. /\ permit' \in BOOLEAN /\ Line(fut', queue')
        /\ \/ fut' = f /\ \A u \in Tasks : f[u] # "waiting"
           \/ \E h \in Tasks : f[h] = "waiting" /\ fut' = [f EXCEPT ![h] = "notified"]
    BY <1>12, <2>0, Notified, Zenon DEF PassOn, Types
  <2>1. Types' /\ Calls'
    BY <1>12, <2>0, <2>9 DEF PassOn, Goto, Types, Calls, Places, Futures
  <2>2. Line(fut, queue)'
    BY <2>9
  <2>3. Count'
    <3>1. Goto(t, "enable")
      BY <1>12 DEF PassOn
    <3> QED
      BY <1>12, <3>1, CountStep DEF PassOn, Registered
  <2>4. WakesTravel'
    <3>1. CASE fut' = f
      BY <1>12, <2>0, <2>9, <3>1, Zenon
         DEF PassOn, Goto, WakesTravel, Waits, Uncovered, Carries, Types, Calls, Futures
    <3>2. CASE \E h \in Tasks : fut' = [f EXCEPT ![h] = "notified"]
      BY <2>0, <3>2 DEF WakesTravel, Carries
    <3> QED
      BY <2>9, <3>1, <3>2
  <2> QED
    BY <2>1, <2>2, <2>3, <2>4
<1>13. CASE WakeNobody(t)
  <2>1. Types' /\ Calls'
    BY <1>13, SlotsAssumption DEF WakeNobody, Goto, Types, Calls, Places, Futures, notify
  <2>2. Line(fut, queue)'
    BY <1>13 DEF WakeNobody, notify
  <2>3. Count'
    <3>1. Goto(t, "idle")
      BY <1>13 DEF WakeNobody
    <3> QED
      BY <1>13, <3>1, CountStep DEF WakeNobody, Registered
  <2>4. WakesTravel'
    <3>1. \A u \in Tasks : ~ Waits(u)
      BY <1>13, WaitsCounted DEF WakeNobody, Waits, Registered
    <3> QED
      BY <1>13, <3>1 DEF WakeNobody, Goto, WakesTravel, Waits, Types, notify
  <2> QED
    BY <2>1, <2>2, <2>3, <2>4
<1>14. CASE SeeWaiters(t)
  <2>1. Types' /\ Calls'
    BY <1>14, SlotsAssumption DEF SeeWaiters, Goto, Types, Calls, Places, Futures, notify
  <2>2. Line(fut, queue)'
    BY <1>14 DEF SeeWaiters, notify
  <2>3. Count'
    <3>1. Goto(t, "wake")
      BY <1>14 DEF SeeWaiters
    <3> QED
      BY <1>14, <3>1, CountStep DEF SeeWaiters, Registered
  <2>4. WakesTravel'
    BY <1>14
       DEF SeeWaiters, Goto, WakesTravel, Waits, Uncovered, Carries, Types, Calls,
           Futures, notify
  <2> QED
    BY <2>1, <2>2, <2>3, <2>4
<1>15. CASE WakeOne(t)
  <2> DEFINE f == fut
  <2>0. f \in [Tasks -> Futures] /\ Line(f, queue)
    BY <1>15 DEF WakeOne, Line, Types, Calls, Futures
  <2>9. /\ permit' \in BOOLEAN /\ Line(fut', queue')
        /\ \/ fut' = f /\ \A u \in Tasks : f[u] # "waiting"
           \/ \E h \in Tasks : f[h] = "waiting" /\ fut' = [f EXCEPT ![h] = "notified"]
    BY <1>15, <2>0, Notified DEF WakeOne, Types
  <2>1. Types' /\ Calls'
    BY <1>15, <2>0, <2>9 DEF WakeOne, Goto, Types, Calls, Places, Futures
  <2>2. Line(fut, queue)'
    BY <2>9
  <2>3. Count'
    <3>1. Goto(t, "idle")
      BY <1>15 DEF WakeOne
    <3> QED
      BY <1>15, <3>1, CountStep DEF WakeOne, Registered
  <2>4. WakesTravel'
    <3>1. CASE fut' = f
      BY <1>15, <2>0, <2>9, <3>1
         DEF WakeOne, Goto, WakesTravel, Waits, Uncovered, Carries, Types, Calls, Futures
    <3>2. CASE \E h \in Tasks : fut' = [f EXCEPT ![h] = "notified"]
      BY <2>0, <3>2 DEF WakesTravel, Carries
    <3> QED
      BY <2>9, <3>1, <3>2
  <2> QED
    BY <2>1, <2>2, <2>3, <2>4
<1>16. CASE Cancel(t)
  <2>1. Types' /\ Calls'
    BY <1>16, SlotsAssumption DEF Cancel, Goto, Types, Calls, Places, Futures, notify
  <2>2. Line(fut, queue)'
    BY <1>16 DEF Cancel, notify
  <2>3. Count'
    <3>1. Goto(t, "leave")
      BY <1>16 DEF Cancel
    <3> QED
      BY <1>16, <3>1, CountStep DEF Cancel, Registered
  <2>4. WakesTravel'
    BY <1>16
       DEF Cancel, Goto, WakesTravel, Waits, Uncovered, Carries, Types, Calls, Futures, notify
  <2> QED
    BY <2>1, <2>2, <2>3, <2>4
<1>17. ASSUME NEW s \in Slots, AllocateSync(t, s) PROVE IInv'
  <2>1. Types' /\ Calls'
    BY <1>17, SlotsAssumption DEF AllocateSync, SetFree, Goto, Types, Calls, Places, Futures, notify
  <2>2. Line(fut, queue)'
    BY <1>17 DEF AllocateSync, SetFree, notify
  <2>3. Count'
    <3>1. Goto(t, "holding")
      BY <1>17 DEF AllocateSync
    <3> QED
      BY <1>17, <3>1, CountStep DEF AllocateSync, Registered
  <2>4. WakesTravel'
    BY <1>17
       DEF AllocateSync, SetFree, Goto, WakesTravel, Waits, Uncovered, Carries, Types,
           Calls, Futures, notify
  <2> QED
    BY <2>1, <2>2, <2>3, <2>4
<1>18. CASE Release(t)
  <2>1. Types' /\ Calls'
    BY <1>18, SlotsAssumption DEF Release, SetFree, Goto, Types, Calls, Places, Futures, notify
  <2>2. Line(fut, queue)'
    BY <1>18 DEF Release, SetFree, notify
  <2>3. Count'
    <3>1. Goto(t, "freed")
      BY <1>18 DEF Release
    <3> QED
      BY <1>18, <3>1, CountStep DEF Release, Registered
  <2>4. WakesTravel'
    BY <1>18 DEF Release, Goto, WakesTravel, Carries, Types
  <2> QED
    BY <2>1, <2>2, <2>3, <2>4
<1> QED
  BY <1>1, <1>2, <1>3, <1>4, <1>5, <1>6, <1>7, <1>8, <1>9, <1>10, <1>11, <1>12,
     <1>13, <1>14, <1>15, <1>16, <1>17, <1>18
     DEF Step, Use

(* So the invariant holds throughout. *)
LEMMA Invariant == Spec => []IInv
<1>1. Init => IInv
  <2> SUFFICES ASSUME Init PROVE IInv
    OBVIOUS
  <2>1. Types /\ Calls /\ WakesTravel
    BY Zenon DEF Init, Types, Calls, WakesTravel, Waits, Places, Futures
  <2>2. Line(fut, queue)
    BY DEF Init, Line, InLine
  <2>3. {t \in Tasks : Registered(t)} = {}
    BY DEF Init, Registered
  <2>4. Count
    BY <2>3, FS_EmptySet DEF Init, Count
  <2> QED
    BY <2>1, <2>2, <2>4 DEF IInv
<1>2. IInv /\ [Next]_vars => IInv'
  <2> SUFFICES ASSUME IInv, [Next]_vars PROVE IInv'
    OBVIOUS
  <2>1. CASE Next
    BY <2>1, InvStep DEF Next
  <2>2. CASE UNCHANGED vars
    BY <2>2 DEF vars, IInv, Types, Line, InLine, Calls, Count, WakesTravel, Waits, Uncovered,
                Carries, Registered
  <2> QED
    BY <2>1, <2>2
<1> QED
  BY <1>1, <1>2, PTL DEF Spec

-----------------------------------------------------------------------------
(* The results *)

(* The count that wake and the drop of a registration go by is exactly the *)
(* registrations there are (NotifyRegistration, NotifyWaiters::wake).      *)
THEOREM CountExact == Spec => []CountMatches
<1>1. IInv => CountMatches
  <2> SUFFICES ASSUME IInv PROVE CountMatches
    OBVIOUS
  <2> DEFINE R == {t \in Tasks : Registered(t)}
  <2>1. Cardinality(R) \in Nat /\ Cardinality(Tasks) \in Nat
        /\ Cardinality(R) <= Cardinality(Tasks)
    BY TasksAssumption, FS_Subset, FS_CardinalityType
  <2>2. count \in 0 .. Cardinality(Tasks)
    BY <2>1 DEF IInv, Count
  <2> QED
    BY <2>2 DEF IInv, Types, Line, Count, CountMatches, TypeOK, Futures
<1> QED
  BY <1>1, Invariant, PTL

(* No wake is lost (release, wake, prepare before the retry, revoke, the   *)
(* drop of a registration): once nothing is under way, nobody sleeps       *)
(* beside a free slot, for every number of tasks and slots.                *)
THEOREM NoWakeLost == Spec => []NobodyOverslept
<1>1. IInv => NobodyOverslept
  <2> SUFFICES ASSUME IInv, \A u \in Tasks : AtRest(u), free # {},
                      NEW t \in Tasks, Asleep(t)
               PROVE  FALSE
    BY DEF NobodyOverslept
  <2>1. Waits(t) /\ Uncovered(t)
    BY DEF IInv, Calls, Asleep, Waits, Uncovered
  <2>2. PICK u \in Tasks : Carries(u)
    BY <2>1 DEF IInv, WakesTravel
  <2>3. AtRest(u)
    OBVIOUS
  <2> QED
    BY <2>2, <2>3 DEF IInv, Calls, Carries, AtRest, Asleep
<1> QED
  BY <1>1, Invariant, PTL

-----------------------------------------------------------------------------
(* The stack of examples/treiber_waker.rs, for every number of tasks,      *)
(* nodes and slots, on one thread or many, with futures dropped or not.    *)

(* StackTypeOK but for the slots. *)
NodeTypes ==
  /\ top \in Nodes \cup {Null}
  /\ next \in [Nodes -> Nodes \cup {Null}]
  /\ status \in [Nodes -> {"LIVE", "WOKEN", "REVOKED"}]
  /\ waker \in [Nodes -> {"current", "stale", "taken"}]
  /\ woken \subseteq Callers
  /\ cpc \in [Callers -> PollPlaces]
  /\ mine \in [Callers -> Nodes \cup {Null}]
  /\ ptr \in [Callers -> Nodes \cup {Null}]
  /\ below \in [Callers -> Nodes \cup {Null}]

-----------------------------------------------------------------------------
(* The nodes of the stack *)

(* Stacked is the least closed set ... *)
LEMMA StackedLeast ==
  ASSUME NEW S \in SUBSET Nodes, Closed(S)
  PROVE  Stacked \subseteq S
BY DEF Stacked

(* ... and is closed itself. *)
LEMMA StackedClosed ==
  ASSUME NodeTypes
  PROVE  Stacked \subseteq Nodes /\ Closed(Stacked)
<1>1. top \in Stacked \cup {Null}
  BY DEF NodeTypes, Stacked, Closed
<1>2. ASSUME NEW n \in Stacked
      PROVE  next[n] \in Stacked \cup {Null}
  <2>1. SUFFICES ASSUME next[n] # Null,
                        NEW S \in SUBSET Nodes, Closed(S)
                 PROVE  next[n] \in S
    BY <1>2 DEF NodeTypes, Stacked
  <2>2. n \in S
    BY <1>2, <2>1 DEF Stacked
  <2> QED
    BY <2>1, <2>2 DEF Closed
<1> QED
  BY <1>1, <1>2 DEF Closed, Stacked

(* A step that leaves head and next alone leaves the stack alone. *)
LEMMA StackedSame ==
  ASSUME UNCHANGED stack
  PROVE  Stacked' = Stacked
BY DEF stack, Stacked, Closed

(* So does one that only changes the next of a node outside it. *)
LEMMA StackedLink ==
  ASSUME NodeTypes, NEW e \in Nodes, e \notin Stacked,
         NEW x \in Nodes \cup {Null},
         next' = [next EXCEPT ![e] = x], top' = top
  PROVE  Stacked' = Stacked
<1>1. PICK T : T = Stacked
  OBVIOUS
<1>2. T \subseteq Nodes /\ Closed(T) /\ e \notin T
  BY <1>1, StackedClosed
<1>3. \A n \in T : next'[n] = next[n]
  BY <1>2 DEF NodeTypes
<1>4. Stacked' \subseteq T
  <2>1. top' \in T \cup {Null} /\ \A n \in T : next'[n] \in T \cup {Null}
    BY <1>2, <1>3 DEF Closed
  <2> QED
    BY <1>2, <2>1 DEF Stacked, Closed
<1>5. ASSUME NEW S \in SUBSET Nodes,
             top' \in S \cup {Null}, \A n \in S : next'[n] \in S \cup {Null}
      PROVE  T \subseteq S
  <2>1. Closed(S \cap T)
    BY <1>2, <1>3, <1>5 DEF Closed
  <2> QED
    BY <1>1, <2>1, StackedLeast
<1>6. T \subseteq Stacked'
  BY <1>2, <1>5 DEF Stacked, Closed
<1> QED
  BY <1>1, <1>4, <1>6

(* The exchange of push puts its node on top. *)
LEMMA StackedPush ==
  ASSUME Null \notin Nodes, NodeTypes,
         NEW e \in Nodes, next[e] = top, top' = e, next' = next
  PROVE  Stacked' = Stacked \cup {e}
<1>1. PICK T : T = Stacked
  OBVIOUS
<1>2. T \subseteq Nodes /\ Closed(T)
  BY <1>1, StackedClosed
<1>3. Stacked' \subseteq T \cup {e}
  <2>1. \A n \in T \cup {e} : next'[n] \in T \cup {e} \cup {Null}
    BY <1>2 DEF Closed
  <2> QED
    BY <1>2, <2>1, Zenon DEF Stacked, Closed
<1>4. ASSUME NEW S \in SUBSET Nodes,
             top' \in S \cup {Null}, \A n \in S : next'[n] \in S \cup {Null}
      PROVE  T \subseteq S
  <2>1. Closed(S)
    BY <1>4 DEF Closed
  <2> QED
    BY <1>1, <2>1, StackedLeast
<1>5. T \cup {e} \subseteq Stacked'
  BY <1>2, <1>4 DEF Stacked, Closed
<1> QED
  BY <1>1, <1>3, <1>5

(* No two nodes of the stack are above the same one, and none is above the *)
(* head.                                                                   *)
Chain ==
  /\ top # Null => \A n \in Stacked : next[n] # top
  /\ \A m, n \in Stacked : next[m] = next[n] /\ next[m] # Null => m = n

(* The exchange of pop_and_wake takes the head away, and nothing else. *)
LEMMA StackedPop ==
  ASSUME Null \notin Nodes, NodeTypes, Chain,
         top \in Nodes, top' = next[top], next' = next
  PROVE  Stacked' = Stacked \ {top}
<1>1. PICK T : T = Stacked
  OBVIOUS
<1>2. PICK h : h = top
  OBVIOUS
<1>3. T \subseteq Nodes /\ Closed(T) /\ h \in T
  BY <1>1, <1>2, StackedClosed DEF Closed
<1>4. \A n \in T : next[n] # h
  BY <1>1, <1>2 DEF Chain
<1>5. Stacked' \subseteq T \ {h}
  <2>1. top' \in (T \ {h}) \cup {Null}
    BY <1>2, <1>3, <1>4 DEF Closed
  <2>2. \A n \in T \ {h} : next'[n] \in (T \ {h}) \cup {Null}
    BY <1>3, <1>4 DEF Closed
  <2> QED
    BY <1>3, <2>1, <2>2, Zenon DEF Stacked, Closed
<1>6. ASSUME NEW S \in SUBSET Nodes,
             top' \in S \cup {Null}, \A n \in S : next'[n] \in S \cup {Null}
      PROVE  T \ {h} \subseteq S
  <2>1. Closed(S \cup {h})
    BY <1>2, <1>3, <1>6 DEF Closed
  <2> QED
    BY <1>1, <1>2, <1>3, <2>1, StackedLeast
<1>7. T \ {h} \subseteq Stacked'
  BY <1>3, <1>6 DEF Stacked, Closed
<1> QED
  BY <1>1, <1>2, <1>5, <1>7

-----------------------------------------------------------------------------
(* The invariant *)

HasEntry(t) == cpc[t] \in {"push", "link", "parked", "refresh", "recheck"}

Pushing(t) == cpc[t] \in {"push", "link"}

(* t has a node that was the head when it was loaded. *)
Reading(t) == cpc[t] \in {"next", "unlink", "arbitrate", "wake"}

(* Who has an entry, and what is known of it and of what was loaded. *)
Locals ==
  /\ \A t \in Callers : mine[t] # Null <=> HasEntry(t)
  /\ \A t, u \in Callers : mine[t] = mine[u] /\ mine[t] # Null => t = u
  /\ \A t \in Callers : Reading(t) => ptr[t] # Null
  /\ \A t \in Callers : cpc[t] = "link" => next[mine[t]] = ptr[t]

(* A node that is being pushed is its pusher's alone. *)
Fresh ==
  \A t \in Callers : Pushing(t) =>
    /\ status[mine[t]] = "LIVE" /\ waker[mine[t]] = "current"
    /\ mine[t] \notin Stacked
    /\ \A u \in Callers : Reading(u) => ptr[u] # mine[t]

(* What a pop loaded from a node is true as long as the node is there: the *)
(* exchange does not suffer from ABA.                                      *)
Reads ==
  \A t \in Callers : cpc[t] = "unlink" /\ ptr[t] \in Stacked => below[t] = next[ptr[t]]

Kept ==
  \A t \in Callers :
    Waiting(t) /\ status[mine[t]] = "LIVE" =>
      \/ mine[t] \in Stacked
      \/ \E u \in Callers : cpc[u] = "arbitrate" /\ ptr[u] = mine[t]

Popped ==
  \A t, u \in Callers :
    Popping(t) => ptr[t] \notin Stacked /\ (Popping(u) /\ ptr[u] = ptr[t] => u = t)

(* The waker in an entry that a pop may still find, or has found. *)
Wakers ==
  /\ \A t \in Callers : cpc[t] = "parked" /\ status[mine[t]] = "LIVE" =>
       t \in woken \/ waker[mine[t]] = "current"
  /\ \A t \in Callers : cpc[t] = "recheck" /\ status[mine[t]] # "WOKEN" =>
       waker[mine[t]] = "current"
  /\ \A t \in Callers : cpc[t] = "wake" => status[ptr[t]] = "WOKEN"

StackInv ==
  /\ NodeTypes /\ Locals /\ Chain /\ Fresh /\ Reads /\ Kept /\ Popped
  /\ Wakers /\ WokenArePolled

(* Every step keeps the invariant, action by action. *)
LEMMA StackStep ==
  ASSUME Null \notin Nodes, StackInv, StackNext
  PROVE  StackInv'
<1> USE DEF StackInv, NodeTypes, Locals, HasEntry, Reading, Fresh, Pushing, MoveOn, stack
<1>1. ASSUME NEW t \in Callers, Arm(t)
      PROVE  StackInv'
  <2>0. Stacked' = Stacked
    BY <1>1, StackedSame DEF Arm
  <2>1. NodeTypes' /\ Locals'
    BY <1>1, <2>0 DEF PollPlaces, Arm
  <2>2. Chain' /\ Fresh' /\ Reads'
    BY <1>1, <2>0 DEF Chain, Reads, Arm
  <2>3. Kept' /\ Popped'
    BY <1>1, <2>0 DEF Kept, Popped, Waiting, Popping, Arm
  <2>4. Wakers' /\ WokenArePolled'
    BY <1>1, <2>0 DEF Wakers, WokenArePolled, Popped, Popping, Arm
  <2> QED
    BY <2>1, <2>2, <2>3, <2>4
<1>2. ASSUME NEW t \in Callers, TryTakes(t)
      PROVE  StackInv'
  <2>0. Stacked' = Stacked
    BY <1>2, StackedSame DEF TryTakes
  <2>1. NodeTypes' /\ Locals'
    BY <1>2, <2>0 DEF PollPlaces, TryTakes
  <2>2. Chain' /\ Fresh' /\ Reads'
    BY <1>2, <2>0 DEF Chain, Reads, TryTakes
  <2>3. Kept' /\ Popped'
    BY <1>2, <2>0 DEF Kept, Popped, Waiting, Popping, TryTakes
  <2>4. Wakers' /\ WokenArePolled'
    BY <1>2, <2>0 DEF Wakers, WokenArePolled, Popped, Popping, TryTakes
  <2> QED
    BY <2>1, <2>2, <2>3, <2>4
<1>3. ASSUME NEW t \in Callers, NEW n \in Nodes, TryFails(t, n)
      PROVE  StackInv'
  <2>0. Stacked' = Stacked
    BY <1>3, StackedSame DEF TryFails
  <2>1. NodeTypes' /\ Locals'
    BY <1>3, <2>0 DEF PollPlaces, TryFails, UnusedNodes
  <2>2. Chain' /\ Fresh' /\ Reads'
    BY <1>3, <2>0 DEF Chain, Reads, TryFails, UnusedNodes
  <2>3. Kept' /\ Popped'
    BY <1>3, <2>0 DEF Kept, Popped, Waiting, Popping, TryFails, UnusedNodes
  <2>4. Wakers' /\ WokenArePolled'
    BY <1>3, <2>0 DEF Wakers, WokenArePolled, Popped, Popping, TryFails, UnusedNodes
  <2> QED
    BY <2>1, <2>2, <2>3, <2>4
<1>4. ASSUME NEW t \in Callers, PushLoad(t)
      PROVE  StackInv'
  <2>e. mine[t] \in Nodes /\ mine[t] \notin Stacked
    BY <1>4 DEF PushLoad
  <2>h. top \in Nodes \cup {Null} /\ top' = top /\ next' = [next EXCEPT ![mine[t]] = top]
    BY <1>4 DEF PushLoad
  <2>0. Stacked' = Stacked
    BY <2>e, <2>h, StackedLink, Zenon
  <2>1. NodeTypes' /\ Locals'
    BY <1>4, <2>0 DEF PollPlaces, PushLoad
  <2>2. Chain' /\ Fresh' /\ Reads'
    BY <1>4, <2>0 DEF Chain, Reads, PushLoad
  <2>3. Kept' /\ Popped'
    BY <1>4, <2>0 DEF Kept, Popped, Waiting, Popping, PushLoad
  <2>4. Wakers' /\ WokenArePolled'
    BY <1>4, <2>0 DEF Wakers, WokenArePolled, Popped, Popping, PushLoad
  <2> QED
    BY <2>1, <2>2, <2>3, <2>4
<1>5. ASSUME NEW t \in Callers, PushLink(t)
      PROVE  StackInv'
  <2>0. IF top = ptr[t] THEN Stacked' = Stacked \cup {mine[t]} ELSE Stacked' = Stacked
    BY <1>5, StackedPush, StackedSame DEF PushLink
  <2>s. Stacked \subseteq Nodes /\ Closed(Stacked)
    BY StackedClosed
  <2>1. NodeTypes' /\ Locals'
    BY <1>5, <2>0, <2>s DEF PollPlaces, PushLink, Closed
  <2>2. Chain' /\ Fresh' /\ Reads'
    BY <1>5, <2>0, <2>s DEF Chain, Reads, PushLink, Closed
  <2>3. Kept' /\ Popped'
    BY <1>5, <2>0, <2>s DEF Kept, Popped, Waiting, Popping, PushLink, Closed
  <2>4. Wakers'
    BY <1>5, <2>0, <2>s DEF Wakers, Popped, Popping, PushLink, Closed
  <2>5. WokenArePolled'
    BY <1>5, <2>0, <2>s DEF WokenArePolled, Popped, Popping, PushLink, Closed
  <2> QED
    BY <2>1, <2>2, <2>3, <2>4, <2>5
<1>6. ASSUME NEW t \in Callers, PollReady(t)
      PROVE  StackInv'
  <2>0. Stacked' = Stacked
    BY <1>6, StackedSame DEF PollReady, Ready
  <2>1. NodeTypes' /\ Locals'
    BY <1>6, <2>0 DEF PollPlaces, PollReady, Ready
  <2>2. Chain' /\ Fresh' /\ Reads'
    BY <1>6, <2>0 DEF Chain, Reads, PollReady, Ready
  <2>3. Kept' /\ Popped'
    BY <1>6, <2>0 DEF Kept, Popped, Waiting, Popping, PollReady, Ready
  <2>4. Wakers'
    BY <1>6, <2>0 DEF Wakers, Popped, Popping, PollReady, Ready
  <2>5. WokenArePolled'
    BY <1>6, <2>0 DEF WokenArePolled, Popped, Popping, PollReady, Ready
  <2> QED
    BY <2>1, <2>2, <2>3, <2>4, <2>5
<1>7. ASSUME NEW t \in Callers, PollPending(t)
      PROVE  StackInv'
  <2>0. Stacked' = Stacked
    BY <1>7, StackedSame DEF PollPending
  <2>1. NodeTypes' /\ Locals'
    BY <1>7, <2>0 DEF PollPlaces, PollPending
  <2>2. Chain' /\ Fresh' /\ Reads'
    BY <1>7, <2>0 DEF Chain, Reads, PollPending
  <2>3. Kept' /\ Popped'
    BY <1>7, <2>0 DEF Kept, Popped, Waiting, Popping, PollPending
  <2>4. Wakers' /\ WokenArePolled'
    BY <1>7, <2>0 DEF Wakers, WokenArePolled, Popped, Popping, PollPending
  <2> QED
    BY <2>1, <2>2, <2>3, <2>4
<1>8. ASSUME NEW t \in Callers, Refresh(t)
      PROVE  StackInv'
  <2>0. Stacked' = Stacked
    BY <1>8, StackedSame DEF Refresh
  <2>1. NodeTypes' /\ Locals'
    BY <1>8, <2>0 DEF PollPlaces, Refresh
  <2>2. Chain' /\ Fresh' /\ Reads'
    BY <1>8, <2>0 DEF Chain, Reads, Refresh
  <2>3. Kept' /\ Popped'
    BY <1>8, <2>0 DEF Kept, Popped, Waiting, Popping, Refresh
  <2>4. Wakers'
    BY <1>8, <2>0 DEF Wakers, Popped, Popping, Refresh
  <2>5. WokenArePolled'
    BY <1>8, <2>0 DEF WokenArePolled, Popped, Popping, Refresh
  <2> QED
    BY <2>1, <2>2, <2>3, <2>4, <2>5
<1>9. ASSUME NEW t \in Callers, RecheckReady(t)
      PROVE  StackInv'
  <2>0. Stacked' = Stacked
    BY <1>9, StackedSame DEF RecheckReady, Ready
  <2>1. NodeTypes' /\ Locals'
    BY <1>9, <2>0 DEF PollPlaces, RecheckReady, Ready
  <2>2. Chain' /\ Fresh' /\ Reads'
    BY <1>9, <2>0 DEF Chain, Reads, RecheckReady, Ready
  <2>3. Kept' /\ Popped'
    BY <1>9, <2>0 DEF Kept, Popped, Waiting, Popping, RecheckReady, Ready
  <2>4. Wakers' /\ WokenArePolled'
    BY <1>9, <2>0 DEF Wakers, WokenArePolled, Popped, Popping, RecheckReady, Ready
  <2> QED
    BY <2>1, <2>2, <2>3, <2>4
<1>10. ASSUME NEW t \in Callers, RecheckPending(t)
      PROVE  StackInv'
  <2>0. Stacked' = Stacked
    BY <1>10, StackedSame DEF RecheckPending
  <2>1. NodeTypes' /\ Locals'
    BY <1>10, <2>0 DEF PollPlaces, RecheckPending
  <2>2. Chain' /\ Fresh' /\ Reads'
    BY <1>10, <2>0 DEF Chain, Reads, RecheckPending
  <2>3. Kept' /\ Popped'
    BY <1>10, <2>0 DEF Kept, Popped, Waiting, Popping, RecheckPending
  <2>4. Wakers' /\ WokenArePolled'
    BY <1>10, <2>0 DEF Wakers, WokenArePolled, Popped, Popping, RecheckPending
  <2> QED
    BY <2>1, <2>2, <2>3, <2>4
<1>11. ASSUME NEW t \in Callers, Move(t)
      PROVE  StackInv'
  <2>0. Stacked' = Stacked
    BY <1>11, StackedSame DEF Move
  <2>1. NodeTypes' /\ Locals'
    BY <1>11, <2>0 DEF PollPlaces, Move
  <2>2. Chain' /\ Fresh' /\ Reads'
    BY <1>11, <2>0 DEF Chain, Reads, Move
  <2>3. Kept' /\ Popped'
    BY <1>11, <2>0 DEF Kept, Popped, Waiting, Popping, Move
  <2>4. Wakers' /\ WokenArePolled'
    BY <1>11, <2>0 DEF Wakers, WokenArePolled, Popped, Popping, Move
  <2> QED
    BY <2>1, <2>2, <2>3, <2>4
<1>12. ASSUME NEW t \in Callers, DropParked(t)
      PROVE  StackInv'
  <2>0. Stacked' = Stacked
    BY <1>12, StackedSame DEF DropParked
  <2>1. NodeTypes' /\ Locals'
    BY <1>12, <2>0 DEF PollPlaces, DropParked
  <2>2. Chain' /\ Fresh' /\ Reads'
    BY <1>12, <2>0 DEF Chain, Reads, DropParked
  <2>3. Kept' /\ Popped'
    BY <1>12, <2>0 DEF Kept, Popped, Waiting, Popping, DropParked
  <2>4. Wakers'
    BY <1>12, <2>0 DEF Wakers, Popped, Popping, DropParked
  <2>5. WokenArePolled'
    BY <1>12, <2>0 DEF WokenArePolled, Popped, Popping, DropParked
  <2> QED
    BY <2>1, <2>2, <2>3, <2>4, <2>5
<1>13. ASSUME NEW t \in Callers, DropBuffer(t)
      PROVE  StackInv'
  <2>0. Stacked' = Stacked
    BY <1>13, StackedSame DEF DropBuffer
  <2>1. NodeTypes' /\ Locals'
    BY <1>13, <2>0 DEF PollPlaces, DropBuffer
  <2>2. Chain' /\ Fresh' /\ Reads'
    BY <1>13, <2>0 DEF Chain, Reads, DropBuffer
  <2>3. Kept' /\ Popped'
    BY <1>13, <2>0 DEF Kept, Popped, Waiting, Popping, DropBuffer
  <2>4. Wakers' /\ WokenArePolled'
    BY <1>13, <2>0 DEF Wakers, WokenArePolled, Popped, Popping, DropBuffer
  <2> QED
    BY <2>1, <2>2, <2>3, <2>4
<1>14. ASSUME NEW t \in Callers, PopEmpty(t)
      PROVE  StackInv'
  <2>0. Stacked' = Stacked
    BY <1>14, StackedSame DEF PopEmpty
  <2>1. NodeTypes' /\ Locals'
    BY <1>14, <2>0 DEF PollPlaces, PopEmpty
  <2>2. Chain' /\ Fresh' /\ Reads'
    BY <1>14, <2>0 DEF Chain, Reads, PopEmpty
  <2>3. Kept' /\ Popped'
    BY <1>14, <2>0 DEF Kept, Popped, Waiting, Popping, PopEmpty
  <2>4. Wakers' /\ WokenArePolled'
    BY <1>14, <2>0 DEF Wakers, WokenArePolled, Popped, Popping, PopEmpty
  <2> QED
    BY <2>1, <2>2, <2>3, <2>4
<1>15. ASSUME NEW t \in Callers, PopLoad(t)
      PROVE  StackInv'
  <2>0. Stacked' = Stacked
    BY <1>15, StackedSame DEF PopLoad
  <2>s. Stacked \subseteq Nodes /\ Closed(Stacked)
    BY StackedClosed
  <2>1. NodeTypes' /\ Locals'
    BY <1>15, <2>0, <2>s DEF PollPlaces, PopLoad, Closed
  <2>2. Chain' /\ Fresh' /\ Reads'
    BY <1>15, <2>0, <2>s DEF Chain, Reads, PopLoad, Closed
  <2>3. Kept' /\ Popped'
    BY <1>15, <2>0, <2>s DEF Kept, Popped, Waiting, Popping, PopLoad, Closed
  <2>4. Wakers' /\ WokenArePolled'
    BY <1>15, <2>0, <2>s DEF Wakers, WokenArePolled, Popped, Popping, PopLoad, Closed
  <2> QED
    BY <2>1, <2>2, <2>3, <2>4
<1>16. ASSUME NEW t \in Callers, PopNext(t)
      PROVE  StackInv'
  <2>0. Stacked' = Stacked
    BY <1>16, StackedSame DEF PopNext
  <2>1. NodeTypes' /\ Locals'
    BY <1>16, <2>0 DEF PollPlaces, PopNext
  <2>2. Chain' /\ Fresh' /\ Reads'
    BY <1>16, <2>0 DEF Chain, Reads, PopNext
  <2>3. Kept' /\ Popped'
    BY <1>16, <2>0 DEF Kept, Popped, Waiting, Popping, PopNext
  <2>4. Wakers' /\ WokenArePolled'
    BY <1>16, <2>0 DEF Wakers, WokenArePolled, Popped, Popping, PopNext
  <2> QED
    BY <2>1, <2>2, <2>3, <2>4
<1>17. ASSUME NEW t \in Callers, PopUnlink(t)
      PROVE  StackInv'
  <2>0. IF top = ptr[t] THEN Stacked' = Stacked \ {top} ELSE Stacked' = Stacked
    BY <1>17, StackedPop, StackedSame, StackedClosed DEF Reads, Closed, PopUnlink
  <2>s. Stacked \subseteq Nodes /\ Closed(Stacked)
    BY StackedClosed
  <2>b. top = ptr[t] => top \in Stacked /\ top' = next[top] /\ next' = next
    BY <1>17, <2>s DEF Reads, Closed, PopUnlink
  <2>1. NodeTypes' /\ Locals'
    BY <1>17, <2>0, <2>s DEF PollPlaces, PopUnlink, Closed
  <2>2. Chain' /\ Fresh' /\ Reads'
    <3>1. CASE top = ptr[t]
      <4>1. Chain'
        BY <2>0, <2>s, <2>b, <3>1 DEF Chain, Closed
      <4>2. Fresh' /\ Reads'
        BY <1>17, <2>0, <2>b, <3>1 DEF Reads, PopUnlink
      <4> QED
        BY <4>1, <4>2, Zenon
    <3>2. CASE top # ptr[t]
      BY <1>17, <2>0, <3>2 DEF Chain, Reads, PopUnlink
    <3> QED
      BY <3>1, <3>2, Zenon
  <2>3. Kept' /\ Popped'
    BY <1>17, <2>0, <2>s DEF Kept, Popped, Waiting, Popping, PopUnlink, Closed
  <2>4. Wakers'
    BY <1>17, <2>0, <2>s DEF Wakers, Popped, Popping, PopUnlink, Closed
  <2>5. WokenArePolled'
    BY <1>17, <2>0, <2>s DEF WokenArePolled, Popped, Popping, PopUnlink, Closed
  <2> QED
    BY <2>1, <2>2, <2>3, <2>4, <2>5
<1>18. ASSUME NEW t \in Callers, PopRevoked(t)
      PROVE  StackInv'
  <2>0. Stacked' = Stacked
    BY <1>18, StackedSame DEF PopRevoked
  <2>1. NodeTypes' /\ Locals'
    BY <1>18, <2>0 DEF PollPlaces, PopRevoked
  <2>2. Chain' /\ Fresh' /\ Reads'
    BY <1>18, <2>0 DEF Chain, Reads, PopRevoked
  <2>3. Kept' /\ Popped'
    BY <1>18, <2>0 DEF Kept, Popped, Waiting, Popping, PopRevoked
  <2>4. Wakers' /\ WokenArePolled'
    BY <1>18, <2>0 DEF Wakers, WokenArePolled, Popped, Popping, PopRevoked
  <2> QED
    BY <2>1, <2>2, <2>3, <2>4
<1>19. ASSUME NEW t \in Callers, PopLive(t)
      PROVE  StackInv'
  <2>0. Stacked' = Stacked
    BY <1>19, StackedSame DEF PopLive
  <2>1. NodeTypes' /\ Locals'
    BY <1>19, <2>0 DEF PollPlaces, PopLive
  <2>2. Chain' /\ Fresh' /\ Reads'
    BY <1>19, <2>0 DEF Chain, Reads, PopLive
  <2>3. Kept' /\ Popped'
    BY <1>19, <2>0 DEF Kept, Popped, Waiting, Popping, PopLive
  <2>4. Wakers' /\ WokenArePolled'
    BY <1>19, <2>0 DEF Wakers, WokenArePolled, Popped, Popping, PopLive
  <2> QED
    BY <2>1, <2>2, <2>3, <2>4
<1>20. ASSUME NEW t \in Callers, PopWake(t)
      PROVE  StackInv'
  <2>0. Stacked' = Stacked
    BY <1>20, StackedSame DEF PopWake
  <2>1. NodeTypes' /\ Locals'
    BY <1>20, <2>0 DEF PollPlaces, PopWake
  <2>2. Chain' /\ Fresh' /\ Reads'
    BY <1>20, <2>0 DEF Chain, Reads, PopWake
  <2>3. Kept' /\ Popped'
    BY <1>20, <2>0 DEF Kept, Popped, Waiting, Popping, PopWake
  <2>4. Wakers' /\ WokenArePolled'
    BY <1>20, <2>0 DEF Wakers, WokenArePolled, Popped, Popping, PopWake
  <2> QED
    BY <2>1, <2>2, <2>3, <2>4
<1> QED
  BY <1>1, <1>2, <1>3, <1>4, <1>5, <1>6, <1>7, <1>8, <1>9, <1>10, <1>11, <1>12, <1>13,
     <1>14, <1>15, <1>16, <1>17, <1>18, <1>19, <1>20, Zenon DEF StackNext

(* The invariant holds of an empty stack. *)
LEMMA StackBegins ==
  ASSUME StackInit
  PROVE  StackInv
<1>1. Closed({})
  BY DEF StackInit, Closed
<1>2. Stacked = {}
  BY <1>1, StackedLeast
<1> QED
  BY <1>2 DEF StackInit, StackInv, NodeTypes, PollPlaces, Locals, HasEntry, Reading, Chain, Fresh,
              Pushing, Reads, Kept, Waiting, Popped, Popping, Wakers, WokenArePolled

(* So the invariant holds throughout. *)
LEMMA StackInvariant == StackSpec => []StackInv
<1>1. StackInv /\ UNCHANGED treiber => StackInv'
  <2> SUFFICES ASSUME StackInv, UNCHANGED treiber
               PROVE  StackInv'
    OBVIOUS
  <2>1. Stacked' = Stacked
    BY StackedSame DEF treiber, stack
  <2>2. NodeTypes' /\ Locals' /\ Chain'
    BY <2>1 DEF treiber, StackInv, NodeTypes, Locals, HasEntry, Reading, Chain
  <2>3. Fresh' /\ Reads' /\ Kept'
    BY <2>1 DEF treiber, StackInv, Fresh, Pushing, Reading, Reads, Kept, Waiting
  <2>4. Popped' /\ Wakers' /\ WokenArePolled'
    BY <2>1 DEF treiber, StackInv, Popped, Popping, Wakers, WokenArePolled
  <2> QED
    BY <2>2, <2>3, <2>4 DEF StackInv
<1>2. StackInv /\ [StackNext]_treiber => StackInv'
  BY <1>1, StackStep, NodesAssumption
<1> QED
  BY <1>2, StackBegins, PTL DEF StackSpec

(* A wake is never lost between the pop that marks an entry WOKEN and the  *)
(* poll that may have looked just before (pop_and_wake, poll): a parked    *)
(* future whose entry is WOKEN will be polled.                             *)
THEOREM NoWakeForgotten == StackSpec => []WokenArePolled
<1>1. StackInv => WokenArePolled
  BY DEF StackInv
<1> QED
  BY <1>1, StackInvariant, PTL

-----------------------------------------------------------------------------
(* Every slot is free or held. *)
SlotTally == idle = SlotCount - Cardinality({t \in Callers : cpc[t] = "holding"})

(* A slot is taken and given back one at a time. *)
LEMMA SlotsStep ==
  ASSUME NodeTypes, SlotTally, StackNext
  PROVE  SlotTally'
<1> DEFINE Holding == {t \in Callers : cpc[t] = "holding"}
<1>1. IsFiniteSet(Holding) /\ Cardinality(Holding) \in Nat
  BY CallersAssumption, FS_Subset, FS_CardinalityType
<1>2. ASSUME NEW t \in Callers, TryTakes(t)
      PROVE  SlotTally'
  <2>1. Holding' = Holding \cup {t} /\ t \notin Holding
    BY <1>2 DEF TryTakes, MoveOn, NodeTypes
  <2>2. Cardinality(Holding') = Cardinality(Holding) + 1
    BY <1>1, <2>1, FS_AddElement, Zenon
  <2>3. idle = SlotCount - Cardinality(Holding) /\ idle' = idle - 1
    BY <1>2, Zenon DEF SlotTally, TryTakes
  <2> HIDE DEF Holding
  <2>4. idle' = SlotCount - Cardinality(Holding')
    BY <1>1, <2>2, <2>3, CallersAssumption
  <2> QED
    BY <2>4, Zenon DEF SlotTally, Holding
<1>3. ASSUME NEW t \in Callers, DropBuffer(t)
      PROVE  SlotTally'
  <2>1. Holding' = Holding \ {t} /\ t \in Holding
    BY <1>3 DEF DropBuffer, MoveOn, NodeTypes
  <2>2. Cardinality(Holding') = Cardinality(Holding) - 1
    BY <1>1, <2>1, FS_RemoveElement, Zenon
  <2>3. idle = SlotCount - Cardinality(Holding) /\ idle' = idle + 1
    BY <1>3, Zenon DEF SlotTally, DropBuffer
  <2> HIDE DEF Holding
  <2>4. idle' = SlotCount - Cardinality(Holding')
    BY <1>1, <2>2, <2>3, CallersAssumption
  <2> QED
    BY <2>4, Zenon DEF SlotTally, Holding
<1>4. ASSUME idle' = idle, Holding' = Holding
      PROVE  SlotTally'
  BY <1>4 DEF SlotTally
<1>5. ASSUME NEW t \in Callers, NEW place \in PollPlaces \ {"holding"},
             cpc[t] # "holding", cpc' = [cpc EXCEPT ![t] = place]
      PROVE  Holding' = Holding
  BY <1>5 DEF NodeTypes
<1>6. ASSUME NEW t \in Callers,
             \/ Arm(t) \/ \E n \in Nodes : TryFails(t, n)
             \/ PushLoad(t) \/ PushLink(t)
             \/ PollReady(t) \/ PollPending(t) \/ Refresh(t)
             \/ RecheckReady(t) \/ RecheckPending(t)
             \/ Move(t) \/ DropParked(t)
             \/ PopEmpty(t) \/ PopLoad(t) \/ PopNext(t) \/ PopUnlink(t)
             \/ PopRevoked(t) \/ PopLive(t) \/ PopWake(t)
      PROVE  /\ idle' = idle
             /\ cpc[t] # "holding"
             /\ \E place \in PollPlaces \ {"holding"} : cpc' = [cpc EXCEPT ![t] = place]
  BY <1>6, Zenon DEF Arm, TryFails, PushLoad, PushLink, PollReady, PollPending, Refresh, RecheckReady,
              Ready, RecheckPending, Move, DropParked, PopEmpty, PopLoad, PopNext, PopUnlink,
              PopRevoked, PopLive, PopWake, MoveOn, PollPlaces
<1> QED
  BY <1>2, <1>3, <1>4, <1>5, <1>6 DEF StackNext

(* The types, and every slot is free or held: allocate takes one and the   *)
(* drop of a Buffer gives it back.                                         *)
THEOREM StackTypeCorrect == StackSpec => []StackTypeOK
<1>1. StackInit => SlotTally
  <2> SUFFICES ASSUME StackInit
               PROVE  SlotTally
    OBVIOUS
  <2>1. {t \in Callers : cpc[t] = "holding"} = {}
    BY DEF StackInit
  <2> QED
    BY <2>1, FS_EmptySet, CallersAssumption DEF StackInit, SlotTally
<1>2. StackInv /\ SlotTally /\ [StackNext]_treiber => SlotTally'
  BY SlotsStep DEF StackInv, SlotTally, treiber
<1>3. StackInv /\ SlotTally => StackTypeOK
  BY DEF StackInv, NodeTypes, SlotTally, StackTypeOK
<1> QED
  BY <1>1, <1>2, <1>3, StackInvariant, PTL DEF StackSpec

(* Pushes and pops that race lose no entry, and no node is popped twice or *)
(* comes back (push, pop_and_wake).                                        *)
THEOREM NoEntryLost == StackSpec => []EntriesKept
<1>1. StackInv /\ StackTypeOK => EntriesKept
  BY DEF StackInv, Kept, Popped, EntriesKept
<1> QED
  BY <1>1, StackInvariant, StackTypeCorrect, PTL

-----------------------------------------------------------------------------
(* One thread *)

(* Nothing interrupts a poll or a drop, nobody gives up, and what is pushed *)
(* is pushed because there is no slot.                                      *)
OneRuns ==
  /\ \A t, u \in Callers : ~ Resting(t) /\ ~ Resting(u) => t = u
  /\ \A n \in Nodes : status[n] # "REVOKED"
  /\ \A t \in Callers : Pushing(t) => idle = 0

(* A LIVE entry that a pop can find, or has found, has somebody waiting. *)
Findable(n) ==
  n \in Stacked \/ \E u \in Callers : cpc[u] = "arbitrate" /\ ptr[u] = n

Owners ==
  \A n \in Nodes : status[n] = "LIVE" /\ Findable(n) =>
    \E t \in Callers : Waiting(t) /\ mine[t] = n

(* Who will use a free slot or pass it on: an allocate that is to try, a    *)
(* release that has not chosen an entry yet, and a future that was chosen.  *)
Owes(t) == cpc[t] \in {"try", "pop", "next", "unlink", "arbitrate"}

Owed == {t \in Callers : Owes(t) \/ (Waiting(t) /\ status[mine[t]] = "WOKEN")}

Unchosen(t) == Waiting(t) /\ status[mine[t]] = "LIVE"

(* While somebody waits that no release has chosen, every free slot is      *)
(* somebody else's to use or to pass on.                                    *)
Awaited == (\E t \in Callers : Unchosen(t)) => idle <= Cardinality(Owed)

OneInv == OneRuns /\ Owners /\ Awaited

(* The debtors are finitely many. *)
LEMMA OwedFinite ==
  /\ IsFiniteSet(Owed) /\ Cardinality(Owed) \in Nat
  /\ IsFiniteSet(Owed') /\ Cardinality(Owed') \in Nat
BY CallersAssumption, FS_Subset, FS_CardinalityType DEF Owed

(* On one thread a step starts where everybody else rests. *)
LEMMA OneRunsStep ==
  ASSUME flavor = "current_thread", NodeTypes, OneRuns, StackNext
  PROVE  OneRuns'
<1>1. PICK t \in Callers :
        \/ Arm(t) \/ TryTakes(t)
        \/ \E n \in Nodes : TryFails(t, n)
        \/ PushLoad(t) \/ PushLink(t)
        \/ PollReady(t) \/ PollPending(t) \/ Refresh(t) \/ RecheckReady(t) \/ RecheckPending(t)
        \/ Move(t) \/ DropParked(t)
        \/ DropBuffer(t)
        \/ PopEmpty(t) \/ PopLoad(t) \/ PopNext(t) \/ PopUnlink(t)
        \/ PopRevoked(t) \/ PopLive(t) \/ PopWake(t)
  BY Zenon DEF StackNext
<1>2. /\ \A u \in Callers \ {t} : Resting(u)
      /\ \A u \in Callers \ {t} : cpc'[u] = cpc[u]
  <2>1. \E place \in PollPlaces : MoveOn(t, place)
    BY <1>1, Zenon DEF Arm, TryTakes, TryFails, PushLoad, PushLink, PollReady, PollPending, Refresh,
                RecheckReady, Ready, RecheckPending, Move, DropParked, DropBuffer, PopEmpty,
                PopLoad, PopNext, PopUnlink, PopRevoked, PopLive, PopWake, PollPlaces
  <2> QED
    BY <2>1 DEF MoveOn, MayRun, NodeTypes
<1>3. \A u, v \in Callers : ~ Resting(u)' /\ ~ Resting(v)' => u = v
  BY <1>2 DEF Resting
<1>4. \A n \in Nodes : status'[n] # "REVOKED"
  <2>1. \/ status' = status
        \/ \E n \in Nodes : status' = [status EXCEPT ![n] = "LIVE"]
        \/ status' = [status EXCEPT ![ptr[t]] = "WOKEN"]
    BY <1>1, Zenon DEF Arm, TryTakes, TryFails, PushLoad, PushLink, PollReady, PollPending, Refresh,
                RecheckReady, Ready, RecheckPending, Move, DropParked, DropBuffer, PopEmpty,
                PopLoad, PopNext, PopUnlink, PopRevoked, PopLive, PopWake
  <2> QED
    BY <2>1 DEF NodeTypes, OneRuns
<1>5. \A u \in Callers : Pushing(u)' => idle' = 0
  <2>1. \A u \in Callers : Pushing(u)' => u = t
    BY <1>2 DEF Pushing, Resting
  <2>2. Pushing(t)' => idle' = 0
    <3>1. SUFFICES ASSUME Pushing(t)'
                   PROVE  idle' = 0
      OBVIOUS
    <3>2. (\E n \in Nodes : TryFails(t, n)) \/ PushLoad(t) \/ PushLink(t)
      BY <1>1, <3>1, Zenon DEF Pushing, Arm, TryTakes, PollReady, PollPending, Refresh, RecheckReady,
                        Ready, RecheckPending, Move, DropParked, DropBuffer, PopEmpty, PopLoad,
                        PopNext, PopUnlink, PopRevoked, PopLive, PopWake, MoveOn, NodeTypes
    <3> QED
      BY <3>2, Zenon DEF TryFails, PushLoad, PushLink, OneRuns, Pushing
  <2> QED
    BY <2>1, <2>2
<1> QED
  BY <1>3, <1>4, <1>5 DEF OneRuns

(* A node leaves its owner after it is WOKEN, and is found no more. *)
LEMMA OwnersStep ==
  ASSUME flavor = "current_thread", Null \notin Nodes, StackInv, OneRuns, Owners, StackNext
  PROVE  Owners'
<1> USE DEF StackInv
<1>1. ASSUME NEW t \in Callers, UNCHANGED <<stack, status, mine>>,
             NEW place \in PollPlaces, cpc' = [cpc EXCEPT ![t] = place],
             Waiting(t) => place \in {"parked", "refresh", "recheck"},
             place # "arbitrate",
             \A u \in Callers \ {t} : ptr'[u] = ptr[u]
      PROVE  Owners'
  <2>1. Stacked' = Stacked
    BY <1>1, StackedSame, Zenon
  <2>2. \A u \in Callers : Waiting(u) => Waiting(u)'
    BY <1>1, Zenon DEF Waiting, NodeTypes
  <2>3. \A n \in Nodes : Findable(n)' => Findable(n)
    BY <1>1, <2>1 DEF Findable, NodeTypes
  <2> QED
    BY <1>1, <2>2, <2>3, Zenon DEF Owners
<1>2. ASSUME NEW t \in Callers,
             \/ Arm(t) \/ TryTakes(t)
             \/ PollPending(t) \/ Refresh(t) \/ RecheckPending(t) \/ Move(t)
             \/ DropBuffer(t) \/ PopEmpty(t) \/ PopLoad(t) \/ PopNext(t) \/ PopRevoked(t)
             \/ PopWake(t)
      PROVE  Owners'
  <2>1. /\ UNCHANGED <<stack, status, mine>>
        /\ \A u \in Callers \ {t} : ptr'[u] = ptr[u]
    BY <1>2, Zenon DEF Arm, TryTakes, PollPending, Refresh, RecheckPending, Move, DropBuffer, PopEmpty,
                PopLoad, PopNext, PopRevoked, PopWake, stack, NodeTypes
  <2>2. \E place \in PollPlaces :
          /\ cpc' = [cpc EXCEPT ![t] = place]
          /\ Waiting(t) => place \in {"parked", "refresh", "recheck"}
          /\ place # "arbitrate"
    BY <1>2, Zenon DEF Arm, TryTakes, PollPending, Refresh, RecheckPending, Move, DropBuffer, PopEmpty,
                PopLoad, PopNext, PopRevoked, PopWake, MoveOn, PollPlaces, Waiting
  <2> QED
    BY <1>1, <2>1, <2>2, Zenon
<1>3. ASSUME NEW t \in Callers, NEW m \in Nodes, TryFails(t, m)
      PROVE  Owners'
  <2>1. Stacked' = Stacked
    BY <1>3, StackedSame DEF TryFails
  <2>2. \A u \in Callers : Waiting(u) => Waiting(u)' /\ mine'[u] = mine[u]
    BY <1>3 DEF TryFails, MoveOn, Waiting, NodeTypes
  <2>3. \A n \in Nodes : Findable(n)' => Findable(n) /\ n # m /\ status'[n] = status[n]
    BY <1>3, <2>1 DEF TryFails, MoveOn, UnusedNodes, Findable, NodeTypes
  <2> QED
    BY <2>2, <2>3, Zenon DEF Owners
<1>4. ASSUME NEW t \in Callers, PushLoad(t)
      PROVE  Owners'
  <2>1. mine[t] \in Nodes /\ mine[t] \notin Stacked
    BY <1>4 DEF PushLoad, Fresh, Locals, HasEntry, Pushing, NodeTypes
  <2>2. top \in Nodes \cup {Null} /\ top' = top /\ next' = [next EXCEPT ![mine[t]] = top]
    BY <1>4 DEF PushLoad, NodeTypes
  <2>3. Stacked' = Stacked
    BY <2>1, <2>2, StackedLink, Zenon
  <2>4. \A u \in Callers : Waiting(u) => Waiting(u)' /\ mine'[u] = mine[u]
    BY <1>4 DEF PushLoad, MoveOn, Waiting, NodeTypes
  <2>5. \A n \in Nodes : Findable(n)' => Findable(n) /\ status'[n] = status[n]
    BY <1>4, <2>3 DEF PushLoad, MoveOn, Findable, NodeTypes
  <2> QED
    BY <2>4, <2>5 DEF Owners
<1>5. ASSUME NEW t \in Callers, PushLink(t)
      PROVE  Owners'
  <2>1. mine[t] \in Nodes /\ (top = ptr[t] => next[mine[t]] = top)
    BY <1>5 DEF PushLink, Locals, HasEntry, NodeTypes
  <2>2. IF top = ptr[t] THEN Stacked' = Stacked \cup {mine[t]} /\ Waiting(t)'
                        ELSE Stacked' = Stacked
    <3>1. CASE top = ptr[t]
      <4>1. top' = mine[t] /\ next' = next /\ next[mine[t]] = top
        BY <1>5, <2>1, <3>1, Zenon DEF PushLink
      <4>2. Stacked' = Stacked \cup {mine[t]}
        BY <2>1, <4>1, StackedPush, Zenon
      <4>3. Waiting(t)'
        BY <1>5, <3>1 DEF PushLink, MoveOn, Waiting, NodeTypes
      <4> QED
        BY <3>1, <4>2, <4>3, Zenon
    <3>2. CASE top # ptr[t]
      <4>1. UNCHANGED stack
        BY <1>5, <3>2 DEF PushLink, stack
      <4> QED
        BY <3>2, <4>1, StackedSame
    <3> QED
      BY <3>1, <3>2, Zenon
  <2>3. \A u \in Callers : Waiting(u) => Waiting(u)'
    BY <1>5 DEF PushLink, MoveOn, Waiting, NodeTypes
  <2>4. status' = status /\ mine' = mine
    BY <1>5, Zenon DEF PushLink
  <2>5. \A n \in Nodes : Findable(n)' => Findable(n) \/ (n = mine[t] /\ Waiting(t)')
    BY <1>5, <2>2 DEF PushLink, MoveOn, Findable, NodeTypes
  <2> QED
    BY <2>3, <2>4, <2>5, Zenon DEF Owners
<1>6. ASSUME NEW t \in Callers, PollReady(t) \/ RecheckReady(t)
      PROVE  Owners'
  <2>1. status[mine[t]] = "WOKEN"
    BY <1>6 DEF PollReady, RecheckReady, Ready
  <2>2. Stacked' = Stacked /\ status' = status
    BY <1>6, StackedSame DEF PollReady, RecheckReady, Ready
  <2>3. \A u \in Callers : Waiting(u) /\ u # t => Waiting(u)' /\ mine'[u] = mine[u]
    BY <1>6 DEF PollReady, RecheckReady, Ready, MoveOn, Waiting, NodeTypes
  <2>4. \A n \in Nodes : Findable(n)' => Findable(n)
    BY <1>6, <2>2 DEF PollReady, RecheckReady, Ready, MoveOn, Findable, NodeTypes
  <2> QED
    BY <2>1, <2>2, <2>3, <2>4, Zenon DEF Owners
<1>7. ASSUME NEW t \in Callers, PopUnlink(t)
      PROVE  Owners'
  <2>1. Stacked \subseteq Nodes /\ Closed(Stacked)
    BY StackedClosed
  <2>2. top = ptr[t] => top \in Stacked /\ top' = next[top] /\ next' = next
    BY <1>7, <2>1, Zenon DEF Reads, Closed, PopUnlink, Locals, Reading
  <2>3. Stacked' \subseteq Stacked
    <3>1. CASE top = ptr[t]
      <4>1. top \in Nodes /\ top' = next[top] /\ next' = next
        BY <2>1, <2>2, <3>1
      <4>2. Stacked' = Stacked \ {top}
        BY <4>1, StackedPop, Zenon
      <4> QED
        BY <4>2
    <3>2. CASE top # ptr[t]
      <4>1. UNCHANGED stack
        BY <1>7, <3>2 DEF PopUnlink, stack
      <4> QED
        BY <4>1, StackedSame
    <3> QED
      BY <3>1, <3>2
  <2>4. \A u \in Callers : Waiting(u) => Waiting(u)'
    BY <1>7 DEF PopUnlink, MoveOn, Waiting, NodeTypes
  <2>5. \A n \in Nodes : Findable(n)' => Findable(n)
    BY <1>7, <2>2, <2>3 DEF PopUnlink, MoveOn, Findable, NodeTypes
  <2>6. status' = status /\ mine' = mine
    BY <1>7, Zenon DEF PopUnlink
  <2> QED
    BY <2>4, <2>5, <2>6, Zenon DEF Owners
<1>8. ASSUME NEW t \in Callers, PopLive(t)
      PROVE  Owners'
  <2>1. Stacked' = Stacked
    BY <1>8, StackedSame DEF PopLive
  <2>2. \A u \in Callers : Waiting(u) => Waiting(u)' /\ mine'[u] = mine[u]
    BY <1>8 DEF PopLive, MoveOn, Waiting, NodeTypes
  <2>3. \A n \in Nodes : Findable(n)' => Findable(n)
    BY <1>8, <2>1 DEF PopLive, MoveOn, Findable, NodeTypes
  <2>4. \A n \in Nodes : status'[n] = "LIVE" => status[n] = "LIVE"
    BY <1>8 DEF PopLive, NodeTypes
  <2> QED
    BY <2>2, <2>3, <2>4, Zenon DEF Owners
<1>9. ASSUME NEW t \in Callers, DropParked(t)
      PROVE  Owners'
  BY <1>9 DEF DropParked
<1> QED
  BY <1>2, <1>3, <1>4, <1>5, <1>6, <1>7, <1>8, <1>9, Zenon DEF StackNext

(* Every slot that is freed becomes the releaser's to pass on, and it does  *)
(* so to an entry whose future waits, or finds nobody waiting.              *)
LEMMA AwaitedStep ==
  ASSUME flavor = "current_thread", Null \notin Nodes, idle \in Int, StackInv, OneInv,
         OneRuns', StackNext
  PROVE  Awaited'
<1> USE DEF StackInv, OneInv
<1>1. ASSUME NEW t \in Callers, idle' = 0
      PROVE  Awaited'
  BY <1>1, OwedFinite DEF Awaited
<1>2. ASSUME idle' = idle, Owed' = Owed, \A u \in Callers : Unchosen(u)' => Unchosen(u)
      PROVE  Awaited'
  BY <1>2 DEF Awaited
<1>3. ASSUME NEW t \in Callers, Arm(t) \/ DropBuffer(t)
      PROVE  Awaited'
  <2>1. Owed' = Owed \cup {t} /\ t \notin Owed
    BY <1>3 DEF Arm, DropBuffer, MoveOn, Owed, Owes, Waiting, NodeTypes
  <2>2. Cardinality(Owed') = Cardinality(Owed) + 1
    BY <2>1, OwedFinite, FS_AddElement
  <2>3. \A u \in Callers : Unchosen(u)' => Unchosen(u)
    BY <1>3 DEF Arm, DropBuffer, MoveOn, Unchosen, Waiting, NodeTypes
  <2>4. idle' \in {idle, idle + 1}
    BY <1>3 DEF Arm, DropBuffer
  <2> QED
    BY <2>2, <2>3, <2>4, OwedFinite DEF Awaited
<1>4. ASSUME NEW t \in Callers, TryTakes(t)
      PROVE  Awaited'
  <2>1. Owed' = Owed \ {t} /\ t \in Owed
    BY <1>4 DEF TryTakes, MoveOn, Owed, Owes, Waiting, NodeTypes
  <2>2. Cardinality(Owed') = Cardinality(Owed) - 1
    BY <2>1, OwedFinite, FS_RemoveElement
  <2>3. \A u \in Callers : Unchosen(u)' => Unchosen(u)
    BY <1>4 DEF TryTakes, MoveOn, Unchosen, Waiting, NodeTypes
  <2>4. idle' = idle - 1
    BY <1>4 DEF TryTakes
  <2> QED
    BY <2>2, <2>3, <2>4, OwedFinite DEF Awaited
<1>5. ASSUME NEW t \in Callers, (\E n \in Nodes : TryFails(t, n)) \/ PushLoad(t) \/ PushLink(t)
      PROVE  Awaited'
  <2>1. idle' = 0
    BY <1>5, Zenon DEF TryFails, PushLoad, PushLink, OneRuns, Pushing
  <2> QED
    BY <1>1, <2>1
<1>6. ASSUME NEW t \in Callers, PollReady(t) \/ RecheckReady(t)
      PROVE  Awaited'
  <2>1. /\ Waiting(t) /\ status[mine[t]] = "WOKEN" /\ status' = status /\ idle' = idle
        /\ mine' = [mine EXCEPT ![t] = Null] /\ cpc' = [cpc EXCEPT ![t] = "try"]
    BY <1>6 DEF PollReady, RecheckReady, Ready, MoveOn, Waiting
  <2>2. Owed' = Owed
    BY <2>1 DEF Owed, Owes, Waiting, NodeTypes
  <2>3. \A u \in Callers : Unchosen(u)' => Unchosen(u)
    BY <2>1 DEF Unchosen, Waiting, NodeTypes
  <2> QED
    BY <1>2, <2>1, <2>2, <2>3
<1>7. ASSUME NEW t \in Callers,
             \/ PollPending(t) \/ Refresh(t) \/ RecheckPending(t) \/ Move(t)
             \/ PopLoad(t) \/ PopNext(t) \/ PopUnlink(t) \/ PopRevoked(t) \/ PopWake(t)
      PROVE  Awaited'
  <2>1. UNCHANGED <<idle, status, mine>>
    BY <1>7, Zenon DEF PollPending, Refresh, RecheckPending, Move, PopLoad, PopNext, PopUnlink,
                PopRevoked, PopWake
  <2>2. \E place \in PollPlaces :
          /\ cpc' = [cpc EXCEPT ![t] = place]
          /\ Waiting(t) <=> place \in {"parked", "refresh", "recheck"}
          /\ Owes(t) <=> place \in {"try", "pop", "next", "unlink", "arbitrate"}
    BY <1>7, Zenon DEF PollPending, Refresh, RecheckPending, Move, PopLoad, PopNext, PopUnlink,
                PopRevoked, PopWake, MoveOn, PollPlaces, Waiting, Owes
  <2>3. \A u \in Callers : (Waiting(u)' <=> Waiting(u)) /\ (Owes(u)' <=> Owes(u))
    BY <2>2 DEF Waiting, Owes, NodeTypes
  <2>4. Owed' = Owed /\ \A u \in Callers : Unchosen(u)' => Unchosen(u)
    BY <2>1, <2>3 DEF Owed, Unchosen
  <2> QED
    BY <1>2, <2>1, <2>4
<1>8. ASSUME NEW t \in Callers, PopEmpty(t)
      PROVE  Awaited'
  <2>1. Stacked = {}
    <3>1. Closed({})
      BY <1>8 DEF PopEmpty, Closed
    <3> QED
      BY <3>1, StackedLeast
  <2>2. \A u \in Callers : cpc[u] # "arbitrate"
    BY <1>8 DEF PopEmpty, OneRuns, Resting
  <2>3. \A u \in Callers : ~ Unchosen(u)
    BY <2>1, <2>2, Zenon DEF Unchosen, Kept
  <2>4. \A u \in Callers : Unchosen(u)' => Unchosen(u)
    BY <1>8 DEF PopEmpty, MoveOn, Unchosen, Waiting, NodeTypes
  <2> QED
    BY <2>3, <2>4 DEF Awaited
<1>9. ASSUME NEW t \in Callers, PopLive(t)
      PROVE  Awaited'
  <2>1. /\ cpc[t] = "arbitrate" /\ ptr[t] \in Nodes /\ status[ptr[t]] = "LIVE"
        /\ status' = [status EXCEPT ![ptr[t]] = "WOKEN"]
        /\ cpc' = [cpc EXCEPT ![t] = "wake"] /\ mine' = mine /\ idle' = idle
    BY <1>9 DEF PopLive, MoveOn, Locals, Reading, NodeTypes
  <2>2. PICK w \in Callers : Waiting(w) /\ mine[w] = ptr[t]
    BY <2>1, Zenon DEF Owners, Findable
  <2>3. w # t /\ ~ Owes(w) /\ w \notin Owed /\ t \in Owed
    BY <2>1, <2>2 DEF Waiting, Owes, Owed
  <2>4. \A u \in Callers : mine[u] = ptr[t] => u = w
    BY <2>1, <2>2 DEF Locals
  <2>5. \A u \in Callers \ {t} : (Waiting(u)' <=> Waiting(u)) /\ (Owes(u)' <=> Owes(u))
    BY <2>1 DEF Waiting, Owes, NodeTypes
  <2>6. ~ Waiting(t)' /\ ~ Owes(t)' /\ ~ Waiting(t)
    BY <2>1 DEF Waiting, Owes, NodeTypes
  <2>7. \A u \in Callers \ {w} : mine[u] \in Nodes => status'[mine[u]] = status[mine[u]]
    BY <2>1, <2>4 DEF NodeTypes
  <2>8. status'[mine[w]] = "WOKEN"
    BY <2>1, <2>2 DEF NodeTypes
  <2>9. \A u \in Callers : Waiting(u) => mine[u] \in Nodes
    BY DEF Waiting, Locals, HasEntry, NodeTypes
  <2>10. Owed' = (Owed \ {t}) \cup {w}
    BY <2>1, <2>2, <2>3, <2>5, <2>6, <2>7, <2>8, <2>9, Zenon DEF Owed
  <2>11. Cardinality(Owed') = Cardinality(Owed)
    <3>1. IsFiniteSet(Owed \ {t}) /\ Cardinality(Owed \ {t}) = Cardinality(Owed) - 1
      BY <2>3, OwedFinite, FS_RemoveElement
    <3>2. w \notin Owed \ {t}
      BY <2>3
    <3>3. Cardinality(Owed') = Cardinality(Owed \ {t}) + 1
      BY <2>10, <3>1, <3>2, FS_AddElement, Zenon
    <3> QED
      BY <3>1, <3>3, OwedFinite
  <2>12. Unchosen(w)
    BY <2>1, <2>2 DEF Unchosen
  <2> QED
    BY <2>1, <2>11, <2>12 DEF Awaited
<1>10. ASSUME NEW t \in Callers, DropParked(t)
      PROVE  Awaited'
  BY <1>10 DEF DropParked
<1> QED
  BY <1>3, <1>4, <1>5, <1>6, <1>7, <1>8, <1>9, <1>10, Zenon DEF StackNext

(* The flavor of the runtime does not change. *)
LEMMA FlavorKept ==
  ASSUME StackNext
  PROVE  flavor' = flavor
BY Zenon DEF StackNext, Arm, TryTakes, TryFails, PushLoad, PushLink, PollReady, PollPending, Refresh,
       RecheckReady, Ready, RecheckPending, Move, DropParked, DropBuffer, PopEmpty, PopLoad,
       PopNext, PopUnlink, PopRevoked, PopLive, PopWake, MoveOn

(* On the current_thread runtime of the example's main nobody is left       *)
(* parked beside a free slot, although prepare arms nothing: no release can *)
(* come between the failed retry and the push, and every release chooses    *)
(* somebody as long as somebody waits.                                      *)
THEOREM OneThreadWakes == StackSpec => []OneThreadNobodyOverslept
<1> DEFINE Inv == flavor = "current_thread" => OneInv
<1>1. StackInit => Inv
  <2> SUFFICES ASSUME StackInit
               PROVE  OneInv
    OBVIOUS
  <2>1. OneRuns
    BY DEF StackInit, OneRuns, Resting, Pushing
  <2>2. Closed({})
    BY DEF StackInit, Closed
  <2>3. Stacked = {}
    BY <2>2, StackedLeast
  <2>4. Owners /\ Awaited
    BY <2>3 DEF StackInit, Owners, Findable, Awaited, Unchosen, Waiting
  <2> QED
    BY <2>1, <2>4 DEF OneInv
<1>2. StackInv /\ StackTypeOK /\ Inv /\ [StackNext]_treiber => Inv'
  <2> SUFFICES ASSUME StackInv, StackTypeOK, Inv, [StackNext]_treiber, flavor' = "current_thread"
               PROVE  OneInv'
    OBVIOUS
  <2>1. CASE StackNext
    <3>1. flavor = "current_thread" /\ OneInv
      BY <2>1, FlavorKept
    <3>2. OneRuns' /\ Owners'
      BY <2>1, <3>1, OneRunsStep, OwnersStep, NodesAssumption DEF StackInv, OneInv
    <3>3. idle \in Int
      <4>1. Cardinality({t \in Callers : cpc[t] = "holding"}) \in Nat
        BY CallersAssumption, FS_Subset, FS_CardinalityType, Zenon
      <4> QED
        BY <4>1, CallersAssumption DEF StackTypeOK
    <3>4. Awaited'
      BY <2>1, <3>1, <3>2, <3>3, AwaitedStep, NodesAssumption
    <3> QED
      BY <3>2, <3>4 DEF OneInv
  <2>2. CASE UNCHANGED treiber
    <3>1. OneInv
      BY <2>2 DEF treiber
    <3>2. Stacked' = Stacked
      BY <2>2, StackedSame DEF treiber, stack
    <3>3. OneRuns'
      BY <2>2, <3>1 DEF OneInv, OneRuns, Resting, Pushing, treiber
    <3>4. Owners'
      BY <2>2, <3>1, <3>2 DEF OneInv, Owners, Findable, Waiting, treiber
    <3>5. Awaited'
      BY <2>2, <3>1 DEF OneInv, Awaited, Owed, Owes, Unchosen, Waiting, treiber
    <3> QED
      BY <3>3, <3>4, <3>5 DEF OneInv
  <2> QED
    BY <2>1, <2>2
<1>3. StackInv /\ StackTypeOK /\ Inv => OneThreadNobodyOverslept
  <2> SUFFICES ASSUME StackInv, StackTypeOK, OneInv,
                      \A t \in Callers : Resting(t) /\ t \notin woken, idle > 0,
                      NEW t \in Callers, cpc[t] = "parked"
               PROVE  FALSE
    BY DEF OneThreadNobodyOverslept, NobodyLeftParked
  <2>1. \A u \in Callers : ~ (Waiting(u) /\ status[mine[u]] = "WOKEN") /\ ~ Owes(u)
    BY Zenon DEF StackInv, WokenArePolled, Waiting, Owes, Resting
  <2>2. Owed = {}
    BY <2>1 DEF Owed
  <2>3. Waiting(t) /\ mine[t] \in Nodes
    BY DEF StackInv, Locals, HasEntry, NodeTypes, Waiting
  <2>4. status[mine[t]] = "LIVE"
    BY <2>1, <2>3 DEF StackInv, NodeTypes, OneInv, OneRuns
  <2>5. idle <= Cardinality(Owed)
    BY <2>3, <2>4, Zenon DEF OneInv, Awaited, Unchosen
  <2>6. Cardinality(Owed) = 0
    BY <2>2, FS_EmptySet
  <2>7. Cardinality({u \in Callers : cpc[u] = "holding"}) \in Nat
    BY CallersAssumption, FS_Subset, FS_CardinalityType
  <2> QED
    BY <2>5, <2>6, <2>7, CallersAssumption DEF StackTypeOK
<1> QED
  BY <1>1, <1>2, <1>3, StackInvariant, StackTypeCorrect, PTL DEF StackSpec

=============================================================================
