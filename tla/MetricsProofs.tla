--------------------------- MODULE MetricsProofs ---------------------------
(***************************************************************************)
(* Theorems about the counters of an arena, for every number of owners,    *)
(* every set of regions and arenas of either kind.                         *)
(*                                                                         *)
(* A counter is compared with what it counts: the owners at certain places *)
(* of their calls, and for bytes_live the units of those owners' regions,  *)
(* one by one.                                                             *)
(***************************************************************************)
EXTENDS Metrics, FiniteSetTheorems, TLAPS

(* Where an owner is in its calls. *)
CallPlaces == {"idle", "failed", "ok", "live", "buffer", "frozen", "free", "frees", "dead"}

(* Without a region. *)
Without == {"idle", "failed"}

(* In a call that is decided and not counted yet. *)
CallUncounted == {"failed", "ok"}

(* In a release that is not counted yet. *)
Uncounted == IF kind = "fixed" THEN {"free", "frees"} ELSE {"frees"}

(* The owners at some places. *)
At(c, P) == {o \in Clients : c[o] \in P}

(* Counted in allocations_ok and not in frees. *)
CountedIn == {"live", "buffer", "frozen"} \cup Uncounted

(* Counted in bytes_live. *)
CountedLive == {"buffer", "frozen", "dead"} \cup Uncounted

(* With a region that is nobody else's. *)
Keeping ==
  {"ok", "live", "buffer", "frozen", "free"}
    \cup IF kind = "buddy" THEN {"frees", "dead"} ELSE {}

(* The units of some owners' regions, one by one. *)
UnitsOf(S, rg) == UNION {{o} \X (1 .. Size(rg[o])) : o \in S}

UnitsAt(c, rg, P) == UnitsOf(At(c, P), rg)

(* The type invariant. *)
CounterTypes ==
  /\ kind \in {"fixed", "buddy"}
  /\ unclaimed \subseteq Extents
  /\ cpc \in [Clients -> CallPlaces]
  /\ region \in [Clients -> Extents \cup {NoRegion}]
  /\ calls \in Nat
  /\ metrics \in [Counters -> Nat]
  /\ shown \in [Counters -> Nat]
  /\ loads \in 0 .. 6
  /\ undisturbed \in BOOLEAN

(* Every region that is out is kept by exactly one owner. *)
RegionsKept ==
  /\ \A o \in Clients : cpc[o] \notin Without => region[o] \in Extents
  /\ \A o \in Clients : cpc[o] \in Keeping => region[o] \notin unclaimed
  /\ \A o, u \in Clients : cpc[o] \in Keeping /\ cpc[u] \in Keeping /\ region[o] = region[u] => o = u
  /\ \A r \in Extents \ unclaimed : \E o \in Clients : cpc[o] \in Keeping /\ region[o] = r

(* What the counters say at every instant. *)
Tallies ==
  /\ calls = metrics.allocations_ok + metrics.allocations_failed + Cardinality(At(cpc, CallUncounted))
  /\ metrics.allocations_ok = metrics.frees + Cardinality(At(cpc, CountedIn))
  /\ metrics.frozen >= Cardinality(At(cpc, {"frozen"}))
  /\ metrics.frozen + metrics.spills + Cardinality(At(cpc, {"live", "buffer"})) <= metrics.allocations_ok
  /\ metrics.spills <= metrics.frees + Cardinality(At(cpc, Uncounted))

(* bytes_live is the units of the owners counted in it. *)
LiveTally == metrics.bytes_live = Cardinality(UnitsAt(cpc, region, CountedLive))

(* What bytes_live can come to. *)
LiveBound == IF kind = "buddy" THEN Cardinality(RegionUnits(Extents)) ELSE Cardinality(Clients)

(* What a snapshot has loaded is still true if nothing disturbed it. *)
Loaded ==
  /\ undisturbed /\ loads > 0 =>
       /\ AtRest
       /\ \A i \in 1 .. loads : shown[Fields[i]] = metrics[Fields[i]]
  /\ shown.bytes_live <= LiveBound

(* The inductive invariant. *)
CountersInv == CounterTypes /\ RegionsKept /\ Tallies /\ LiveTally /\ Loaded

(* The fields of MetricsState.                                             *)
LEMMA FieldsAre ==
  /\ Len(Fields) = 6
  /\ Counters = {"allocations_ok", "allocations_failed", "frees", "frozen", "spills", "bytes_live"}
  /\ \A i \in 1 .. 6 : Fields[i] \in Counters
  /\ Fields[1] = "allocations_ok" /\ Fields[2] = "allocations_failed" /\ Fields[3] = "frees"
  /\ Fields[4] = "frozen" /\ Fields[5] = "spills" /\ Fields[6] = "bytes_live"
  /\ \A i, j \in 1 .. 6 : Fields[i] = Fields[j] => i = j
<1>1. Len(Fields) = 6
  BY DEF Fields
<1>2. /\ Fields[1] = "allocations_ok" /\ Fields[2] = "allocations_failed" /\ Fields[3] = "frees"
      /\ Fields[4] = "frozen" /\ Fields[5] = "spills" /\ Fields[6] = "bytes_live"
  BY DEF Fields
<1>3. \A i \in 1 .. 6 : i = 1 \/ i = 2 \/ i = 3 \/ i = 4 \/ i = 5 \/ i = 6
  OBVIOUS
<1>4. Counters = {Fields[i] : i \in 1 .. 6}
  BY <1>1, Zenon DEF Counters
<1>5. Counters = {"allocations_ok", "allocations_failed", "frees", "frozen", "spills", "bytes_live"}
  BY <1>2, <1>3, <1>4
<1>6. \A i, j \in 1 .. 6 : Fields[i] = Fields[j] => i = j
  BY <1>2, <1>3
<1> QED
  BY <1>1, <1>2, <1>4, <1>5, <1>6

(* The counters as fields.                                                 *)
LEMMA CounterFields ==
  /\ "allocations_ok" \in Counters /\ "allocations_failed" \in Counters
  /\ "frees" \in Counters /\ "frozen" \in Counters
  /\ "spills" \in Counters /\ "bytes_live" \in Counters
PROOF BY FieldsAre

(* A region has as many units as its size.                                 *)
LEMMA UnitsOfOne ==
  ASSUME NEW x, NEW n \in Nat
  PROVE  IsFiniteSet({x} \X (1 .. n)) /\ Cardinality({x} \X (1 .. n)) = n
<1> DEFINE f == [i \in 1 .. n |-> <<x, i>>]
<1>1. f \in Bijection(1 .. n, {x} \X (1 .. n))
  <2>1. f \in [1 .. n -> {x} \X (1 .. n)]
    OBVIOUS
  <2>2. \A i, j \in 1 .. n : f[i] = f[j] => i = j
    OBVIOUS
  <2>3. \A y \in {x} \X (1 .. n) : \E i \in 1 .. n : f[i] = y
    OBVIOUS
  <2> QED
    BY <2>1, <2>2, <2>3, Zenon DEF Bijection, Injection, Surjection, IsInjective
<1>2. IsFiniteSet(1 .. n) /\ Cardinality(1 .. n) = n
  BY FS_Interval
<1>3. ExistsBijection(1 .. n, {x} \X (1 .. n))
  <2> HIDE DEF f
  <2> QED
    BY <1>1, Zenon DEF ExistsBijection
<1> QED
  BY <1>2, <1>3, FS_Bijection

(* Whose units these are.                                                  *)
LEMMA UnitsBelong ==
  ASSUME NEW c, NEW rg, NEW P
  PROVE  /\ \A x \in UnitsAt(c, rg, P) :
              \E o \in At(c, P) : \E i \in 1 .. Size(rg[o]) : x = <<o, i>>
         /\ \A o \in At(c, P) : \A i \in 1 .. Size(rg[o]) : <<o, i>> \in UnitsAt(c, rg, P)
PROOF BY DEF UnitsAt, UnitsOf

(* The units of regions.                                                   *)
LEMMA UnitsOfRegions ==
  ASSUME NEW S
  PROVE  /\ \A x \in RegionUnits(S) : \E r \in S : \E i \in 1 .. Size(r) : x = <<r, i>>
         /\ \A r \in S : \A i \in 1 .. Size(r) : <<r, i>> \in RegionUnits(S)
PROOF BY DEF RegionUnits

(* Sizes are numbers above 0, and in a buddy arena those of the regions.   *)
LEMMA Sizes ==
  ASSUME CounterTypes, NEW r \in Extents
  PROVE  /\ Size(r) \in Nat \ {0}
         /\ kind = "buddy" => Size(r) = r
         /\ kind = "fixed" => Size(r) = 1
PROOF BY ExtentsAssumption DEF CounterTypes, Size

(* The arena has finitely many units, and bytes_live is wide enough for    *)
(* them.                                                                   *)
LEMMA UnitsFinite ==
  ASSUME CounterTypes
  PROVE  /\ IsFiniteSet(RegionUnits(Extents))
         /\ Cardinality(RegionUnits(Extents)) \in Nat
         /\ LiveBound \in Nat
         /\ LiveBound < MetricsWidth
<1> DEFINE units(r) == {r} \X (1 .. Size(r))
           f == [r \in Extents |-> units(r)]
           all == {units(r) : r \in Extents}
<1>1. IsFiniteSet(all)
  <2>1. f \in Surjection(Extents, all)
    BY Zenon DEF Surjection
  <2> HIDE DEF f, all
  <2> QED
    BY <2>1, ExtentsAssumption, FS_Surjection
<1>2. \A T \in all : IsFiniteSet(T)
  <2>1. ASSUME NEW r \in Extents PROVE IsFiniteSet(units(r))
    BY Sizes, UnitsOfOne, Zenon
  <2> QED
    BY <2>1
<1>3. RegionUnits(Extents) = UNION all
  BY DEF RegionUnits
<1>4. IsFiniteSet(RegionUnits(Extents))
  <2> HIDE DEF all
  <2> QED
    BY <1>1, <1>2, <1>3, FS_UNION
<1>6. Cardinality(RegionUnits(Extents)) \in Nat
  BY <1>4, FS_CardinalityType
<1>7. kind = "buddy" => Cardinality(RegionUnits(Extents)) < MetricsWidth
  <2>1. SUFFICES ASSUME kind = "buddy" PROVE RegionUnits(Extents) = UNION {{r} \X (1 .. r) : r \in Extents}
    BY <1>6, MetricsWidthAssumption
  <2>2. \A r \in Extents : Size(r) = r
    BY <2>1, Sizes
  <2> QED
    BY <2>2 DEF RegionUnits
<1>8. Cardinality(Clients) \in Nat /\ Cardinality(Clients) < MetricsWidth
  BY ClientsAssumption, FS_CardinalityType, MetricsWidthAssumption
<1> QED
  BY <1>4, <1>6, <1>7, <1>8 DEF LiveBound

(* Where the owners at some places keep their regions for themselves, their *)
(* units are units of the regions that are out; and all of them, if every  *)
(* such owner is at these places.                                          *)
LEMMA UnitsOut ==
  ASSUME CounterTypes, RegionsKept, NEW P, P \subseteq Keeping
  PROVE  /\ IsFiniteSet(UnitsAt(cpc, region, P))
         /\ Cardinality(UnitsAt(cpc, region, P)) <= Cardinality(RegionUnits(Extents))
         /\ At(cpc, P) = At(cpc, Keeping) =>
              Cardinality(UnitsAt(cpc, region, P)) = Cardinality(RegionUnits(Extents \ unclaimed))
<1> DEFINE U == UnitsAt(cpc, region, P)
           R == RegionUnits(Extents \ unclaimed)
           f == [x \in U |-> <<region[x[1]], x[2]>>]
<1>1. ASSUME NEW o \in At(cpc, P)
      PROVE  o \in Clients /\ cpc[o] \in Keeping /\ region[o] \in Extents \ unclaimed
  <2>1. o \in Clients /\ cpc[o] \in Keeping
    BY DEF At
  <2>2. cpc[o] \notin Without
    BY <2>1 DEF Keeping, Without
  <2> QED
    BY <2>1, <2>2 DEF RegionsKept
<1>2. ASSUME NEW x \in U
      PROVE  \E o \in At(cpc, P) : \E i \in 1 .. Size(region[o]) :
               x = <<o, i>> /\ f[x] = <<region[o], i>> /\ f[x] \in R
  <2>1. PICK o \in At(cpc, P) : \E i \in 1 .. Size(region[o]) : x = <<o, i>>
    BY UnitsBelong
  <2>2. PICK i \in 1 .. Size(region[o]) : x = <<o, i>>
    BY <2>1
  <2>3. f[x] = <<region[o], i>>
    BY <2>2
  <2>4. <<region[o], i>> \in R
    BY <1>1, UnitsOfRegions
  <2> QED
    BY <2>2, <2>3, <2>4
<1>3. f \in Injection(U, R)
  <2>1. f \in [U -> R]
    BY <1>2
  <2>2. ASSUME NEW x \in U, NEW y \in U, f[x] = f[y] PROVE x = y
    <3>1. PICK o \in At(cpc, P) : \E i \in 1 .. Size(region[o]) :
            x = <<o, i>> /\ f[x] = <<region[o], i>>
      BY <1>2
    <3>2. PICK u \in At(cpc, P) : \E i \in 1 .. Size(region[u]) :
            y = <<u, i>> /\ f[y] = <<region[u], i>>
      BY <1>2
    <3>3. region[o] = region[u] /\ x[2] = y[2]
      BY <2>2, <3>1, <3>2
    <3>4. o = u
      BY <1>1, <3>3 DEF RegionsKept
    <3> QED
      BY <3>1, <3>2, <3>3, <3>4
  <2> HIDE DEF f, U, R
  <2> QED
    BY <2>1, <2>2 DEF Injection, IsInjective
<1>4. IsFiniteSet(R) /\ Cardinality(R) <= Cardinality(RegionUnits(Extents)) /\ Cardinality(R) \in Nat
  <2>1. R \in SUBSET RegionUnits(Extents)
    BY DEF RegionUnits
  <2>2. IsFiniteSet(RegionUnits(Extents))
    BY UnitsFinite
  <2> QED
    BY <2>1, <2>2, FS_Subset, FS_CardinalityType, Zenon
<1>5. /\ IsFiniteSet(U) /\ Cardinality(U) <= Cardinality(R)
      /\ f \in Surjection(U, R) => Cardinality(U) = Cardinality(R)
  <2> HIDE DEF f, U, R
  <2> QED
    BY <1>3, <1>4, FS_Injection
<1>6. ASSUME At(cpc, P) = At(cpc, Keeping) PROVE f \in Surjection(U, R)
  <2>1. ASSUME NEW y \in R PROVE \E x \in U : f[x] = y
    <3>1. PICK r \in Extents \ unclaimed : \E i \in 1 .. Size(r) : y = <<r, i>>
      BY UnitsOfRegions
    <3>2. PICK i \in 1 .. Size(r) : y = <<r, i>>
      BY <3>1
    <3>3. PICK o \in Clients : cpc[o] \in Keeping /\ region[o] = r
      BY DEF RegionsKept
    <3>4. o \in At(cpc, P)
      BY <1>6, <3>3 DEF At
    <3>5. <<o, i>> \in U
      BY <3>2, <3>3, <3>4, UnitsBelong
    <3>6. f[<<o, i>>] = y
      BY <3>2, <3>3, <3>5
    <3> QED
      BY <3>5, <3>6
  <2>2. f \in [U -> R]
    BY <1>2
  <2> HIDE DEF f, U, R
  <2> QED
    BY <2>1, <2>2 DEF Surjection
<1>7. Cardinality(U) \in Nat /\ Cardinality(RegionUnits(Extents)) \in Nat
  BY <1>5, UnitsFinite, FS_CardinalityType
<1> HIDE DEF f, U, R
<1>8. Cardinality(U) <= Cardinality(RegionUnits(Extents))
  BY <1>4, <1>5, <1>7
<1> QED
  BY <1>5, <1>6, <1>8 DEF U, R

(* Owners at places where a buddy arena's owner has its region to itself   *)
(* have no more than LiveBound units.                                      *)
LEMMA UnitsBounded ==
  ASSUME CounterTypes, RegionsKept, NEW P, kind = "buddy" => P \subseteq Keeping
  PROVE  /\ IsFiniteSet(UnitsAt(cpc, region, P))
         /\ Cardinality(UnitsAt(cpc, region, P)) \in Nat
         /\ Cardinality(UnitsAt(cpc, region, P)) <= LiveBound
<1>1. CASE kind = "buddy"
  <2> QED
    BY <1>1, UnitsOut, UnitsFinite, FS_CardinalityType DEF LiveBound
<1>2. CASE kind = "fixed"
  <2> DEFINE U == UnitsAt(cpc, region, P)
             f == [x \in U |-> x[1]]
  <2>1. ASSUME NEW x \in U PROVE \E o \in Clients : x = <<o, 1>>
    <3>1. PICK o \in At(cpc, P) : \E i \in 1 .. Size(region[o]) : x = <<o, i>>
      BY UnitsBelong
    <3>2. Size(region[o]) = 1
      BY <1>2 DEF Size
    <3> QED
      BY <3>1, <3>2 DEF At
  <2>2. f \in Injection(U, Clients)
    <3>1. f \in [U -> Clients]
      BY <2>1
    <3>2. ASSUME NEW x \in U, NEW y \in U, f[x] = f[y] PROVE x = y
      BY <2>1, <3>2
    <3> HIDE DEF f, U
    <3> QED
      BY <3>1, <3>2 DEF Injection, IsInjective
  <2>3. IsFiniteSet(U) /\ Cardinality(U) <= Cardinality(Clients)
    <3> HIDE DEF f, U
    <3> QED
      BY <2>2, ClientsAssumption, FS_Injection
  <2> QED
    BY <1>2, <2>3, FS_CardinalityType DEF LiveBound
<1> QED
  BY <1>1, <1>2 DEF CounterTypes

(* bytes_live never has to hold more than LiveBound.                       *)
LEMMA LiveUnitsBounded ==
  ASSUME CounterTypes, RegionsKept
  PROVE  /\ IsFiniteSet(UnitsAt(cpc, region, CountedLive))
         /\ Cardinality(UnitsAt(cpc, region, CountedLive)) \in Nat
         /\ Cardinality(UnitsAt(cpc, region, CountedLive)) <= LiveBound
<1>1. kind = "buddy" => CountedLive \subseteq Keeping
  BY DEF CountedLive, Keeping, Uncounted
<1> QED
  BY <1>1, UnitsBounded

-----------------------------------------------------------------------------
(* The steps of an owner. *)

(* 1 or 0: is this place among them? *)
Is(p, P) == IF p \in P THEN 1 ELSE 0

(* When one owner moves, the number at some places changes by that owner.  *)
LEMMA Moved ==
  ASSUME CounterTypes, NEW o \in Clients, NEW q \in CallPlaces,
         cpc' = [cpc EXCEPT ![o] = q], NEW P
  PROVE  /\ Cardinality(At(cpc, P)) \in Nat
         /\ Cardinality(At(cpc', P)) \in Nat
         /\ Cardinality(At(cpc', P)) = Cardinality(At(cpc, P)) + Is(q, P) - Is(cpc[o], P)
         /\ Is(q, P) = Is(cpc[o], P) => At(cpc', P) = At(cpc, P)
<1>1. At(cpc, P) \in SUBSET Clients /\ At(cpc', P) \in SUBSET Clients
  BY DEF At
<1>2. IsFiniteSet(At(cpc, P)) /\ IsFiniteSet(At(cpc', P))
  BY <1>1, ClientsAssumption, FS_Subset, Zenon
<1>3. PICK m \in Nat, n \in Nat : m = Cardinality(At(cpc, P)) /\ n = Cardinality(At(cpc', P))
  BY <1>2, FS_CardinalityType
<1>4. cpc \in [Clients -> CallPlaces]
  BY DEF CounterTypes
<1>5. CASE q \in P <=> cpc[o] \in P
  <2>1. At(cpc', P) = At(cpc, P)
    BY <1>4, <1>5 DEF At
  <2> QED
    BY <1>3, <1>5, <2>1 DEF Is
<1>6. CASE q \in P /\ cpc[o] \notin P
  <2>1. At(cpc', P) = At(cpc, P) \cup {o} /\ o \notin At(cpc, P)
    BY <1>4, <1>6 DEF At
  <2>2. n = m + 1
    BY <1>2, <1>3, <2>1, FS_AddElement, Zenon
  <2> QED
    BY <1>3, <1>6, <2>2 DEF Is
<1>7. CASE q \notin P /\ cpc[o] \in P
  <2>1. At(cpc', P) = At(cpc, P) \ {o} /\ o \in At(cpc, P)
    BY <1>4, <1>7 DEF At
  <2>2. n = m - 1
    BY <1>2, <1>3, <2>1, FS_RemoveElement, Zenon
  <2> QED
    BY <1>3, <1>7, <2>2 DEF Is
<1> QED
  BY <1>5, <1>6, <1>7

(* What is counted depends on the kind of arena alone.                     *)
LEMMA SameKind ==
  ASSUME kind' = kind
  PROVE  /\ CountedIn' = CountedIn /\ Uncounted' = Uncounted
         /\ CountedLive' = CountedLive /\ Keeping' = Keeping
         /\ LiveBound' = LiveBound
         /\ \A r : Size(r)' = Size(r)
<1>1. /\ CountedIn' = CountedIn /\ Uncounted' = Uncounted
      /\ CountedLive' = CountedLive /\ Keeping' = Keeping
  BY DEF CountedIn, Uncounted, CountedLive, Keeping
<1>2. \A r : Size(r)' = Size(r)
  BY DEF Size
<1>3. LiveBound' = LiveBound
  BY DEF LiveBound, RegionUnits, Size
<1> QED
  BY <1>1, <1>2, <1>3

(* The counters go up as a step from p to q wants it. *)
Balanced(p, q) ==
  /\ calls' + metrics.allocations_ok + metrics.allocations_failed + Is(p, CallUncounted) =
       calls + metrics'.allocations_ok + metrics'.allocations_failed + Is(q, CallUncounted)
  /\ metrics'.allocations_ok - metrics'.frees + Is(p, CountedIn) =
       metrics.allocations_ok - metrics.frees + Is(q, CountedIn)
  /\ metrics'.frozen + Is(p, {"frozen"}) >= metrics.frozen + Is(q, {"frozen"})
  /\ metrics'.frozen + metrics'.spills + Is(q, {"live", "buffer"}) + metrics.allocations_ok <=
       metrics.frozen + metrics.spills + Is(p, {"live", "buffer"}) + metrics'.allocations_ok
  /\ metrics'.spills + metrics.frees + Is(p, Uncounted) <=
       metrics.spills + metrics'.frees + Is(q, Uncounted)

(* The counters of calls after a step from a place to another.             *)
LEMMA TalliesMoved ==
  ASSUME CounterTypes, Tallies, NEW o \in Clients, NEW q \in CallPlaces,
         cpc' = [cpc EXCEPT ![o] = q], kind' = kind,
         metrics' \in [Counters -> Nat], calls' \in Nat,
         Balanced(cpc[o], q)
  PROVE  Tallies'
<1>1. ASSUME NEW P
      PROVE  /\ Cardinality(At(cpc, P)) \in Nat
             /\ Cardinality(At(cpc', P)) \in Nat
             /\ Cardinality(At(cpc', P)) = Cardinality(At(cpc, P)) + Is(q, P) - Is(cpc[o], P)
             /\ Is(q, P) \in {0, 1} /\ Is(cpc[o], P) \in {0, 1}
  BY Moved, Zenon DEF Is
<1>2. PICK ok \in Nat, fl \in Nat, fr \in Nat, fz \in Nat, sp \in Nat :
        /\ fl = metrics.allocations_failed
        /\ ok = metrics.allocations_ok /\ fr = metrics.frees
        /\ fz = metrics.frozen /\ sp = metrics.spills
  BY CounterFields DEF CounterTypes
<1>3. PICK ok1 \in Nat, fl1 \in Nat, fr1 \in Nat, fz1 \in Nat, sp1 \in Nat :
        /\ fl1 = metrics'.allocations_failed
        /\ ok1 = metrics'.allocations_ok /\ fr1 = metrics'.frees
        /\ fz1 = metrics'.frozen /\ sp1 = metrics'.spills
  BY CounterFields
<1>4. CountedIn' = CountedIn /\ Uncounted' = Uncounted
  BY SameKind
<1>5. ok1 = fr1 + Cardinality(At(cpc', CountedIn))
  <2>1. /\ Cardinality(At(cpc, CountedIn)) \in Nat
        /\ Cardinality(At(cpc', CountedIn)) \in Nat
        /\ Cardinality(At(cpc', CountedIn)) =
             Cardinality(At(cpc, CountedIn)) + Is(q, CountedIn) - Is(cpc[o], CountedIn)
        /\ Is(q, CountedIn) \in {0, 1} /\ Is(cpc[o], CountedIn) \in {0, 1}
    BY <1>1, Zenon
  <2>2. ok = fr + Cardinality(At(cpc, CountedIn))
    BY <1>2 DEF Tallies
  <2>3. ok1 - fr1 + Is(cpc[o], CountedIn) = ok - fr + Is(q, CountedIn)
    BY <1>2, <1>3 DEF Balanced
  <2> QED
    BY <2>1, <2>2, <2>3
<1>6. fz1 >= Cardinality(At(cpc', {"frozen"}))
  <2> DEFINE F == {"frozen"}
  <2>1. /\ Cardinality(At(cpc, F)) \in Nat
        /\ Cardinality(At(cpc', F)) \in Nat
        /\ Cardinality(At(cpc', F)) = Cardinality(At(cpc, F)) + Is(q, F) - Is(cpc[o], F)
        /\ Is(q, F) \in {0, 1} /\ Is(cpc[o], F) \in {0, 1}
    BY <1>1, Zenon
  <2>2. fz >= Cardinality(At(cpc, F))
    BY <1>2 DEF Tallies
  <2>3. fz1 + Is(cpc[o], F) >= fz + Is(q, F)
    BY <1>2, <1>3 DEF Balanced
  <2> HIDE DEF F
  <2>4. fz1 >= Cardinality(At(cpc', F))
    BY <2>1, <2>2, <2>3
  <2> QED
    BY <2>4 DEF F
<1>7. fz1 + sp1 + Cardinality(At(cpc', {"live", "buffer"})) <= ok1
  <2> DEFINE B == {"live", "buffer"}
  <2>1. /\ Cardinality(At(cpc, B)) \in Nat
        /\ Cardinality(At(cpc', B)) \in Nat
        /\ Cardinality(At(cpc', B)) = Cardinality(At(cpc, B)) + Is(q, B) - Is(cpc[o], B)
        /\ Is(q, B) \in {0, 1} /\ Is(cpc[o], B) \in {0, 1}
    BY <1>1, Zenon
  <2>2. fz + sp + Cardinality(At(cpc, B)) <= ok
    BY <1>2 DEF Tallies
  <2>3. fz1 + sp1 + Is(q, B) + ok <= fz + sp + Is(cpc[o], B) + ok1
    BY <1>2, <1>3 DEF Balanced
  <2> HIDE DEF B
  <2>4. fz1 + sp1 + Cardinality(At(cpc', B)) <= ok1
    BY <2>1, <2>2, <2>3
  <2> QED
    BY <2>4 DEF B
<1>8. sp1 <= fr1 + Cardinality(At(cpc', Uncounted))
  <2>1. /\ Cardinality(At(cpc, Uncounted)) \in Nat
        /\ Cardinality(At(cpc', Uncounted)) \in Nat
        /\ Cardinality(At(cpc', Uncounted)) =
             Cardinality(At(cpc, Uncounted)) + Is(q, Uncounted) - Is(cpc[o], Uncounted)
        /\ Is(q, Uncounted) \in {0, 1} /\ Is(cpc[o], Uncounted) \in {0, 1}
    BY <1>1, Zenon
  <2>2. sp <= fr + Cardinality(At(cpc, Uncounted))
    BY <1>2 DEF Tallies
  <2>3. sp1 + fr + Is(cpc[o], Uncounted) <= sp + fr1 + Is(q, Uncounted)
    BY <1>2, <1>3 DEF Balanced
  <2> QED
    BY <2>1, <2>2, <2>3
<1>9. calls' = ok1 + fl1 + Cardinality(At(cpc', CallUncounted))
  <2> DEFINE U == CallUncounted
  <2>1. /\ Cardinality(At(cpc, U)) \in Nat
        /\ Cardinality(At(cpc', U)) \in Nat
        /\ Cardinality(At(cpc', U)) = Cardinality(At(cpc, U)) + Is(q, U) - Is(cpc[o], U)
        /\ Is(q, U) \in {0, 1} /\ Is(cpc[o], U) \in {0, 1}
    BY <1>1, Zenon
  <2>2. calls = ok + fl + Cardinality(At(cpc, U))
    BY <1>2 DEF Tallies
  <2>3. calls' + ok + fl + Is(cpc[o], U) = calls + ok1 + fl1 + Is(q, U)
    BY <1>2, <1>3 DEF Balanced
  <2>4. calls \in Nat
    BY DEF CounterTypes
  <2> HIDE DEF U
  <2>5. calls' = ok1 + fl1 + Cardinality(At(cpc', U))
    BY <2>1, <2>2, <2>3, <2>4
  <2> QED
    BY <2>5 DEF U
<1> QED
  BY <1>3, <1>4, <1>5, <1>6, <1>7, <1>8, <1>9 DEF Tallies, At

(* The bytes after a step that does not change who is counted.             *)
LEMMA LiveKept ==
  ASSUME CounterTypes, LiveTally, NEW o \in Clients, NEW q \in CallPlaces,
         cpc' = [cpc EXCEPT ![o] = q], kind' = kind,
         Is(q, CountedLive) = Is(cpc[o], CountedLive),
         metrics'.bytes_live = metrics.bytes_live,
         \A u \in Clients : cpc[u] \in CountedLive => region'[u] = region[u]
  PROVE  LiveTally'
<1>1. At(cpc', CountedLive) = At(cpc, CountedLive)
  BY Moved, Zenon
<1>2. CountedLive' = CountedLive /\ \A r : Size(r)' = Size(r)
  BY SameKind
<1>3. UnitsAt(cpc, region, CountedLive)' = UnitsAt(cpc, region, CountedLive)
  BY <1>1, <1>2 DEF UnitsAt, UnitsOf, At
<1> QED
  BY <1>3 DEF LiveTally

(* What holds between the steps of owners, snapshots aside. *)
CoreInv == CounterTypes /\ RegionsKept /\ Tallies /\ LiveTally

(* A step between two places at which the region is as safe.               *)
LEMMA RegionsSame ==
  ASSUME CounterTypes, RegionsKept, NEW o \in Clients, NEW q \in CallPlaces,
         cpc' = [cpc EXCEPT ![o] = q], UNCHANGED <<kind, region, unclaimed>>,
         cpc[o] \in Without => q \in Without, q \in Keeping <=> cpc[o] \in Keeping
  PROVE  RegionsKept'
<1>1. Keeping' = Keeping
  BY SameKind
<1>2. \A u \in Clients : (cpc'[u] \in Keeping <=> cpc[u] \in Keeping) /\ (cpc[u] \in Without => cpc'[u] \in Without)
  BY DEF CounterTypes
<1> QED
  BY <1>1, <1>2 DEF RegionsKept

(* The counters, after one of them has gone up.                            *)
LEMMA Bumped ==
  ASSUME CounterTypes, NEW f \in Counters, Bump(f)
  PROVE  /\ metrics' \in [Counters -> Nat]
         /\ \A g \in Counters : metrics'[g] = IF g = f THEN metrics[g] + 1 ELSE metrics[g]
         /\ \A g \in Counters : metrics[g] \in Nat
PROOF BY DEF CounterTypes, Bump

(* try_alloc found nothing. *)
LEMMA StepNothing ==
  ASSUME CoreInv, NEW o \in Clients, FindNothing(o),
         UNCHANGED <<shown, loads>>, undisturbed' \in BOOLEAN
  PROVE  CoreInv'
<1>1. /\ cpc[o] = "idle" /\ calls' = calls + 1 /\ UNCHANGED <<kind, unclaimed, region, metrics>>
      /\ cpc' = [cpc EXCEPT ![o] = "failed"]
  BY DEF FindNothing, Decide, Move
<1>2. CounterTypes /\ RegionsKept /\ Tallies /\ LiveTally /\ "failed" \in CallPlaces
  BY DEF CoreInv, CallPlaces
<1>3. /\ metrics' \in [Counters -> Nat] /\ calls \in Nat /\ calls' \in Nat
      /\ metrics'.bytes_live = metrics.bytes_live
      /\ metrics.allocations_ok \in Nat /\ metrics.allocations_failed \in Nat
      /\ metrics.frees \in Nat /\ metrics.frozen \in Nat /\ metrics.spills \in Nat
  BY <1>1, <1>2, CounterFields DEF CounterTypes
<1>4. Balanced(cpc[o], "failed")
  BY <1>1, <1>3 DEF Balanced, Is, CallUncounted, CountedIn, Uncounted
<1>5. Is("failed", CountedLive) = Is(cpc[o], CountedLive)
  BY <1>1 DEF Is, CountedLive, Uncounted
<1>6. ("failed" \in Keeping <=> cpc[o] \in Keeping) /\ "failed" \in Without
  BY <1>1 DEF Keeping, Without
<1>7. Tallies'
  BY <1>1, <1>2, <1>3, <1>4, TalliesMoved, Zenon
<1>8. LiveTally'
  BY <1>1, <1>2, <1>3, <1>5, LiveKept, Zenon
<1>9. RegionsKept'
  BY <1>1, <1>2, <1>6, RegionsSame, Zenon
<1>10. CounterTypes'
  BY <1>1, <1>2, <1>3 DEF CounterTypes
<1> QED
  BY <1>7, <1>8, <1>9, <1>10 DEF CoreInv

(* record_alloc_failure counts the failure. *)
LEMMA StepFailure ==
  ASSUME CoreInv, NEW o \in Clients, record_alloc_failure(o),
         UNCHANGED <<shown, loads>>, undisturbed' \in BOOLEAN
  PROVE  CoreInv'
<1>1. /\ cpc[o] = "failed" /\ Bump("allocations_failed") /\ UNCHANGED <<kind, unclaimed, region, calls>>
      /\ cpc' = [cpc EXCEPT ![o] = "idle"]
  BY DEF record_alloc_failure, Move
<1>2. CounterTypes /\ RegionsKept /\ Tallies /\ LiveTally /\ "idle" \in CallPlaces
  BY DEF CoreInv, CallPlaces
<1>3. /\ metrics' \in [Counters -> Nat]
      /\ metrics'.allocations_failed = metrics.allocations_failed + 1
      /\ metrics'.allocations_ok = metrics.allocations_ok /\ metrics'.frees = metrics.frees
      /\ metrics'.frozen = metrics.frozen /\ metrics'.spills = metrics.spills
      /\ metrics'.bytes_live = metrics.bytes_live
      /\ metrics.allocations_ok \in Nat /\ metrics.frees \in Nat /\ metrics.frozen \in Nat
      /\ metrics.spills \in Nat /\ metrics.allocations_failed \in Nat
      /\ calls \in Nat /\ calls' \in Nat
  BY <1>1, <1>2, CounterFields, Bumped DEF CounterTypes
<1>4. Balanced(cpc[o], "idle")
  BY <1>1, <1>2, <1>3 DEF Balanced, Is, CallUncounted, CountedIn, Uncounted
<1>5. Is("idle", CountedLive) = Is(cpc[o], CountedLive)
  BY <1>1 DEF Is, CountedLive, Uncounted
<1>6. ("idle" \in Keeping <=> cpc[o] \in Keeping) /\ "idle" \in Without
  BY <1>1 DEF Keeping, Without
<1>7. Tallies'
  BY <1>1, <1>2, <1>3, <1>4, TalliesMoved, Zenon
<1>8. LiveTally'
  BY <1>1, <1>2, <1>3, <1>5, LiveKept, Zenon
<1>9. RegionsKept'
  BY <1>1, <1>2, <1>6, RegionsSame, Zenon
<1>10. CounterTypes'
  BY <1>1, <1>2, <1>3 DEF CounterTypes
<1> QED
  BY <1>7, <1>8, <1>9, <1>10 DEF CoreInv

(* record_alloc_success counts the allocation. *)
LEMMA StepRecordOk ==
  ASSUME CoreInv, NEW o \in Clients, RecordOk(o),
         UNCHANGED <<shown, loads>>, undisturbed' \in BOOLEAN
  PROVE  CoreInv'
<1>1. /\ cpc[o] = "ok" /\ Bump("allocations_ok") /\ UNCHANGED <<kind, unclaimed, region, calls>>
      /\ cpc' = [cpc EXCEPT ![o] = "live"]
  BY DEF RecordOk, Move
<1>2. CounterTypes /\ RegionsKept /\ Tallies /\ LiveTally /\ "live" \in CallPlaces
  BY DEF CoreInv, CallPlaces
<1>3. /\ metrics' \in [Counters -> Nat]
      /\ metrics'.allocations_failed = metrics.allocations_failed
      /\ metrics'.allocations_ok = metrics.allocations_ok + 1 /\ metrics'.frees = metrics.frees
      /\ metrics'.frozen = metrics.frozen /\ metrics'.spills = metrics.spills
      /\ metrics'.bytes_live = metrics.bytes_live
      /\ metrics.allocations_ok \in Nat /\ metrics.frees \in Nat /\ metrics.frozen \in Nat
      /\ metrics.spills \in Nat /\ metrics.allocations_failed \in Nat
      /\ calls \in Nat /\ calls' \in Nat
  BY <1>1, <1>2, CounterFields, Bumped DEF CounterTypes
<1>4. Balanced(cpc[o], "live")
  BY <1>1, <1>2, <1>3 DEF Balanced, Is, CallUncounted, CountedIn, Uncounted
<1>5. Is("live", CountedLive) = Is(cpc[o], CountedLive)
  BY <1>1, <1>2 DEF Is, CountedLive, Uncounted
<1>6. ("live" \in Keeping <=> cpc[o] \in Keeping) /\ cpc[o] \notin Without
  BY <1>1, <1>2 DEF Keeping, Without
<1>7. Tallies'
  BY <1>1, <1>2, <1>3, <1>4, TalliesMoved, Zenon
<1>8. LiveTally'
  BY <1>1, <1>2, <1>3, <1>5, LiveKept, Zenon
<1>9. RegionsKept'
  BY <1>1, <1>2, <1>6, RegionsSame, Zenon
<1>10. CounterTypes'
  BY <1>1, <1>2, <1>3 DEF CounterTypes
<1> QED
  BY <1>7, <1>8, <1>9, <1>10 DEF CoreInv

(* record_frozen *)
LEMMA StepFrozen ==
  ASSUME CoreInv, NEW o \in Clients, record_frozen(o),
         UNCHANGED <<shown, loads>>, undisturbed' \in BOOLEAN
  PROVE  CoreInv'
<1>1. /\ cpc[o] = "buffer" /\ Bump("frozen") /\ UNCHANGED <<kind, unclaimed, region, calls>>
      /\ cpc' = [cpc EXCEPT ![o] = "frozen"]
  BY DEF record_frozen, Move
<1>2. CounterTypes /\ RegionsKept /\ Tallies /\ LiveTally /\ "frozen" \in CallPlaces
  BY DEF CoreInv, CallPlaces
<1>3. /\ metrics' \in [Counters -> Nat]
      /\ metrics'.allocations_failed = metrics.allocations_failed
      /\ metrics'.allocations_ok = metrics.allocations_ok /\ metrics'.frees = metrics.frees
      /\ metrics'.frozen = metrics.frozen + 1 /\ metrics'.spills = metrics.spills
      /\ metrics'.bytes_live = metrics.bytes_live
      /\ metrics.allocations_ok \in Nat /\ metrics.frees \in Nat /\ metrics.frozen \in Nat
      /\ metrics.spills \in Nat /\ metrics.allocations_failed \in Nat
      /\ calls \in Nat /\ calls' \in Nat
  BY <1>1, <1>2, CounterFields, Bumped DEF CounterTypes
<1>4. Balanced(cpc[o], "frozen")
  BY <1>1, <1>2, <1>3 DEF Balanced, Is, CallUncounted, CountedIn, Uncounted
<1>5. Is("frozen", CountedLive) = Is(cpc[o], CountedLive)
  BY <1>1, <1>2 DEF Is, CountedLive, Uncounted
<1>6. ("frozen" \in Keeping <=> cpc[o] \in Keeping) /\ cpc[o] \notin Without
  BY <1>1, <1>2 DEF Keeping, Without
<1>7. Tallies'
  BY <1>1, <1>2, <1>3, <1>4, TalliesMoved, Zenon
<1>8. LiveTally'
  BY <1>1, <1>2, <1>3, <1>5, LiveKept, Zenon
<1>9. RegionsKept'
  BY <1>1, <1>2, <1>6, RegionsSame, Zenon
<1>10. CounterTypes'
  BY <1>1, <1>2, <1>3 DEF CounterTypes
<1> QED
  BY <1>7, <1>8, <1>9, <1>10 DEF CoreInv

(* do_spill, which releases the region. *)
LEMMA StepSpill ==
  ASSUME CoreInv, NEW o \in Clients, record_spill(o),
         UNCHANGED <<shown, loads>>, undisturbed' \in BOOLEAN
  PROVE  CoreInv'
<1>1. /\ cpc[o] = "buffer" /\ Bump("spills") /\ UNCHANGED <<kind, unclaimed, region, calls>>
      /\ cpc' = [cpc EXCEPT ![o] = ReleaseFrom]
  BY DEF record_spill, Move
<1>2. CounterTypes /\ RegionsKept /\ Tallies /\ LiveTally /\ ReleaseFrom \in CallPlaces
  BY DEF CoreInv, CallPlaces, ReleaseFrom
<1>3. /\ metrics' \in [Counters -> Nat]
      /\ metrics'.allocations_failed = metrics.allocations_failed
      /\ metrics'.allocations_ok = metrics.allocations_ok /\ metrics'.frees = metrics.frees
      /\ metrics'.frozen = metrics.frozen /\ metrics'.spills = metrics.spills + 1
      /\ metrics'.bytes_live = metrics.bytes_live
      /\ metrics.allocations_ok \in Nat /\ metrics.frees \in Nat /\ metrics.frozen \in Nat
      /\ metrics.spills \in Nat /\ metrics.allocations_failed \in Nat
      /\ calls \in Nat /\ calls' \in Nat
  BY <1>1, <1>2, CounterFields, Bumped DEF CounterTypes
<1>4. Balanced(cpc[o], ReleaseFrom)
  BY <1>1, <1>2, <1>3 DEF Balanced, Is, CallUncounted, CountedIn, Uncounted, ReleaseFrom, CounterTypes
<1>5. Is(ReleaseFrom, CountedLive) = Is(cpc[o], CountedLive)
  BY <1>1, <1>2 DEF Is, CountedLive, Uncounted, ReleaseFrom, CounterTypes
<1>6. (ReleaseFrom \in Keeping <=> cpc[o] \in Keeping) /\ cpc[o] \notin Without
  BY <1>1, <1>2 DEF Keeping, Without, ReleaseFrom, CounterTypes
<1>7. Tallies'
  BY <1>1, <1>2, <1>3, <1>4, TalliesMoved, Zenon
<1>8. LiveTally'
  BY <1>1, <1>2, <1>3, <1>5, LiveKept, Zenon
<1>9. RegionsKept'
  BY <1>1, <1>2, <1>6, RegionsSame, Zenon
<1>10. CounterTypes'
  BY <1>1, <1>2, <1>3 DEF CounterTypes
<1> QED
  BY <1>7, <1>8, <1>9, <1>10 DEF CoreInv

(* A buffer, a region or the last Bytes is dropped. *)
LEMMA StepDrop ==
  ASSUME CoreInv, NEW o \in Clients, DropRegion(o),
         UNCHANGED <<shown, loads>>, undisturbed' \in BOOLEAN
  PROVE  CoreInv'
<1>1. /\ cpc[o] \in {"buffer", "frozen"} /\ metrics' = metrics /\ UNCHANGED <<kind, unclaimed, region, calls>>
      /\ cpc' = [cpc EXCEPT ![o] = ReleaseFrom]
  BY DEF DropRegion, Move
<1>2. CounterTypes /\ RegionsKept /\ Tallies /\ LiveTally /\ ReleaseFrom \in CallPlaces
  BY DEF CoreInv, CallPlaces, ReleaseFrom
<1>3. /\ metrics' \in [Counters -> Nat]
      /\ metrics'.allocations_failed = metrics.allocations_failed
      /\ metrics'.allocations_ok = metrics.allocations_ok /\ metrics'.frees = metrics.frees
      /\ metrics'.frozen = metrics.frozen /\ metrics'.spills = metrics.spills
      /\ metrics'.bytes_live = metrics.bytes_live
      /\ metrics.allocations_ok \in Nat /\ metrics.frees \in Nat /\ metrics.frozen \in Nat
      /\ metrics.spills \in Nat /\ metrics.allocations_failed \in Nat
      /\ calls \in Nat /\ calls' \in Nat
  BY <1>1, <1>2, CounterFields DEF CounterTypes
<1>4. Balanced(cpc[o], ReleaseFrom)
  BY <1>1, <1>2, <1>3 DEF Balanced, Is, CallUncounted, CountedIn, Uncounted, ReleaseFrom, CounterTypes
<1>5. Is(ReleaseFrom, CountedLive) = Is(cpc[o], CountedLive)
  BY <1>1, <1>2 DEF Is, CountedLive, Uncounted, ReleaseFrom, CounterTypes
<1>6. (ReleaseFrom \in Keeping <=> cpc[o] \in Keeping) /\ cpc[o] \notin Without
  BY <1>1, <1>2 DEF Keeping, Without, ReleaseFrom, CounterTypes
<1>7. Tallies'
  BY <1>1, <1>2, <1>3, <1>4, TalliesMoved, Zenon
<1>8. LiveTally'
  BY <1>1, <1>2, <1>3, <1>5, LiveKept, Zenon
<1>9. RegionsKept'
  BY <1>1, <1>2, <1>6, RegionsSame, Zenon
<1>10. CounterTypes'
  BY <1>1, <1>2, <1>3 DEF CounterTypes
<1> QED
  BY <1>7, <1>8, <1>9, <1>10 DEF CoreInv

(* record_free counts the release. *)
LEMMA StepFrees ==
  ASSUME CoreInv, NEW o \in Clients, RecordFrees(o),
         UNCHANGED <<shown, loads>>, undisturbed' \in BOOLEAN
  PROVE  CoreInv'
<1>1. /\ cpc[o] = "frees" /\ Bump("frees") /\ UNCHANGED <<kind, unclaimed, region, calls>>
      /\ cpc' = [cpc EXCEPT ![o] = "dead"]
  BY DEF RecordFrees, Move
<1>2. CounterTypes /\ RegionsKept /\ Tallies /\ LiveTally /\ "dead" \in CallPlaces
  BY DEF CoreInv, CallPlaces
<1>3. /\ metrics' \in [Counters -> Nat]
      /\ metrics'.allocations_failed = metrics.allocations_failed
      /\ metrics'.allocations_ok = metrics.allocations_ok /\ metrics'.frees = metrics.frees + 1
      /\ metrics'.frozen = metrics.frozen /\ metrics'.spills = metrics.spills
      /\ metrics'.bytes_live = metrics.bytes_live
      /\ metrics.allocations_ok \in Nat /\ metrics.frees \in Nat /\ metrics.frozen \in Nat
      /\ metrics.spills \in Nat /\ metrics.allocations_failed \in Nat
      /\ calls \in Nat /\ calls' \in Nat
  BY <1>1, <1>2, CounterFields, Bumped DEF CounterTypes
<1>4. Balanced(cpc[o], "dead")
  BY <1>1, <1>2, <1>3 DEF Balanced, Is, CallUncounted, CountedIn, Uncounted
<1>5. Is("dead", CountedLive) = Is(cpc[o], CountedLive)
  BY <1>1, <1>2 DEF Is, CountedLive, Uncounted
<1>6. ("dead" \in Keeping <=> cpc[o] \in Keeping) /\ cpc[o] \notin Without
  BY <1>1, <1>2 DEF Keeping, Without
<1>7. Tallies'
  BY <1>1, <1>2, <1>3, <1>4, TalliesMoved, Zenon
<1>8. LiveTally'
  BY <1>1, <1>2, <1>3, <1>5, LiveKept, Zenon
<1>9. RegionsKept'
  BY <1>1, <1>2, <1>6, RegionsSame, Zenon
<1>10. CounterTypes'
  BY <1>1, <1>2, <1>3 DEF CounterTypes
<1> QED
  BY <1>7, <1>8, <1>9, <1>10 DEF CoreInv

(* try_alloc has claimed a region. *)
LEMMA StepClaim ==
  ASSUME CoreInv, NEW o \in Clients, NEW r \in unclaimed, ClaimRegion(o, r),
         UNCHANGED <<shown, loads>>, undisturbed' \in BOOLEAN
  PROVE  CoreInv'
<1>1. /\ cpc[o] = "idle" /\ r \in unclaimed /\ unclaimed' = unclaimed \ {r}
      /\ region' = [region EXCEPT ![o] = r] /\ calls' = calls + 1 /\ UNCHANGED <<kind, metrics>>
      /\ cpc' = [cpc EXCEPT ![o] = "ok"]
  BY DEF ClaimRegion, Decide, Move
<1>2. CounterTypes /\ RegionsKept /\ Tallies /\ LiveTally /\ "ok" \in CallPlaces
  BY DEF CoreInv, CallPlaces
<1>3. cpc \in [Clients -> CallPlaces] /\ region \in [Clients -> Extents \cup {NoRegion}] /\ r \in Extents
      /\ unclaimed \subseteq Extents
  BY <1>2 DEF CounterTypes
<1>4. /\ metrics' \in [Counters -> Nat] /\ metrics'.bytes_live = metrics.bytes_live
      /\ calls \in Nat /\ calls' \in Nat
  BY <1>1, <1>2 DEF CounterTypes
<1>5. Balanced(cpc[o], "ok")
  <2>1. /\ metrics.allocations_ok \in Nat /\ metrics.frees \in Nat /\ metrics.frozen \in Nat
        /\ metrics.spills \in Nat /\ metrics.allocations_failed \in Nat
    BY <1>2, CounterFields DEF CounterTypes
  <2> QED
    BY <1>1, <1>4, <2>1 DEF Balanced, Is, CallUncounted, CountedIn, Uncounted
<1>6. Is("ok", CountedLive) = Is(cpc[o], CountedLive) /\ "idle" \notin CountedLive
  BY <1>1 DEF Is, CountedLive, Uncounted
<1>7. Tallies'
  BY <1>1, <1>2, <1>4, <1>5, TalliesMoved, Zenon
<1>8. LiveTally'
  <2>1. \A u \in Clients : cpc[u] \in CountedLive => region'[u] = region[u]
    BY <1>1, <1>3, <1>6
  <2> QED
    BY <1>1, <1>2, <1>4, <1>6, <2>1, LiveKept, Zenon
<1>9. RegionsKept'
  <2>1. Keeping' = Keeping /\ "ok" \in Keeping /\ "idle" \notin Keeping
    BY <1>1, SameKind DEF Keeping
  <2>2. \A u \in Clients : u # o => cpc'[u] = cpc[u] /\ region'[u] = region[u]
    BY <1>1, <1>3
  <2>3. cpc'[o] = "ok" /\ region'[o] = r
    BY <1>1, <1>3
  <2>4. \A u \in Clients : cpc[u] \in Keeping => u # o /\ region[u] # r
    BY <1>1, <1>2, <2>1 DEF RegionsKept
  <2>5. \A u \in Clients : cpc'[u] \notin Without => region'[u] \in Extents
    BY <1>2, <1>3, <2>2, <2>3 DEF RegionsKept
  <2>6. \A u \in Clients : cpc'[u] \in Keeping => region'[u] \notin unclaimed'
    BY <1>1, <1>2, <2>2, <2>3 DEF RegionsKept
  <2>7. \A u, v \in Clients :
          cpc'[u] \in Keeping /\ cpc'[v] \in Keeping /\ region'[u] = region'[v] => u = v
    BY <1>2, <2>2, <2>3, <2>4 DEF RegionsKept
  <2>8. \A x \in Extents \ unclaimed' : \E u \in Clients : cpc'[u] \in Keeping /\ region'[u] = x
    <3>1. ASSUME NEW x \in Extents \ unclaimed', x # r
          PROVE  \E u \in Clients : cpc'[u] \in Keeping /\ region'[u] = x
      <4>1. PICK u \in Clients : cpc[u] \in Keeping /\ region[u] = x
        BY <1>1, <1>2, <3>1 DEF RegionsKept
      <4> QED
        BY <2>2, <2>4, <4>1
    <3> QED
      BY <2>1, <2>3, <3>1
  <2> QED
    BY <2>1, <2>5, <2>6, <2>7, <2>8 DEF RegionsKept
<1>10. CounterTypes'
  BY <1>1, <1>2, <1>3, <1>4 DEF CounterTypes
<1> QED
  BY <1>7, <1>8, <1>9, <1>10 DEF CoreInv

(* A number below the width is what it is modulo the width.                *)
LEMMA ModSmall ==
  ASSUME NEW n \in Nat, NEW w \in Nat, n < w
  PROVE  n % w = n
PROOF OBVIOUS

(* One more owner: as many more units as its region has.                   *)
LEMMA UnitsEnter ==
  ASSUME NEW S, NEW rg, NEW o, o \notin S, Size(rg[o]) \in Nat,
         IsFiniteSet(UnitsOf(S \cup {o}, rg))
  PROVE  /\ Cardinality(UnitsOf(S, rg)) \in Nat
         /\ Cardinality(UnitsOf(S \cup {o}, rg)) = Cardinality(UnitsOf(S, rg)) + Size(rg[o])
<1> DEFINE N == {o} \X (1 .. Size(rg[o]))
           U == UnitsOf(S, rg)
<1>1. UnitsOf(S \cup {o}, rg) = U \cup N
  BY DEF UnitsOf
<1>2. U \cap N = {}
  BY DEF UnitsOf
<1>3. IsFiniteSet(N) /\ Cardinality(N) = Size(rg[o])
  BY UnitsOfOne, Zenon
<1> HIDE DEF U, N
<1>4. IsFiniteSet(U) /\ Cardinality(U) \in Nat
  <2>1. U \in SUBSET (U \cup N)
    OBVIOUS
  <2> QED
    BY <1>1, <2>1, FS_Subset, FS_CardinalityType, Zenon
<1>5. Cardinality(U \cup N) = Cardinality(U) + Cardinality(N) - Cardinality(U \cap N)
  BY <1>3, <1>4, FS_Union
<1>6. Cardinality(U \cap N) = 0
  BY <1>2, FS_EmptySet
<1>7. Cardinality(UnitsOf(S \cup {o}, rg)) = Cardinality(U) + Cardinality(N) - 0
  BY <1>1, <1>5, <1>6, Zenon
<1> QED
  BY <1>3, <1>4, <1>7 DEF U

(* record_alloc_success adds the bytes.                                    *)
LEMMA StepLive ==
  ASSUME CoreInv, NEW o \in Clients, RecordLive(o),
         UNCHANGED <<shown, loads>>, undisturbed' \in BOOLEAN
  PROVE  CoreInv'
<1>1. /\ cpc[o] = "live" /\ UNCHANGED <<kind, unclaimed, region, calls>>
      /\ metrics' = [metrics EXCEPT !.bytes_live = (@ + Size(region[o])) % MetricsWidth]
      /\ cpc' = [cpc EXCEPT ![o] = "buffer"]
  BY DEF RecordLive, Move, AddLive
<1>2. CounterTypes /\ RegionsKept /\ Tallies /\ LiveTally /\ "buffer" \in CallPlaces
  BY DEF CoreInv, CallPlaces
<1>3. cpc \in [Clients -> CallPlaces] /\ metrics \in [Counters -> Nat] /\ calls \in Nat
  BY <1>2 DEF CounterTypes
<1>4. region[o] \in Extents /\ Size(region[o]) \in Nat
  <2>1. region[o] \in Extents
    BY <1>1, <1>2 DEF RegionsKept, Without
  <2> QED
    BY <1>2, <2>1, Sizes
<1>5. RegionsKept'
  <2>1. ("buffer" \in Keeping <=> cpc[o] \in Keeping) /\ cpc[o] \notin Without
    BY <1>1 DEF Keeping, Without
  <2> QED
    BY <1>1, <1>2, <2>1, RegionsSame, Zenon
<1>6. PICK m \in Nat : m = Cardinality(UnitsAt(cpc, region, CountedLive)) /\ m = metrics.bytes_live
  BY <1>2, LiveUnitsBounded DEF LiveTally
<1>7. At(cpc', CountedLive) = At(cpc, CountedLive) \cup {o} /\ o \notin At(cpc, CountedLive)
  <2>1. "buffer" \in CountedLive /\ cpc[o] \notin CountedLive
    BY <1>1 DEF CountedLive, Uncounted
  <2> QED
    BY <1>1, <1>3, <2>1 DEF At
<1>8. /\ IsFiniteSet(UnitsAt(cpc', region, CountedLive))
      /\ Cardinality(UnitsAt(cpc', region, CountedLive)) < MetricsWidth
  <2> DEFINE P == CountedLive \cup {"live"}
             U == UnitsAt(cpc, region, P)
             V == UnitsAt(cpc', region, CountedLive)
  <2>1. kind = "buddy" => P \subseteq Keeping
    BY DEF CountedLive, Keeping, Uncounted
  <2>2. IsFiniteSet(U) /\ Cardinality(U) \in Nat /\ Cardinality(U) <= LiveBound
    <3> HIDE DEF P
    <3> QED
      BY <1>2, <2>1, UnitsBounded
  <2>3. V \in SUBSET U
    <3>1. At(cpc', CountedLive) \subseteq At(cpc, P)
      BY <1>1, <1>7 DEF At
    <3> HIDE DEF P
    <3> QED
      BY <3>1 DEF UnitsAt, UnitsOf
  <2>4. IsFiniteSet(V) /\ Cardinality(V) <= Cardinality(U) /\ Cardinality(V) \in Nat
    <3> HIDE DEF U, V
    <3> QED
      BY <2>2, <2>3, FS_Subset, FS_CardinalityType
  <2>5. LiveBound \in Nat /\ LiveBound < MetricsWidth
    BY <1>2, UnitsFinite
  <2> HIDE DEF U
  <2> QED
    BY <2>2, <2>4, <2>5, MetricsWidthAssumption
<1>9. Cardinality(UnitsAt(cpc', region, CountedLive)) = m + Size(region[o])
  <2>1. IsFiniteSet(UnitsOf(At(cpc, CountedLive) \cup {o}, region))
    BY <1>7, <1>8, Zenon DEF UnitsAt
  <2>2. Cardinality(UnitsOf(At(cpc, CountedLive) \cup {o}, region))
          = Cardinality(UnitsOf(At(cpc, CountedLive), region)) + Size(region[o])
    BY <1>4, <1>7, <2>1, UnitsEnter, Zenon
  <2> QED
    BY <1>6, <1>7, <2>2 DEF UnitsAt
<1>10. metrics' \in [Counters -> Nat] /\ CounterTypes'
  <2>1. (metrics.bytes_live + Size(region[o])) % MetricsWidth \in Nat
    <3>1. MetricsWidth \in Nat \ {0}
      BY ClientsAssumption, FS_CardinalityType, MetricsWidthAssumption
    <3>2. m + Size(region[o]) \in Nat
      BY <1>4
    <3> QED
      BY <1>6, <3>1, <3>2
  <2>2. metrics' \in [Counters -> Nat]
    BY <1>1, <1>3, <2>1, CounterFields
  <2> QED
    BY <1>1, <1>2, <2>2 DEF CounterTypes
<1>11. metrics'.bytes_live = m + Size(region[o])
  <2>1. m + Size(region[o]) \in Nat /\ MetricsWidth \in Nat
    BY <1>4, MetricsWidthAssumption
  <2>2. (m + Size(region[o])) % MetricsWidth = m + Size(region[o])
    BY <1>8, <1>9, <2>1, ModSmall
  <2>3. metrics'.bytes_live = (metrics.bytes_live + Size(region[o])) % MetricsWidth
    BY <1>1, <1>3, CounterFields
  <2> QED
    BY <1>6, <2>2, <2>3
<1>12. LiveTally'
  <2>1. UnitsAt(cpc, region, CountedLive)' = UnitsAt(cpc', region, CountedLive)
    BY <1>1, SameKind DEF UnitsAt, UnitsOf, At
  <2> QED
    BY <1>9, <1>11, <2>1 DEF LiveTally
<1>13. Tallies'
  <2>1. /\ metrics.allocations_ok \in Nat /\ metrics.frees \in Nat /\ metrics.frozen \in Nat
        /\ metrics.spills \in Nat /\ metrics.allocations_failed \in Nat
        /\ calls \in Nat /\ calls' \in Nat
        /\ metrics'.allocations_failed = metrics.allocations_failed
        /\ metrics'.allocations_ok = metrics.allocations_ok /\ metrics'.frees = metrics.frees
        /\ metrics'.frozen = metrics.frozen /\ metrics'.spills = metrics.spills
    BY <1>1, <1>3, CounterFields
  <2>2. Balanced(cpc[o], "buffer")
    BY <1>1, <2>1 DEF Balanced, Is, CallUncounted, CountedIn, Uncounted
  <2> QED
    BY <1>1, <1>2, <1>10, <2>1, <2>2, TalliesMoved, Zenon
<1> QED
  BY <1>5, <1>10, <1>12, <1>13 DEF CoreInv

(* free_slot or free_region gives the region back.                         *)
LEMMA StepFree ==
  ASSUME CoreInv, NEW o \in Clients, FreeRegion(o),
         UNCHANGED <<shown, loads>>, undisturbed' \in BOOLEAN
  PROVE  CoreInv'
<1> DEFINE q == IF kind = "buddy" THEN "idle" ELSE "frees"
<1>1. /\ cpc[o] = "free" /\ unclaimed' = unclaimed \cup {region[o]}
      /\ region' = [region EXCEPT ![o] = IF kind = "buddy" THEN NoRegion ELSE @]
      /\ UNCHANGED <<kind, calls, metrics>> /\ cpc' = [cpc EXCEPT ![o] = q]
  BY DEF FreeRegion, Move
<1>2. CounterTypes /\ RegionsKept /\ Tallies /\ LiveTally /\ q \in CallPlaces
  BY DEF CoreInv, CallPlaces
<1>3. cpc \in [Clients -> CallPlaces] /\ region \in [Clients -> Extents \cup {NoRegion}]
      /\ kind \in {"fixed", "buddy"}
  BY <1>2 DEF CounterTypes
<1>4. /\ metrics' \in [Counters -> Nat] /\ metrics'.bytes_live = metrics.bytes_live
      /\ calls \in Nat /\ calls' = calls
  BY <1>1, <1>2 DEF CounterTypes
<1>5. region[o] \in Extents
  BY <1>1, <1>2 DEF RegionsKept, Without
<1>6. Balanced(cpc[o], q)
  <2>1. /\ metrics.allocations_ok \in Nat /\ metrics.frees \in Nat /\ metrics.frozen \in Nat
        /\ metrics.spills \in Nat /\ metrics.allocations_failed \in Nat
    BY <1>2, CounterFields DEF CounterTypes
  <2> QED
    BY <1>1, <1>3, <1>4, <2>1 DEF Balanced, Is, CallUncounted, CountedIn, Uncounted
<1>7. /\ Is(q, CountedLive) = Is(cpc[o], CountedLive)
      /\ cpc[o] \in CountedLive => kind # "buddy"
      /\ q \notin Keeping /\ cpc[o] \in Keeping /\ (q \in Without <=> kind = "buddy")
  BY <1>1, <1>3 DEF Is, CountedLive, Uncounted, Keeping, Without
<1> HIDE DEF q
<1>8. Tallies'
  BY <1>1, <1>2, <1>4, <1>6, TalliesMoved, Zenon
<1>9. LiveTally'
  <2>1. \A u \in Clients : cpc[u] \in CountedLive => region'[u] = region[u]
    BY <1>1, <1>3, <1>7
  <2> QED
    BY <1>1, <1>2, <1>4, <1>7, <2>1, LiveKept, Zenon
<1>10. RegionsKept'
  <2>1. Keeping' = Keeping
    BY <1>1, SameKind
  <2>2. \A u \in Clients : u # o => cpc'[u] = cpc[u] /\ region'[u] = region[u]
    BY <1>1, <1>3
  <2>3. cpc'[o] = q /\ (q \notin Without => region'[o] = region[o])
    BY <1>1, <1>3, <1>7
  <2>4. \A u \in Clients : cpc'[u] \in Keeping => u # o /\ cpc[u] \in Keeping /\ region[u] # region[o]
    BY <1>2, <1>7, <2>2, <2>3 DEF RegionsKept
  <2>5. \A u \in Clients : cpc'[u] \notin Without => region'[u] \in Extents
    BY <1>2, <1>5, <2>2, <2>3 DEF RegionsKept
  <2>6. \A u \in Clients : cpc'[u] \in Keeping => region'[u] \notin unclaimed'
    BY <1>1, <1>2, <2>2, <2>4 DEF RegionsKept
  <2>7. \A u, v \in Clients :
          cpc'[u] \in Keeping /\ cpc'[v] \in Keeping /\ region'[u] = region'[v] => u = v
    BY <1>2, <2>2, <2>4 DEF RegionsKept
  <2>8. ASSUME NEW x \in Extents \ unclaimed'
        PROVE  \E u \in Clients : cpc'[u] \in Keeping /\ region'[u] = x
    <3>1. PICK u \in Clients : cpc[u] \in Keeping /\ region[u] = x
      BY <1>1, <1>2, <2>8 DEF RegionsKept
    <3>2. u # o
      BY <1>1, <2>8, <3>1
    <3> QED
      BY <2>2, <3>1, <3>2
  <2> QED
    BY <2>1, <2>5, <2>6, <2>7, <2>8 DEF RegionsKept
<1>11. CounterTypes'
  BY <1>1, <1>2, <1>3, <1>5 DEF CounterTypes
<1> QED
  BY <1>8, <1>9, <1>10, <1>11 DEF CoreInv

(* record_free takes the bytes away.                                       *)
LEMMA StepDead ==
  ASSUME CoreInv, NEW o \in Clients, RecordDead(o),
         UNCHANGED <<shown, loads>>, undisturbed' \in BOOLEAN
  PROVE  CoreInv'
<1> DEFINE q == IF kind = "buddy" THEN "free" ELSE "idle"
<1>1. /\ cpc[o] = "dead" /\ UNCHANGED <<kind, unclaimed, calls>>
      /\ region' = [region EXCEPT ![o] = IF kind = "buddy" THEN @ ELSE NoRegion]
      /\ metrics' = [metrics EXCEPT !.bytes_live = (@ + (0 - Size(region[o]))) % MetricsWidth]
      /\ cpc' = [cpc EXCEPT ![o] = q]
  BY DEF RecordDead, Move, AddLive
<1>2. CounterTypes /\ RegionsKept /\ Tallies /\ LiveTally /\ q \in CallPlaces
  BY DEF CoreInv, CallPlaces
<1>3. cpc \in [Clients -> CallPlaces] /\ region \in [Clients -> Extents \cup {NoRegion}]
      /\ kind \in {"fixed", "buddy"} /\ metrics \in [Counters -> Nat] /\ calls \in Nat
  BY <1>2 DEF CounterTypes
<1>4. Size(region[o]) \in Nat
  <2>1. region[o] \in Extents
    BY <1>1, <1>2 DEF RegionsKept, Without
  <2> QED
    BY <1>2, <2>1, Sizes
<1>5. /\ cpc[o] \in CountedLive /\ q \notin CountedLive
      /\ kind = "buddy" => q \in Keeping /\ cpc[o] \in Keeping /\ q \notin Without
      /\ kind = "fixed" => q \notin Keeping /\ cpc[o] \notin Keeping /\ q \in Without
      /\ cpc[o] \notin Without
  BY <1>1, <1>3 DEF CountedLive, Uncounted, Keeping, Without
<1>6. PICK m \in Nat : /\ m = Cardinality(UnitsAt(cpc, region, CountedLive))
                       /\ m = metrics.bytes_live /\ m < MetricsWidth
  <2>1. LiveBound \in Nat /\ LiveBound < MetricsWidth
    BY <1>2, UnitsFinite
  <2> QED
    BY <1>2, <2>1, LiveUnitsBounded, MetricsWidthAssumption DEF LiveTally
<1>7. Balanced(cpc[o], q)
  <2>1. /\ metrics.allocations_ok \in Nat /\ metrics.frees \in Nat /\ metrics.frozen \in Nat
        /\ metrics.spills \in Nat /\ metrics.allocations_failed \in Nat
        /\ calls \in Nat /\ calls' \in Nat
        /\ metrics'.allocations_failed = metrics.allocations_failed
        /\ metrics'.allocations_ok = metrics.allocations_ok /\ metrics'.frees = metrics.frees
        /\ metrics'.frozen = metrics.frozen /\ metrics'.spills = metrics.spills
    BY <1>1, <1>3, CounterFields
  <2> QED
    BY <1>1, <1>3, <2>1 DEF Balanced, Is, CallUncounted, CountedIn, Uncounted
<1> HIDE DEF q
<1>8. At(cpc, CountedLive) = At(cpc', CountedLive) \cup {o} /\ o \notin At(cpc', CountedLive)
  BY <1>1, <1>3, <1>5 DEF At
<1>9. PICK k \in Nat : /\ k = Cardinality(UnitsAt(cpc', region, CountedLive))
                       /\ m = k + Size(region[o])
  <2>1. IsFiniteSet(UnitsOf(At(cpc', CountedLive) \cup {o}, region))
    <3>1. IsFiniteSet(UnitsAt(cpc, region, CountedLive))
      BY <1>2, LiveUnitsBounded
    <3> QED
      BY <1>8, <3>1, Zenon DEF UnitsAt
  <2>2. /\ Cardinality(UnitsOf(At(cpc', CountedLive), region)) \in Nat
        /\ Cardinality(UnitsOf(At(cpc', CountedLive) \cup {o}, region))
             = Cardinality(UnitsOf(At(cpc', CountedLive), region)) + Size(region[o])
    BY <1>4, <1>8, <2>1, UnitsEnter, Zenon
  <2> QED
    BY <1>6, <1>8, <2>2, Zenon DEF UnitsAt
<1>10. metrics' \in [Counters -> Nat] /\ metrics'.bytes_live = k
  <2>1. metrics.bytes_live + (0 - Size(region[o])) = k /\ k < MetricsWidth
    BY <1>4, <1>6, <1>9, MetricsWidthAssumption
  <2>2. k % MetricsWidth = k
    BY <2>1, ModSmall, MetricsWidthAssumption
  <2>3. metrics' = [metrics EXCEPT !.bytes_live = k]
    BY <1>1, <2>1, <2>2
  <2> QED
    BY <1>3, <2>3, CounterFields
<1>11. LiveTally'
  <2>1. \A u \in At(cpc', CountedLive) : region'[u] = region[u]
    BY <1>1, <1>3, <1>8 DEF At
  <2>2. UnitsAt(cpc, region, CountedLive)' = UnitsAt(cpc', region, CountedLive)
    BY <1>1, <2>1, SameKind DEF UnitsAt, UnitsOf, At
  <2> QED
    BY <1>9, <1>10, <2>2 DEF LiveTally
<1>12. Tallies'
  <2>1. calls' \in Nat
    BY <1>1, <1>3
  <2> QED
    BY <1>1, <1>2, <1>7, <1>10, <2>1, TalliesMoved, Zenon
<1>13. RegionsKept'
  <2>1. Keeping' = Keeping
    BY <1>1, SameKind
  <2>2. \A u \in Clients : cpc'[u] \in Keeping <=> cpc[u] \in Keeping
    BY <1>1, <1>3, <1>5
  <2>3. \A u \in Clients : cpc'[u] \notin Without => cpc[u] \notin Without /\ region'[u] = region[u]
    BY <1>1, <1>3, <1>5
  <2>4. \A x \in Without : x \notin Keeping
    BY DEF Keeping, Without
  <2>5. \A u \in Clients : cpc'[u] \in Keeping => region'[u] = region[u]
    BY <2>3, <2>4
  <2>6. \A u \in Clients : cpc[u] \in Keeping => region'[u] = region[u]
    BY <2>2, <2>5
  <2> QED
    BY <1>1, <1>2, <2>1, <2>2, <2>3, <2>6 DEF RegionsKept
<1>14. CounterTypes'
  BY <1>1, <1>2, <1>3, <1>10 DEF CounterTypes
<1> QED
  BY <1>11, <1>12, <1>13, <1>14 DEF CoreInv

(* Every step of an owner keeps the tallies.                               *)
LEMMA OwnerSteps ==
  ASSUME CoreInv, NEW o \in Clients, OwnerStep(o),
         UNCHANGED <<shown, loads>>, undisturbed' \in BOOLEAN
  PROVE  CoreInv'
<1>0. CASE FindNothing(o)
  BY <1>0, StepNothing, Zenon
<1>1. CASE record_alloc_failure(o)
  BY <1>1, StepFailure, Zenon
<1>2. CASE \E r \in unclaimed : ClaimRegion(o, r)
  BY <1>2, StepClaim, Zenon
<1>3. CASE RecordOk(o)
  BY <1>3, StepRecordOk, Zenon
<1>4. CASE RecordLive(o)
  BY <1>4, StepLive, Zenon
<1>5. CASE record_frozen(o)
  BY <1>5, StepFrozen, Zenon
<1>6. CASE record_spill(o)
  BY <1>6, StepSpill, Zenon
<1>7. CASE DropRegion(o)
  BY <1>7, StepDrop, Zenon
<1>8. CASE FreeRegion(o)
  BY <1>8, StepFree, Zenon
<1>9. CASE RecordFrees(o)
  BY <1>9, StepFrees, Zenon
<1>10. CASE RecordDead(o)
  BY <1>10, StepDead, Zenon
<1> QED
  BY <1>0, <1>1, <1>2, <1>3, <1>4, <1>5, <1>6, <1>7, <1>8, <1>9, <1>10, Zenon DEF OwnerStep

(* No step of an owner changes the kind of arena.                          *)
LEMMA KindKept ==
  ASSUME NEW o \in Clients, OwnerStep(o)
  PROVE  kind' = kind
PROOF BY DEF OwnerStep, FindNothing, record_alloc_failure, ClaimRegion, RecordOk, RecordLive,
             record_frozen, record_spill, DropRegion, FreeRegion, RecordFrees,
             RecordDead, owners

(* A snapshot that is under way is disturbed by any step of an owner.      *)
LEMMA OwnersAndSnapshots ==
  ASSUME CountersInv, NEW o \in Clients, OwnerStep(o),
         undisturbed' = (loads = 0), UNCHANGED reader
  PROVE  CountersInv'
<1>1. UNCHANGED <<shown, loads>> /\ undisturbed' \in BOOLEAN /\ CoreInv /\ Loaded
  BY DEF reader, CountersInv, CoreInv
<1>2. CoreInv'
  BY <1>1, OwnerSteps, Zenon
<1>3. LiveBound' = LiveBound
  BY KindKept, SameKind
<1>4. loads \in 0 .. 6
  BY DEF CountersInv, CounterTypes
<1>5. undisturbed' => loads = 0
  BY Zenon
<1>6. ~(undisturbed' /\ loads' > 0)
  BY <1>1, <1>4, <1>5
<1>7. shown'.bytes_live <= LiveBound'
  BY <1>1, <1>3 DEF Loaded
<1>8. Loaded'
  BY <1>6, <1>7 DEF Loaded
<1> QED
  BY <1>2, <1>8 DEF CoreInv, CountersInv

(* The snapshot only reads.                                                *)
LEMMA ReadersOnlyRead ==
  ASSUME CoreInv, UNCHANGED <<kind, unclaimed, cpc, region, calls, metrics>>,
         shown' \in [Counters -> Nat], loads' \in 0 .. 6, undisturbed' \in BOOLEAN
  PROVE  CoreInv' /\ LiveBound' = LiveBound /\ AtRest' = AtRest
<1>1. /\ LiveBound' = LiveBound /\ Keeping' = Keeping /\ CountedLive' = CountedLive
      /\ CountedIn' = CountedIn /\ Uncounted' = Uncounted
      /\ \A r : Size(r)' = Size(r)
  BY SameKind
<1>2. CounterTypes'
  BY DEF CoreInv, CounterTypes
<1>3. RegionsKept'
  BY <1>1 DEF CoreInv, RegionsKept
<1>4. Tallies'
  BY <1>1 DEF CoreInv, Tallies, At
<1>5. LiveTally'
  <2>1. UnitsAt(cpc, region, CountedLive)' = UnitsAt(cpc, region, CountedLive)
    BY <1>1 DEF UnitsAt, UnitsOf, At
  <2> QED
    BY <2>1 DEF CoreInv, LiveTally
<1>6. AtRest' = AtRest
  BY DEF AtRest
<1> QED
  BY <1>1, <1>2, <1>3, <1>4, <1>5, <1>6 DEF CoreInv

(* The snapshot loads its next counter.                                    *)
LEMMA StepLoad ==
  ASSUME CountersInv, Load
  PROVE  CountersInv'
<1> DEFINE c == Fields[loads + 1]
<1>1. /\ loads < 6 /\ shown' = [shown EXCEPT ![c] = metrics[c]] /\ loads' = loads + 1
      /\ undisturbed' = (undisturbed /\ AtRest)
      /\ UNCHANGED <<kind, unclaimed, cpc, region, calls, metrics>>
  BY FieldsAre DEF Load, owners
<1>2. CoreInv /\ Loaded /\ CounterTypes
  BY DEF CountersInv, CoreInv
<1>3. /\ loads \in 0 .. 6 /\ metrics \in [Counters -> Nat] /\ shown \in [Counters -> Nat]
      /\ undisturbed \in BOOLEAN
  BY <1>2 DEF CounterTypes
<1>4. c \in Counters /\ loads + 1 \in 1 .. 6
  BY <1>1, <1>3, FieldsAre
<1>5. undisturbed' \in BOOLEAN
  BY <1>1, <1>3 DEF AtRest
<1>6. CoreInv' /\ LiveBound' = LiveBound /\ AtRest' = AtRest
  <2>1. shown' \in [Counters -> Nat] /\ loads' \in 0 .. 6
    BY <1>1, <1>3, <1>4
  <2> QED
    BY <1>1, <1>2, <1>5, <2>1, ReadersOnlyRead
<1>7. shown'.bytes_live <= LiveBound
  <2>1. metrics.bytes_live <= LiveBound
    BY <1>2, LiveUnitsBounded DEF CoreInv, LiveTally
  <2>2. shown'.bytes_live = metrics.bytes_live \/ shown'.bytes_live = shown.bytes_live
    BY <1>1, <1>3, <1>4, CounterFields
  <2> QED
    BY <1>2, <2>1, <2>2 DEF Loaded
<1>8. ASSUME undisturbed', NEW i \in 1 .. loads'
      PROVE  shown'[Fields[i]] = metrics'[Fields[i]]
  <2>1. i \in 1 .. 6 /\ Fields[i] \in Counters
    BY <1>1, <1>3, FieldsAre
  <2>2. CASE i = loads + 1
    BY <1>1, <1>3, <1>4, <2>2
  <2>3. CASE i # loads + 1
    <3>1. Fields[i] # c
      BY <1>4, <2>1, <2>3, FieldsAre
    <3>2. i \in 1 .. loads /\ loads > 0 /\ undisturbed
      BY <1>1, <1>3, <1>8, <2>3
    <3>3. shown[Fields[i]] = metrics[Fields[i]]
      BY <1>2, <3>2 DEF Loaded
    <3> HIDE DEF c
    <3> QED
      BY <1>1, <1>3, <2>1, <3>1, <3>3
  <2> QED
    BY <2>2, <2>3
<1>9. undisturbed' => AtRest'
  BY <1>1, <1>6, Zenon
<1>10. Loaded'
  BY <1>6, <1>7, <1>8, <1>9 DEF Loaded
<1> QED
  BY <1>6, <1>10 DEF CoreInv, CountersInv

(* The next snapshot begins.                                               *)
LEMMA StepAgain ==
  ASSUME CountersInv, Again
  PROVE  CountersInv'
<1>1. /\ shown' = [c \in Counters |-> 0] /\ loads' = 0 /\ undisturbed' = TRUE
      /\ UNCHANGED <<kind, unclaimed, cpc, region, calls, metrics>>
  BY DEF Again, owners
<1>2. CoreInv /\ CounterTypes
  BY DEF CountersInv, CoreInv
<1>3. CoreInv' /\ LiveBound' = LiveBound
  BY <1>1, <1>2, ReadersOnlyRead
<1>4. LiveBound \in Nat
  BY <1>2, UnitsFinite
<1>5. shown'.bytes_live = 0
  BY <1>1, CounterFields
<1>6. Loaded'
  BY <1>1, <1>3, <1>4, <1>5 DEF Loaded
<1> QED
  BY <1>3, <1>6 DEF CoreInv, CountersInv

(* In the beginning all is free and counted as such.                       *)
LEMMA CountersBegin ==
  ASSUME MetricsInit
  PROVE  CountersInv
<1>1. /\ kind \in {"fixed", "buddy"} /\ unclaimed = Extents
      /\ cpc = [o \in Clients |-> "idle"] /\ region = [o \in Clients |-> NoRegion]
      /\ metrics = [c \in Counters |-> 0] /\ shown = [c \in Counters |-> 0]
      /\ loads = 0 /\ undisturbed = TRUE /\ calls = 0
  BY DEF MetricsInit
<1>2. CounterTypes
  BY <1>1 DEF CounterTypes, CallPlaces
<1>3. "idle" \notin CountedIn /\ "idle" \notin CountedLive /\ "idle" \notin Keeping
      /\ "idle" \notin Uncounted /\ "idle" \notin CallUncounted /\ "idle" \in Without
  BY DEF CountedIn, CountedLive, Keeping, Uncounted, CallUncounted, Without
<1>4. RegionsKept
  BY <1>1, <1>3 DEF RegionsKept
<1>5. \A P : "idle" \notin P => At(cpc, P) = {}
  BY <1>1 DEF At
<1>6. At(cpc, CountedIn) = {} /\ At(cpc, {"frozen"}) = {} /\ At(cpc, {"live", "buffer"}) = {}
      /\ At(cpc, Uncounted) = {} /\ At(cpc, CountedLive) = {} /\ At(cpc, CallUncounted) = {}
  BY <1>3, <1>5
<1>7. Cardinality({}) = 0
  BY FS_EmptySet
<1>8. Tallies
  BY <1>1, <1>6, <1>7, CounterFields DEF Tallies
<1>9. LiveTally
  <2>1. UnitsAt(cpc, region, CountedLive) = {}
    BY <1>6 DEF UnitsAt, UnitsOf
  <2> QED
    BY <1>1, <1>7, <2>1, CounterFields DEF LiveTally
<1>10. Loaded
  <2>1. LiveBound \in Nat
    BY <1>2, UnitsFinite
  <2> QED
    BY <1>1, <2>1, CounterFields DEF Loaded
<1> QED
  BY <1>2, <1>4, <1>8, <1>9, <1>10 DEF CountersInv

(* At every instant the counters are what the owners' places say.          *)
THEOREM CountersKept == MetricsSpec => []CountersInv
<1>1. MetricsInit => CountersInv
  BY CountersBegin
<1>2. CountersInv /\ [MetricsNext]_counters => CountersInv'
  <2> SUFFICES ASSUME CountersInv, [MetricsNext]_counters PROVE CountersInv'
    OBVIOUS
  <2>1. ASSUME UNCHANGED counters PROVE CountersInv'
    <3>1. /\ UNCHANGED <<kind, unclaimed, cpc, region, calls, metrics>> /\ shown' = shown /\ loads' = loads
          /\ undisturbed' = undisturbed
      BY <2>1 DEF counters
    <3>2. CoreInv /\ Loaded /\ CounterTypes
      BY DEF CountersInv, CoreInv
    <3>3. CoreInv' /\ LiveBound' = LiveBound /\ AtRest' = AtRest
      <4>1. shown' \in [Counters -> Nat] /\ loads' \in 0 .. 6 /\ undisturbed' \in BOOLEAN
        BY <3>1, <3>2 DEF CounterTypes
      <4> QED
        BY <3>1, <3>2, <4>1, ReadersOnlyRead
    <3>4. Loaded'
      BY <3>1, <3>2, <3>3 DEF Loaded
    <3> QED
      BY <3>3, <3>4 DEF CoreInv, CountersInv
  <2>2. ASSUME MetricsNext PROVE CountersInv'
    <3>1. ASSUME NEW o \in Clients, OwnerStep(o), undisturbed' = (loads = 0), UNCHANGED reader
          PROVE  CountersInv'
      BY <3>1, OwnersAndSnapshots, Zenon
    <3>2. CASE Load
      BY <3>2, StepLoad, Zenon
    <3>3. CASE Again
      BY <3>3, StepAgain, Zenon
    <3> QED
      BY <2>2, <3>1, <3>2, <3>3, Zenon DEF MetricsNext
  <2> QED
    BY <2>1, <2>2, Zenon
<1> QED
  BY <1>1, <1>2, PTL DEF MetricsSpec

(* A snapshot during which nothing happens is exact.                       *)
LEMMA ExactAtRest ==
  ASSUME CountersInv
  PROVE  SnapshotExact
<1> DEFINE held == {o \in Clients : cpc[o] \in {"buffer", "frozen"}}
<1>1. SUFFICES ASSUME loads = 6, undisturbed
               PROVE  /\ shown.allocations_ok + shown.allocations_failed = calls
                      /\ shown.allocations_ok - shown.frees = Cardinality(held)
                      /\ shown.bytes_live = Cardinality(RegionUnits(Extents \ unclaimed))
                      /\ shown.frozen >= Cardinality({o \in held : cpc[o] = "frozen"})
                      /\ shown.spills <= shown.frees
                      /\ shown.frozen + shown.spills <= shown.allocations_ok
  BY FieldsAre DEF SnapshotExact, Done
<1>2. CounterTypes /\ RegionsKept /\ Tallies /\ LiveTally /\ Loaded
  BY DEF CountersInv
<1>3. /\ shown.allocations_ok = metrics.allocations_ok /\ shown.frees = metrics.frees
      /\ shown.frozen = metrics.frozen /\ shown.spills = metrics.spills
      /\ shown.bytes_live = metrics.bytes_live
      /\ shown.allocations_failed = metrics.allocations_failed
      /\ \A o \in Clients : cpc[o] \in {"idle", "buffer", "frozen"}
  BY <1>1, <1>2, FieldsAre DEF Loaded, AtRest
<1>4. /\ metrics.allocations_ok \in Nat /\ metrics.frees \in Nat /\ metrics.frozen \in Nat
      /\ metrics.spills \in Nat /\ metrics.allocations_failed \in Nat
  BY <1>2, CounterFields DEF CounterTypes
<1>5. /\ At(cpc, CountedIn) = held /\ At(cpc, CountedLive) = held /\ At(cpc, Keeping) = held
      /\ At(cpc, Uncounted) = {} /\ At(cpc, {"frozen"}) = {o \in held : cpc[o] = "frozen"}
  <2>1. \A P : {"buffer", "frozen"} \subseteq P /\ "idle" \notin P => At(cpc, P) = held
    BY <1>3 DEF At
  <2>2. /\ {"buffer", "frozen"} \subseteq CountedIn /\ "idle" \notin CountedIn
        /\ {"buffer", "frozen"} \subseteq CountedLive /\ "idle" \notin CountedLive
        /\ {"buffer", "frozen"} \subseteq Keeping /\ "idle" \notin Keeping
        /\ Uncounted \cap {"idle", "buffer", "frozen"} = {}
    BY DEF CountedIn, CountedLive, Keeping, Uncounted
  <2>3. At(cpc, Uncounted) = {}
    BY <1>3, <2>2 DEF At
  <2>4. At(cpc, {"frozen"}) = {o \in held : cpc[o] = "frozen"}
    BY DEF At
  <2> HIDE DEF held
  <2> QED
    BY <2>1, <2>2, <2>3, <2>4
<1>6. shown.bytes_live = Cardinality(RegionUnits(Extents \ unclaimed))
  <2> DEFINE P == {"buffer", "frozen"}
  <2>1. P \subseteq Keeping /\ At(cpc, P) = At(cpc, Keeping) /\ At(cpc, P) = At(cpc, CountedLive)
    BY <1>5 DEF Keeping, At
  <2>2. Cardinality(UnitsAt(cpc, region, P)) = Cardinality(RegionUnits(Extents \ unclaimed))
    <3> HIDE DEF P
    <3> QED
      BY <1>2, <2>1, UnitsOut
  <2>4. UnitsAt(cpc, region, P) = UnitsAt(cpc, region, CountedLive)
    BY <2>1, Zenon DEF UnitsAt
  <2> QED
    BY <1>2, <1>3, <2>2, <2>4 DEF LiveTally
<1>7. IsFiniteSet(held) /\ Cardinality(held) \in Nat
  <2>1. held \in SUBSET Clients
    OBVIOUS
  <2> HIDE DEF held
  <2> QED
    BY <2>1, ClientsAssumption, FS_Subset, FS_CardinalityType
<1>8. /\ metrics.allocations_ok = metrics.frees + Cardinality(held)
      /\ metrics.frozen >= Cardinality({o \in held : cpc[o] = "frozen"})
      /\ metrics.spills <= metrics.frees + 0
  <2>1. Cardinality(At(cpc, Uncounted)) = 0
    BY <1>5, FS_EmptySet
  <2> HIDE DEF held
  <2> QED
    BY <1>2, <1>5, <2>1 DEF Tallies
<1>9. metrics.frozen + metrics.spills <= metrics.allocations_ok
  <2>1. PICK n \in Nat : n = Cardinality(At(cpc, {"live", "buffer"}))
    <3>1. At(cpc, {"live", "buffer"}) \in SUBSET Clients
      BY DEF At
    <3> QED
      BY <3>1, ClientsAssumption, FS_Subset, FS_CardinalityType
  <2>2. metrics.frozen + metrics.spills + n <= metrics.allocations_ok
    BY <1>2, <2>1 DEF Tallies
  <2> QED
    BY <1>4, <2>1, <2>2
<1>10. metrics.allocations_ok + metrics.allocations_failed = calls
  <2>1. At(cpc, CallUncounted) = {}
    BY <1>3 DEF At, CallUncounted
  <2>2. Cardinality(At(cpc, CallUncounted)) = 0
    BY <2>1, FS_EmptySet
  <2> QED
    BY <1>2, <1>4, <2>2 DEF Tallies
<1> HIDE DEF held
<1> QED
  BY <1>3, <1>4, <1>6, <1>7, <1>8, <1>9, <1>10

(* However the owners' steps and the loads interleave, a snapshot at rest  *)
(* shows every call, what is held, its bytes and no more frees than happened *)
(* (fixed_snapshot, buddy_snapshot).                                       *)
THEOREM SnapshotsExact == MetricsSpec => []SnapshotExact
PROOF BY CountersKept, ExactAtRest, PTL

(* No snapshot shows more live bytes than a buddy arena has, or than a     *)
(* fixed arena's callers can be holding; bytes_live never wraps.           *)
THEOREM SnapshotsBounded == MetricsSpec => []SnapshotBounded
<1>1. CountersInv => SnapshotBounded
  BY DEF CountersInv, Loaded, LiveBound, SnapshotBounded
<1> QED
  BY <1>1, CountersKept, PTL
=============================================================================
