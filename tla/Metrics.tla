------------------------------ MODULE Metrics ------------------------------
(***************************************************************************)
(* The counters of an arena (metrics.rs), one atomic instruction a step,   *)
(* as allocations, freezes, spills and releases write them, and the        *)
(* snapshot that loads them one after the other.  A fixed arena counts a   *)
(* release after the slot is free again, a buddy arena before.  splits and *)
(* coalesces are BuddyArena's.                                             *)
(***************************************************************************)
EXTENDS Integers, FiniteSets, Sequences

CONSTANTS
  Clients,        \* the owners: whoever allocates, and uses and drops what they get
  Extents,        \* numbers; in a buddy arena region n is of n units
  MetricsWidth,   \* bytes_live is a number modulo MetricsWidth
  MaxCalls,       \* bound: the calls of allocate
  NoRegion        \* no region

ASSUME ClientsAssumption == IsFiniteSet(Clients)

ASSUME ExtentsAssumption ==
  Extents \subseteq Nat \ {0} /\ IsFiniteSet(Extents) /\ NoRegion \notin Extents

(* A usize counts all the units there are, and the owners. *)
ASSUME MetricsWidthAssumption ==
  /\ MetricsWidth \in Nat
  /\ MetricsWidth > Cardinality(Clients)
  /\ MetricsWidth > Cardinality(UNION {{r} \X (1 .. r) : r \in Extents})

VARIABLES
  kind,        \* "fixed" or "buddy"
  unclaimed,   \* the regions in nobody's hands
  cpc,         \* cpc[o]: what owner o does next, or what they have
  region,      \* region[o]: what it is kept in
  calls,       \* history: the calls of allocate and raw_alloc that were decided
  metrics,     \* MetricsState
  shown,       \* the snapshot, as far as it is loaded
  loads,       \* how many loads it has made
  undisturbed   \* nothing was under way since the snapshot began

counters == <<kind, unclaimed, cpc, region, calls, metrics, shown, loads, undisturbed>>

owners == <<kind, cpc, region, unclaimed, calls>>

reader == <<shown, loads>>

(* In the order in which a snapshot loads them. *)
Fields ==
  <<"allocations_ok", "allocations_failed", "frees", "frozen", "spills", "bytes_live">>

Counters == {Fields[i] : i \in 1 .. Len(Fields)}

MetricsInit ==
  /\ kind \in {"fixed", "buddy"}
  /\ unclaimed = Extents
  /\ cpc = [o \in Clients |-> "idle"]
  /\ region = [o \in Clients |-> NoRegion]
  /\ calls = 0
  /\ metrics = [c \in Counters |-> 0]
  /\ shown = [c \in Counters |-> 0]
  /\ loads = 0
  /\ undisturbed = TRUE

Size(r) == IF kind = "buddy" THEN r ELSE 1

Move(o, place) == cpc' = [cpc EXCEPT ![o] = place]

Bump(c) == metrics' = [metrics EXCEPT ![c] = @ + 1]

AddLive(units) == metrics' = [metrics EXCEPT !.bytes_live = (@ + units) % MetricsWidth]

-----------------------------------------------------------------------------
(* allocate and raw_alloc *)

Decide(o, place) ==
  /\ cpc[o] = "idle"
  /\ calls < MaxCalls
  /\ calls' = calls + 1
  /\ Move(o, place)

(* No slot or block was found, or none is that large.  What was missed may *)
(* be free by now: whether the call had to fail is AtomicBitmap's          *)
(* (NoneIsHonest) and BuddyArena's (FullIsHonest), so here any may.        *)
FindNothing(o) ==
  /\ Decide(o, "failed")
  /\ UNCHANGED <<kind, unclaimed, region, metrics>>

record_alloc_failure(o) ==
  /\ cpc[o] = "failed"
  /\ Bump("allocations_failed")
  /\ Move(o, "idle")
  /\ UNCHANGED <<kind, unclaimed, region, calls>>

ClaimRegion(o, r) ==
  /\ Decide(o, "ok")
  /\ r \in unclaimed
  /\ unclaimed' = unclaimed \ {r}
  /\ region' = [region EXCEPT ![o] = r]
  /\ UNCHANGED <<kind, metrics>>

(* record_alloc_success *)
RecordOk(o) ==
  /\ cpc[o] = "ok"
  /\ Bump("allocations_ok")
  /\ Move(o, "live")
  /\ UNCHANGED <<kind, unclaimed, region, calls>>

RecordLive(o) ==
  /\ cpc[o] = "live"
  /\ AddLive(Size(region[o]))
  /\ Move(o, "buffer")
  /\ UNCHANGED <<kind, unclaimed, region, calls>>

-----------------------------------------------------------------------------
(* The uses of a buffer or region, and the ends *)

record_frozen(o) ==
  /\ cpc[o] = "buffer"
  /\ Bump("frozen")
  /\ Move(o, "frozen")
  /\ UNCHANGED <<kind, unclaimed, region, calls>>

(* ArenaRef::release: where it starts. *)
ReleaseFrom == IF kind = "buddy" THEN "frees" ELSE "free"

(* Mutant: a spill gives the region back and does not count it as freed. *)
record_spill_only(o) ==
  /\ cpc[o] = "buffer"
  /\ Bump("spills")
  /\ Move(o, "idle")
  /\ unclaimed' = unclaimed \cup {region[o]}
  /\ region' = [region EXCEPT ![o] = NoRegion]
  /\ UNCHANGED <<kind, calls>>

(* do_spill *)
record_spill(o) ==
  /\ cpc[o] = "buffer"
  /\ Bump("spills")
  /\ Move(o, ReleaseFrom)
  /\ UNCHANGED <<kind, unclaimed, region, calls>>

DropRegion(o) ==
  /\ cpc[o] \in {"buffer", "frozen"}
  /\ Move(o, ReleaseFrom)
  /\ UNCHANGED <<kind, unclaimed, region, calls, metrics>>

FreeRegion(o) ==
  /\ cpc[o] = "free"
  /\ unclaimed' = unclaimed \cup {region[o]}
  /\ Move(o, IF kind = "buddy" THEN "idle" ELSE "frees")
  /\ region' = [region EXCEPT ![o] = IF kind = "buddy" THEN NoRegion ELSE @]
  /\ UNCHANGED <<kind, calls, metrics>>

(* record_free *)
RecordFrees(o) ==
  /\ cpc[o] = "frees"
  /\ Bump("frees")
  /\ Move(o, "dead")
  /\ UNCHANGED <<kind, unclaimed, region, calls>>

(* Mutant: what is taken away is the size the block was merged to. *)
RecordMergedDead(o) ==
  /\ cpc[o] = "dead"
  /\ AddLive(0 - Size(region[o]) - Cardinality(unclaimed))
  /\ Move(o, IF kind = "buddy" THEN "free" ELSE "idle")
  /\ region' = [region EXCEPT ![o] = IF kind = "buddy" THEN @ ELSE NoRegion]
  /\ UNCHANGED <<kind, unclaimed, calls>>

RecordDead(o) ==
  /\ cpc[o] = "dead"
  /\ AddLive(0 - Size(region[o]))
  /\ Move(o, IF kind = "buddy" THEN "free" ELSE "idle")
  /\ region' = [region EXCEPT ![o] = IF kind = "buddy" THEN @ ELSE NoRegion]
  /\ UNCHANGED <<kind, unclaimed, calls>>

-----------------------------------------------------------------------------
(* fixed_snapshot and buddy_snapshot *)

AtRest == \A o \in Clients : cpc[o] \in {"idle", "buffer", "frozen"}

Load ==
  LET c == Fields[loads + 1] IN
  /\ loads < Len(Fields)
  /\ shown' = [shown EXCEPT ![c] = metrics[c]]
  /\ loads' = loads + 1
  /\ undisturbed' = (undisturbed /\ AtRest)
  /\ UNCHANGED <<owners, metrics>>

(* The next snapshot. *)
Again ==
  /\ loads = Len(Fields)
  /\ shown' = [c \in Counters |-> 0]
  /\ loads' = 0
  /\ undisturbed' = TRUE
  /\ UNCHANGED <<owners, metrics>>

OwnerStep(o) ==
  \/ FindNothing(o) \/ record_alloc_failure(o)
  \/ \E r \in unclaimed : ClaimRegion(o, r)
  \/ RecordOk(o) \/ RecordLive(o)
  \/ record_frozen(o) \/ record_spill(o) \/ DropRegion(o)
  \/ FreeRegion(o) \/ RecordFrees(o) \/ RecordDead(o)

MetricsNext ==
  \/ \E o \in Clients : OwnerStep(o) /\ undisturbed' = (loads = 0) /\ UNCHANGED reader
  \/ Load
  \/ Again

MetricsSpec == MetricsInit /\ [][MetricsNext]_counters

-----------------------------------------------------------------------------
(* The units of some regions, one by one. *)
RegionUnits(S) == UNION {{r} \X (1 .. Size(r)) : r \in S}

Done == loads = Len(Fields)

(* A snapshot during which nothing happens is exact, whatever happened     *)
(* before it and in whatever order: every call that failed or succeeded,   *)
(* every freeze, spill and release was counted once, at its size.          *)
SnapshotExact ==
  LET held == {o \in Clients : cpc[o] \in {"buffer", "frozen"}} IN
  Done /\ undisturbed =>
    /\ shown.allocations_ok + shown.allocations_failed = calls
    /\ shown.allocations_ok - shown.frees = Cardinality(held)
    /\ shown.bytes_live = Cardinality(RegionUnits(Extents \ unclaimed))
    /\ shown.frozen >= Cardinality({o \in held : cpc[o] = "frozen"})
    /\ shown.spills <= shown.frees
    /\ shown.frozen + shown.spills <= shown.allocations_ok

(* No snapshot shows a number that was taken below zero, or more live     *)
(* bytes than a buddy arena has.  A fixed arena, which counts a release    *)
(* when the slot may already be someone else's, may show more than it has, *)
(* but no more than a slot for every owner.                                *)
SnapshotBounded ==
  Done => shown.bytes_live <= IF kind = "buddy" THEN Cardinality(RegionUnits(Extents))
                                                ELSE Cardinality(Clients)
=============================================================================
