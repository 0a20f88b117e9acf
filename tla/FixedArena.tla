----------------------------- MODULE FixedArena -----------------------------
(***************************************************************************)
(* The life of a slot of a FixedArena and of the memory below it: allocate *)
(* (arena.rs), Buffer with its writes, spill and freeze (buffer.rs), the   *)
(* frozen Bytes (handle.rs), RawRegion (hazmat/raw_region.rs), the release *)
(* they all end in (allocation.rs) and the deallocation by the last Arc    *)
(* (arena.rs, dealloc.rs).                                                 *)
(*                                                                         *)
(* A process is an owner: the value that a call to allocate or raw_alloc   *)
(* is making, or made, and what it turned into since.  Rust lets one       *)
(* thread at a time at it, so an owner is at one place, pc; owners         *)
(* interleave freely.  Which free slot try_alloc claims is left open (the  *)
(* scan is AtomicBitmap's); a call that finds none changes nothing here.   *)
(***************************************************************************)
EXTENDS Integers, FiniteSets, Sequences

CONSTANTS
  Owners,        \* the values of type Buffer, RawRegion or Bytes
  Slots,         \* the slots of the bitmap
  Capacity,      \* slot_capacity, in units
  AutoSpill,     \* auto_spill
  InitPolicy,    \* "Zero" or "Uninit"
  Zero, Junk,    \* a zeroed unit; a unit as the system allocator left it
  None,          \* no slot
  MaxHandles,    \* bound: FixedArena handles alive at once
  MaxClones,     \* bound: Bytes sharing one slot
  MaxHeap        \* bound: units a spilled buffer holds

ASSUME OwnersAssumption == IsFiniteSet(Owners) /\ {Zero, Junk} \cap Owners = {}

ASSUME SlotsAssumption == None \notin Slots

ASSUME CapacityAssumption == Capacity \in Nat \ {0}

ASSUME PolicyAssumption ==
  /\ AutoSpill \in BOOLEAN
  /\ InitPolicy \in {"Zero", "Uninit"}
  /\ Zero # Junk

ASSUME BoundsAssumption ==
  /\ MaxHandles \in Nat \ {0}
  /\ MaxClones \in Nat \ {0}
  /\ MaxHeap \in Nat

VARIABLES
  free,      \* bitmap: the free slots
  zeroed,    \* zeroed_bitmap: the slots that were scrubbed on return
  mem,       \* mem[s][i]: whose data unit i of slot s holds
  handles,   \* the FixedArena values alive
  strong,    \* the strong count of the Arc<ArenaInner>
  deallocs,  \* how often the backing memory was deallocated
  live,      \* bytes_live, in slots
  pc,        \* pc[o]: what o is, or which step it executes next
  slot,      \* slot[o]: slot_idx
  span,      \* span[o]: the units of the slot that hold o's data
  clones,    \* clones[o]: the Bytes that share the frozen o
  heap,      \* heap[o]: the contents of the BytesMut of a spilled o
  then       \* then[o]: what follows the release o is executing

vars == <<free, zeroed, mem, handles, strong, deallocs, live, pc, slot, span,
          clones, heap, then>>

Units == 0 .. Capacity - 1

Fill(v) == [i \in Units |-> v]

(* build_inner: one handle, all slots free, none scrubbed. *)
Init ==
  /\ free = Slots
  /\ zeroed = {}
  /\ mem = [s \in Slots |-> Fill(Junk)]
  /\ handles = 1
  /\ strong = 1
  /\ deallocs = 0
  /\ live = 0
  /\ pc = [o \in Owners |-> "none"]
  /\ slot = [o \in Owners |-> None]
  /\ span = [o \in Owners |-> {}]
  /\ clones = [o \in Owners |-> 0]
  /\ heap = [o \in Owners |-> << >>]
  /\ then = [o \in Owners |-> "none"]

Goto(o, place) == pc' = [pc EXCEPT ![o] = place]

arena == <<free, zeroed, mem, live>>      \* what the slots are made of

counts == <<handles, strong, deallocs>>   \* what keeps the arena alive

locals == <<slot, span, clones, heap, then>>

(* Mutant: the count is compared before it is decremented. *)
DropArcEarly ==
  /\ strong' = strong - 1
  /\ deallocs' = IF strong <= 2 THEN deallocs + 1 ELSE deallocs

(* Dropping an Arc: the last one runs ArenaInner's drop. *)
DropArc ==
  /\ strong' = strong - 1
  /\ deallocs' = IF strong' = 0 THEN deallocs + 1 ELSE deallocs

-----------------------------------------------------------------------------
(* The handles. *)

CloneHandle ==
  /\ handles \in 1 .. MaxHandles - 1
  /\ handles' = handles + 1
  /\ strong' = strong + 1
  /\ UNCHANGED <<arena, deallocs, pc, locals>>

(* Calls in progress borrow a handle. *)
Borrowed == \E o \in Owners : pc[o] = "claimed"

DropHandle ==
  /\ handles > 0
  /\ handles = 1 => ~Borrowed
  /\ handles' = handles - 1
  /\ DropArc
  /\ UNCHANGED <<arena, pc, locals>>

-----------------------------------------------------------------------------
(* allocate and raw_alloc. *)

(* try_alloc claims slot s. *)
Claim(o, s) ==
  /\ pc[o] = "none"
  /\ handles > 0
  /\ s \in free
  /\ free' = free \ {s}
  /\ slot' = [slot EXCEPT ![o] = s]
  /\ Goto(o, "claimed")
  /\ UNCHANGED <<zeroed, mem, live, counts, span, clones, heap, then>>

(* Mutant: the test of the zeroed bitmap is inverted. *)
ClearScrubbed(o) ==
  IF InitPolicy = "Zero" /\ slot[o] \in zeroed
  THEN [mem EXCEPT ![slot[o]] = Fill(Zero)]
  ELSE mem

(* A slot that never went through a scrub is zeroed now. *)
ClearCold(o) ==
  IF InitPolicy = "Zero" /\ slot[o] \notin zeroed
  THEN [mem EXCEPT ![slot[o]] = Fill(Zero)]
  ELSE mem

(* The rest of the call: clear, count, clone the Arc into the new owner.   *)
HandOver(o, kind) ==
  /\ pc[o] = "claimed"
  /\ mem' = ClearCold(o)
  /\ live' = live + 1
  /\ strong' = strong + 1
  /\ Goto(o, kind)
  /\ UNCHANGED <<free, zeroed, handles, deallocs, locals>>

NewBuffer(o) == HandOver(o, "buffer")

(* The builder's modes exclude each other: a RawFixedArena never spills. *)
NewRawRegion(o) == ~AutoSpill /\ HandOver(o, "raw")

-----------------------------------------------------------------------------
(* Writing. *)

(* The bytes written so far: Buffer appends, so len is where it is at. *)
len(o) == Cardinality(span[o])

(* chunk_mut and advance_mut on a buffer that is not full. *)
Write(o) ==
  /\ pc[o] = "buffer"
  /\ len(o) < Capacity
  /\ mem' = [mem EXCEPT ![slot[o]][len(o)] = o]
  /\ span' = [span EXCEPT ![o] = @ \cup {len(o)}]
  /\ UNCHANGED <<free, zeroed, live, counts, pc, slot, clones, heap, then>>

(* A raw region is written anywhere, through its pointer. *)
RawWrite(o, i) ==
  /\ pc[o] = "raw"
  /\ mem' = [mem EXCEPT ![slot[o]][i] = o]
  /\ span' = [span EXCEPT ![o] = @ \cup {i}]
  /\ UNCHANGED <<free, zeroed, live, counts, pc, slot, clones, heap, then>>

(* The written units of o's slot, in order. *)
Contents(o) == [i \in 1 .. len(o) |-> mem[slot[o]][i - 1]]

(* do_spill on the first write past the capacity: copy, then release. *)
Spill(o) ==
  /\ pc[o] = "buffer"
  /\ AutoSpill
  /\ len(o) >= Capacity
  /\ heap' = [heap EXCEPT ![o] = Contents(o)]
  /\ then' = [then EXCEPT ![o] = "respill"]
  /\ Goto(o, "scrub")
  /\ UNCHANGED <<arena, counts, slot, span, clones>>

(* Mutant: the contents are copied after the release. *)
SpilledLate(o) ==
  /\ pc[o] = "respill"
  /\ heap' = [heap EXCEPT ![o] = Contents(o)]
  /\ slot' = [slot EXCEPT ![o] = None]
  /\ span' = [span EXCEPT ![o] = {}]
  /\ Goto(o, "spilled")
  /\ UNCHANGED <<arena, counts, clones, then>>

(* The buffer is on the heap from here on. *)
Spilled(o) ==
  /\ pc[o] = "respill"
  /\ slot' = [slot EXCEPT ![o] = None]
  /\ span' = [span EXCEPT ![o] = {}]
  /\ Goto(o, "spilled")
  /\ UNCHANGED <<arena, counts, clones, heap, then>>

HeapWrite(o) ==
  /\ pc[o] = "spilled"
  /\ Len(heap[o]) < MaxHeap
  /\ heap' = [heap EXCEPT ![o] = Append(@, o)]
  /\ UNCHANGED <<arena, counts, pc, slot, span, clones, then>>

-----------------------------------------------------------------------------
(* Freezing, sharing and dropping. *)

(* Every way to give up a slot is a release followed by the drop of the    *)
(* Arc.                                                                    *)
Release(o) ==
  /\ then' = [then EXCEPT ![o] = "unref"]
  /\ Goto(o, "scrub")
  /\ UNCHANGED <<arena, counts, slot, span, heap>>

(* Buffer::freeze passes the Arc and the slot on to the first Bytes. *)
Freeze(o) ==
  /\ pc[o] = "buffer"
  /\ clones' = [clones EXCEPT ![o] = 1]
  /\ Goto(o, "frozen")
  /\ UNCHANGED <<arena, counts, slot, span, heap, then>>

(* RawRegion::freeze of a range that is initialized, by the caller or by   *)
(* the arena.                                                              *)
RawFreeze(o, lo, hi) ==
  /\ pc[o] = "raw"
  /\ lo <= hi /\ hi <= Capacity
  /\ InitPolicy = "Zero" \/ lo .. hi - 1 \subseteq span[o]
  /\ span' = [span EXCEPT ![o] = @ \cap lo .. hi - 1]
  /\ clones' = [clones EXCEPT ![o] = 1]
  /\ Goto(o, "frozen")
  /\ UNCHANGED <<arena, counts, slot, heap, then>>

(* Mutant: self is forgotten before the range is looked at. *)
RawFreezeErrorForgets(o, lo, hi) ==
  /\ pc[o] = "raw"
  /\ lo > hi \/ hi > Capacity
  /\ Goto(o, "unref")
  /\ UNCHANGED <<arena, counts, locals>>

(* RawRegion::freeze of any other range returns an error and drops self. *)
RawFreezeError(o, lo, hi) ==
  /\ pc[o] = "raw"
  /\ lo > hi \/ hi > Capacity
  /\ Release(o)
  /\ UNCHANGED clones

CloneBytes(o) ==
  /\ pc[o] = "frozen"
  /\ clones[o] \in 1 .. MaxClones - 1
  /\ clones' = [clones EXCEPT ![o] = @ + 1]
  /\ UNCHANGED <<arena, counts, pc, slot, span, heap, then>>

(* Mutant: the first Bytes dropped frees the slot. *)
DropAnyBytes(o) ==
  /\ pc[o] = "frozen"
  /\ clones' = [clones EXCEPT ![o] = @ - 1]
  /\ free' = free \cup {slot[o]}
  /\ UNCHANGED <<zeroed, mem, live, counts, pc, slot, span, heap, then>>

(* Other Bytes are left. *)
DropClone(o) ==
  /\ pc[o] = "frozen"
  /\ clones[o] > 1
  /\ clones' = [clones EXCEPT ![o] = @ - 1]
  /\ UNCHANGED <<arena, counts, pc, slot, span, heap, then>>

(* The last Bytes drops the BufferHandle. *)
DropLastBytes(o) ==
  /\ pc[o] = "frozen"
  /\ clones[o] = 1
  /\ clones' = [clones EXCEPT ![o] = 0]
  /\ Release(o)

(* Drop of a Buffer or a RawRegion that still has its slot. *)
Drop(o) ==
  /\ pc[o] \in {"buffer", "raw"}
  /\ Release(o)
  /\ UNCHANGED clones

(* Drop, or freeze, of a spilled buffer: released is set, and only the     *)
(* Arc goes.                                                               *)
DropSpilled(o) ==
  /\ pc[o] = "spilled"
  /\ Goto(o, "unref")
  /\ UNCHANGED <<arena, counts, locals>>

-----------------------------------------------------------------------------
(* ArenaRef::release, and what its caller does next. *)

(* Mutant: the slot is marked scrubbed but not scrubbed. *)
ScrubMarkOnly(o) ==
  IF InitPolicy = "Zero"
  THEN zeroed' = zeroed \cup {slot[o]} /\ UNCHANGED mem
  ELSE UNCHANGED <<mem, zeroed>>

(* The slot is zeroed and marked as such, the order of which nobody sees:  *)
(* until the slot is free only o looks at either.                          *)
ScrubSlot(o) ==
  IF InitPolicy = "Zero"
  THEN /\ mem' = [mem EXCEPT ![slot[o]] = Fill(Zero)]
       /\ zeroed' = zeroed \cup {slot[o]}
  ELSE UNCHANGED <<mem, zeroed>>

Scrub(o) ==
  /\ pc[o] = "scrub"
  /\ ScrubSlot(o)
  /\ Goto(o, "free")
  /\ UNCHANGED <<free, live, counts, locals>>

(* bitmap.free *)
FreeSlot(o) ==
  /\ pc[o] = "free"
  /\ free' = free \cup {slot[o]}
  /\ Goto(o, "count")
  /\ UNCHANGED <<zeroed, mem, live, counts, locals>>

(* metrics.record_free, and release returns to its caller. *)
CountFree(o) ==
  /\ pc[o] = "count"
  /\ live' = live - 1
  /\ Goto(o, then[o])
  /\ then' = [then EXCEPT ![o] = "none"]
  /\ UNCHANGED <<free, zeroed, mem, counts, slot, span, clones, heap>>

(* Mutant: the Arc of a freed buffer is never dropped. *)
UnrefLeak(o) ==
  /\ pc[o] = "unref"
  /\ slot' = [slot EXCEPT ![o] = None]
  /\ span' = [span EXCEPT ![o] = {}]
  /\ heap' = [heap EXCEPT ![o] = << >>]
  /\ Goto(o, "none")
  /\ UNCHANGED <<arena, counts, clones, then>>

(* ManuallyDrop::drop(owner), or the end of the BufferHandle. *)
Unref(o) ==
  /\ pc[o] = "unref"
  /\ DropArc
  /\ slot' = [slot EXCEPT ![o] = None]
  /\ span' = [span EXCEPT ![o] = {}]
  /\ heap' = [heap EXCEPT ![o] = << >>]
  /\ Goto(o, "none")
  /\ UNCHANGED <<arena, handles, clones, then>>

-----------------------------------------------------------------------------
(* The ranges freeze is called with: from within to one past the end. *)
Ranges == (0 .. Capacity + 1) \X (0 .. Capacity + 1)

(* The steps of a call that is under way. *)
Continue(o) ==
  \/ NewBuffer(o) \/ NewRawRegion(o)
  \/ Scrub(o)
  \/ FreeSlot(o)
  \/ CountFree(o)
  \/ Spilled(o)
  \/ Unref(o)

(* The calls a program may make, or not. *)
Use(o) ==
  \/ \E s \in Slots : Claim(o, s)
  \/ Write(o)
  \/ \E i \in Units : RawWrite(o, i)
  \/ Spill(o)
  \/ HeapWrite(o)
  \/ Freeze(o)
  \/ \E r \in Ranges : RawFreeze(o, r[1], r[2]) \/ RawFreezeError(o, r[1], r[2])
  \/ CloneBytes(o)
  \/ DropClone(o)
  \/ DropLastBytes(o)
  \/ Drop(o)
  \/ DropSpilled(o)

Next ==
  \/ CloneHandle
  \/ DropHandle
  \/ \E o \in Owners : Continue(o) \/ Use(o)

Spec == Init /\ [][Next]_vars

(* A thread inside a call goes on executing it: no step of one waits. *)
FairSpec == Spec /\ \A o \in Owners : WF_vars(Continue(o))

-----------------------------------------------------------------------------
(* Where o owns its slot: from the claim to the free. *)
Holding(o) ==
  pc[o] \in {"claimed", "buffer", "raw", "frozen", "scrub", "free"}

(* Where o has its own Arc. *)
Anchored(o) == pc[o] \notin {"none", "claimed"}

Places == {"none", "claimed", "buffer", "raw", "frozen", "scrub", "free",
           "count", "respill", "spilled", "unref"}

Releasing(o) == pc[o] \in {"scrub", "free", "count"}

(* Which locals go with which place. *)
OwnerOK(o) ==
  /\ Holding(o) \/ Releasing(o) => slot[o] \in Slots
  /\ Releasing(o) <=> then[o] # "none"
  /\ pc[o] = "frozen" <=> clones[o] > 0
  /\ pc[o] \in {"none", "claimed"} => span[o] = {}
  /\ pc[o] = "buffer" => span[o] = 0 .. len(o) - 1

(* Types; and the units a Buffer has written are a prefix of its slot. *)
TypeOK ==
  /\ free \subseteq Slots
  /\ zeroed \subseteq Slots
  /\ mem \in [Slots -> [Units -> Owners \cup {Zero, Junk}]]
  /\ handles \in Nat
  /\ strong \in Int
  /\ deallocs \in Nat
  /\ live \in Int
  /\ pc \in [Owners -> Places]
  /\ slot \in [Owners -> Slots \cup {None}]
  /\ span \in [Owners -> SUBSET Units]
  /\ clones \in [Owners -> Nat]
  /\ heap \in [Owners -> Seq(Owners \cup {Zero, Junk})]
  /\ then \in [Owners -> {"none", "unref", "respill"}]
  /\ \A o \in Owners : OwnerOK(o)

(* A slot is free or it is owned, by one owner: no claim, spill, freeze or *)
(* drop loses a slot, frees one twice or hands one out twice.              *)
SlotsOwned ==
  \A s \in Slots :
    IF s \in free
    THEN \A o \in Owners : Holding(o) => slot[o] # s
    ELSE \E o \in Owners :
           /\ Holding(o) /\ slot[o] = s
           /\ \A p \in Owners : Holding(p) /\ slot[p] = s => p = o

(* What was written to a Buffer or a RawRegion is what it, and every Bytes *)
(* frozen from it, shows for as long as one of them exists.                *)
BytesStable ==
  \A o \in Owners :
    pc[o] \in {"buffer", "raw", "frozen"} =>
      \A i \in span[o] : mem[slot[o]][i] = o

(* A spill loses no data: a spilled buffer shows all that was written to   *)
(* it, before and after.                                                   *)
SpillKeepsData ==
  \A o \in Owners :
    pc[o] = "spilled" =>
      /\ Len(heap[o]) >= Capacity
      /\ \A i \in 1 .. Len(heap[o]) : heap[o][i] = o

(* The memory is deallocated once, when nothing can reach it any more: no  *)
(* handle, no call in progress, no buffer, no Bytes, no release under way. *)
OutlivesUsers ==
  IF handles > 0 \/ \E o \in Owners : pc[o] # "none"
  THEN deallocs = 0
  ELSE deallocs = 1

(* Under InitPolicy::Zero a call hands out a slot of zeroes, whatever its  *)
(* history: the zeroed bitmap, which is never cleared, does not go stale.  *)
FreshIsZero ==
  [][\A o \in Owners :
       InitPolicy = "Zero" /\ pc[o] = "claimed" /\ pc'[o] # "claimed"
         => mem'[slot[o]] = Fill(Zero)]_vars

(* Every handle, buffer and Bytes has been dropped. *)
AllDropped ==
  /\ handles = 0
  /\ \A o \in Owners : pc[o] = "none" \/ pc[o] = "unref" \/ then[o] = "unref"

(* Once everything has been dropped, the memory goes back to where it came *)
(* from: ArenaInner's drop runs.                                           *)
MemoryReturned == AllDropped ~> deallocs = 1

(* The fixed arena implements RegionPool, an owner having its slot from    *)
(* the claim in allocate to the bitmap.free in release.                    *)
Regions ==
  INSTANCE RegionPool WITH
    Extents <- {{s} : s \in Slots},
    region <- [o \in Owners |-> IF Holding(o) THEN {slot[o]} ELSE {}]

(* Owners get slots that nobody else has, and give back what they have. *)
HandsOutRegions == Regions!Spec
=============================================================================
