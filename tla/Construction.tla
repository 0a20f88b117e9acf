---------------------------- MODULE Construction ----------------------------
(***************************************************************************)
(* How an arena comes to be and goes: the geometry and its alignment       *)
(* (geometry.rs), the builders over memory of their own or of the caller   *)
(* (arena.rs, buddy.rs), the touching of pages, the type-erased            *)
(* deallocator (dealloc.rs), and the answer to a request for a number of   *)
(* bytes.  One thread does all of this; what happens in between to the     *)
(* slots and blocks is FixedArena and BuddyArena.  The typestates and the  *)
(* InitPolicy, which change nothing here, are left out.                    *)
(***************************************************************************)
EXTENDS Sizes, Sequences

CONSTANTS
  Lengths,      \* the sizes, counts and lengths that are tried
  Alignments,   \* the alignments that are tried
  Pages,        \* the page sizes that are tried
  AutoPage,     \* what PageSize::Auto resolves to; None without libc
  Bases         \* the addresses that regions may start at

ASSUME LengthsAssumption == Lengths \cup Alignments \subseteq 0 .. UsizeMax

(* PageSize::Size is a NonZeroUsize. *)
ASSUME PagesAssumption == Pages \cup {AutoPage} \subseteq {None} \cup 1 .. UsizeMax

ASSUME BasesAssumption == Bases \subseteq Nat \ {0}

VARIABLES
  stage,     \* "start", "geometry", "builder", "unfaulted", "ready",
             \*   "failed", "hung", or "dropped"
  geometry,  \* the BuddyGeometry made so far
  asked,     \* what the geometry or the carving was asked for
  builder,   \* the builder
  arena,     \* the arena's ptr, lengths and sizes
  region,    \* the backing memory: from where, and how much
  caller,    \* the region is the caller's to release
  touched,   \* the addresses that building wrote to
  deallocs,  \* the calls of Dealloc::dealloc
  boxes,     \* the boxed deallocators that are not freed yet
  reply     \* the order and capacity for a request

construction == <<stage, geometry, asked, builder, arena, region, caller, touched,
          deallocs, boxes, reply>>

backing == <<region, caller, touched, deallocs, boxes>>

ConstructionInit ==
  /\ stage = "start"
  /\ geometry = None
  /\ asked = [by |-> "none"]
  /\ builder = [of |-> "none"]
  /\ arena = None
  /\ region = None
  /\ caller = FALSE
  /\ touched = {}
  /\ deallocs = << >>
  /\ boxes = 0
  /\ reply = [by |-> "none"]

-----------------------------------------------------------------------------
(* BuddyGeometry *)

(* The geometry g is had, or the error. *)
Have(g) ==
  /\ stage' = IF g.err = None THEN "geometry" ELSE "failed"
  /\ geometry' = g
  /\ UNCHANGED <<builder, arena, backing, reply>>

Exact(total, min_block) ==
  /\ stage = "start"
  /\ asked' = [by |-> "exact", total |-> total, min |-> min_block, alignments |-> {1}]
  /\ Have(exact(total, min_block))

Nearest(total, min_block) ==
  /\ stage = "start"
  /\ asked' = [by |-> "nearest", total |-> total, min |-> min_block, alignments |-> {1}]
  /\ Have(nearest(total, min_block))

WithAlignment(a) ==
  /\ stage = "geometry"
  /\ asked' = [asked EXCEPT !.alignments = @ \cup {a}]
  /\ Have(with_alignment(geometry, a))

-----------------------------------------------------------------------------
(* The builders *)

(* Mutant: Auto, as for an arena that allocates. *)
RawBackedPage_auto == AutoPage

(* BuildConfig::new_raw_backed *)
RawBackedPage == None

Builder(b) ==
  /\ stage' = "builder"
  /\ builder' = b
  /\ UNCHANGED <<arena, touched, deallocs, boxes, reply>>

(* BuddyArena::builder *)
NewBuddy ==
  /\ stage = "geometry"
  /\ Builder([of |-> "buddy", page |-> AutoPage, alignment |-> geometry.alignment,
              dealloc |-> "HeapDealloc"])
  /\ asked' = [by |-> "none"]
  /\ UNCHANGED <<geometry, region, caller>>

NewFixed(slot_count, slot_capacity) ==
  /\ stage = "start"
  /\ Builder([of |-> "fixed", page |-> AutoPage, alignment |-> 1,
              dealloc |-> "HeapDealloc", count |-> slot_count, capacity |-> slot_capacity])
  /\ UNCHANGED <<geometry, asked, region, caller>>

with_slot_capacity(slot_count, slot_capacity) == NewFixed(slot_count, slot_capacity)

with_arena_capacity(slot_count, arena_capacity) ==
  NewFixed(slot_count, (arena_capacity + slot_count - 1) \div slot_count)

(* A region of the caller's, which is no longer than isize::MAX. *)
FromRaw(of, ptr, len, wish, dealloc) ==
  /\ stage = "start"
  /\ len <= IsizeMax
  /\ Builder([of |-> of, page |-> RawBackedPage, alignment |-> 1, dealloc |-> dealloc])
  /\ region' = [base |-> ptr, len |-> len]
  /\ caller' = TRUE
  /\ asked' = wish
  /\ UNCHANGED geometry

(* FixedArena::from_raw, and from_static with NoDealloc *)
FixedFromRaw(ptr, len, spec, dealloc) == FromRaw("rawFixed", ptr, len, spec, dealloc)

(* BuddyArena::from_raw, and from_static with NoDealloc *)
BuddyFromRaw(ptr, len, min_alloc, dealloc) ==
  FromRaw("rawBuddy", ptr, len, [by |-> "MinAlloc", n |-> min_alloc], dealloc)

(* alignment, of the fixed builders *)
SetAlignment(a) ==
  /\ stage = "builder"
  /\ builder.of \in {"fixed", "rawFixed"}
  /\ builder' = [builder EXCEPT !.alignment = a]
  /\ UNCHANGED <<stage, geometry, asked, arena, backing, reply>>

(* page_size, of the builders that allocate *)
SetPageSize(p) ==
  /\ stage = "builder"
  /\ builder.of \in {"fixed", "buddy"}
  /\ builder' = [builder EXCEPT !.page = p]
  /\ UNCHANGED <<stage, geometry, asked, arena, backing, reply>>

-----------------------------------------------------------------------------
(* build *)

(* Layout::from_size_align *)
LayoutFits(size, align) == size <= IsizeMax + 1 - align

Fixed(ptr, total, slots) ==
  [of |-> "fixed", err |-> slots.err, ptr |-> ptr, dealloc_len |-> total,
   slot_count |-> slots.slot_count, slot_capacity |-> slots.slot_capacity,
   usable |-> slots.slot_count * slots.slot_capacity]

Buddy(ptr, total, g, cap) ==
  [of |-> "buddy", err |-> g.err, ptr |-> ptr, dealloc_len |-> total,
   min_block_size |-> g.min_block_size, max_order |-> g.max_order, cap_capacity |-> cap,
   usable |-> Shl(g.min_block_size, g.max_order)]

(* FixedArenaBuilder::build_inner; ptr is what alloc returns. *)
BuildFixed(ptr) ==
  IF builder.alignment \notin PowersOfTwo THEN Err("InvalidAlignment")
  ELSE LET aligned == align_up(builder.capacity, builder.alignment)
           total == builder.count * aligned
       IN IF aligned = None \/ total > UsizeMax THEN Err("SizeOverflow")
          ELSE IF ~ LayoutFits(total, builder.alignment) THEN Err("SizeOverflow")
          ELSE Fixed(ptr, total, Carved(builder.count, aligned))

(* BuddyArenaBuilder::build_raw *)
BuildBuddy(ptr) ==
  IF ~ LayoutFits(geometry.total_size, geometry.alignment) THEN Err("SizeOverflow")
  ELSE Buddy(ptr, geometry.total_size, geometry, geometry.cap_capacity)

(* RawBackedFixedArenaBuilder::build *)
BuildRawFixed ==
  IF region.base = 0 THEN Err("NullPointer")
  ELSE IF builder.alignment \notin PowersOfTwo THEN Err("InvalidAlignment")
  ELSE LET slots == ResolveSlots(asked, region.len, builder.alignment) IN
       IF slots.err # None THEN slots ELSE Fixed(region.base, region.len, slots)

(* Mutant: the usable length is what will be deallocated. *)
BuildRawBuddy_usable ==
  IF region.base = 0 THEN Err("NullPointer")
  ELSE LET g == ResolveHint(asked.n, region.len) IN
       IF g.err # None THEN g
       ELSE Buddy(region.base, Shl(g.min_block_size, g.max_order), g, FALSE)

(* RawBackedBuddyArenaBuilder::build *)
BuildRawBuddy ==
  IF region.base = 0 THEN Err("NullPointer")
  ELSE LET g == ResolveHint(asked.n, region.len) IN
       IF g.err # None THEN g ELSE Buddy(region.base, region.len, g, FALSE)

(* Mutant: the last step is left out. *)
prefault_short(ptr, len, page) ==
  IF page = None THEN {}
  ELSE {ptr + offset : offset \in {o \in 0 .. len - 1 : o % page = 0 /\ o + page < len}}

(* The addresses that prefault_region writes to; none without a page size. *)
prefault_region(ptr, len, page) ==
  IF page = None THEN {}
  ELSE {ptr + offset : offset \in {o \in 0 .. len - 1 : o % page = 0}}

Allocates == builder.of \in {"fixed", "buddy"}

(* The arena, or the error.  The allocator heeds the alignment. *)
Made(ptr) ==
  CASE builder.of = "fixed"    -> BuildFixed(ptr)
    [] builder.of = "buddy"    -> BuildBuddy(ptr)
    [] builder.of = "rawFixed" -> BuildRawFixed
    [] builder.of = "rawBuddy" -> BuildRawBuddy

(* On an error what the builder had is dropped: a deallocator that is not  *)
(* boxed yet, and that is not called.                                      *)
BuildFails(ptr) ==
  /\ stage = "builder"
  /\ arena' = Made(ptr)
  /\ arena'.err # None
  /\ stage' = IF arena'.err = "hang" THEN "hung" ELSE "failed"
  /\ UNCHANGED <<geometry, asked, builder, backing, reply>>

Succeed(ptr, place) ==
  /\ stage = "builder"
  /\ Allocates => builder.alignment \in PowersOfTwo /\ ptr % builder.alignment = 0
  /\ arena' = Made(ptr)
  /\ arena'.err = None
  /\ stage' = place
  /\ region' = IF Allocates THEN [base |-> ptr, len |-> arena'.dealloc_len] ELSE region
  /\ caller' = FALSE
  /\ boxes' = 1
  /\ UNCHANGED <<geometry, asked, builder, deallocs, reply>>

Build(ptr) ==
  /\ Succeed(ptr, "ready")
  /\ touched' = prefault_region(arena'.ptr, arena'.usable, builder.page)

(* The build and build_async of each builder *)
build_fixed(ptr) == stage = "builder" /\ builder.of = "fixed" /\ Build(ptr)

build_buddy(ptr) == stage = "builder" /\ builder.of = "buddy" /\ Build(ptr)

build_raw_backed == stage = "builder" /\ ~ Allocates /\ Build(region.base)

BuildUnfaulted(ptr) ==
  /\ Succeed(ptr, "unfaulted")
  /\ UNCHANGED touched

build_fixed_unfaulted(ptr) == stage = "builder" /\ builder.of = "fixed" /\ BuildUnfaulted(ptr)

build_buddy_unfaulted(ptr) == stage = "builder" /\ builder.of = "buddy" /\ BuildUnfaulted(ptr)

fault_pages ==
  /\ stage = "unfaulted"
  /\ stage' = "ready"
  /\ touched' = prefault_region(arena.ptr, arena.usable, builder.page)
  /\ UNCHANGED <<geometry, asked, builder, arena, region, caller, deallocs, boxes, reply>>

(* And Unfaulted::allocate, as far as the wrapper goes. *)
into_inner ==
  /\ stage = "unfaulted"
  /\ stage' = "ready"
  /\ UNCHANGED <<geometry, asked, builder, arena, backing, reply>>

(* A builder that is never built. *)
DropBuilder ==
  /\ stage = "builder"
  /\ stage' = "failed"
  /\ arena' = Err("dropped")
  /\ UNCHANGED <<geometry, asked, builder, backing, reply>>

-----------------------------------------------------------------------------
(* A request of the buddy arena, up to the search for a block, and the     *)
(* capacity of what is returned.  Nothing of this depends on earlier       *)
(* requests, so there is one.                                              *)
Answer(by, len, order) ==
  LET block == Shl(arena.min_block_size, order) IN
  /\ reply.by = "none"
  /\ reply' = [by |-> by, len |-> len, order |-> order,
               capacity |-> IF order \notin 0 .. arena.max_order THEN None
                            ELSE IF arena.cap_capacity /\ len < block THEN len
                            ELSE block]
  /\ UNCHANGED <<stage, geometry, asked, builder, arena, backing>>

OrderFor(len) ==
  IF RequestPanics(len, arena.min_block_size) THEN None
  ELSE order_for_request(len, arena.min_block_size, arena.usable)

(* The call, or the panic it ends in. *)
By(call, len) == IF RequestPanics(len, arena.min_block_size) THEN "panic" ELSE call

allocate(len) ==
  stage = "ready" /\ arena.of = "buddy" /\ Answer(By("allocate", len), len, OrderFor(len))

raw_alloc(len) ==
  stage = "ready" /\ arena.of = "buddy" /\ Answer(By("raw_alloc", len), len, OrderFor(len))

(* allocate_async leaves it to allocate if there is no order, and waits    *)
(* otherwise.                                                              *)
allocate_async(len) ==
  /\ stage = "ready"
  /\ arena.of = "buddy"
  /\ Answer(By(IF OrderFor(len) = None THEN "allocate" ELSE "wait", len), len, OrderFor(len))

-----------------------------------------------------------------------------
(* dealloc.rs *)

(* free_fn, in the drop of an ErasedDealloc: the boxes it frees *)
Freed(data) == IF data = "null" THEN 0 ELSE 1

(* The memory is the caller's again. *)
LeftToCaller(dealloc) == dealloc = "NoDealloc"

(* The drop of the last Arc: the deallocator is taken out, its pointer set *)
(* to null and the payload moved out of its box and called; then the taken *)
(* one, and the sentinel left in its place, are dropped.                   *)
Drop ==
  /\ stage \in {"ready", "unfaulted"}
  /\ stage' = "dropped"
  /\ deallocs' = Append(deallocs, [ptr |-> arena.ptr, len |-> arena.dealloc_len])
  /\ boxes' = boxes - 1 - Freed("null") - Freed("null")
  /\ caller' = LeftToCaller(builder.dealloc)
  /\ UNCHANGED <<geometry, asked, builder, arena, region, touched, reply>>

-----------------------------------------------------------------------------
SlotSpecs == [by : {"Count", "Size"}, n : Lengths \ {0}]

Start ==
  \/ \E n, m \in Lengths \ {0} :
       Exact(n, m) \/ Nearest(n, m) \/ with_slot_capacity(n, m) \/ with_arena_capacity(n, m)
  \/ \E ptr \in Bases \cup {0}, len \in Lengths, dealloc \in {"NoDealloc", "Custom"} :
       \/ \E spec \in SlotSpecs : FixedFromRaw(ptr, len, spec, dealloc)
       \/ \E n \in Lengths \ {0} : BuddyFromRaw(ptr, len, n, dealloc)

ConstructionNext ==
  \/ stage = "start" /\ Start
  \/ \E a \in Alignments \ {0} : WithAlignment(a)
  \/ NewBuddy
  \/ \E a \in Alignments : SetAlignment(a)
  \/ \E p \in Pages : SetPageSize(p)
  \/ \E ptr \in Bases :
       \/ BuildFails(ptr)
       \/ build_fixed(ptr) \/ build_fixed_unfaulted(ptr)
       \/ build_buddy(ptr) \/ build_buddy_unfaulted(ptr)
  \/ build_raw_backed
  \/ fault_pages \/ into_inner \/ DropBuilder
  \/ \E len \in Lengths \ {0} : allocate(len) \/ raw_alloc(len) \/ allocate_async(len)
  \/ Drop

ConstructionSpec == ConstructionInit /\ [][ConstructionNext]_construction

-----------------------------------------------------------------------------
Alive == stage \in {"unfaulted", "ready"}

(* Types. *)
ConstructionTypeOK ==
  /\ stage \in {"start", "geometry", "builder", "unfaulted", "ready", "failed", "hung", "dropped"}
  /\ caller \in BOOLEAN
  /\ boxes \in {0, 1}
  /\ Alive => /\ arena.usable \in 1 .. IsizeMax
              /\ arena.dealloc_len \in 1 .. IsizeMax

(* Where the slots or blocks are, and how long. *)
Extents ==
  IF arena.of = "fixed"
  THEN {[at |-> i * arena.slot_capacity, size |-> arena.slot_capacity] :
          i \in 0 .. arena.slot_count - 1}
  ELSE UNION {{[at |-> i * Pow2(o) * arena.min_block_size, size |-> Pow2(o) * arena.min_block_size] :
                 i \in 0 .. Pow2(arena.max_order - o) - 1} : o \in 0 .. arena.max_order}

(* Whatever the sizes, their rounding and the overflows (build_inner,      *)
(* build_raw, resolve, nearest, with_alignment): no slot and no block is   *)
(* empty or reaches beyond the memory, and each is aligned as the memory   *)
(* is.                                                                     *)
ExtentsInside ==
  Alive =>
    \A e \in Extents :
      /\ e.size > 0
      /\ e.at + e.size <= region.len
      /\ region.base % builder.alignment = 0 => (region.base + e.at) % builder.alignment = 0

(* The deallocator is called once, when the arena goes, with the pointer   *)
(* and the length the memory came with, however much of it was usable; and *)
(* its box is freed once (dealloc, Drop of ErasedDealloc).                 *)
ReleasedOnce ==
  /\ ConstructionTypeOK
  /\ boxes = IF Alive THEN 1 ELSE 0
  /\ deallocs = IF stage = "dropped" THEN <<[ptr |-> region.base, len |-> region.len]>>
                ELSE << >>

(* "If build() returns Err, the caller retains ownership", and build       *)
(* "never writes to or otherwise modifies the caller-provided region"; so  *)
(* too when a builder is dropped.                                          *)
CallersMemory ==
  builder.of # "none" /\ ~ Allocates =>
    /\ touched = {}
    /\ stage \in {"failed", "hung"} => caller /\ deallocs = << >>

(* The pages of the usable memory that nothing was written to. *)
Missed ==
  {addr \in arena.ptr .. arena.ptr + arena.usable - 1 :
     \A t \in touched : t \div builder.page # addr \div builder.page}

(* prefault_region stays inside the memory and leaves no page out; but from *)
(* a start that begins no page it may leave out the last one, where         *)
(* PageSize promises that build "touches every page" (arena.rs:13).         *)
PagesTouched ==
  Alive /\ touched # {} =>
    /\ touched \subseteq arena.ptr .. arena.ptr + arena.usable - 1
    /\ \A addr \in Missed :
         /\ arena.ptr % builder.page # 0
         /\ addr \div builder.page = (arena.ptr + arena.usable - 1) \div builder.page

Divides(total, min_block) == \E k \in 0 .. Bits : total = min_block * Pow2(k)

(* What exact or nearest, and any alignments after it, were asked for. *)
Fitting ==
  {g \in [total : PowersOfTwo, min : PowersOfTwo] :
     /\ g.total >= asked.total
     /\ g.min >= asked.min
     /\ \A a \in asked.alignments : g.min >= a
     /\ Divides(g.total, g.min)}

(* nearest rounds up as little as it can, however many alignments follow,  *)
(* and exact not at all.                                                   *)
GeometryLeast ==
  stage = "geometry" =>
    /\ geometry.total_size = geometry.min_block_size * Pow2(geometry.max_order)
    /\ [total |-> geometry.total_size, min |-> geometry.min_block_size] \in Fitting
    /\ \A g \in Fitting : geometry.total_size <= g.total /\ geometry.min_block_size <= g.min
    /\ asked.by = "exact" =>
         geometry.total_size = asked.total /\ geometry.min_block_size = asked.min

(* Slots of a memory of the caller's are as many, or as large, as fit      *)
(* (SlotSpec); of its bytes less than half is left to no block (BuddyHint).*)
CarvedLargest ==
  Alive /\ ~ Allocates =>
    LET len == region.len  align == builder.alignment IN
    /\ asked.by = "Count" =>
         arena.slot_count = asked.n /\ asked.n * (arena.slot_capacity + align) > len
    /\ asked.by = "Size" =>
         /\ arena.slot_capacity <= asked.n /\ arena.slot_capacity + align > asked.n
         /\ (arena.slot_count + 1) * arena.slot_capacity > len
    /\ asked.by = "MinAlloc" =>
         /\ 2 * arena.usable > len
         /\ arena.min_block_size < asked.n => NextPowerOfTwo(asked.n) > len

(* What an error says is so: there was no geometry, no slot and no block   *)
(* to be had.  SizeOverflow is also the error for a size that is a usize   *)
(* and more than Layout allows, isize::MAX with the alignment's padding:   *)
(* less than error.rs:30 and :47 say, for whom it "overflows usize".  Of   *)
(* the geometries that leaves out one size, half of the address space.     *)
(* Only a hint above that makes build panic or hang.                       *)
RefusalsJustified ==
  /\ stage = "failed" /\ builder.of = "none" =>
       /\ geometry.err \in {"SizeOverflow", "InvalidAlignment", "InvalidGeometry"}
       /\ geometry.err = "SizeOverflow" => Fitting = {}
       /\ geometry.err = "InvalidAlignment" => ~ asked.alignments \subseteq PowersOfTwo
       /\ geometry.err = "InvalidGeometry" =>
            \/ asked.min \notin PowersOfTwo
            \/ ~ Divides(asked.total, asked.min)
            \/ \E a \in asked.alignments : a > asked.min
  /\ stage \in {"failed", "hung"} /\ builder.of # "none" =>
       LET align == builder.alignment IN
       /\ arena.err \in {"SizeOverflow", "InvalidAlignment", "NullPointer", "ZeroUsableSlots",
                         "SlotSizeExceedsBacking", "panic", "hang", "dropped"}
       /\ arena.err = "SizeOverflow" =>
            IF builder.of = "buddy" THEN geometry.total_size = Pow2(Bits - 1)
            ELSE builder.count * (((builder.capacity + align - 1) \div align) * align)
                   + align - 1 > IsizeMax
       /\ arena.err = "InvalidAlignment" => align \notin PowersOfTwo
       /\ arena.err = "NullPointer" => region.base = 0
       /\ arena.err = "ZeroUsableSlots" =>
            \/ asked.by = "Count" /\ asked.n * align > region.len
            \/ asked.by = "Size" /\ asked.n < align
            \/ asked.by = "MinAlloc" /\ asked.n > region.len
       /\ arena.err = "SlotSizeExceedsBacking" => asked.n > region.len
       /\ arena.err \in {"panic", "hang"} => asked.n > Pow2(Bits - 1)

(* "Once built, the geometry is guaranteed valid for arena construction"   *)
(* (geometry.rs:8): build_raw makes an arena of every geometry there is.   *)
GeometriesBuild ==
  builder.of = "buddy" /\ stage = "failed" => arena.err = "dropped"

(* A request that the arena can hold is given the smallest block that      *)
(* holds it, and one that is larger no block at all.  Up to half of the    *)
(* address space the larger one is refused, and nobody waits for what can  *)
(* never be; above, next_power_of_two overflows, and see TooLargeFailsFast.*)
RequestsFit ==
  reply.by # "none" =>
    IF reply.len <= arena.usable
    THEN /\ reply.order \in 0 .. arena.max_order
         /\ reply.capacity >= reply.len
         /\ reply.order > 0 => arena.min_block_size * Pow2(reply.order - 1) < reply.len
         /\ arena.cap_capacity => reply.capacity = reply.len
    ELSE /\ reply.capacity = None
         /\ reply.len <= Pow2(Bits - 1) => reply.order = None /\ reply.by \notin {"wait", "panic"}

(* allocate_async returns RequestTooLarge "immediately when `len` exceeds  *)
(* the arena's total capacity" (async_alloc.rs:713): it does not wait then.*)
TooLargeFailsFast == reply.by = "wait" => reply.len <= arena.usable
=============================================================================
