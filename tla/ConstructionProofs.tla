------------------------- MODULE ConstructionProofs -------------------------
(***************************************************************************)
(* Proofs about Construction, for every width of usize and every set of    *)
(* sizes, alignments, page sizes and addresses: the inductive invariant    *)
(* BuildInv, one lemma for each step, and the properties that follow.      *)
(***************************************************************************)
EXTENDS Construction, SizesProofs

-----------------------------------------------------------------------------
(* The inductive invariant. *)

Stages == {"start", "geometry", "builder", "unfaulted", "ready", "failed", "hung", "dropped"}

PageSizes == {None} \cup 1 .. UsizeMax

NoBuilder == [of |-> "none"]

FixedBuilders ==
  [of : {"fixed"}, page : PageSizes, alignment : Nat, dealloc : {"HeapDealloc"},
   count : Nat \ {0}, capacity : Nat \ {0}]

BuddyBuilders ==
  [of : {"buddy"}, page : PageSizes, alignment : PowersOfTwo, dealloc : {"HeapDealloc"}]

RawBuilders ==
  [of : {"rawFixed", "rawBuddy"}, page : {None}, alignment : Nat,
   dealloc : {"NoDealloc", "Custom"}]

Regions == [base : Nat, len : 0 .. IsizeMax]

Questions ==
  [by : {"exact", "nearest"}, total : 1 .. UsizeMax, min : 1 .. UsizeMax, alignments : SUBSET Nat]

Wishes == [by : {"Count", "Size", "MinAlloc"}, n : 1 .. UsizeMax]

(* A geometry: 2 ^ k blocks of 2 ^ i bytes, aligned to no more than a      *)
(* block.                                                                  *)
IsGeometry(g) ==
  \E i, k \in 0 .. Bits - 1, al \in PowersOfTwo, cap \in BOOLEAN :
    /\ i + k <= Bits - 1
    /\ al <= Pow2(i)
    /\ g = Geometry(Pow2(i + k), Pow2(i), k, al, cap)

(* What is there at each stage. *)
Shape ==
  /\ stage \in Stages
  /\ builder \in {NoBuilder} \cup FixedBuilders \cup BuddyBuilders \cup RawBuilders
  /\ stage \in {"start", "geometry"} => builder = NoBuilder
  /\ stage \notin {"start", "geometry", "failed"} => builder # NoBuilder
  /\ stage = "geometry" => IsGeometry(geometry) /\ asked \in Questions
  /\ builder \in BuddyBuilders => IsGeometry(geometry) /\ builder.alignment = geometry.alignment
  /\ builder \in RawBuilders =>
       /\ region \in Regions /\ asked \in Wishes
       /\ asked.by = "MinAlloc" <=> builder.of = "rawBuddy"
       /\ builder.of = "rawBuddy" => builder.alignment = 1

(* Only nearest rounds, with or without alignments after it. *)
GeometryMade ==
  /\ stage = "geometry" => (geometry.cap_capacity <=> asked.by = "nearest")
  /\ GeometryLeast

(* The box, the calls of the deallocator and whose the memory is. *)
Owned ==
  /\ caller \in BOOLEAN
  /\ boxes = IF Alive THEN 1 ELSE 0
  /\ deallocs = IF stage = "dropped" THEN <<[ptr |-> region.base, len |-> region.len]>>
                ELSE << >>
  /\ builder \in RawBuilders /\ stage \in {"builder", "failed", "hung"} => caller

(* Nothing is written to but by prefault_region. *)
Touched ==
  /\ stage \notin {"ready", "dropped"} => touched = {}
  /\ builder \in RawBuilders => touched = {}
  /\ stage = "ready" =>
       touched \in {{}, prefault_region(arena.ptr, arena.usable, builder.page)}

(* Slots that fit, each as aligned as asked for. *)
SlotsMade ==
  /\ arena.slot_count \in Nat \ {0} /\ arena.slot_capacity \in Nat \ {0}
  /\ arena.usable = arena.slot_count * arena.slot_capacity
  /\ arena.usable <= region.len
  /\ arena.slot_capacity % builder.alignment = 0

(* 2 ^ k blocks of 2 ^ i bytes that fit, each as aligned as asked for. *)
BlocksMade ==
  \E i, k \in 0 .. Bits - 1 :
    /\ i + k <= Bits - 1
    /\ arena.min_block_size = Pow2(i) /\ arena.max_order = k /\ arena.usable = Pow2(i + k)
    /\ Pow2(i + k) <= region.len
    /\ builder.alignment <= Pow2(i)
    /\ arena.cap_capacity \in BOOLEAN

(* The arena fits its memory. *)
ArenaMade ==
  /\ stage \in {"unfaulted", "ready", "dropped"} =>
       /\ region.base \in Nat /\ region.len \in 0 .. IsizeMax
       /\ arena.ptr = region.base /\ arena.dealloc_len = region.len
       /\ builder.alignment \in PowersOfTwo
       /\ \/ arena.of = "fixed" /\ SlotsMade
          \/ arena.of = "buddy" /\ BlocksMade
  /\ CarvedLargest

(* Requests come to an arena that is ready. *)
Answered ==
  /\ stage \notin {"ready", "dropped"} => reply.by = "none"
  /\ RequestsFit

BuildInv ==
  Shape /\ GeometryMade /\ Owned /\ Touched /\ ArenaMade /\ RefusalsJustified /\ Answered

(* What the kind of a builder says of its record.                          *)
LEMMA Kinds ==
  ASSUME NEW b \in {NoBuilder} \cup FixedBuilders \cup BuddyBuilders \cup RawBuilders
  PROVE  /\ b.of = "none" <=> b = NoBuilder
         /\ b.of = "fixed" <=> b \in FixedBuilders
         /\ b.of = "buddy" <=> b \in BuddyBuilders
         /\ b.of \in {"rawFixed", "rawBuddy"} <=> b \in RawBuilders
         /\ b.of \in {"none", "fixed", "buddy", "rawFixed", "rawBuddy"}
PROOF BY DEF NoBuilder, FixedBuilders, BuddyBuilders, RawBuilders

(* A block divides the memory it was snapped to, and is not larger.        *)
LEMMA DividesIs ==
  /\ \A i, k \in 0 .. Bits - 1 : i + k <= Bits - 1 => Divides(Pow2(i + k), Pow2(i))
  /\ \A p, m \in PowersOfTwo : Divides(p, m) => m <= p
<1>1. ASSUME NEW i \in 0 .. Bits - 1, NEW k \in 0 .. Bits - 1, i + k <= Bits - 1
      PROVE  Divides(Pow2(i + k), Pow2(i))
  <2>1. i \in 0 .. Bits /\ k \in 0 .. Bits /\ i + k <= Bits
    BY <1>1, BitsAssumption
  <2>2. Pow2(i + k) = Pow2(i) * Pow2(k)
    BY <2>1, Pow2Product
  <2> QED
    BY <2>1, <2>2 DEF Divides
<1>2. ASSUME NEW p \in PowersOfTwo, NEW m \in PowersOfTwo, Divides(p, m)
      PROVE  m <= p
  <2>1. PICK k \in 0 .. Bits : p = m * Pow2(k)
    BY <1>2 DEF Divides
  <2>2. PICK x \in Nat \ {0} : x = Pow2(k)
    BY Pow2Positive
  <2>3. m \in Nat \ {0}
    BY PowerSize
  <2>4. m * 1 <= m * x
    BY <2>2, <2>3
  <2> QED
    BY <2>1, <2>2, <2>3, <2>4
<1> QED
  BY <1>1, <1>2

(* The fields of a geometry.                                               *)
LEMMA GeometryFields ==
  ASSUME NEW g, IsGeometry(g)
  PROVE  \E i, k \in 0 .. Bits - 1 :
           /\ i + k <= Bits - 1 /\ i + k \in 0 .. Bits - 1
           /\ g.err = None
           /\ g.total_size = Pow2(i + k) /\ g.min_block_size = Pow2(i) /\ g.max_order = k
           /\ g.alignment \in PowersOfTwo /\ g.alignment <= Pow2(i)
           /\ g.cap_capacity \in BOOLEAN
           /\ g = Geometry(Pow2(i + k), Pow2(i), k, g.alignment, g.cap_capacity)
           /\ g.total_size = g.min_block_size * Pow2(k)
<1>1. PICK i \in 0 .. Bits - 1, k \in 0 .. Bits - 1, al \in PowersOfTwo, cap \in BOOLEAN :
        i + k <= Bits - 1 /\ al <= Pow2(i) /\ g = Geometry(Pow2(i + k), Pow2(i), k, al, cap)
  BY DEF IsGeometry
<1>2. i + k \in 0 .. Bits - 1 /\ i \in 0 .. Bits /\ k \in 0 .. Bits /\ i + k <= Bits
  BY <1>1, BitsAssumption
<1>3. Pow2(i + k) = Pow2(i) * Pow2(k)
  BY <1>2, Pow2Product
<1>4. /\ g.err = None /\ g.total_size = Pow2(i + k) /\ g.min_block_size = Pow2(i)
      /\ g.max_order = k /\ g.alignment = al /\ g.cap_capacity = cap
  BY <1>1 DEF Geometry
<1> QED
  BY <1>1, <1>2, <1>3, <1>4

-----------------------------------------------------------------------------
(* BuddyGeometry *)

(* A step that only makes or refuses a geometry.                           *)
LEMMA HaveStep ==
  ASSUME BuildInv, stage \in {"start", "geometry"},
         stage' \in {"geometry", "failed"},
         UNCHANGED <<builder, arena, backing, reply>>,
         asked' \in Questions,
         stage' = "geometry" => IsGeometry(geometry'),
         GeometryMade', RefusalsJustified'
  PROVE  BuildInv'
<1>1. /\ builder = NoBuilder /\ builder' = builder /\ arena' = arena /\ region' = region
      /\ caller' = caller /\ touched' = touched /\ deallocs' = deallocs /\ boxes' = boxes
      /\ reply' = reply
  BY DEF BuildInv, Shape, backing
<1>2. NoBuilder \notin FixedBuilders \cup BuddyBuilders \cup RawBuilders /\ NoBuilder.of = "none"
  BY DEF NoBuilder, FixedBuilders, BuddyBuilders, RawBuilders
<1>3. Shape'
  BY <1>1, <1>2 DEF BuildInv, Shape, Stages
<1>4. Owned'
  BY <1>1, <1>2 DEF BuildInv, Owned, Alive
<1>5. Touched'
  BY <1>1, <1>2 DEF BuildInv, Touched
<1>6. ArenaMade'
  BY <1>1 DEF ArenaMade, CarvedLargest, Alive
<1>7. Answered'
  BY <1>1 DEF BuildInv, Answered, RequestsFit
<1> QED
  BY <1>3, <1>4, <1>5, <1>6, <1>7 DEF BuildInv

(* BuddyGeometry::exact, which takes the sizes as they are or refuses.     *)
LEMMA StepExact ==
  ASSUME BuildInv, NEW total \in Lengths \ {0}, NEW min \in Lengths \ {0}, Exact(total, min)
  PROVE  BuildInv'
<1>1. /\ stage = "start"
      /\ asked' = [by |-> "exact", total |-> total, min |-> min, alignments |-> {1}]
      /\ geometry' = exact(total, min)
      /\ stage' = IF geometry'.err = None THEN "geometry" ELSE "failed"
      /\ UNCHANGED <<builder, arena, backing, reply>>
  BY DEF Exact, Have
<1>2. total \in Nat \ {0} /\ min \in Nat \ {0} /\ total <= UsizeMax /\ min <= UsizeMax /\ UsizeMax \in Nat
  BY LengthsAssumption, PowersAre
<1>3. /\ asked' \in Questions
      /\ asked'.by = "exact" /\ asked'.total = total /\ asked'.min = min /\ asked'.alignments = {1}
  BY <1>1, <1>2 DEF Questions
<1> DEFINE valid == /\ min \in PowersOfTwo /\ total >= min /\ total % min = 0
                    /\ total \div min \in PowersOfTwo
<1>4. CASE valid
  <2>1. PICK i \in 0 .. Bits - 1, k \in 0 .. Bits - 1 : min = Pow2(i) /\ total \div min = Pow2(k)
    BY <1>4, PowerSize
  <2>2. total = Pow2(k) * Pow2(i)
    <3>1. total = ((total \div min) * min) + (total % min) /\ total \div min \in Nat
      BY <1>2
    <3>2. (total \div min) * min \in Nat
      BY <1>2, <3>1
    <3> QED
      BY <1>2, <1>4, <2>1, <3>1, <3>2
  <2>3. i + k <= Bits - 1 /\ i + k \in 0 .. Bits - 1 /\ Pow2(i + k) = Pow2(k) * Pow2(i)
    BY <1>2, <2>1, <2>2, ProductFits
  <2>4. geometry' = Geometry(Pow2(i + k), Pow2(i), k, 1, FALSE)
    BY <1>1, <1>4, <2>1, <2>2, <2>3, TrailingZerosIs, Zenon DEF exact
  <2>5. 1 \in PowersOfTwo /\ 1 <= Pow2(i) /\ Pow2(i) \in PowersOfTwo /\ Pow2(i + k) \in PowersOfTwo
    <3>1. 0 \in 0 .. Bits - 1 /\ Pow2(0) = 1
      BY BitsAssumption, Pow2Recursion
    <3> QED
      BY <2>3, <3>1, Pow2Size
  <2>6. IsGeometry(geometry')
    BY <2>3, <2>4, <2>5, Zenon DEF IsGeometry
  <2>7. /\ geometry'.err = None /\ geometry'.total_size = total /\ geometry'.min_block_size = min
        /\ geometry'.max_order = k /\ geometry'.cap_capacity = FALSE
    BY <2>1, <2>2, <2>3, <2>4 DEF Geometry
  <2>8. stage' = "geometry"
    BY <1>1, <2>7
  <2>9. total = min * Pow2(k)
    BY <1>2, <2>1, <2>2, Pow2Size
  <2>10. [total |-> total, min |-> min] \in Fitting'
    <3>1. Divides(total, min)
      BY <2>1, <2>2, <2>3, DividesIs
    <3>2. total \in PowersOfTwo /\ min \in PowersOfTwo /\ min >= 1
      BY <1>2, <2>1, <2>2, <2>3, <2>5
    <3> QED
      BY <1>2, <1>3, <3>1, <3>2 DEF Fitting
  <2>11. GeometryMade'
    <3>1. \A g \in Fitting' : total <= g.total /\ min <= g.min
      BY <1>2, <1>3 DEF Fitting
    <3> QED
      BY <1>3, <2>7, <2>8, <2>9, <2>10, <3>1 DEF GeometryMade, GeometryLeast
  <2>12. RefusalsJustified'
    BY <2>8 DEF RefusalsJustified
  <2> QED
    BY <1>1, <1>3, <2>6, <2>8, <2>11, <2>12, HaveStep
<1>5. CASE ~ valid
  <2>1. geometry' = Err("InvalidGeometry") /\ geometry'.err = "InvalidGeometry"
    BY <1>1, <1>5, Zenon DEF exact, Err
  <2>2. stage' = "failed"
    BY <1>1, <2>1, ErrorsAssumption DEF Errors
  <2>3. min \notin PowersOfTwo \/ ~ Divides(total, min)
    <3>1. SUFFICES ASSUME min \in PowersOfTwo, Divides(total, min) PROVE valid
      BY <1>5
    <3>2. PICK k \in 0 .. Bits : total = min * Pow2(k)
      BY <3>1 DEF Divides
    <3>3. PICK x \in Nat \ {0} : x = Pow2(k)
      BY Pow2Positive
    <3>4. total = x * min /\ total >= min /\ total >= x
      <4>1. x * min = min * x /\ min * 1 <= min * x /\ 1 * x <= min * x
        BY <1>2, <3>3
      <4> QED
        BY <1>2, <3>2, <3>3, <4>1
    <3>5. (x * min) % min = 0 /\ (x * min) \div min = x
      BY <1>2, <3>3, MulDiv
    <3>6. k \in 0 .. Bits - 1
      <4>1. k # Bits
        BY <1>2, <3>3, <3>4 DEF UsizeMax
      <4> QED
        BY <4>1, BitsAssumption
    <3>7. x \in PowersOfTwo
      BY <3>3, <3>6, Pow2Size
    <3> QED
      BY <3>1, <3>4, <3>5, <3>7
  <2>4. GeometryMade'
    BY <2>2 DEF GeometryMade, GeometryLeast
  <2>5. RefusalsJustified'
    <3>1. builder'.of = "none"
      BY <1>1 DEF BuildInv, Shape, NoBuilder
    <3> QED
      BY <1>3, <2>1, <2>2, <2>3, <3>1 DEF RefusalsJustified
  <2> QED
    BY <1>1, <1>3, <2>2, <2>4, <2>5, HaveStep
<1> QED
  BY <1>4, <1>5

(* A geometry that was snapped to is the least there is, for a hint and a   *)
(* block that nothing that fits is below.                                  *)
LEMMA SnapStep ==
  ASSUME BuildInv, stage \in {"start", "geometry"},
         NEW hint \in Nat, NEW i \in 0 .. Bits - 1,
         NEW al \in PowersOfTwo, al <= Pow2(i),
         geometry' = snap_to_valid_geometry(hint, Pow2(i), al),
         stage' = IF geometry'.err = None THEN "geometry" ELSE "failed",
         UNCHANGED <<builder, arena, backing, reply>>,
         asked' \in Questions, asked'.by = "nearest",
         asked'.total <= hint, asked'.min <= Pow2(i),
         \A a \in asked'.alignments : a <= Pow2(i),
         \A g \in Fitting' : hint <= g.total /\ Pow2(i) <= g.min
  PROVE  BuildInv'
<1>1. PICK t \in Nat : t = Raised(hint, i) /\ t = IF hint < Pow2(i) THEN Pow2(i) ELSE hint
  BY Pow2Size DEF Raised
<1>2. Pow2(i) \in PowersOfTwo /\ Pow2(i) \in Nat \ {0} /\ i \in Nat /\ Bits \in Nat /\ Pow2(Bits - 1) \in Nat
  BY Pow2Size, PowersAre, BitsAssumption
<1>3. \A g \in Fitting' : g.total \in PowersOfTwo /\ g.min \in PowersOfTwo /\ Divides(g.total, g.min)
  BY DEF Fitting
<1>4. ASSUME NEW g \in Fitting'
      PROVE  t <= g.total /\ Pow2(i) <= g.min /\ g.total \in PowersOfTwo /\ g.total \in Nat
  <2>1. g.total \in PowersOfTwo /\ g.min \in PowersOfTwo /\ g.min <= g.total
    BY <1>3, DividesIs
  <2>2. g.total \in Nat /\ g.min \in Nat
    BY <2>1, PowerSize
  <2>3. hint <= g.total /\ Pow2(i) <= g.min
    OBVIOUS
  <2> QED
    BY <1>1, <1>2, <2>1, <2>2, <2>3
<1>5. CASE t > Pow2(Bits - 1)
  <2>1. geometry' = Err("SizeOverflow") /\ geometry'.err = "SizeOverflow" /\ geometry'.err # None
    BY <1>1, <1>5, SnapIs, ErrorIsSome, Zenon DEF Errors
  <2>2. stage' = "failed"
    BY <2>1
  <2>3. Fitting' = {}
    <3>1. ASSUME NEW g \in Fitting' PROVE FALSE
      <4>1. g.total <= Pow2(Bits - 1)
        BY <1>4, PowerSize
      <4> QED
        BY <1>2, <1>4, <1>5, <4>1
    <3> QED
      BY <3>1
  <2>4. GeometryMade'
    BY <2>2 DEF GeometryMade, GeometryLeast
  <2>5. RefusalsJustified'
    <3>1. builder'.of = "none"
      BY DEF BuildInv, Shape, NoBuilder
    <3> QED
      BY <2>1, <2>2, <2>3, <3>1 DEF RefusalsJustified
  <2> QED
    BY <2>2, <2>4, <2>5, HaveStep
<1>6. CASE t <= Pow2(Bits - 1)
  <2>1. PICK a \in i .. Bits - 1 :
          Pow2(a) = NextPowerOfTwo(t) /\ geometry' = Geometry(Pow2(a), Pow2(i), a - i, al, TRUE)
    <3>1. Raised(hint, i) <= Pow2(Bits - 1) =>
            \E a \in i .. Bits - 1 :
              /\ Pow2(a) = NextPowerOfTwo(Raised(hint, i))
              /\ snap_to_valid_geometry(hint, Pow2(i), al) =
                   Geometry(Pow2(a), Pow2(i), a - i, al, TRUE)
      BY SnapIs, ZenonT(60)
    <3> QED
      BY <1>1, <1>6, <3>1, Zenon
  <2>2. PICK k \in 0 .. Bits - 1 : k = a - i /\ i + k = a /\ i + k <= Bits - 1
    BY <1>2
  <2>3. geometry' = Geometry(Pow2(i + k), Pow2(i), k, al, TRUE)
    BY <2>1, <2>2
  <2>4. IsGeometry(geometry')
    BY <2>2, <2>3, Zenon DEF IsGeometry
  <2>5. /\ geometry'.err = None /\ geometry'.total_size = Pow2(a) /\ geometry'.min_block_size = Pow2(i)
        /\ geometry'.max_order = k /\ geometry'.cap_capacity = TRUE
    BY <2>2, <2>3 DEF Geometry
  <2>6. stage' = "geometry"
    BY <2>5
  <2>7. a \in 0 .. Bits - 1 /\ Pow2(a) \in PowersOfTwo /\ Pow2(a) \in Nat
    BY <1>2, Pow2Size
  <2>8. t <= Pow2(a) /\ \A q \in PowersOfTwo : t <= q => Pow2(a) <= q
    BY <1>6, <2>1, NextPowerIs
  <2>9. Pow2(a) = Pow2(i) * Pow2(k)
    <3>1. i \in 0 .. Bits /\ k \in 0 .. Bits /\ i + k <= Bits
      BY <1>2, <2>2
    <3> QED
      BY <2>2, <3>1, Pow2Product
  <2>10. [total |-> Pow2(a), min |-> Pow2(i)] \in Fitting'
    <3>1. Divides(Pow2(a), Pow2(i))
      BY <2>2, DividesIs
    <3>2. asked'.total \in Nat /\ asked'.min \in Nat /\ asked'.alignments \subseteq Nat
      BY PowersAre DEF Questions
    <3>3. Pow2(a) >= asked'.total
      BY <1>1, <1>2, <2>7, <2>8, <3>2
    <3>4. Pow2(i) >= asked'.min /\ \A b \in asked'.alignments : Pow2(i) >= b
      BY <1>2, <3>2
    <3> QED
      BY <1>2, <2>7, <3>1, <3>3, <3>4 DEF Fitting
  <2>11. \A g \in Fitting' : Pow2(a) <= g.total /\ Pow2(i) <= g.min
    BY <1>4, <2>8
  <2>12. GeometryMade'
    BY <2>5, <2>6, <2>9, <2>10, <2>11 DEF GeometryMade, GeometryLeast
  <2>13. RefusalsJustified'
    BY <2>6 DEF RefusalsJustified
  <2> QED
    BY <2>4, <2>6, <2>12, <2>13, HaveStep
<1> QED
  BY <1>1, <1>2, <1>5, <1>6

(* BuddyGeometry::nearest, which rounds both sizes up.                     *)
LEMMA StepNearest ==
  ASSUME BuildInv, NEW total \in Lengths \ {0}, NEW min \in Lengths \ {0}, Nearest(total, min)
  PROVE  BuildInv'
<1>1. /\ stage = "start"
      /\ asked' = [by |-> "nearest", total |-> total, min |-> min, alignments |-> {1}]
      /\ geometry' = nearest(total, min)
      /\ stage' = IF geometry'.err = None THEN "geometry" ELSE "failed"
      /\ UNCHANGED <<builder, arena, backing, reply>>
  BY DEF Nearest, Have
<1>2. total \in Nat \ {0} /\ min \in Nat \ {0} /\ total <= UsizeMax /\ min <= UsizeMax
      /\ UsizeMax \in Nat /\ Pow2(Bits - 1) \in Nat
  BY LengthsAssumption, PowersAre
<1>3. /\ asked' \in Questions
      /\ asked'.by = "nearest" /\ asked'.total = total /\ asked'.min = min /\ asked'.alignments = {1}
  BY <1>1, <1>2 DEF Questions
<1>4. \A g \in Fitting' : /\ g.total \in PowersOfTwo /\ g.min \in PowersOfTwo
                          /\ g.total >= total /\ g.min >= min
  BY <1>3 DEF Fitting
<1>5. CASE min > Pow2(Bits - 1)
  <2>1. geometry' = Err("SizeOverflow")
    BY <1>1, <1>2, <1>5, NextPowerIs DEF nearest
  <2>2. geometry'.err = "SizeOverflow" /\ geometry'.err # None
    BY <2>1, ErrorIsSome DEF Errors
  <2>3. stage' = "failed"
    BY <1>1, <2>2
  <2>4. Fitting' = {}
    <3>1. ASSUME NEW g \in Fitting' PROVE FALSE
      <4>1. g.min \in Nat /\ g.min <= Pow2(Bits - 1) /\ g.min >= min
        BY <1>4, PowerSize
      <4> QED
        BY <1>2, <1>5, <4>1
    <3> QED
      BY <3>1
  <2>5. GeometryMade'
    BY <2>3 DEF GeometryMade, GeometryLeast
  <2>6. RefusalsJustified'
    <3>1. builder'.of = "none"
      BY <1>1 DEF BuildInv, Shape, NoBuilder
    <3> QED
      BY <2>2, <2>3, <2>4, <3>1 DEF RefusalsJustified
  <2> QED
    BY <1>1, <1>3, <2>3, <2>5, <2>6, HaveStep
<1>6. CASE min <= Pow2(Bits - 1)
  <2>1. /\ NextPowerOfTwo(min) \in PowersOfTwo /\ min <= NextPowerOfTwo(min)
        /\ \A q \in PowersOfTwo : min <= q => NextPowerOfTwo(min) <= q
    BY <1>2, <1>6, NextPowerIs
  <2>2. PICK i \in 0 .. Bits - 1 : NextPowerOfTwo(min) = Pow2(i)
    BY <2>1, PowerSize
  <2>3. Pow2(i) \in Nat \ {0}
    BY Pow2Size
  <2>4. geometry' = snap_to_valid_geometry(total, Pow2(i), 1)
    BY <1>1, <2>2, <2>3 DEF nearest
  <2>5. 1 \in PowersOfTwo /\ 1 <= Pow2(i)
    <3>1. 0 \in 0 .. Bits - 1 /\ Pow2(0) = 1
      BY BitsAssumption, Pow2Recursion
    <3> QED
      BY <2>3, <3>1, Pow2Size
  <2>6. \A g \in Fitting' : total <= g.total /\ Pow2(i) <= g.min
    <3>1. ASSUME NEW g \in Fitting' PROVE total <= g.total /\ Pow2(i) <= g.min
      <4>1. g.total \in Nat /\ g.min \in Nat /\ g.total >= total /\ g.min >= min /\ g.min \in PowersOfTwo
        BY <1>4, PowerSize
      <4> QED
        BY <1>2, <2>1, <2>2, <4>1
    <3> QED
      BY <3>1
  <2>7. asked'.total <= total /\ asked'.min <= Pow2(i) /\ \A a \in asked'.alignments : a <= Pow2(i)
    BY <1>2, <1>3, <2>1, <2>2, <2>5
  <2>8. stage \in {"start", "geometry"} /\ total \in Nat
    BY <1>1, <1>2
  <2> QED
    BY <1>1, <1>3, <2>4, <2>5, <2>6, <2>7, <2>8, SnapStep, Zenon
<1> QED
  BY <1>2, <1>5, <1>6

(* with_alignment, which may raise the smallest block.                     *)
LEMMA StepWithAlignment ==
  ASSUME BuildInv, NEW a \in Alignments \ {0}, WithAlignment(a)
  PROVE  BuildInv'
<1>1. /\ stage = "geometry"
      /\ asked' = [asked EXCEPT !.alignments = @ \cup {a}]
      /\ geometry' = with_alignment(geometry, a)
      /\ stage' = IF geometry'.err = None THEN "geometry" ELSE "failed"
      /\ UNCHANGED <<builder, arena, backing, reply>>
  BY DEF WithAlignment, Have
<1>2. a \in Nat \ {0}
  BY LengthsAssumption, PowersAre
<1>3. asked \in Questions /\ IsGeometry(geometry) /\ builder.of = "none"
  BY <1>1 DEF BuildInv, Shape, NoBuilder
<1>4. /\ asked' \in Questions
      /\ asked'.by = asked.by /\ asked'.total = asked.total /\ asked'.min = asked.min
      /\ asked'.alignments = asked.alignments \cup {a}
  BY <1>1, <1>2, <1>3 DEF Questions
<1>5. PICK i \in 0 .. Bits - 1, k \in 0 .. Bits - 1 :
        /\ i + k <= Bits - 1 /\ i + k \in 0 .. Bits - 1
        /\ geometry.err = None
        /\ geometry.total_size = Pow2(i + k) /\ geometry.min_block_size = Pow2(i)
        /\ geometry.max_order = k
        /\ geometry.alignment \in PowersOfTwo /\ geometry.alignment <= Pow2(i)
        /\ geometry.cap_capacity \in BOOLEAN
        /\ geometry = Geometry(Pow2(i + k), Pow2(i), k, geometry.alignment, geometry.cap_capacity)
        /\ geometry.total_size = geometry.min_block_size * Pow2(k)
  BY <1>3, GeometryFields
<1>6. /\ geometry.cap_capacity <=> asked.by = "nearest"
      /\ [total |-> geometry.total_size, min |-> geometry.min_block_size] \in Fitting
      /\ \A g \in Fitting : geometry.total_size <= g.total /\ geometry.min_block_size <= g.min
      /\ asked.by = "exact" =>
           geometry.total_size = asked.total /\ geometry.min_block_size = asked.min
  BY <1>1 DEF BuildInv, GeometryMade, GeometryLeast
<1>7. Fitting' = {g \in Fitting : g.min >= a}
  BY <1>4 DEF Fitting
<1>8. PICK m \in Nat \ {0}, h \in Nat \ {0} :
        m = geometry.min_block_size /\ h = geometry.total_size /\ m = Pow2(i) /\ h = Pow2(i + k)
  BY <1>5, Pow2Size
<1>9. /\ asked.total \in Nat /\ asked.min \in Nat /\ asked.alignments \subseteq Nat
      /\ asked.by \in {"exact", "nearest"}
  BY <1>3, PowersAre DEF Questions
<1>10. h >= asked.total /\ m >= asked.min /\ \A b \in asked.alignments : m >= b
  BY <1>6, <1>8 DEF Fitting
<1>11. builder'.of = "none" /\ stage \in {"start", "geometry"}
  BY <1>1, <1>3
<1>12. CASE a \notin PowersOfTwo
  <2>1. geometry' = Err("InvalidAlignment")
    BY <1>1, <1>12 DEF with_alignment
  <2>2. geometry'.err = "InvalidAlignment" /\ geometry'.err # None
    BY <2>1, ErrorIsSome DEF Errors
  <2>3. stage' = "failed"
    BY <1>1, <2>2
  <2>4. GeometryMade'
    BY <2>3 DEF GeometryMade, GeometryLeast
  <2>5. RefusalsJustified'
    BY <1>4, <1>11, <1>12, <2>2, <2>3 DEF RefusalsJustified
  <2> QED
    BY <1>1, <1>4, <1>11, <2>3, <2>4, <2>5, HaveStep
<1>13. CASE a \in PowersOfTwo /\ a <= m
  <2>1. geometry' = [geometry EXCEPT !.alignment = a]
    BY <1>1, <1>8, <1>13 DEF with_alignment
  <2>2. geometry' = Geometry(Pow2(i + k), Pow2(i), k, a, geometry.cap_capacity)
    <3>1. PICK al, cap : geometry = Geometry(Pow2(i + k), Pow2(i), k, al, cap) /\ cap = geometry.cap_capacity
      BY <1>5
    <3> QED
      BY <2>1, <3>1 DEF Geometry
  <2>3. IsGeometry(geometry')
    BY <1>5, <1>8, <1>13, <2>2 DEF IsGeometry
  <2>4. /\ geometry'.err = None /\ geometry'.total_size = h /\ geometry'.min_block_size = m
        /\ geometry'.max_order = k /\ geometry'.cap_capacity = geometry.cap_capacity
    BY <1>8, <2>2 DEF Geometry
  <2>5. stage' = "geometry"
    BY <1>1, <2>4
  <2>6. Fitting' = Fitting
    <3>1. ASSUME NEW g \in Fitting PROVE g.min >= a
      <4>1. g.min \in PowersOfTwo /\ m <= g.min
        BY <1>6, <1>8 DEF Fitting
      <4>2. g.min \in Nat
        BY <4>1, PowerSize
      <4> QED
        BY <1>2, <1>13, <4>1, <4>2
    <3> QED
      BY <1>7, <3>1
  <2>7. GeometryMade'
    BY <1>4, <1>5, <1>6, <1>8, <2>4, <2>5, <2>6 DEF GeometryMade, GeometryLeast
  <2>8. RefusalsJustified'
    BY <2>5 DEF RefusalsJustified
  <2> QED
    BY <1>1, <1>4, <1>11, <2>3, <2>5, <2>7, <2>8, HaveStep
<1>14. CASE a \in PowersOfTwo /\ a > m /\ ~ geometry.cap_capacity
  <2>1. geometry' = Err("InvalidGeometry")
    BY <1>1, <1>2, <1>8, <1>14 DEF with_alignment
  <2>2. geometry'.err = "InvalidGeometry" /\ geometry'.err # None
    BY <2>1, ErrorIsSome DEF Errors
  <2>3. stage' = "failed"
    BY <1>1, <2>2
  <2>4. GeometryMade'
    BY <2>3 DEF GeometryMade, GeometryLeast
  <2>5. a > asked'.min /\ a \in asked'.alignments
    BY <1>4, <1>6, <1>8, <1>9, <1>14
  <2>6. RefusalsJustified'
    BY <1>11, <2>2, <2>3, <2>5 DEF RefusalsJustified
  <2> QED
    BY <1>1, <1>4, <1>11, <2>3, <2>4, <2>6, HaveStep
<1>15. CASE a \in PowersOfTwo /\ a > m /\ geometry.cap_capacity
  <2>1. PICK j \in 0 .. Bits - 1 : a = Pow2(j)
    BY <1>15, PowerSize
  <2>2. geometry' = snap_to_valid_geometry(h, Pow2(j), a)
    BY <1>1, <1>2, <1>8, <1>15, <2>1 DEF with_alignment
  <2>3. \A g \in Fitting' : h <= g.total /\ Pow2(j) <= g.min
    <3>1. ASSUME NEW g \in Fitting' PROVE h <= g.total /\ Pow2(j) <= g.min
      <4>1. g \in Fitting /\ g.min >= a /\ g.min \in PowersOfTwo
        BY <1>7 DEF Fitting
      <4>2. g.min \in Nat
        BY <4>1, PowerSize
      <4> QED
        BY <1>2, <1>6, <1>8, <2>1, <4>1, <4>2
    <3> QED
      BY <3>1
  <2>4. /\ asked'.total <= h /\ asked'.min <= Pow2(j)
        /\ \A b \in asked'.alignments : b <= Pow2(j)
    BY <1>2, <1>4, <1>8, <1>9, <1>10, <1>15, <2>1
  <2>5. asked'.by = "nearest" /\ a <= Pow2(j) /\ a \in PowersOfTwo /\ h \in Nat
    BY <1>2, <1>4, <1>6, <1>15, <2>1
  <2> QED
    BY <1>1, <1>4, <1>11, <2>2, <2>3, <2>4, <2>5, SnapStep, Zenon
<1> QED
  BY <1>2, <1>5, <1>8, <1>12, <1>13, <1>14, <1>15

-----------------------------------------------------------------------------
(* The builders *)

(* A step to a builder, or of one, leaves all but the builder and what it   *)
(* was given.                                                              *)
LEMMA BuilderStep ==
  ASSUME BuildInv, stage \in {"start", "geometry", "builder"}, stage' = "builder",
         UNCHANGED <<arena, touched, deallocs, boxes, reply>>,
         builder' \in FixedBuilders \cup BuddyBuilders \cup RawBuilders,
         builder' \in BuddyBuilders =>
           IsGeometry(geometry') /\ builder'.alignment = geometry'.alignment,
         builder' \in RawBuilders =>
           /\ region' \in Regions /\ asked' \in Wishes
           /\ asked'.by = "MinAlloc" <=> builder'.of = "rawBuddy"
           /\ builder'.of = "rawBuddy" => builder'.alignment = 1
           /\ caller',
         caller' \in BOOLEAN
  PROVE  BuildInv'
<1>1. NoBuilder \notin FixedBuilders \cup BuddyBuilders \cup RawBuilders
  BY DEF NoBuilder, FixedBuilders, BuddyBuilders, RawBuilders
<1>2. Shape'
  BY <1>1, Zenon DEF Shape, Stages
<1>3. GeometryMade' /\ ArenaMade' /\ RefusalsJustified'
  BY DEF GeometryMade, GeometryLeast, ArenaMade, CarvedLargest, RefusalsJustified, Alive
<1>4. Owned'
  BY DEF BuildInv, Owned, Alive
<1>5. Touched'
  BY DEF BuildInv, Touched
<1>6. Answered'
  BY DEF BuildInv, Answered, RequestsFit
<1> QED
  BY <1>2, <1>3, <1>4, <1>5, <1>6 DEF BuildInv

(* BuddyArena::builder.                                                    *)
LEMMA StepNewBuddy ==
  ASSUME BuildInv, NewBuddy
  PROVE  BuildInv'
<1>1. /\ stage = "geometry" /\ stage' = "builder"
      /\ builder' = [of |-> "buddy", page |-> AutoPage, alignment |-> geometry.alignment,
                     dealloc |-> "HeapDealloc"]
      /\ UNCHANGED <<arena, touched, deallocs, boxes, reply>>
      /\ geometry' = geometry /\ caller' = caller
  BY DEF NewBuddy, Builder
<1>2. IsGeometry(geometry) /\ geometry.alignment \in PowersOfTwo /\ caller \in BOOLEAN
  BY <1>1, GeometryFields DEF BuildInv, Shape, Owned
<1>3. builder' \in BuddyBuilders /\ builder'.alignment = geometry'.alignment
  BY <1>1, <1>2, PagesAssumption DEF BuddyBuilders, PageSizes
<1>4. builder' \notin RawBuilders
  BY <1>1 DEF RawBuilders
<1> QED
  BY <1>1, <1>2, <1>3, <1>4, BuilderStep

(* The builders of fixed arenas.                                           *)
LEMMA StepNewFixed ==
  ASSUME BuildInv, NEW count \in Nat \ {0}, NEW capacity \in Nat \ {0}, NewFixed(count, capacity)
  PROVE  BuildInv'
<1>1. /\ stage = "start" /\ stage' = "builder"
      /\ builder' = [of |-> "fixed", page |-> AutoPage, alignment |-> 1,
                     dealloc |-> "HeapDealloc", count |-> count, capacity |-> capacity]
      /\ UNCHANGED <<arena, touched, deallocs, boxes, reply>>
      /\ caller' = caller
  BY DEF NewFixed, Builder
<1>2. caller \in BOOLEAN
  BY DEF BuildInv, Owned
<1>3. builder' \in FixedBuilders
  BY <1>1, PagesAssumption DEF FixedBuilders, PageSizes
<1>4. builder' \notin RawBuilders /\ builder' \notin BuddyBuilders
  BY <1>1 DEF RawBuilders, BuddyBuilders
<1> QED
  BY <1>1, <1>2, <1>3, <1>4, BuilderStep

(* FixedArena::with_slot_capacity and with_arena_capacity.                 *)
LEMMA StepArenaCapacity ==
  ASSUME BuildInv, NEW n \in Lengths \ {0}, NEW m \in Lengths \ {0},
         with_slot_capacity(n, m) \/ with_arena_capacity(n, m)
  PROVE  BuildInv'
<1>1. n \in Nat \ {0} /\ m \in Nat \ {0}
  BY LengthsAssumption, PowersAre
<1>2. (m + n - 1) \div n \in Nat \ {0}
  <2>1. PICK x \in Nat : x = m + n - 1 /\ x >= n
    BY <1>1
  <2>2. x \div n \in Nat /\ x % n \in 0 .. n - 1 /\ x = ((x \div n) * n) + (x % n)
    BY <1>1, DivMod, Zenon
  <2>3. x \div n # 0
    <3>1. ASSUME x \div n = 0 PROVE FALSE
      <4>1. (x \div n) * n = 0
        BY <1>1, <3>1
      <4> QED
        BY <1>1, <2>1, <2>2, <4>1
    <3> QED
      BY <3>1
  <2> QED
    BY <2>1, <2>2, <2>3
<1>3. CASE with_slot_capacity(n, m)
  BY <1>1, <1>3, StepNewFixed DEF with_slot_capacity
<1>4. CASE with_arena_capacity(n, m)
  BY <1>1, <1>2, <1>4, StepNewFixed DEF with_arena_capacity
<1> QED
  BY <1>3, <1>4

(* The builders over memory of the caller's.                               *)
LEMMA StepFromRaw ==
  ASSUME BuildInv, NEW of \in {"rawFixed", "rawBuddy"}, NEW ptr \in Nat, NEW len \in Nat,
         NEW wish \in Wishes, wish.by = "MinAlloc" <=> of = "rawBuddy",
         NEW dealloc \in {"NoDealloc", "Custom"},
         FromRaw(of, ptr, len, wish, dealloc)
  PROVE  BuildInv'
<1>1. /\ stage = "start" /\ stage' = "builder" /\ len <= IsizeMax
      /\ builder' = [of |-> of, page |-> None, alignment |-> 1, dealloc |-> dealloc]
      /\ region' = [base |-> ptr, len |-> len]
      /\ caller' = TRUE /\ asked' = wish
      /\ UNCHANGED <<arena, touched, deallocs, boxes, reply>>
  BY DEF FromRaw, Builder, RawBackedPage
<1>2. builder' \in RawBuilders /\ builder'.of = of /\ builder'.alignment = 1
  BY <1>1 DEF RawBuilders
<1>3. builder' \notin BuddyBuilders
  BY <1>1 DEF BuddyBuilders
<1>4. region' \in Regions
  BY <1>1, PowersAre DEF Regions
<1> QED
  BY <1>1, <1>2, <1>3, <1>4, BuilderStep

(* The alignment of a fixed arena's builder.                               *)
LEMMA StepSetAlignment ==
  ASSUME BuildInv, NEW a \in Alignments, SetAlignment(a)
  PROVE  BuildInv'
<1>1. /\ stage = "builder" /\ builder.of \in {"fixed", "rawFixed"}
      /\ builder' = [builder EXCEPT !.alignment = a]
      /\ UNCHANGED <<stage, geometry, asked, arena, backing, reply>>
  BY DEF SetAlignment
<1>2. a \in Nat
  BY LengthsAssumption, PowersAre
<1>3. builder \in {NoBuilder} \cup FixedBuilders \cup BuddyBuilders \cup RawBuilders
  BY DEF BuildInv, Shape
<1>4. builder \in FixedBuilders \/ (builder \in RawBuilders /\ builder.of = "rawFixed")
  BY <1>1, <1>3, Kinds
<1>5. /\ builder' \in FixedBuilders \/ (builder' \in RawBuilders /\ builder'.of = "rawFixed")
      /\ builder' \in RawBuilders => builder \in RawBuilders /\ builder.of = "rawFixed"
      /\ builder' \notin BuddyBuilders
  <2>1. CASE builder \in FixedBuilders
    <3>1. builder' \in FixedBuilders
      BY <1>1, <1>2, <2>1 DEF FixedBuilders
    <3> QED
      BY <3>1 DEF FixedBuilders, RawBuilders, BuddyBuilders
  <2>2. CASE builder \in RawBuilders /\ builder.of = "rawFixed"
    <3>1. builder' \in RawBuilders /\ builder'.of = "rawFixed"
      BY <1>1, <1>2, <2>2 DEF RawBuilders
    <3> QED
      BY <2>2, <3>1 DEF BuddyBuilders
  <2> QED
    BY <1>4, <2>1, <2>2
<1>6. /\ caller' = caller /\ region' = region /\ asked' = asked /\ stage' = "builder"
      /\ UNCHANGED <<arena, touched, deallocs, boxes, reply>>
  BY <1>1 DEF backing
<1>7. /\ caller \in BOOLEAN
      /\ builder \in RawBuilders => /\ region \in Regions /\ asked \in Wishes
                                    /\ asked.by = "MinAlloc" <=> builder.of = "rawBuddy"
                                    /\ caller
  BY <1>1 DEF BuildInv, Shape, Owned
<1>8. builder' \in RawBuilders =>
        /\ region' \in Regions /\ asked' \in Wishes
        /\ asked'.by = "MinAlloc" <=> builder'.of = "rawBuddy"
        /\ builder'.of = "rawBuddy" => builder'.alignment = 1
        /\ caller'
  BY <1>5, <1>6, <1>7, Kinds DEF FixedBuilders
<1> QED
  BY <1>1, <1>5, <1>6, <1>7, <1>8, BuilderStep

(* The page size of a builder that allocates.                              *)
LEMMA StepSetPageSize ==
  ASSUME BuildInv, NEW p \in Pages, SetPageSize(p)
  PROVE  BuildInv'
<1>1. /\ stage = "builder" /\ builder.of \in {"fixed", "buddy"}
      /\ builder' = [builder EXCEPT !.page = p]
      /\ UNCHANGED <<stage, geometry, asked, arena, backing, reply>>
  BY DEF SetPageSize
<1>2. p \in PageSizes
  BY PagesAssumption DEF PageSizes
<1>3. builder \in {NoBuilder} \cup FixedBuilders \cup BuddyBuilders \cup RawBuilders
  BY DEF BuildInv, Shape
<1>4. builder \in FixedBuilders \/ builder \in BuddyBuilders
  BY <1>1, <1>3, Kinds
<1>5. /\ builder' \in FixedBuilders \/ builder' \in BuddyBuilders
      /\ builder' \notin RawBuilders
      /\ builder' \in BuddyBuilders => builder \in BuddyBuilders /\ builder'.alignment = builder.alignment
  <2>1. CASE builder \in FixedBuilders
    <3>1. builder' \in FixedBuilders
      BY <1>1, <1>2, <2>1 DEF FixedBuilders
    <3> QED
      BY <3>1 DEF FixedBuilders, RawBuilders, BuddyBuilders
  <2>2. CASE builder \in BuddyBuilders
    <3>1. builder' \in BuddyBuilders /\ builder'.alignment = builder.alignment
      BY <1>1, <1>2, <2>2 DEF BuddyBuilders
    <3> QED
      BY <2>2, <3>1 DEF RawBuilders, BuddyBuilders
  <2> QED
    BY <1>4, <2>1, <2>2
<1>6. /\ caller' = caller /\ geometry' = geometry /\ stage' = "builder"
      /\ UNCHANGED <<arena, touched, deallocs, boxes, reply>>
  BY <1>1 DEF backing
<1>7. /\ caller \in BOOLEAN
      /\ builder \in BuddyBuilders => IsGeometry(geometry) /\ builder.alignment = geometry.alignment
  BY DEF BuildInv, Shape, Owned
<1> QED
  BY <1>1, <1>5, <1>6, <1>7, BuilderStep

-----------------------------------------------------------------------------
(* build *)

(* What the build of a fixed arena answers.                                *)
LEMMA FixedIs ==
  ASSUME builder \in FixedBuilders, NEW ptr
  PROVE  \/ /\ BuildFixed(ptr) = Err("InvalidAlignment")
            /\ builder.alignment \notin PowersOfTwo
         \/ /\ BuildFixed(ptr) = Err("SizeOverflow")
            /\ (builder.count * (((builder.capacity + builder.alignment - 1)
                                    \div builder.alignment) * builder.alignment))
                 + builder.alignment - 1 > IsizeMax
         \/ /\ builder.alignment \in PowersOfTwo
            /\ \E cap \in Nat \ {0}, total \in 1 .. IsizeMax :
                 /\ BuildFixed(ptr) = Fixed(ptr, total, Carved(builder.count, cap))
                 /\ total = builder.count * cap
                 /\ cap % builder.alignment = 0
<1>1. PICK n \in Nat \ {0}, v \in Nat \ {0}, a \in Nat :
        n = builder.count /\ v = builder.capacity /\ a = builder.alignment
  BY DEF FixedBuilders
<1>2. CASE a \notin PowersOfTwo
  BY <1>1, <1>2 DEF BuildFixed
<1>3. CASE a \in PowersOfTwo
  <2>1. a \in Nat \ {0} /\ a <= Pow2(Bits - 1)
    BY <1>3, PowerSize
  <2>2. PICK c \in Nat : /\ c = ((v + a - 1) \div a) * a /\ v <= c /\ c % a = 0
                         /\ v + a - 1 <= UsizeMax => align_up(v, a) = c
                         /\ v + a - 1 > UsizeMax => align_up(v, a) = None
    BY <1>1, <2>1, AlignUpIs, Zenon
  <2>3. c \in Nat \ {0}
    BY <1>1, <2>2
  <2>4. PICK t \in Nat : t = n * c /\ c <= t
    <3>1. 1 * c <= n * c /\ n * c \in Nat
      BY <1>1, <2>3
    <3> QED
      BY <2>3, <3>1
  <2>5. PICK h \in Nat : h = Pow2(Bits - 1) /\ IsizeMax = h - 1 /\ UsizeMax = 2 * h - 1 /\ a <= h
    BY <2>1, PowersAre
  <2>6. CASE v + a - 1 > UsizeMax
    <3>1. BuildFixed(ptr) = Err("SizeOverflow")
      BY <1>1, <1>3, <2>2, <2>6 DEF BuildFixed
    <3>2. t + a - 1 > IsizeMax
      BY <1>1, <2>1, <2>2, <2>4, <2>5, <2>6
    <3> QED
      BY <1>1, <2>2, <2>4, <3>1, <3>2
  <2>7. CASE v + a - 1 <= UsizeMax /\ t + a - 1 > IsizeMax
    <3>1. align_up(v, a) = c /\ c # None /\ n * c = t
      BY <2>2, <2>4, <2>7, ErrorsAssumption
    <3>2. t > UsizeMax \/ ~ LayoutFits(t, a)
      BY <2>1, <2>5, <2>7 DEF LayoutFits
    <3>3. BuildFixed(ptr) = Err("SizeOverflow")
      BY <1>1, <1>3, <3>1, <3>2 DEF BuildFixed
    <3> QED
      BY <1>1, <2>2, <2>4, <2>7, <3>3
  <2>8. CASE v + a - 1 <= UsizeMax /\ t + a - 1 <= IsizeMax
    <3>1. align_up(v, a) = c /\ c # None /\ n * c = t
      BY <2>2, <2>4, <2>8, ErrorsAssumption
    <3>2. t <= UsizeMax /\ LayoutFits(t, a) /\ t \in 1 .. IsizeMax
      BY <2>1, <2>3, <2>4, <2>5, <2>8 DEF LayoutFits
    <3>3. BuildFixed(ptr) = Fixed(ptr, t, Carved(n, c))
      <4>1. ~ (t > UsizeMax)
        BY <2>5, <3>2
      <4> QED
        BY <1>1, <1>3, <3>1, <3>2, <4>1 DEF BuildFixed
    <3> QED
      BY <1>1, <1>3, <2>2, <2>3, <2>4, <3>2, <3>3
  <2>9. \/ v + a - 1 > UsizeMax
        \/ v + a - 1 <= UsizeMax /\ t + a - 1 > IsizeMax
        \/ v + a - 1 <= UsizeMax /\ t + a - 1 <= IsizeMax
    BY <1>1, <2>1, <2>5
  <2> QED
    BY <2>6, <2>7, <2>8, <2>9, Zenon
<1> QED
  BY <1>2, <1>3

(* What the build of a buddy arena answers.                                *)
LEMMA BuddyIs ==
  ASSUME builder \in BuddyBuilders, IsGeometry(geometry), builder.alignment = geometry.alignment,
         NEW ptr
  PROVE  \/ /\ BuildBuddy(ptr) = Err("SizeOverflow")
            /\ geometry.total_size = Pow2(Bits - 1)
         \/ \E i, k \in 0 .. Bits - 1, cap \in BOOLEAN :
              /\ i + k <= Bits - 1
              /\ BuildBuddy(ptr) = [of |-> "buddy", err |-> None, ptr |-> ptr,
                                    dealloc_len |-> Pow2(i + k), min_block_size |-> Pow2(i),
                                    max_order |-> k, cap_capacity |-> cap, usable |-> Pow2(i + k)]
              /\ builder.alignment <= Pow2(i)
              /\ Pow2(i + k) <= IsizeMax
<1>1. PICK i \in 0 .. Bits - 1, k \in 0 .. Bits - 1 :
           /\ i + k <= Bits - 1 /\ i + k \in 0 .. Bits - 1
           /\ geometry.err = None
           /\ geometry.total_size = Pow2(i + k) /\ geometry.min_block_size = Pow2(i)
           /\ geometry.max_order = k
           /\ geometry.alignment \in PowersOfTwo /\ geometry.alignment <= Pow2(i)
           /\ geometry.cap_capacity \in BOOLEAN
  BY GeometryFields
<1>2. PICK t \in Nat, a \in Nat \ {0}, h \in Nat :
        t = geometry.total_size /\ a = geometry.alignment /\ h = IsizeMax
  BY <1>1, Pow2Size, PowerSize, PowersAre, Zenon
<1>3. CASE t + a - 1 > h
  <2>1. ~ LayoutFits(t, a)
    BY <1>2, <1>3 DEF LayoutFits
  <2>2. PICK b \in Nat : b = Pow2(Bits - 1) /\ h = b - 1
    BY <1>2, PowersAre
  <2>3. a <= t
    <3>1. i \in 0 .. Bits /\ i + k \in 0 .. Bits /\ i <= i + k
      BY <1>1, BitsAssumption
    <3>2. PICK m \in Nat : m = Pow2(i) /\ m <= t
      BY <1>1, <1>2, <3>1, Pow2Order, Pow2Size
    <3> QED
      BY <1>1, <1>2, <3>2
  <2>4. ASSUME i + k # Bits - 1 PROVE FALSE
    <3>1. PICK j \in 0 .. Bits : j = i + k + 1 /\ j <= Bits - 1 /\ Bits - 1 \in 0 .. Bits /\ i + k \in 0 .. Bits
      BY <1>1, <2>4, BitsAssumption
    <3>2. Pow2(j) = 2 * t
      BY <1>1, <1>2, <3>1, Pow2Double
    <3>3. Pow2(j) <= b
      BY <2>2, <3>1, Pow2Order
    <3> QED
      BY <1>3, <2>2, <2>3, <3>2, <3>3
  <2> QED
    BY <1>1, <1>2, <1>3, <2>1, <2>4 DEF BuildBuddy
<1>4. CASE t + a - 1 <= h
  <2>1. LayoutFits(t, a) /\ t <= h
    BY <1>2, <1>4 DEF LayoutFits
  <2>2. Shl(Pow2(i), k) = Pow2(i + k)
    BY <1>1, ShlIs
  <2>3. BuildBuddy(ptr) = [of |-> "buddy", err |-> None, ptr |-> ptr,
                           dealloc_len |-> Pow2(i + k), min_block_size |-> Pow2(i),
                           max_order |-> k, cap_capacity |-> geometry.cap_capacity,
                           usable |-> Pow2(i + k)]
    BY <1>1, <1>2, <2>1, <2>2 DEF BuildBuddy, Buddy
  <2>4. builder.alignment <= Pow2(i) /\ Pow2(i + k) <= IsizeMax
    BY <1>1, <1>2, <2>1
  <2> QED
    BY <1>1, <2>3, <2>4, Zenon
<1> QED
  BY <1>2, <1>3, <1>4

(* A builder that comes to nothing: all but the stage and the error stays. *)
LEMMA FailStep ==
  ASSUME BuildInv, stage = "builder", stage' \in {"failed", "hung"},
         UNCHANGED <<geometry, asked, builder, backing, reply>>,
         RefusalsJustified'
  PROVE  BuildInv'
<1>1. /\ geometry' = geometry /\ asked' = asked /\ builder' = builder /\ region' = region
      /\ caller' = caller /\ touched' = touched /\ deallocs' = deallocs /\ boxes' = boxes
      /\ reply' = reply
  BY DEF backing
<1>2. Shape'
  BY <1>1, Zenon DEF BuildInv, Shape, Stages
<1>3. GeometryMade' /\ ArenaMade'
  BY <1>1 DEF GeometryMade, GeometryLeast, ArenaMade, CarvedLargest, Alive
<1>4. Owned'
  BY <1>1 DEF BuildInv, Owned, Alive
<1>5. Touched'
  BY <1>1 DEF BuildInv, Touched
<1>6. Answered'
  BY <1>1 DEF BuildInv, Answered, RequestsFit
<1> QED
  BY <1>2, <1>3, <1>4, <1>5, <1>6 DEF BuildInv

(* A builder that is dropped.                                              *)
LEMMA StepDropBuilder ==
  ASSUME BuildInv, DropBuilder
  PROVE  BuildInv'
<1>1. /\ stage = "builder" /\ stage' = "failed" /\ arena'.err = "dropped"
      /\ UNCHANGED <<geometry, asked, builder, backing, reply>>
  BY DEF DropBuilder, Err
<1>2. builder # NoBuilder /\ builder \in {NoBuilder} \cup FixedBuilders \cup BuddyBuilders \cup RawBuilders
  BY <1>1 DEF BuildInv, Shape
<1>3. builder'.of # "none"
  BY <1>1, <1>2, Kinds
<1>4. RefusalsJustified'
  BY <1>1, <1>3 DEF RefusalsJustified
<1> QED
  BY <1>1, <1>4, FailStep

(* What RefusalsJustified asks of a build that fails.                      *)
LEMMA RefusalOf ==
  ASSUME builder.of # "none", UNCHANGED <<geometry, asked, builder, region>>,
         NEW e \in {"SizeOverflow", "InvalidAlignment", "NullPointer", "ZeroUsableSlots",
                    "SlotSizeExceedsBacking", "panic", "hang"},
         arena' = Err(e),
         e = "SizeOverflow" =>
            IF builder.of = "buddy" THEN geometry.total_size = Pow2(Bits - 1)
            ELSE builder.count * (((builder.capacity + builder.alignment - 1)
                                     \div builder.alignment) * builder.alignment)
                   + builder.alignment - 1 > IsizeMax,
         e = "InvalidAlignment" => builder.alignment \notin PowersOfTwo,
         e = "NullPointer" => region.base = 0,
         e = "ZeroUsableSlots" =>
            \/ asked.by = "Count" /\ asked.n * builder.alignment > region.len
            \/ asked.by = "Size" /\ asked.n < builder.alignment
            \/ asked.by = "MinAlloc" /\ asked.n > region.len,
         e = "SlotSizeExceedsBacking" => asked.n > region.len,
         e \in {"panic", "hang"} => asked.n > Pow2(Bits - 1)
  PROVE  RefusalsJustified'
<1>1. arena'.err = e /\ builder'.of # "none"
  BY DEF Err
<1> QED
  BY <1>1 DEF RefusalsJustified

(* A build that fails: the error is one the sizes deserve.                 *)
LEMMA StepBuildFails ==
  ASSUME BuildInv, NEW ptr \in Bases, BuildFails(ptr)
  PROVE  BuildInv'
<1>1. /\ stage = "builder" /\ stage' \in {"failed", "hung"}
      /\ arena' = Made(ptr) /\ arena'.err # None
      /\ UNCHANGED <<geometry, asked, builder, backing, reply>>
  BY DEF BuildFails
<1>2. builder # NoBuilder /\ builder \in {NoBuilder} \cup FixedBuilders \cup BuddyBuilders \cup RawBuilders
  BY <1>1 DEF BuildInv, Shape
<1>3. builder.of # "none" /\ UNCHANGED <<geometry, asked, builder, region>>
  BY <1>1, <1>2, Kinds DEF backing
<1>4. CASE builder.of = "fixed"
  <2>1. builder \in FixedBuilders /\ arena' = BuildFixed(ptr) /\ builder.of # "buddy"
    BY <1>1, <1>2, <1>4, Kinds DEF Made
  <2>2. ~ \E cap \in Nat \ {0}, total \in 1 .. IsizeMax :
            BuildFixed(ptr) = Fixed(ptr, total, Carved(builder.count, cap))
    BY <1>1, <2>1 DEF Fixed, Carved
  <2>3. \/ /\ arena' = Err("InvalidAlignment")
           /\ builder.alignment \notin PowersOfTwo
        \/ /\ arena' = Err("SizeOverflow")
           /\ (builder.count * (((builder.capacity + builder.alignment - 1)
                                    \div builder.alignment) * builder.alignment))
                 + builder.alignment - 1 > IsizeMax
    BY <2>1, <2>2, FixedIs, Zenon
  <2>4. RefusalsJustified'
    <3>1. CASE arena' = Err("InvalidAlignment") /\ builder.alignment \notin PowersOfTwo
      BY <1>3, <3>1, RefusalOf
    <3>2. CASE /\ arena' = Err("SizeOverflow")
               /\ (builder.count * (((builder.capacity + builder.alignment - 1)
                                    \div builder.alignment) * builder.alignment))
                     + builder.alignment - 1 > IsizeMax
      BY <1>3, <2>1, <3>2, RefusalOf
    <3> QED
      BY <2>3, <3>1, <3>2
  <2> QED
    BY <1>1, <2>4, FailStep
<1>5. CASE builder.of = "buddy"
  <2>1. /\ builder \in BuddyBuilders /\ arena' = BuildBuddy(ptr)
        /\ IsGeometry(geometry) /\ builder.alignment = geometry.alignment
    BY <1>1, <1>2, <1>5, Kinds DEF Made, BuildInv, Shape
  <2>2. ~ \E i, k \in 0 .. Bits - 1, cap \in BOOLEAN :
              BuildBuddy(ptr) = [of |-> "buddy", err |-> None, ptr |-> ptr,
                                 dealloc_len |-> Pow2(i + k), min_block_size |-> Pow2(i),
                                 max_order |-> k, cap_capacity |-> cap, usable |-> Pow2(i + k)]
    <3> SUFFICES ASSUME NEW i \in 0 .. Bits - 1, NEW k \in 0 .. Bits - 1, NEW cap \in BOOLEAN,
                        NEW n, NEW b,
                        arena' = [of |-> "buddy", err |-> None, ptr |-> ptr,
                                  dealloc_len |-> n, min_block_size |-> b,
                                  max_order |-> k, cap_capacity |-> cap, usable |-> n]
                 PROVE  FALSE
      BY <2>1, Zenon
    <3>1. arena'.err = None
      OBVIOUS
    <3> QED
      BY <1>1, <3>1
  <2>3. /\ arena' = Err("SizeOverflow")
        /\ geometry.total_size = Pow2(Bits - 1)
    BY <2>1, <2>2, BuddyIs, Zenon
  <2>4. RefusalsJustified'
    BY <1>3, <1>5, <2>3, RefusalOf
  <2> QED
    BY <1>1, <2>4, FailStep
<1>6. CASE builder.of = "rawFixed"
  <2>1. /\ builder \in RawBuilders /\ arena' = BuildRawFixed
        /\ region \in Regions /\ asked \in Wishes /\ asked.by # "MinAlloc"
    BY <1>1, <1>2, <1>6, Kinds DEF Made, BuildInv, Shape
  <2>2. region.len \in Nat
    BY <2>1, PowersAre DEF Regions
  <2>3. CASE region.base = 0
    <3>1. arena' = Err("NullPointer")
      BY <2>1, <2>3 DEF BuildRawFixed
    <3> QED
      BY <1>1, <1>3, <2>3, <3>1, RefusalOf, FailStep
  <2>4. CASE region.base # 0 /\ builder.alignment \notin PowersOfTwo
    <3>1. arena' = Err("InvalidAlignment")
      BY <2>1, <2>4 DEF BuildRawFixed
    <3> QED
      BY <1>1, <1>3, <2>4, <3>1, RefusalOf, FailStep
  <2>5. CASE region.base # 0 /\ builder.alignment \in PowersOfTwo
    <3>0. asked.by \in {"Count", "Size"} /\ asked.n \in Nat \ {0}
      BY <2>1, PowersAre DEF Wishes
    <3>1. builder.alignment \in Nat \ {0}
      BY <2>5, PowerSize
    <3>2. ASSUME ResolveSlots(asked, region.len, builder.alignment).err = None PROVE FALSE
      <4>1. arena' = Fixed(region.base, region.len, ResolveSlots(asked, region.len, builder.alignment))
        BY <2>1, <2>5, <3>2 DEF BuildRawFixed
      <4> QED
        BY <1>1, <3>2, <4>1 DEF Fixed
    <3>3. arena' = ResolveSlots(asked, region.len, builder.alignment)
      BY <2>1, <2>5, <3>2 DEF BuildRawFixed
    <3>4. ~ \E count, cap \in Nat \ {0} : arena' = Carved(count, cap)
      BY <1>1 DEF Carved
    <3>5. \/ /\ arena' = Err("ZeroUsableSlots")
             /\ \/ asked.by = "Count" /\ asked.n * builder.alignment > region.len
                \/ asked.by = "Size" /\ asked.n < builder.alignment
          \/ arena' = Err("SlotSizeExceedsBacking") /\ asked.n > region.len
      <4>1. \/ /\ ResolveSlots(asked, region.len, builder.alignment) = Err("ZeroUsableSlots")
               /\ \/ asked.by = "Count" /\ asked.n * builder.alignment > region.len
                  \/ asked.by = "Size" /\ asked.n < builder.alignment
            \/ /\ ResolveSlots(asked, region.len, builder.alignment) = Err("SlotSizeExceedsBacking")
               /\ asked.n > region.len
            \/ \E count, cap \in Nat \ {0} :
                 CarvedSlots(asked, region.len, builder.alignment, count, cap)
        BY <2>2, <3>0, <3>1, SlotsAre
      <4> QED
        BY <3>3, <3>4, <4>1, Zenon DEF CarvedSlots
    <3>6. RefusalsJustified'
      <4>1. CASE /\ arena' = Err("ZeroUsableSlots")
                 /\ \/ asked.by = "Count" /\ asked.n * builder.alignment > region.len
                    \/ asked.by = "Size" /\ asked.n < builder.alignment
        BY <1>3, <4>1, RefusalOf
      <4>2. CASE arena' = Err("SlotSizeExceedsBacking") /\ asked.n > region.len
        BY <1>3, <4>2, RefusalOf
      <4> QED
        BY <3>5, <4>1, <4>2, Zenon
    <3> QED
      BY <1>1, <3>6, FailStep
  <2> QED
    BY <2>3, <2>4, <2>5
<1>7. CASE builder.of = "rawBuddy"
  <2>1. /\ builder \in RawBuilders /\ arena' = BuildRawBuddy
        /\ region \in Regions /\ asked \in Wishes /\ asked.by = "MinAlloc"
    BY <1>1, <1>2, <1>7, Kinds DEF Made, BuildInv, Shape
  <2>2. region.len \in 0 .. IsizeMax /\ asked.n \in 1 .. UsizeMax
    BY <2>1 DEF Regions, Wishes
  <2>3. CASE region.base = 0
    <3>1. arena' = Err("NullPointer")
      BY <2>1, <2>3 DEF BuildRawBuddy
    <3> QED
      BY <1>1, <1>3, <2>3, <3>1, RefusalOf, FailStep
  <2>4. CASE region.base # 0
    <3>1. ASSUME ResolveHint(asked.n, region.len).err = None PROVE FALSE
      <4>1. arena' = Buddy(region.base, region.len, ResolveHint(asked.n, region.len), FALSE)
        BY <2>1, <2>4, <3>1 DEF BuildRawBuddy
      <4> QED
        BY <1>1, <3>1, <4>1 DEF Buddy
    <3>2. arena' = ResolveHint(asked.n, region.len)
      BY <2>1, <2>4, <3>1, Zenon DEF BuildRawBuddy
    <3>3. ~ \E i, k \in 0 .. Bits - 1 :
              arena' = [err |-> None, min_block_size |-> Pow2(i), max_order |-> k]
      BY <1>1
    <3>4. \/ arena' \in {Err("panic"), Err("hang")} /\ asked.n > Pow2(Bits - 1)
          \/ arena' = Err("ZeroUsableSlots") /\ asked.n > region.len
      BY <2>2, <3>2, <3>3, HintIs, Zenon
    <3>5. RefusalsJustified'
      <4>1. CASE arena' = Err("panic") /\ asked.n > Pow2(Bits - 1)
        BY <1>3, <4>1, RefusalOf
      <4>2. CASE arena' = Err("hang") /\ asked.n > Pow2(Bits - 1)
        BY <1>3, <4>2, RefusalOf
      <4>3. CASE arena' = Err("ZeroUsableSlots") /\ asked.n > region.len
        BY <1>3, <2>1, <4>3, RefusalOf
      <4> QED
        BY <3>4, <4>1, <4>2, <4>3, Zenon
    <3> QED
      BY <1>1, <3>5, FailStep
  <2> QED
    BY <2>3, <2>4
<1> QED
  BY <1>2, <1>3, <1>4, <1>5, <1>6, <1>7, Kinds

(* Of memory of its own, the arena takes all, as aligned as asked for.     *)
LEMMA MadeOfOwn ==
  ASSUME BuildInv, NEW ptr \in Nat, NEW place \in {"unfaulted", "ready"}, Succeed(ptr, place),
         Allocates
  PROVE  ArenaMade'
<1>1. /\ stage = "builder" /\ builder.alignment \in PowersOfTwo
      /\ arena' = Made(ptr) /\ arena'.err = None /\ builder' = builder
      /\ region' = [base |-> ptr, len |-> arena'.dealloc_len] /\ stage' = place
  BY DEF Succeed
<1>2. builder \in {NoBuilder} \cup FixedBuilders \cup BuddyBuilders \cup RawBuilders
  BY DEF BuildInv, Shape
<1>3. CarvedLargest'
  BY <1>1 DEF CarvedLargest, Allocates
<1>4. CASE builder.of = "fixed"
  <2>1. builder \in FixedBuilders /\ arena' = BuildFixed(ptr)
    BY <1>1, <1>2, <1>4, Kinds DEF Made
  <2>2. arena' # Err("InvalidAlignment") /\ arena' # Err("SizeOverflow")
    BY <1>1, ErrorsAssumption DEF Err, Errors
  <2>3. PICK cap \in Nat \ {0}, total \in 1 .. IsizeMax :
          /\ BuildFixed(ptr) = Fixed(ptr, total, Carved(builder.count, cap))
          /\ total = builder.count * cap
          /\ cap % builder.alignment = 0
    BY <2>1, <2>2, FixedIs, Zenon
  <2>4. builder.count \in Nat \ {0} /\ IsizeMax \in Nat
    BY <2>1, PowersAre DEF FixedBuilders
  <2>5. /\ arena'.of = "fixed" /\ arena'.ptr = ptr /\ arena'.dealloc_len = total
        /\ arena'.slot_count = builder.count /\ arena'.slot_capacity = cap
        /\ arena'.usable = builder.count * cap
    BY <2>1, <2>3 DEF Fixed, Carved
  <2>6. region'.base = ptr /\ region'.len = total
    BY <1>1, <2>5
  <2>7. SlotsMade'
    BY <1>1, <2>3, <2>4, <2>5, <2>6 DEF SlotsMade
  <2> QED
    BY <1>1, <1>3, <2>3, <2>4, <2>5, <2>6, <2>7 DEF ArenaMade
<1>5. CASE builder.of = "buddy"
  <2>1. /\ builder \in BuddyBuilders /\ arena' = BuildBuddy(ptr)
        /\ IsGeometry(geometry) /\ builder.alignment = geometry.alignment
    BY <1>1, <1>2, <1>5, Kinds DEF Made, BuildInv, Shape
  <2>2. arena' # Err("SizeOverflow")
    BY <1>1, ErrorsAssumption DEF Err, Errors
  <2>3. PICK i \in 0 .. Bits - 1, k \in 0 .. Bits - 1, cap \in BOOLEAN :
              /\ i + k <= Bits - 1
              /\ BuildBuddy(ptr) = [of |-> "buddy", err |-> None, ptr |-> ptr,
                                    dealloc_len |-> Pow2(i + k), min_block_size |-> Pow2(i),
                                    max_order |-> k, cap_capacity |-> cap, usable |-> Pow2(i + k)]
              /\ builder.alignment <= Pow2(i)
              /\ Pow2(i + k) <= IsizeMax
    BY <2>1, <2>2, BuddyIs, Zenon
  <2>4. /\ arena'.of = "buddy" /\ arena'.ptr = ptr /\ arena'.dealloc_len = Pow2(i + k)
        /\ arena'.min_block_size = Pow2(i) /\ arena'.max_order = k
        /\ arena'.cap_capacity \in BOOLEAN /\ arena'.usable = Pow2(i + k)
    <3>1. PICK n, b : /\ n = Pow2(i + k) /\ b = Pow2(i)
                      /\ arena' = [of |-> "buddy", err |-> None, ptr |-> ptr,
                                   dealloc_len |-> n, min_block_size |-> b,
                                   max_order |-> k, cap_capacity |-> cap, usable |-> n]
      BY <2>1, <2>3, Zenon
    <3>2. /\ arena'.of = "buddy" /\ arena'.ptr = ptr /\ arena'.dealloc_len = n
          /\ arena'.min_block_size = b /\ arena'.max_order = k
          /\ arena'.cap_capacity = cap /\ arena'.usable = n
      BY <3>1
    <3> QED
      BY <3>1, <3>2, Zenon
  <2>5. region'.base = ptr /\ region'.len = Pow2(i + k)
    BY <1>1, <2>4
  <2>6. Pow2(i + k) \in 0 .. IsizeMax /\ Pow2(i + k) \in Nat
    <3>1. i + k \in 0 .. Bits - 1
      BY <2>3, BitsAssumption
    <3> QED
      BY <2>3, <3>1, Pow2Size, PowersAre
  <2>7. BlocksMade'
    BY <1>1, <2>3, <2>4, <2>5, <2>6 DEF BlocksMade
  <2> QED
    BY <1>1, <1>3, <2>4, <2>5, <2>6, <2>7 DEF ArenaMade
<1> QED
  BY <1>4, <1>5 DEF Allocates

(* Of memory of the caller's, the arena is carved.                         *)
LEMMA MadeOfCallers ==
  ASSUME BuildInv, NEW ptr, NEW place \in {"unfaulted", "ready"}, Succeed(ptr, place),
         ~ Allocates
  PROVE  ArenaMade'
<1>1. /\ stage = "builder"
      /\ arena' = Made(ptr) /\ arena'.err = None /\ builder' = builder /\ asked' = asked
      /\ region' = region /\ stage' = place
  BY DEF Succeed
<1>2. /\ builder \in {NoBuilder} \cup FixedBuilders \cup BuddyBuilders \cup RawBuilders
      /\ builder # NoBuilder
  BY <1>1 DEF BuildInv, Shape
<1>3. builder \in RawBuilders /\ builder.of \in {"rawFixed", "rawBuddy"}
  BY <1>2, Kinds DEF Allocates
<1>4. /\ region \in Regions /\ asked \in Wishes
      /\ asked.by = "MinAlloc" <=> builder.of = "rawBuddy"
      /\ builder.of = "rawBuddy" => builder.alignment = 1
  BY <1>3 DEF BuildInv, Shape
<1>5. /\ region.base \in Nat /\ region.len \in 0 .. IsizeMax /\ region.len \in Nat
      /\ asked.by \in {"Count", "Size", "MinAlloc"} /\ asked.n \in 1 .. UsizeMax
  BY <1>4, PowersAre DEF Regions, Wishes
<1>6. CASE builder.of = "rawFixed"
  <2>1. arena' = BuildRawFixed /\ asked.by # "MinAlloc"
    BY <1>1, <1>4, <1>6 DEF Made
  <2>2. \A e \in Errors : arena' # Err(e)
    BY <1>1, ErrorsAssumption DEF Err
  <2>3. builder.alignment \in PowersOfTwo /\ region.base # 0
    BY <2>1, <2>2 DEF BuildRawFixed, Errors
  <2>0. asked.by \in {"Count", "Size"} /\ asked.n \in Nat \ {0}
    BY <1>5, <2>1, PowersAre
  <2>4. builder.alignment \in Nat \ {0}
    BY <2>3, PowerSize
  <2>5. /\ ResolveSlots(asked, region.len, builder.alignment).err = None
        /\ arena' = Fixed(region.base, region.len, ResolveSlots(asked, region.len, builder.alignment))
    BY <1>1, <2>1, <2>3 DEF BuildRawFixed
  <2>6. /\ ResolveSlots(asked, region.len, builder.alignment) # Err("ZeroUsableSlots")
        /\ ResolveSlots(asked, region.len, builder.alignment) # Err("SlotSizeExceedsBacking")
    BY <2>5, ErrorsAssumption DEF Err, Errors
  <2>7. \/ ResolveSlots(asked, region.len, builder.alignment) = Err("ZeroUsableSlots")
        \/ ResolveSlots(asked, region.len, builder.alignment) = Err("SlotSizeExceedsBacking")
        \/ \E count, cap \in Nat \ {0} :
             CarvedSlots(asked, region.len, builder.alignment, count, cap)
    BY <1>5, <2>0, <2>4, SlotsAre
  <2>8. PICK count \in Nat \ {0}, cap \in Nat \ {0} :
          CarvedSlots(asked, region.len, builder.alignment, count, cap)
    BY <2>6, <2>7, Zenon
  <2>9. /\ arena'.of = "fixed" /\ arena'.ptr = region.base /\ arena'.dealloc_len = region.len
        /\ arena'.slot_count = count /\ arena'.slot_capacity = cap
        /\ arena'.usable = count * cap
    BY <2>5, <2>8 DEF Fixed, Carved, CarvedSlots
  <2>10. SlotsMade'
    BY <1>1, <2>8, <2>9 DEF SlotsMade, CarvedSlots
  <2>11. CarvedLargest'
    BY <1>1, <2>1, <2>8, <2>9, Zenon DEF CarvedLargest, CarvedSlots
  <2> QED
    BY <1>1, <1>5, <2>3, <2>9, <2>10, <2>11 DEF ArenaMade
<1>7. CASE builder.of = "rawBuddy"
  <2>1. arena' = BuildRawBuddy /\ asked.by = "MinAlloc" /\ builder.alignment = 1
    BY <1>1, <1>4, <1>7 DEF Made
  <2>2. \A e \in Errors : arena' # Err(e)
    BY <1>1, ErrorsAssumption DEF Err
  <2>3. region.base # 0
    BY <2>1, <2>2, Zenon DEF BuildRawBuddy, Errors
  <2>4. /\ ResolveHint(asked.n, region.len).err = None
        /\ arena' = Buddy(region.base, region.len, ResolveHint(asked.n, region.len), FALSE)
    BY <1>1, <2>1, <2>3, Zenon DEF BuildRawBuddy
  <2>5. ResolveHint(asked.n, region.len) \notin {Err("panic"), Err("hang"), Err("ZeroUsableSlots")}
    BY <2>4, ErrorsAssumption DEF Err, Errors
  <2>6. PICK i \in 0 .. Bits - 1, k \in 0 .. Bits - 1 :
              /\ i + k <= Bits - 1
              /\ ResolveHint(asked.n, region.len) = [err |-> None, min_block_size |-> Pow2(i), max_order |-> k]
              /\ Pow2(i + k) <= region.len /\ region.len < 2 * Pow2(i + k)
              /\ Pow2(i) < asked.n => NextPowerOfTwo(asked.n) > region.len
    BY <1>5, <2>5, HintIs, Zenon
  <2>7. Shl(Pow2(i), k) = Pow2(i + k)
    BY <2>6, ShlIs
  <2>8. /\ arena'.of = "buddy" /\ arena'.ptr = region.base /\ arena'.dealloc_len = region.len
        /\ arena'.min_block_size = Pow2(i) /\ arena'.max_order = k
        /\ arena'.cap_capacity \in BOOLEAN /\ arena'.usable = Pow2(i + k)
    BY <2>4, <2>6, <2>7 DEF Buddy
  <2>9. 1 \in PowersOfTwo /\ 1 <= Pow2(i) /\ Pow2(i + k) \in Nat
    <3>1. 0 \in 0 .. Bits - 1 /\ Pow2(0) = 1 /\ i + k \in 0 .. Bits - 1
      BY <2>6, BitsAssumption, Pow2Recursion
    <3> QED
      BY <3>1, Pow2Size
  <2>10. BlocksMade'
    BY <1>1, <2>1, <2>6, <2>8, <2>9 DEF BlocksMade
  <2>11. CarvedLargest'
    <3>1. 2 * Pow2(i + k) > region.len
      BY <1>5, <2>6, <2>9
    <3> QED
      BY <1>1, <2>1, <2>6, <2>8, <3>1, Zenon DEF CarvedLargest
  <2> QED
    BY <1>1, <1>5, <2>1, <2>8, <2>9, <2>10, <2>11 DEF ArenaMade
<1> QED
  BY <1>3, <1>6, <1>7

(* A build that succeeds, touching the pages or not.                       *)
LEMMA SucceedStep ==
  ASSUME BuildInv, NEW ptr \in Nat, NEW place \in {"unfaulted", "ready"}, Succeed(ptr, place),
         touched' \in {{}, prefault_region(arena'.ptr, arena'.usable, builder.page)},
         place = "unfaulted" => touched' = {}
  PROVE  BuildInv'
<1>1. /\ stage = "builder" /\ stage' = place
      /\ region' = IF Allocates THEN [base |-> ptr, len |-> arena'.dealloc_len] ELSE region
      /\ caller' = FALSE /\ boxes' = 1
      /\ UNCHANGED <<geometry, asked, builder, deallocs, reply>>
  BY DEF Succeed
<1>2. ArenaMade'
  BY MadeOfOwn, MadeOfCallers
<1>3. builder \in RawBuilders => ~ Allocates /\ builder.page = None
  BY DEF RawBuilders, Allocates
<1>4. Shape'
  BY <1>1, <1>3, Zenon DEF BuildInv, Shape, Stages
<1>5. GeometryMade' /\ RefusalsJustified'
  BY <1>1, Zenon DEF GeometryMade, GeometryLeast, RefusalsJustified
<1>6. Owned'
  BY <1>1, Zenon DEF BuildInv, Owned, Alive
<1>7. Touched'
  <2>1. builder \in RawBuilders => touched' = {}
    BY <1>3 DEF prefault_region
  <2> QED
    BY <1>1, <2>1 DEF Touched
<1>8. Answered'
  BY <1>1 DEF BuildInv, Answered, RequestsFit
<1> QED
  BY <1>2, <1>4, <1>5, <1>6, <1>7, <1>8 DEF BuildInv

(* The builds that allocate.                                               *)
LEMMA StepBuild ==
  ASSUME BuildInv, NEW ptr \in Bases,
         \/ build_fixed(ptr) \/ build_fixed_unfaulted(ptr)
         \/ build_buddy(ptr) \/ build_buddy_unfaulted(ptr)
  PROVE  BuildInv'
<1>1. ptr \in Nat
  BY BasesAssumption
<1>2. CASE Build(ptr)
  BY <1>1, <1>2, SucceedStep DEF Build
<1>3. CASE BuildUnfaulted(ptr)
  <2>1. touched' = {}
    BY <1>3 DEF BuildUnfaulted, Succeed, BuildInv, Touched
  <2> QED
    BY <1>1, <1>3, <2>1, SucceedStep DEF BuildUnfaulted
<1> QED
  BY <1>2, <1>3 DEF build_fixed, build_fixed_unfaulted, build_buddy, build_buddy_unfaulted

(* The builds over memory of the caller's.                                 *)
LEMMA StepBuildRawBacked ==
  ASSUME BuildInv, build_raw_backed
  PROVE  BuildInv'
<1>1. stage = "builder" /\ ~ Allocates /\ Build(region.base)
  BY DEF build_raw_backed
<1>2. /\ builder \in {NoBuilder} \cup FixedBuilders \cup BuddyBuilders \cup RawBuilders
      /\ builder # NoBuilder
  BY <1>1 DEF BuildInv, Shape
<1>3. builder \in RawBuilders
  BY <1>1, <1>2, Kinds DEF Allocates
<1>4. region.base \in Nat
  BY <1>3 DEF BuildInv, Shape, Regions
<1> QED
  BY <1>1, <1>4, SucceedStep DEF Build

(* An arena becomes ready, its pages touched now or not at all.            *)
LEMMA StepFaulted ==
  ASSUME BuildInv, fault_pages \/ into_inner
  PROVE  BuildInv'
<1>1. /\ stage = "unfaulted" /\ stage' = "ready"
      /\ UNCHANGED <<geometry, asked, builder, arena, region, caller, deallocs, boxes, reply>>
  BY DEF fault_pages, into_inner, backing
<1>2. touched' \in {{}, prefault_region(arena.ptr, arena.usable, builder.page)}
  BY <1>1 DEF fault_pages, into_inner, backing, BuildInv, Touched
<1>3. Shape'
  BY <1>1, Zenon DEF BuildInv, Shape, Stages
<1>4. GeometryMade' /\ RefusalsJustified'
  BY <1>1 DEF GeometryMade, GeometryLeast, RefusalsJustified
<1>5. Owned'
  BY <1>1 DEF BuildInv, Owned, Alive
<1>6. Touched'
  <2>1. builder \in RawBuilders => touched' = {}
    BY <1>2 DEF prefault_region, RawBuilders
  <2> QED
    BY <1>1, <1>2, <2>1 DEF Touched
<1>7. ArenaMade'
  BY <1>1 DEF BuildInv, ArenaMade, SlotsMade, BlocksMade, CarvedLargest, Alive, Allocates
<1>8. Answered'
  BY <1>1 DEF BuildInv, Answered, RequestsFit
<1> QED
  BY <1>3, <1>4, <1>5, <1>6, <1>7, <1>8 DEF BuildInv

(* The memory is released, and nothing else changes.                       *)
LEMMA StepDrop ==
  ASSUME BuildInv, Drop
  PROVE  BuildInv'
<1>1. /\ stage \in {"ready", "unfaulted"} /\ stage' = "dropped"
      /\ deallocs' = Append(deallocs, [ptr |-> arena.ptr, len |-> arena.dealloc_len])
      /\ boxes' = boxes - 1 - Freed("null") - Freed("null")
      /\ caller' = LeftToCaller(builder.dealloc)
      /\ UNCHANGED <<geometry, asked, builder, arena, region, touched, reply>>
  BY DEF Drop
<1>2. Shape'
  BY <1>1, Zenon DEF BuildInv, Shape, Stages
<1>3. GeometryMade' /\ RefusalsJustified'
  BY <1>1, Zenon DEF GeometryMade, GeometryLeast, RefusalsJustified
<1>4. Owned'
  <2>1. deallocs = << >> /\ boxes = 1
    BY <1>1 DEF BuildInv, Owned, Alive
  <2>2. boxes' = 0 /\ caller' \in BOOLEAN
    BY <1>1, <2>1 DEF Freed, LeftToCaller
  <2>3. arena.ptr = region.base /\ arena.dealloc_len = region.len
    BY <1>1 DEF BuildInv, ArenaMade
  <2>4. deallocs' = <<[ptr |-> region.base, len |-> region.len]>>
    BY <1>1, <2>1, <2>3
  <2> QED
    BY <1>1, <2>2, <2>4, Zenon DEF Owned, Alive
<1>5. Touched'
  BY <1>1 DEF BuildInv, Touched
<1>6. ArenaMade'
  BY <1>1 DEF BuildInv, ArenaMade, SlotsMade, BlocksMade, CarvedLargest, Alive
<1>7. Answered'
  BY <1>1 DEF BuildInv, Answered, RequestsFit
<1> QED
  BY <1>2, <1>3, <1>4, <1>5, <1>6, <1>7 DEF BuildInv

-----------------------------------------------------------------------------
(* Requests *)

(* A request changes nothing but the answer.                               *)
LEMMA StepAnswer ==
  ASSUME BuildInv, NEW len \in Lengths \ {0}, stage = "ready", arena.of = "buddy",
         NEW call \in {"allocate", "raw_alloc", "wait"}, call = "wait" => OrderFor(len) # None,
         Answer(By(call, len), len, OrderFor(len))
  PROVE  BuildInv'
<1>1. /\ UNCHANGED <<stage, geometry, asked, builder, arena, backing>>
      /\ reply' = [by |-> By(call, len), len |-> len, order |-> OrderFor(len),
                    capacity |-> IF OrderFor(len) \notin 0 .. arena.max_order THEN None
                                 ELSE IF /\ arena.cap_capacity
                                         /\ len < Shl(arena.min_block_size, OrderFor(len))
                                      THEN len
                                 ELSE Shl(arena.min_block_size, OrderFor(len))]
  BY DEF Answer
<1>2. PICK i \in 0 .. Bits - 1, k \in 0 .. Bits - 1 :
        /\ i + k <= Bits - 1
        /\ arena.min_block_size = Pow2(i) /\ arena.max_order = k /\ arena.usable = Pow2(i + k)
        /\ arena.cap_capacity \in BOOLEAN
  BY DEF BuildInv, ArenaMade, BlocksMade
<1>3. len \in Nat
  BY LengthsAssumption, PowersAre
<1>4. /\ len <= Pow2(Bits - 1) =>
           By(call, len) = call /\ OrderFor(len) = order_for_request(len, Pow2(i), Pow2(i + k))
      /\ len > Pow2(Bits - 1) => OrderFor(len) \notin 0 .. k
  BY <1>2, <1>3, OrderBeyond, ErrorsAssumption DEF OrderFor, By
<1>5. PICK u \in Nat : u = Pow2(i + k)
  <2>1. i + k \in 0 .. Bits - 1
    BY <1>2, BitsAssumption
  <2> QED
    BY <2>1, Pow2Size
<1>6. RequestsFit'
  <2> SUFFICES IF len <= u
               THEN /\ OrderFor(len) \in 0 .. k
                    /\ reply'.capacity >= len
                    /\ OrderFor(len) > 0 => Pow2(i) * Pow2(OrderFor(len) - 1) < len
                    /\ arena.cap_capacity => reply'.capacity = len
               ELSE /\ reply'.capacity = None
                    /\ len <= Pow2(Bits - 1) =>
                         OrderFor(len) = None /\ By(call, len) \notin {"wait", "panic"}
    BY <1>1, <1>2, <1>5 DEF RequestsFit
  <2>1. CASE ~ (len <= u)
    <3>1. len > u
      BY <1>3, <1>5, <2>1
    <3>2. len <= Pow2(Bits - 1) => OrderFor(len) = None /\ By(call, len) = call
      BY <1>2, <1>3, <1>4, <1>5, <3>1, OrderIs
    <3>3. OrderFor(len) \notin 0 .. k
      BY <1>3, <1>4, <3>2, ErrorsAssumption, PowersAre
    <3>4. reply'.capacity = None
      BY <1>1, <1>2, <3>3
    <3> QED
      BY <2>1, <3>2, <3>4
  <2>2. CASE len <= u
    <3>1. PICK a \in i .. i + k :
            /\ OrderFor(len) = a - i /\ len <= Pow2(a)
            /\ a > i => Pow2(a - 1) < len
      <4>1. len <= Pow2(Bits - 1)
        <5>1. i + k \in 0 .. Bits - 1 /\ u <= Pow2(Bits - 1)
          BY <1>2, <1>5, BitsAssumption, Pow2Size
        <5> QED
          BY <1>3, <1>5, <2>2, <5>1, PowersAre
      <4> QED
        BY <1>2, <1>3, <1>4, <1>5, <2>2, <4>1, OrderIs
    <3>2. PICK o \in 0 .. k : o = a - i /\ i + o = a /\ o = OrderFor(len) /\ o \in 0 .. Bits - 1
      BY <1>2, <3>1, BitsAssumption
    <3>3. Shl(Pow2(i), o) = Pow2(a)
      <4>1. i + o <= Bits - 1
        BY <1>2, <3>2, BitsAssumption
      <4> QED
        BY <3>2, <4>1, ShlIs
    <3>4. PICK b \in Nat : b = Pow2(a) /\ len <= b
      <4>1. a \in 0 .. Bits - 1
        BY <1>2, <3>1, BitsAssumption
      <4> QED
        BY <3>1, <4>1, Pow2Size
    <3>5. reply'.capacity = IF arena.cap_capacity /\ len < b THEN len ELSE b
      BY <1>1, <1>2, <3>2, <3>3, <3>4
    <3>6. ASSUME o > 0 PROVE Pow2(i) * Pow2(o - 1) < len
      <4>1. PICK c \in 0 .. Bits : c = o - 1 /\ i + c = a - 1 /\ i + c <= Bits /\ a > i /\ i \in 0 .. Bits
        BY <1>2, <3>1, <3>2, <3>6, BitsAssumption
      <4>2. Pow2(i + c) = Pow2(i) * Pow2(c)
        BY <4>1, Pow2Product
      <4> QED
        BY <3>1, <4>1, <4>2
    <3>7. reply'.capacity >= len /\ (arena.cap_capacity => reply'.capacity = len)
      BY <1>3, <3>4, <3>5
    <3> QED
      BY <2>2, <3>2, <3>6, <3>7
  <2> QED
    BY <2>1, <2>2
<1>7. Shape' /\ GeometryMade' /\ Owned' /\ Touched' /\ RefusalsJustified'
  BY <1>1, Zenon DEF BuildInv, Shape, GeometryMade, GeometryLeast, Fitting, Owned, Touched, RefusalsJustified,
              Alive, backing
<1>8. ArenaMade'
  BY <1>1, Zenon DEF BuildInv, ArenaMade, SlotsMade, BlocksMade, CarvedLargest, Alive, Allocates, backing
<1>9. Answered'
  BY <1>1, <1>6 DEF Answered
<1> QED
  BY <1>7, <1>8, <1>9 DEF BuildInv

(* allocate, raw_alloc and allocate_async.                                 *)
LEMMA StepRequest ==
  ASSUME BuildInv, NEW len \in Lengths \ {0}, allocate(len) \/ raw_alloc(len) \/ allocate_async(len)
  PROVE  BuildInv'
<1>1. CASE allocate(len)
  BY <1>1, StepAnswer DEF allocate
<1>2. CASE raw_alloc(len)
  BY <1>2, StepAnswer DEF raw_alloc
<1>3. CASE allocate_async(len)
  <2>1. CASE OrderFor(len) = None
    BY <1>3, <2>1, StepAnswer DEF allocate_async
  <2>2. CASE OrderFor(len) # None
    BY <1>3, <2>2, StepAnswer DEF allocate_async
  <2> QED
    BY <2>1, <2>2
<1> QED
  BY <1>1, <1>2, <1>3

-----------------------------------------------------------------------------
(* What is there holds from the start, and every step keeps it.            *)
LEMMA InitBuildInv == ConstructionInit => BuildInv
<1> SUFFICES ASSUME ConstructionInit PROVE BuildInv
  OBVIOUS
<1>1. NoBuilder \notin FixedBuilders \cup BuddyBuilders \cup RawBuilders /\ builder = NoBuilder
  BY DEF NoBuilder, FixedBuilders, BuddyBuilders, RawBuilders, ConstructionInit
<1>2. stage = "start" /\ reply.by = "none" /\ caller = FALSE /\ boxes = 0 /\ deallocs = << >>
      /\ touched = {}
  BY DEF ConstructionInit
<1>3. Shape
  BY <1>1, <1>2 DEF Shape, Stages
<1>4. GeometryMade /\ ArenaMade /\ RefusalsJustified
  BY <1>2, Zenon DEF GeometryMade, GeometryLeast, ArenaMade, CarvedLargest, RefusalsJustified, Alive
<1>5. Owned /\ Touched /\ Answered
  BY <1>1, <1>2, Zenon DEF Owned, Touched, Answered, RequestsFit, Alive
<1> QED
  BY <1>3, <1>4, <1>5 DEF BuildInv

(* What a caller begins with.                                              *)
LEMMA StepStart ==
  ASSUME BuildInv, Start
  PROVE  BuildInv'
<1>1. ASSUME NEW n \in Lengths \ {0}, NEW m \in Lengths \ {0},
             Exact(n, m) \/ Nearest(n, m) \/ with_slot_capacity(n, m) \/ with_arena_capacity(n, m)
      PROVE  BuildInv'
  BY <1>1, StepExact, StepNearest, StepArenaCapacity
<1>2. ASSUME NEW ptr \in Bases \cup {0}, NEW len \in Lengths, NEW dealloc \in {"NoDealloc", "Custom"},
             NEW spec \in SlotSpecs, FixedFromRaw(ptr, len, spec, dealloc)
      PROVE  BuildInv'
  <2>1. ptr \in Nat /\ len \in Nat
    BY BasesAssumption, LengthsAssumption, PowersAre
  <2>2. spec \in Wishes /\ spec.by # "MinAlloc"
    <3>1. Lengths \ {0} \subseteq 1 .. UsizeMax
      BY LengthsAssumption, PowersAre
    <3> QED
      BY <3>1 DEF SlotSpecs, Wishes
  <2> QED
    BY <1>2, <2>1, <2>2, StepFromRaw DEF FixedFromRaw
<1>3. ASSUME NEW ptr \in Bases \cup {0}, NEW len \in Lengths, NEW dealloc \in {"NoDealloc", "Custom"},
             NEW n \in Lengths \ {0}, BuddyFromRaw(ptr, len, n, dealloc)
      PROVE  BuildInv'
  <2>1. ptr \in Nat /\ len \in Nat /\ n \in 1 .. UsizeMax
    BY BasesAssumption, LengthsAssumption, PowersAre
  <2>2. [by |-> "MinAlloc", n |-> n] \in Wishes
    BY <2>1 DEF Wishes
  <2> QED
    BY <1>3, <2>1, <2>2, StepFromRaw DEF BuddyFromRaw
<1> QED
  BY <1>1, <1>2, <1>3 DEF Start

(* Every step keeps it.                                                    *)
LEMMA StepBuildInv == BuildInv /\ [ConstructionNext]_construction => BuildInv'
<1> SUFFICES ASSUME BuildInv, [ConstructionNext]_construction PROVE BuildInv'
  OBVIOUS
<1>1. CASE Start
  BY <1>1, StepStart
<1>2. ASSUME NEW a \in Alignments \ {0}, WithAlignment(a) PROVE BuildInv'
  BY <1>2, StepWithAlignment
<1>3. CASE NewBuddy
  BY <1>3, StepNewBuddy
<1>4. ASSUME NEW a \in Alignments, SetAlignment(a) PROVE BuildInv'
  BY <1>4, StepSetAlignment
<1>5. ASSUME NEW p \in Pages, SetPageSize(p) PROVE BuildInv'
  BY <1>5, StepSetPageSize
<1>6. ASSUME NEW ptr \in Bases, BuildFails(ptr) PROVE BuildInv'
  BY <1>6, StepBuildFails
<1>7. ASSUME NEW ptr \in Bases,
             \/ build_fixed(ptr) \/ build_fixed_unfaulted(ptr)
             \/ build_buddy(ptr) \/ build_buddy_unfaulted(ptr)
      PROVE  BuildInv'
  BY <1>7, StepBuild
<1>8. CASE build_raw_backed
  BY <1>8, StepBuildRawBacked
<1>9. CASE fault_pages \/ into_inner
  BY <1>9, StepFaulted
<1>10. CASE DropBuilder
  BY <1>10, StepDropBuilder
<1>11. ASSUME NEW len \in Lengths \ {0}, allocate(len) \/ raw_alloc(len) \/ allocate_async(len)
       PROVE  BuildInv'
  BY <1>11, StepRequest
<1>12. CASE Drop
  BY <1>12, StepDrop
<1>13. CASE UNCHANGED construction
  <2>1. Shape'
    BY <1>13, Zenon DEF construction, BuildInv, Shape
  <2>2. GeometryMade' /\ Fitting' = Fitting
    BY <1>13, Zenon DEF construction, BuildInv, GeometryMade, GeometryLeast, Fitting
  <2>3. Owned' /\ Touched'
    BY <1>13 DEF construction, BuildInv, Owned, Touched, Alive
  <2>4. RefusalsJustified'
    BY <1>13, <2>2, Zenon DEF construction, BuildInv, RefusalsJustified
  <2>5. Answered'
    BY <1>13 DEF construction, BuildInv, Answered, RequestsFit
  <2>6. ArenaMade'
    BY <1>13, Zenon DEF construction, BuildInv, ArenaMade, SlotsMade, BlocksMade, CarvedLargest, Alive, Allocates
  <2> QED
    BY <2>1, <2>2, <2>3, <2>4, <2>5, <2>6 DEF BuildInv
<1> QED
  BY <1>1, <1>2, <1>3, <1>4, <1>5, <1>6, <1>7, <1>8, <1>9, <1>10, <1>11, <1>12, <1>13 DEF ConstructionNext

(* Building an arena, from the geometry to the release of its memory, is   *)
(* as BuildInv says, whatever the width of usize and the sizes asked for.  *)
THEOREM BuiltRight == ConstructionSpec => []BuildInv
<1>1. ConstructionInit => BuildInv
  BY InitBuildInv
<1>2. BuildInv /\ [ConstructionNext]_construction => BuildInv'
  BY StepBuildInv
<1> QED
  BY <1>1, <1>2, PTL DEF ConstructionSpec

-----------------------------------------------------------------------------
(* What follows from it *)

(* The slots, one after the other.                                         *)
LEMMA SlotExtents ==
  ASSUME BuildInv, Alive, arena.of = "fixed"
  PROVE  ExtentsInside
<1>1. /\ region.base \in Nat /\ region.len \in Nat /\ builder.alignment \in PowersOfTwo /\ SlotsMade
  BY PowersAre DEF BuildInv, ArenaMade, Alive
<1>2. PICK n \in Nat \ {0}, c \in Nat \ {0}, a \in Nat \ {0} :
        /\ n = arena.slot_count /\ c = arena.slot_capacity /\ a = builder.alignment
        /\ n * c <= region.len /\ c % a = 0
  BY <1>1, PowerSize DEF SlotsMade
<1>3. ASSUME NEW i \in 0 .. n - 1
      PROVE  /\ i * c + c <= region.len
             /\ region.base % a = 0 => (region.base + i * c) % a = 0
  <2>1. i * c \in Nat /\ i * c + c <= n * c /\ n * c \in Nat
    BY RowFits
  <2>2. (i * c) % a = 0
    BY <1>2, RepeatAligned
  <2>3. region.base % a = 0 => (region.base + i * c) % a = 0
    <3>1. PICK b \in Nat, y \in Nat : b = region.base /\ y = i * c /\ y % a = 0
      BY <1>1, <2>1, <2>2
    <3>2. b % a = 0 => (b + y) % a = 0
      BY <3>1, ShiftAligned
    <3> QED
      BY <3>1, <3>2, Zenon
  <2> QED
    BY <1>1, <1>2, <2>1, <2>3
<1>4. \A e \in Extents : \E i \in 0 .. n - 1 : e = [at |-> i * c, size |-> c]
  BY <1>2 DEF Extents
<1> QED
  BY <1>2, <1>3, <1>4 DEF ExtentsInside

(* The blocks of each order, one after the other.                          *)
LEMMA BlockExtents ==
  ASSUME BuildInv, Alive, arena.of = "buddy"
  PROVE  ExtentsInside
<1>1. /\ region.base \in Nat /\ region.len \in Nat /\ builder.alignment \in PowersOfTwo /\ BlocksMade
  BY PowersAre DEF BuildInv, ArenaMade, Alive
<1>2. PICK i \in 0 .. Bits - 1, k \in 0 .. Bits - 1 :
        /\ i + k <= Bits - 1
        /\ arena.min_block_size = Pow2(i) /\ arena.max_order = k
        /\ Pow2(i + k) <= region.len
        /\ builder.alignment <= Pow2(i)
  BY <1>1 DEF BlocksMade
<1>3. PICK a \in Nat \ {0}, m \in Nat \ {0} : a = builder.alignment /\ m = Pow2(i) /\ m % a = 0
  <2>1. PICK b \in 0 .. Bits - 1 : builder.alignment = Pow2(b)
    BY <1>1, PowerSize
  <2>2. b \in 0 .. Bits /\ i \in 0 .. Bits /\ Pow2(b) \in Nat \ {0} /\ Pow2(i) \in Nat \ {0}
    BY Pow2Size
  <2>3. b <= i
    BY <1>2, <2>1, <2>2, Pow2Order
  <2>4. Pow2(i) % Pow2(b) = 0
    BY <2>2, <2>3, Pow2Divides
  <2> QED
    BY <2>1, <2>2, <2>4
<1>4. ASSUME NEW o \in 0 .. k, NEW j \in 0 .. Pow2(k - o) - 1
      PROVE  /\ Pow2(o) * m > 0
             /\ j * Pow2(o) * m + Pow2(o) * m <= region.len
             /\ region.base % a = 0 => (region.base + j * Pow2(o) * m) % a = 0
  <2>1. PICK d \in 0 .. Bits : /\ d = k - o /\ o \in 0 .. Bits /\ i \in 0 .. Bits /\ o + i <= Bits
                               /\ o + i \in 0 .. Bits /\ d + (o + i) = i + k /\ d + (o + i) <= Bits
    BY <1>2, BitsAssumption
  <2>2. PICK p \in Nat \ {0}, n \in Nat \ {0} : p = Pow2(o) /\ n = Pow2(d) /\ j \in 0 .. n - 1
    BY <2>1, Pow2Positive
  <2>3. Pow2(o + i) = p * m /\ Pow2(i + k) = n * Pow2(o + i)
    BY <1>3, <2>1, <2>2, Pow2Product
  <2>4. PICK c \in Nat \ {0} : c = p * m
    BY <1>3, <2>2
  <2>5. j * p * m = j * c /\ j \in Nat
    BY <1>3, <2>2, <2>4
  <2>6. j * c \in Nat /\ j * c + c <= n * c /\ n * c \in Nat
    BY <2>2, <2>4, RowFits
  <2>7. c % a = 0
    BY <1>3, <2>2, <2>4, RepeatAligned
  <2>8. (j * c) % a = 0
    BY <1>3, <2>4, <2>5, <2>7, RepeatAligned
  <2>9. region.base % a = 0 => (region.base + j * c) % a = 0
    <3>1. PICK b \in Nat : b = region.base
      BY <1>1
    <3>2. PICK y \in Nat : y = j * c /\ y % a = 0
      BY <2>6, <2>8, Zenon
    <3>3. b % a = 0 => (b + y) % a = 0
      <4>1. y % a = 0
        BY <3>2, Zenon
      <4> QED
        BY <4>1, ShiftAligned
    <3> QED
      BY <3>1, <3>2, <3>3, Zenon
  <2>10. j * c + c <= region.len
    BY <1>1, <1>2, <2>3, <2>4, <2>6
  <2> QED
    BY <2>2, <2>4, <2>5, <2>9, <2>10
<1>5. \A e \in Extents :
        \E o \in 0 .. k : \E j \in 0 .. Pow2(k - o) - 1 :
          e = [at |-> j * Pow2(o) * m, size |-> Pow2(o) * m]
  BY <1>2, <1>3 DEF Extents
<1> QED
  BY <1>3, <1>4, <1>5 DEF ExtentsInside

(* prefault_region touches every page of the usable memory, from a start   *)
(* within a page all but the last.                                         *)
LEMMA PagesRight == BuildInv => PagesTouched
<1> SUFFICES ASSUME BuildInv, Alive, touched # {}
             PROVE  /\ touched \subseteq arena.ptr .. arena.ptr + arena.usable - 1
                    /\ \A addr \in Missed :
                         /\ arena.ptr % builder.page # 0
                         /\ addr \div builder.page = (arena.ptr + arena.usable - 1) \div builder.page
  BY DEF PagesTouched
<1>1. stage = "ready" /\ touched = prefault_region(arena.ptr, arena.usable, builder.page)
  BY DEF BuildInv, Touched, Alive
<1>2. builder.page # None
  BY <1>1 DEF prefault_region
<1>3. builder.page \in PageSizes
  <2>1. builder \in FixedBuilders \cup BuddyBuilders
    BY <1>1 DEF BuildInv, Shape, Touched
  <2> QED
    BY <2>1 DEF FixedBuilders, BuddyBuilders
<1>4. PICK p \in Nat \ {0}, ptr \in Nat, n \in Nat : p = builder.page /\ ptr = arena.ptr /\ n = arena.usable
  <2>1. builder.page \in Nat \ {0}
    BY <1>2, <1>3, PowersAre DEF PageSizes
  <2>2. arena.ptr \in Nat
    BY <1>1 DEF BuildInv, ArenaMade
  <2>3. arena.usable \in Nat
    <3>1. CASE SlotsMade
      BY <3>1 DEF SlotsMade
    <3>2. CASE BlocksMade
      <4>1. PICK i \in 0 .. Bits - 1, k \in 0 .. Bits - 1 : i + k <= Bits - 1 /\ arena.usable = Pow2(i + k)
        BY <3>2 DEF BlocksMade
      <4>2. i + k \in 0 .. Bits - 1
        BY <4>1, BitsAssumption
      <4> QED
        BY <4>1, <4>2, Pow2Size
    <3> QED
      BY <1>1, <3>1, <3>2 DEF BuildInv, ArenaMade
  <2> QED
    BY <2>1, <2>2, <2>3
<1>5. touched = {ptr + offset : offset \in {o \in 0 .. n - 1 : o % p = 0}}
  BY <1>1, <1>2, <1>4, Zenon DEF prefault_region
<1>6. touched \subseteq ptr .. ptr + n - 1
  BY <1>4, <1>5
<1>7. ASSUME ptr % p = 0, NEW addr \in ptr .. ptr + n - 1
      PROVE  \E t \in touched : t \div p = addr \div p
  <2>1. PICK d \in Nat : addr = ptr + d /\ d \in 0 .. n - 1
    <3>1. addr - ptr \in 0 .. n - 1 /\ addr = ptr + (addr - ptr)
      BY <1>4, <1>7
    <3> QED
      BY <3>1
  <2>2. PICK o \in 0 .. d : o % p = 0 /\ (ptr + o) \div p = (ptr + d) \div p
    BY <1>7, PageTouched, Zenon
  <2>3. o \in 0 .. n - 1
    BY <1>4, <2>1
  <2>4. ptr + o \in touched
    BY <1>5, <2>2, <2>3
  <2> QED
    BY <2>1, <2>2, <2>4, Zenon
<1>8. ASSUME NEW addr \in ptr .. ptr + n - 1
      PROVE  \/ \E t \in touched : t \div p = addr \div p
             \/ addr \div p = (ptr + n - 1) \div p
  <2>1. PICK d \in 0 .. n - 1 : addr = ptr + d
    <3>1. addr - ptr \in 0 .. n - 1 /\ addr = ptr + (addr - ptr)
      BY <1>4
    <3> QED
      BY <3>1
  <2>2. \A o \in 0 .. n - 1 : o % p = 0 => ptr + o \in touched
    BY <1>5
  <2> QED
    BY <2>1, <2>2, PageTouchedOrLast, Zenon
<1>9. Missed = {addr \in ptr .. ptr + n - 1 : \A t \in touched : t \div p # addr \div p}
  BY <1>4, Zenon DEF Missed
<1>10. ASSUME NEW addr \in Missed
       PROVE  ptr % p # 0 /\ addr \div p = (ptr + n - 1) \div p
  <2>1. addr \in ptr .. ptr + n - 1 /\ ~ \E t \in touched : t \div p = addr \div p
    BY <1>9, Zenon
  <2> QED
    BY <1>7, <1>8, <2>1, Zenon
<1> QED
  BY <1>4, <1>6, <1>10, Zenon

(* The memory and the box are released once.                               *)
LEMMA ReleasedRight == BuildInv => ReleasedOnce
<1> SUFFICES ASSUME BuildInv PROVE ReleasedOnce
  OBVIOUS
<1>1. /\ boxes = IF Alive THEN 1 ELSE 0
      /\ deallocs = IF stage = "dropped" THEN <<[ptr |-> region.base, len |-> region.len]>>
                    ELSE << >>
      /\ caller \in BOOLEAN /\ stage \in Stages
  BY DEF BuildInv, Owned, Shape
<1>2. ASSUME Alive
      PROVE  arena.usable \in 1 .. IsizeMax /\ arena.dealloc_len \in 1 .. IsizeMax
  <2>1. PICK len \in Nat, top \in Nat :
          /\ len = region.len /\ top = IsizeMax /\ len <= top /\ arena.dealloc_len = len
          /\ SlotsMade \/ BlocksMade
    BY <1>2, PowersAre DEF BuildInv, ArenaMade, Alive
  <2>2. CASE SlotsMade
    <3>1. arena.usable \in Nat \ {0} /\ arena.usable <= len
      BY <2>1, <2>2 DEF SlotsMade
    <3> QED
      BY <2>1, <3>1
  <2>3. CASE BlocksMade
    <3>1. PICK i \in 0 .. Bits - 1, k \in 0 .. Bits - 1 :
            i + k <= Bits - 1 /\ arena.usable = Pow2(i + k) /\ Pow2(i + k) <= len
      BY <2>1, <2>3 DEF BlocksMade
    <3>2. i + k \in 0 .. Bits - 1
      BY <3>1, BitsAssumption
    <3>3. arena.usable \in Nat \ {0}
      BY <3>1, <3>2, Pow2Size
    <3> QED
      BY <2>1, <3>1, <3>3
  <2> QED
    BY <2>1, <2>2, <2>3
<1>3. ConstructionTypeOK
  <2>1. boxes \in {0, 1}
    BY <1>1
  <2> QED
    BY <1>1, <1>2, <2>1, Zenon DEF ConstructionTypeOK, Stages
<1> QED
  BY <1>1, <1>3, Zenon DEF ReleasedOnce

(* Memory of the caller's is left alone.                                   *)
LEMMA CallersRight == BuildInv => CallersMemory
<1> SUFFICES ASSUME BuildInv, builder.of # "none", ~ Allocates
             PROVE  touched = {} /\ (stage \in {"failed", "hung"} => caller /\ deallocs = << >>)
  BY DEF CallersMemory
<1>1. builder \in RawBuilders
  BY Kinds DEF BuildInv, Shape, Allocates
<1> QED
  BY <1>1 DEF BuildInv, Touched, Owned

(* No slot and no block is empty or reaches beyond the memory, and each is *)
(* aligned as the memory is: for every width of usize and all sizes that   *)
(* build_inner, build_raw, resolve, nearest and with_alignment are given.  *)
THEOREM ExtentsFit == ConstructionSpec => []ExtentsInside
<1>1. BuildInv => ExtentsInside
  <2>1. BuildInv /\ Alive => arena.of \in {"fixed", "buddy"}
    BY DEF BuildInv, ArenaMade, Alive
  <2>2. ~ Alive => ExtentsInside
    BY DEF ExtentsInside
  <2> QED
    BY <2>1, <2>2, SlotExtents, BlockExtents
<1> QED
  BY <1>1, BuiltRight, PTL

(* The deallocator is called once, with the pointer and length that the    *)
(* memory came with, and its box is freed once (Drop of ErasedDealloc).    *)
THEOREM MemoryReleasedOnce == ConstructionSpec => []ReleasedOnce
BY ReleasedRight, BuiltRight, PTL

(* "If build() returns Err, the caller retains ownership", and the memory  *)
(* of the caller is never written to by building.                          *)
THEOREM CallerKeepsMemory == ConstructionSpec => []CallersMemory
BY CallersRight, BuiltRight, PTL

(* prefault_region stays inside the memory and leaves no page out, for     *)
(* every page size and every start, unless it be the last page of a memory *)
(* that does not start one.                                                *)
THEOREM NoPageMissed == ConstructionSpec => []PagesTouched
BY PagesRight, BuiltRight, PTL

(* nearest rounds up as little as it can, however many with_alignment      *)
(* follow, and exact does not round.                                       *)
THEOREM RoundsLeast == ConstructionSpec => []GeometryLeast
<1>1. BuildInv => GeometryLeast
  BY DEF BuildInv, GeometryMade
<1> QED
  BY <1>1, BuiltRight, PTL

(* SlotSpec::resolve makes slots as many, or as large, as fit, and         *)
(* BuddyHint::resolve leaves less than half of the bytes to no block.      *)
THEOREM CarvesLargest == ConstructionSpec => []CarvedLargest
<1>1. BuildInv => CarvedLargest
  BY DEF BuildInv, ArenaMade
<1> QED
  BY <1>1, BuiltRight, PTL

(* Every BuildError is justified: a SizeOverflow by a size that is no      *)
(* usize, or that is beyond what Layout allows, as of all geometries only  *)
(* that of half the address space is.  And build panics or hangs only on a *)
(* hint above that.                                                        *)
THEOREM ErrorsJustified == ConstructionSpec => []RefusalsJustified
<1>1. BuildInv => RefusalsJustified
  BY DEF BuildInv
<1> QED
  BY <1>1, BuiltRight, PTL

(* order_for_request gives every request that the arena can hold the       *)
(* smallest block that holds it, and a larger one none.  Up to half of the *)
(* address space it refuses the larger one, so that allocate_async does    *)
(* not wait for what can never be; above, where next_power_of_two          *)
(* overflows, this says no more than that there is no block.               *)
THEOREM SmallestBlock == ConstructionSpec => []RequestsFit
<1>1. BuildInv => RequestsFit
  BY DEF BuildInv, Answered
<1> QED
  BY <1>1, BuiltRight, PTL

=============================================================================
