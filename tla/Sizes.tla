------------------------------- MODULE Sizes -------------------------------
(***************************************************************************)
(* The arithmetic of sizes, on a usize of Bits bits: BuddyGeometry         *)
(* (geometry.rs), SlotSpec and BuddyHint (spec.rs), align_up (arena.rs)    *)
(* and order_for_request (buddy.rs).  A result is a record whose err is    *)
(* None, or else the BuildError; or, where the arithmetic is not checked,  *)
(* "panic" with overflow checks compiled in and "hang" without.            *)
(***************************************************************************)
EXTENDS Powers, Option

CONSTANTS
  Bits,             \* the width of usize
  OverflowChecks    \* compiled with them

ASSUME BitsAssumption == Bits \in Nat \ {0}

ASSUME OverflowChecksAssumption == OverflowChecks \in BOOLEAN

(* BuildError, and the ends that are none: a panic, an endless loop, a      *)
(* builder that is dropped *)
Errors ==
  {"SizeOverflow", "InvalidAlignment", "InvalidGeometry", "NullPointer", "ZeroUsableSlots",
   "SlotSizeExceedsBacking", "panic", "hang", "dropped"}

ASSUME ErrorsAssumption == None \notin Int /\ None \notin Errors

UsizeMax == Pow2(Bits) - 1

IsizeMax == Pow2(Bits - 1) - 1

PowersOfTwo == {Pow2(k) : k \in 0 .. Bits - 1}

Err(e) == [err |-> e]

(* The power of two at or above n, and 0 if that is no usize: what         *)
(* next_power_of_two wraps to.  The checked version returns None then.     *)
NextPowerOfTwo(n) ==
  IF n > Pow2(Bits - 1) THEN 0
  ELSE CHOOSE p \in PowersOfTwo : n <= p /\ (p < 2 * n \/ p = 1)

prev_power_of_two(n) == 
  IF n = 0 THEN 0 ELSE CHOOSE p \in PowersOfTwo : p <= n /\ n < 2 * p

TrailingZeros(n) ==
  IF n = 0 THEN Bits ELSE CHOOSE k \in 0 .. Bits - 1 : n % Pow2(k) = 0 /\ n % Pow2(k + 1) # 0

(* n << k as it is compiled without overflow checks *)
Shl(n, k) == (n * Pow2(k % Bits)) % Pow2(Bits)

(* Both for an align that is a power of two. *)
align_down(val, align) == val - (val % align)

(* None for a sum that is no usize *)
align_up(value, alignment) ==
  IF value + alignment - 1 > UsizeMax THEN None
  ELSE align_down(value + alignment - 1, alignment)

-----------------------------------------------------------------------------
(* geometry.rs *)

Geometry(total, min_block, max_order, alignment, cap) ==
  [err |-> None, total_size |-> total, min_block_size |-> min_block,
   max_order |-> max_order, alignment |-> alignment, cap_capacity |-> cap]

(* Mutant: blocks rounds down. *)
snap_rounding_down(total_hint, min_block, alignment) ==
  LET t == IF total_hint < min_block THEN min_block ELSE total_hint
      pow2_blocks == NextPowerOfTwo(t \div min_block)
  IN IF pow2_blocks * min_block > UsizeMax THEN Err("SizeOverflow")
     ELSE Geometry(pow2_blocks * min_block, min_block, TrailingZeros(pow2_blocks), alignment, TRUE)

snap_to_valid_geometry(total_hint, min_block, alignment) ==
  LET t == IF total_hint < min_block THEN min_block ELSE total_hint
      sum == t + min_block - 1
      pow2_blocks == NextPowerOfTwo(sum \div min_block)
  IN IF sum > UsizeMax \/ pow2_blocks = 0 \/ pow2_blocks * min_block > UsizeMax
     THEN Err("SizeOverflow")
     ELSE Geometry(pow2_blocks * min_block, min_block, TrailingZeros(pow2_blocks), alignment, TRUE)

exact(total, min_block) ==
  LET blocks == total \div min_block IN
  IF /\ min_block \in PowersOfTwo
     /\ total >= min_block
     /\ total % min_block = 0
     /\ blocks \in PowersOfTwo
  THEN Geometry(total, min_block, TrailingZeros(blocks), 1, FALSE)
  ELSE Err("InvalidGeometry")

nearest(total, min_block_size) ==
  LET min_block == NextPowerOfTwo(min_block_size) IN
  IF min_block = 0 THEN Err("SizeOverflow") ELSE snap_to_valid_geometry(total, min_block, 1)

with_alignment(g, a) ==
  IF a \notin PowersOfTwo THEN Err("InvalidAlignment")
  ELSE IF a <= g.min_block_size THEN [g EXCEPT !.alignment = a]
  ELSE IF ~ g.cap_capacity THEN Err("InvalidGeometry")
  ELSE snap_to_valid_geometry(g.total_size, a, a)

-----------------------------------------------------------------------------
(* spec.rs *)

Carved(count, capacity) == [err |-> None, slot_count |-> count, slot_capacity |-> capacity]

(* Mutant: the count goes by the size before it was aligned. *)
ResolveSlots_unaligned(spec, block_len, alignment) ==
  LET size == align_down(IF spec.by = "Count" THEN block_len \div spec.n ELSE spec.n, alignment) IN
  IF size = 0 THEN Err("ZeroUsableSlots")
  ELSE IF spec.by = "Count" THEN Carved(spec.n, size)
  ELSE IF spec.n > block_len THEN Err("SlotSizeExceedsBacking")
  ELSE Carved(block_len \div spec.n, size)

(* SlotSpec::resolve *)
ResolveSlots(spec, block_len, alignment) ==
  IF spec.by = "Count"
  THEN LET size == align_down(block_len \div spec.n, alignment) IN
       IF size = 0 THEN Err("ZeroUsableSlots") ELSE Carved(spec.n, size)
  ELSE LET size == align_down(spec.n, alignment) IN
       IF size = 0 THEN Err("ZeroUsableSlots")
       ELSE IF size > block_len THEN Err("SlotSizeExceedsBacking")
       ELSE Carved(block_len \div size, size)

(* Mutant: the loop goes one order too far. *)
OrdersTooMany(min_block, block_len) ==
  {k \in 1 .. Bits - 1 : /\ Shl(min_block, k) > block_len
                         /\ \A j \in 0 .. k - 1 : Shl(min_block, j) <= block_len}

(* The order the loop of BuddyHint::resolve stops at, if it does. *)
Orders(min_block, block_len) ==
  {k \in 0 .. Bits - 1 : /\ Shl(min_block, k + 1) > block_len
                         /\ \A j \in 0 .. k - 1 : Shl(min_block, j + 1) <= block_len}

(* Mutant: no smaller power of two is tried. *)
ResolveHint_up(min, block_len) ==
  LET min_block == NextPowerOfTwo(min) IN
  IF min_block > block_len THEN Err("ZeroUsableSlots")
  ELSE IF Orders(min_block, block_len) = {} THEN Err("hang")
  ELSE [err |-> None, min_block_size |-> min_block,
        max_order |-> CHOOSE k \in Orders(min_block, block_len) : TRUE]

(* BuddyHint::resolve *)
ResolveHint(min, block_len) ==
  LET up == NextPowerOfTwo(min)
      min_block == IF up > block_len THEN prev_power_of_two(min) ELSE up
  IN IF OverflowChecks /\ up = 0 THEN Err("panic")
     ELSE IF min_block > block_len THEN Err("ZeroUsableSlots")
     ELSE IF Orders(min_block, block_len) = {}
          THEN Err(IF OverflowChecks THEN "panic" ELSE "hang")
     ELSE [err |-> None, min_block_size |-> min_block,
           max_order |-> CHOOSE k \in Orders(min_block, block_len) : TRUE]

-----------------------------------------------------------------------------
(* buddy.rs *)

(* The size of the block a request needs; 0 if that is no usize. *)
RequestSize(len, min_block) == NextPowerOfTwo(IF len < min_block THEN min_block ELSE len)

(* order_for_request panics. *)
RequestPanics(len, min_block) == OverflowChecks /\ RequestSize(len, min_block) = 0

(* Mutant: a request below the smallest block is not raised to it. *)
order_of_small(len, min_block, total) ==
  LET size == NextPowerOfTwo(len) IN
  IF size > total THEN None ELSE TrailingZeros(size) - TrailingZeros(min_block)

(* None for a request that is too large *)
order_for_request(len, min_block, total) ==
  LET size == RequestSize(len, min_block) IN
  IF size > total THEN None ELSE TrailingZeros(size) - TrailingZeros(min_block)
=============================================================================
