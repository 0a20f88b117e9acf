----------------------------- MODULE BitmapUses -----------------------------
(***************************************************************************)
(* The two uses an arena makes of an AtomicBitmap: slots are claimed and   *)
(* freed in its free bitmaps, ranges are marked in its zeroed bitmap.  No  *)
(* bitmap is used both ways.                                               *)
(***************************************************************************)
EXTENDS AtomicBitmap

CONSTANTS Owners, RangeSlots     \* for the bitmap used for ranges

VARIABLES use, words, marked, range, at, index, answer

zeroed == <<words, marked, range, at, index, answer>>

R == INSTANCE BitmapRange WITH SlotCount <- RangeSlots, pc <- at, word <- index

ASSUME RangeSlotsAssumption == RangeSlots \in Nat \ {0}

UsesInit == use \in {"slots", "ranges"} /\ Init /\ R!Init

UsesNext ==
  \/ use = "slots" /\ Next /\ UNCHANGED <<use, zeroed>>
  \/ use = "ranges" /\ R!Next /\ UNCHANGED <<use, vars>>

UsesSpec == UsesInit /\ [][UsesNext]_<<use, vars, zeroed>>

(* set_range marks and all_set_in_range answers for exactly the bits of a   *)
(* range, beside others who use the same words.  See BitmapRange.          *)
RangesExact == R!RangesExact
=============================================================================
