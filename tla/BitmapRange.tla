---------------------------- MODULE BitmapRange ----------------------------
(***************************************************************************)
(* The other use of an AtomicBitmap (bitmap.rs): the zeroed bitmap of an   *)
(* arena, where the owner of a block marks its range of bits and asks      *)
(* later whether a range is marked.  Ranges of different owners do not     *)
(* overlap, but share words.  A word is the set of its bits that are 1,    *)
(* and so is a mask.                                                       *)
(***************************************************************************)
EXTENDS Powers, FiniteSets

CONSTANTS
  Owners,
  SlotCount,
  BitsPerWord

VARIABLES
  words,    \* the bitmap
  marked,   \* the bits marked by the initial state or by a set_range that
            \*   returned
  range,    \* range[o]: the bits start .. end - 1 of o's block
  pc,       \* pc[o]: what o does next
  word,     \* word[o]: the word that o's call is at
  answer    \* answer[o]: what all_set_in_range returned

vars == <<words, marked, range, pc, word, answer>>

AllBits == 0 .. BitsPerWord - 1

(* div_ceil, max and next_power_of_two: the words, with padding *)
PaddedWords ==
  LET actual == (SlotCount + BitsPerWord - 1) \div BitsPerWord IN
  CHOOSE n \in {Pow2(k) : k \in 0 .. actual} : n >= actual /\ (n = 1 \/ n < 2 * actual)

(* 1.wrapping_shl(n) - 1: a shift by the whole width is none *)
LowBits(n) == 0 .. (n % BitsPerWord) - 1

(* with_allocation_state *)
InitialWord(w, initially_free) ==
  LET valid_bits == SlotCount - w * BitsPerWord IN
  IF ~ initially_free \/ valid_bits <= 0 THEN {}
  ELSE IF valid_bits >= BitsPerWord THEN AllBits
  ELSE LowBits(valid_bits)

Idle == [start |-> 0, end |-> 0]

Init ==
  /\ \E initially_free \in BOOLEAN :
       /\ words = [w \in 0 .. PaddedWords - 1 |-> InitialWord(w, initially_free)]
       /\ marked = IF initially_free THEN 0 .. SlotCount - 1 ELSE {}
  /\ range = [o \in Owners |-> Idle]
  /\ pc = [o \in Owners |-> "idle"]
  /\ word = [o \in Owners |-> 0]
  /\ answer = [o \in Owners |-> FALSE]

(* The bits below n, where n may be the whole width. *)
UpTo(n) == IF n >= BitsPerWord THEN AllBits ELSE LowBits(n)

(* The mask of the range r in word w, from range_mask, first_mask,         *)
(* Word::MAX and last_mask.                                                *)
Mask(r, w) ==
  LET first_word == r.start \div BitsPerWord
      last_word == (r.end - 1) \div BitsPerWord
      low == IF w = first_word THEN LowBits(r.start % BitsPerWord) ELSE {}
      high == IF w = last_word THEN UpTo(r.end - last_word * BitsPerWord) ELSE AllBits
  IN high \ low

LastWord(o) == (range[o].end - 1) \div BitsPerWord

(* The bits of the bitmap that the range r stands for. *)
RangeBits(r) == r.start .. r.end - 1

(* Start at the first word of the range r. *)
Begin(o, r, place) ==
  /\ pc' = [pc EXCEPT ![o] = place]
  /\ word' = [word EXCEPT ![o] = r.start \div BitsPerWord]

-----------------------------------------------------------------------------
(* A block is allocated, and all_set_in_range called for it. *)
Query(o, r) ==
  /\ pc[o] = "idle"
  /\ \A u \in Owners : RangeBits(range[u]) \cap RangeBits(r) = {}
  /\ range' = [range EXCEPT ![o] = r]
  /\ Begin(o, r, "query")
  /\ UNCHANGED <<words, marked, answer>>

(* One word is loaded and compared. *)
QueryWord(o) ==
  LET all == Mask(range[o], word[o]) \subseteq words[word[o]] IN
  /\ pc[o] = "query"
  /\ IF all /\ word[o] < LastWord(o)
     THEN word' = [word EXCEPT ![o] = @ + 1] /\ UNCHANGED <<pc, answer>>
     ELSE /\ answer' = [answer EXCEPT ![o] = all]
          /\ pc' = [pc EXCEPT ![o] = "answered"]
          /\ UNCHANGED word
  /\ UNCHANGED <<words, marked, range>>

(* The block is released, and set_range called for it. *)
SetRange(o) ==
  /\ pc[o] = "answered"
  /\ Begin(o, range[o], "set")
  /\ UNCHANGED <<words, marked, range, answer>>

(* Mutant: the word is stored, not or'ed. *)
SetWord_store(o) ==
  /\ pc[o] = "set"
  /\ words' = [words EXCEPT ![word[o]] = Mask(range[o], word[o])]
  /\ IF word[o] < LastWord(o)
     THEN word' = [word EXCEPT ![o] = @ + 1] /\ UNCHANGED <<pc, marked, range>>
     ELSE /\ pc' = [pc EXCEPT ![o] = "idle"]
          /\ marked' = marked \cup RangeBits(range[o])
          /\ range' = [range EXCEPT ![o] = Idle]
          /\ UNCHANGED word
  /\ UNCHANGED answer

(* One fetch_or; after the last the block is free. *)
SetWord(o) ==
  /\ pc[o] = "set"
  /\ words' = [words EXCEPT ![word[o]] = @ \cup Mask(range[o], word[o])]
  /\ IF word[o] < LastWord(o)
     THEN word' = [word EXCEPT ![o] = @ + 1] /\ UNCHANGED <<pc, marked, range>>
     ELSE /\ pc' = [pc EXCEPT ![o] = "idle"]
          /\ marked' = marked \cup RangeBits(range[o])
          /\ range' = [range EXCEPT ![o] = Idle]
          /\ UNCHANGED word
  /\ UNCHANGED answer

Ranges == {r \in [start : 0 .. SlotCount - 1, end : 1 .. SlotCount] : r.start < r.end}

Next ==
  \E o \in Owners :
    \/ \E r \in Ranges : Query(o, r)
    \/ QueryWord(o) \/ SetRange(o) \/ SetWord(o)

Spec == Init /\ [][Next]_vars

-----------------------------------------------------------------------------
(* The bits of the whole bitmap that are 1. *)
SetBits == UNION {{w * BitsPerWord + b : b \in words[w]} : w \in DOMAIN words}

(* Word by word beside the set_range of others, who share the words but not *)
(* the bits: set_range sets all the bits of its range and none beside it,   *)
(* with_allocation_state all the slots' and none of the padding's, and      *)
(* all_set_in_range answers for exactly the bits of its range.              *)
RangesExact ==
  /\ marked \subseteq SetBits
  /\ SetBits \subseteq marked \cup
       UNION {RangeBits(range[o]) : o \in {u \in Owners : pc[u] = "set"}}
  /\ \A o \in Owners : pc[o] = "answered" => answer[o] = (RangeBits(range[o]) \subseteq marked)
=============================================================================
