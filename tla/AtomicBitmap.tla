---------------------------- MODULE AtomicBitmap ----------------------------
(***************************************************************************)
(* The lock-free bitmap (bitmap.rs) behind every arena.  A slot is a bit   *)
(* of a machine word, set while the slot is free.  Threads interleave at   *)
(* the granularity of one atomic instruction: the cursor's fetch_add, the  *)
(* load of one word, the fetch_and that clears a bit, the fetch_or that    *)
(* sets one.                                                               *)
(*                                                                         *)
(* The words are represented by the set of their set bits, numbered as the *)
(* slots they stand for; an instruction on word w sees Word(w), all of it  *)
(* at once and nothing else.                                               *)
(***************************************************************************)
EXTENDS Integers, Option

CONSTANTS
  Threads,       \* the threads that use the bitmap
  SlotCount,     \* slot_count
  BitsPerWord,   \* BITS_PER_WORD
  ScanWords      \* scan_words: the word count rounded up to a power of two

SlotIndices == 0 .. SlotCount - 1

WordIndices == 0 .. ScanWords - 1

ASSUME SlotCountAssumption == SlotCount \in Nat \ {0}

ASSUME BitsPerWordAssumption == BitsPerWord \in Nat \ {0}

(* Every slot lies in a scanned word; padding words hold no slot. *)
ASSUME ScanWordsAssumption ==
  /\ ScanWords \in Nat \ {0}
  /\ \A s \in SlotIndices : s \div BitsPerWord \in WordIndices

ASSUME NoneAssumption == None \notin SlotIndices

VARIABLES
  free,      \* the set bits of all the words
  cursor,    \* the shared cursor, as far as "& word_mask" looks at it
  held,      \* held[t]: slots t obtained and nobody has freed since
  pc,        \* pc[t]: the instruction t executes next
  word,      \* word[t]: word_idx of the word t's try_alloc is looking at
  left,      \* left[t]: the words it has still to look at, this one included
  bit,       \* bit[t]: the slot it saw free and is about to claim
  standing,  \* history: standing[t] is free at every instant of t's call
  full       \* history: the callers whose call has seen an instant with
             \*   no slot free

vars == <<free, cursor, held, pc, word, left, bit, standing, full>>

(* Mutant: the index is not masked. *)
Unwrapped(n) == n

(* "& word_mask", on an index below twice the word count. *)
Wrap(n) == IF n < ScanWords THEN n ELSE n - ScanWords

(* The value an atomic load of word w returns. *)
Word(w) == {s \in free : s \div BitsPerWord = w}

(* trailing_zeros: the lowest set bit. *)
LowestBit(bits) == CHOOSE s \in bits : \A r \in bits : s <= r

Init ==
  /\ free = SlotIndices
  /\ cursor = 0
  /\ held = [t \in Threads |-> {}]
  /\ pc = [t \in Threads |-> "idle"]
  /\ word = [t \in Threads |-> 0]
  /\ left = [t \in Threads |-> 0]
  /\ bit = [t \in Threads |-> None]
  /\ standing = [t \in Threads |-> {}]
  /\ full = {}

(* The threads inside try_alloc. *)
Calling == {t \in Threads : pc[t] # "idle"}

(* The history variables follow every step. *)
Watch ==
  /\ standing' = [t \in Threads |->
                    IF t \notin Calling' THEN {}
                    ELSE IF t \in Calling THEN standing[t] \cap free'
                    ELSE free']
  /\ full' = IF free' = {} THEN Calling' ELSE full \cap Calling'

-----------------------------------------------------------------------------
(* try_alloc takes its first word from the cursor. *)
TakeCursor(t) ==
  /\ pc[t] = "idle"
  /\ cursor' = Wrap(cursor + 1)
  /\ word' = [word EXCEPT ![t] = cursor]
  /\ left' = [left EXCEPT ![t] = ScanWords]
  /\ pc' = [pc EXCEPT ![t] = "load"]
  /\ UNCHANGED <<free, held, bit>>
  /\ Watch

(* try_claim_word finds a set bit and sets out to claim the lowest. *)
SeeBit(t) ==
  /\ pc[t] = "load"
  /\ Word(word[t]) # {}
  /\ bit' = [bit EXCEPT ![t] = LowestBit(Word(word[t]))]
  /\ pc' = [pc EXCEPT ![t] = "claim"]
  /\ UNCHANGED <<free, cursor, held, word, left>>
  /\ Watch

(* Mutant: the offset of the scan is added twice. *)
SkipTwoWords(t) ==
  /\ pc[t] = "load"
  /\ Word(word[t]) = {}
  /\ left[t] > 1
  /\ word' = [word EXCEPT ![t] = Wrap(Wrap(@ + 1) + 1)]
  /\ left' = [left EXCEPT ![t] = @ - 1]
  /\ UNCHANGED <<free, cursor, held, pc, bit>>
  /\ Watch

(* The word is zero and the scan moves on to the next one. *)
SkipWord(t) ==
  /\ pc[t] = "load"
  /\ Word(word[t]) = {}
  /\ left[t] > 1
  /\ word' = [word EXCEPT ![t] = Wrap(@ + 1)]
  /\ left' = [left EXCEPT ![t] = @ - 1]
  /\ UNCHANGED <<free, cursor, held, pc, bit>>
  /\ Watch

(* try_alloc returns and its locals go out of scope. *)
Return(t) ==
  /\ pc' = [pc EXCEPT ![t] = "idle"]
  /\ word' = [word EXCEPT ![t] = 0]
  /\ left' = [left EXCEPT ![t] = 0]
  /\ bit' = [bit EXCEPT ![t] = None]

(* The last word is zero as well: try_alloc returns None. *)
GiveUp(t) ==
  /\ pc[t] = "load"
  /\ Word(word[t]) = {}
  /\ left[t] = 1
  /\ Return(t)
  /\ UNCHANGED <<free, cursor, held>>
  /\ Watch

(* Mutant: the previous value the fetch_and returns is not looked at. *)
ClaimUnchecked(t) ==
  /\ pc[t] = "claim"
  /\ free' = free \ {bit[t]}
  /\ held' = [held EXCEPT ![t] = @ \cup {bit[t]}]
  /\ Return(t)
  /\ UNCHANGED cursor
  /\ Watch

(* The fetch_and clears the bit, and it was set: the slot is the caller's. *)
Claim(t) ==
  /\ pc[t] = "claim"
  /\ bit[t] \in free
  /\ free' = free \ {bit[t]}
  /\ held' = [held EXCEPT ![t] = @ \cup {bit[t]}]
  /\ Return(t)
  /\ UNCHANGED cursor
  /\ Watch

(* Mutant: a lost race is taken for an empty word. *)
LoseBitGiveUp(t) ==
  /\ pc[t] = "claim"
  /\ bit[t] \notin free
  /\ Return(t)
  /\ UNCHANGED <<free, cursor, held>>
  /\ Watch

(* Mutant: the fetch_and is repeated without a fresh load. *)
LoseBitSpin(t) ==
  /\ pc[t] = "claim"
  /\ bit[t] \notin free
  /\ UNCHANGED <<free, cursor, held, pc, word, left, bit>>
  /\ Watch

(* The fetch_and finds the bit already clear: load the word again. *)
LoseBit(t) ==
  /\ pc[t] = "claim"
  /\ bit[t] \notin free
  /\ pc' = [pc EXCEPT ![t] = "load"]
  /\ bit' = [bit EXCEPT ![t] = None]
  /\ UNCHANGED <<free, cursor, held, word, left>>
  /\ Watch

(* try_claim_exact on a slot that is free; on any other it changes nothing. *)
ClaimExact(t, s) ==
  /\ pc[t] = "idle"
  /\ s \in free
  /\ free' = free \ {s}
  /\ held' = [held EXCEPT ![t] = @ \cup {s}]
  /\ UNCHANGED <<cursor, pc, word, left, bit>>
  /\ Watch

(* A holder's slot is freed, by whichever thread dropped the buffer. *)
Free(u, s) ==
  /\ s \in held[u]
  /\ free' = free \cup {s}
  /\ held' = [held EXCEPT ![u] = @ \ {s}]
  /\ UNCHANGED <<cursor, pc, word, left, bit>>
  /\ Watch

AllocStep(t) ==
  SeeBit(t) \/ SkipWord(t) \/ GiveUp(t) \/ Claim(t) \/ LoseBit(t)

Next ==
  \E t \in Threads :
    \/ TakeCursor(t)
    \/ AllocStep(t)
    \/ \E s \in SlotIndices : ClaimExact(t, s) \/ Free(t, s)

(* A thread inside try_alloc keeps running; calls and frees may stop. *)
Fairness == \A t \in Threads : WF_vars(AllocStep(t))

Spec == Init /\ [][Next]_vars

FairSpec == Spec /\ Fairness
-----------------------------------------------------------------------------
(* Types; the cursor and the word scanned stay below the word count. *)
TypeOK ==
  /\ free \subseteq SlotIndices
  /\ cursor \in WordIndices
  /\ held \in [Threads -> SUBSET SlotIndices]
  /\ pc \in [Threads -> {"idle", "load", "claim"}]
  /\ word \in [Threads -> WordIndices]
  /\ left \in [Threads -> 0 .. ScanWords]
  /\ bit \in [Threads -> SlotIndices \cup {None}]
  /\ standing \in [Threads -> SUBSET SlotIndices]
  /\ full \subseteq Threads

(* Exclusive ownership (try_claim_word, try_claim_exact, free): a slot is   *)
(* free or held by exactly one thread, never both, never by two and never   *)
(* by none, however the instructions of the threads interleave.             *)
SlotsPartitioned ==
  \A s \in SlotIndices :
    /\ s \in free <=> \A t \in Threads : s \notin held[t]
    /\ \A t, u \in Threads : s \in held[t] /\ s \in held[u] => t = u

(* try_alloc misses no slot that is there for the taking: when it returns   *)
(* None, no slot was free during the whole of the call.                     *)
NoneIsHonest ==
  [][\A t \in Threads :
       pc[t] = "load" /\ pc'[t] = "idle" => standing[t] = {}]_vars

(* The reason NoneIsHonest holds: a slot that has stayed free lies in a      *)
(* word the scan has still to look at.                                      *)
ScannedWordsEmpty ==
  \A t \in Threads : \A s \in standing[t] :
    /\ s \in free
    /\ \E k \in 0 .. left[t] - 1 : s \div BitsPerWord = Wrap(word[t] + k)

(* A thread spins in try_alloc for ever only while other threads keep       *)
(* winning slots: the retry loop of try_claim_word is lock-free.            *)
OnlyWinnersDelay ==
  \A t \in Threads :
    \/ []<>(pc[t] = "idle")
    \/ []<><<\E u \in Threads \ {t} : Claim(u) \/ \E s \in SlotIndices : ClaimExact(u, s)>>_vars

Pool == INSTANCE SlotPool WITH Slots <- SlotIndices, calling <- Calling

(* try_alloc takes effect at one instant, as SlotPool describes.  True when *)
(* the bitmap has one word.                                                 *)
Linearizable == Pool!Spec
=============================================================================
