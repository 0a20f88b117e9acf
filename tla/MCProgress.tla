----------------------------- MODULE MCProgress -----------------------------
(***************************************************************************)
(* The calls of the concurrent components end: one component at a time,    *)
(* the others at rest.                                                     *)
(***************************************************************************)
EXTENDS FixedWaiters

CONSTANTS BitmapThreads, Owners, RawSlots, Zero, Junk

VARIABLES
  component,
  bits, cursor, taken, bpc, word, left, bit, standing, full,
  slots, scrubbed, mem, handles, strong, deallocs, in_use, opc, slot, span,
  clones, heap, then

bitmap == <<bits, cursor, taken, bpc, word, left, bit, standing, full>>

fixed == <<slots, scrubbed, mem, handles, strong, deallocs, in_use, opc, slot,
           span, clones, heap, then>>

(* The free bitmap of a small arena: one word. *)
Bitmap == INSTANCE AtomicBitmap WITH
            Threads <- BitmapThreads, SlotCount <- 2, BitsPerWord <- 2, ScanWords <- 1,
            free <- bits, held <- taken, pc <- bpc

(* A fixed arena that hands out raw regions too. *)
Fixed == INSTANCE FixedArena WITH
           Slots <- RawSlots, Capacity <- 2, AutoSpill <- FALSE, InitPolicy <- "Zero",
           MaxHandles <- 2, MaxClones <- 2, MaxHeap <- 3,
           free <- slots, zeroed <- scrubbed, live <- in_use, pc <- opc

MCInit ==
  /\ component \in {"waiters", "bitmap", "fixed"}
  /\ Init
  /\ Bitmap!Init
  /\ Fixed!Init

MCNext ==
  \/ component = "waiters" /\ Next /\ UNCHANGED <<component, bitmap, fixed>>
  \/ component = "bitmap" /\ Bitmap!Next /\ UNCHANGED <<component, vars, fixed>>
  \/ component = "fixed" /\ Fixed!Next /\ UNCHANGED <<component, vars, bitmap>>

(* That of each component; the waiters' is FairSpec's. *)
Fairness ==
  /\ \A t \in Tasks : WF_vars(Step(t)) /\ WF_vars(Release(t))
  /\ Bitmap!Fairness
  /\ \A o \in Owners : WF_fixed(Fixed!Continue(o))

MCSpec == MCInit /\ [][MCNext]_<<component, vars, bitmap, fixed>> /\ Fairness

(* On a bitmap of one word try_alloc takes effect at one instant, as       *)
(* SlotPool describes.                                                     *)
Linearizable == Bitmap!Linearizable

(* A thread spins in try_alloc for ever only while other threads keep      *)
(* winning slots: the retry loop of try_claim_word is lock-free.           *)
OnlyWinnersDelay == Bitmap!OnlyWinnersDelay

(* With raw regions beside buffers, and freezes of them that fail, every   *)
(* slot still is free or has one owner.                                    *)
RawSlotsOwned == Fixed!SlotsOwned

(* Once everything has been dropped, the memory goes back to where it came *)
(* from: ArenaInner's drop runs.                                           *)
MemoryReturned == Fixed!MemoryReturned
=============================================================================
