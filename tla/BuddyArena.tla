----------------------------- MODULE BuddyArena -----------------------------
(***************************************************************************)
(* The buddy allocator (buddy.rs).  A block of order o is 2^o order-0      *)
(* leaves; each order has a bitmap of its free blocks and one bit in the   *)
(* summary word nonempty_orders, a hint.  Threads interleave at every      *)
(* atomic operation on shared metadata.                                    *)
(*                                                                         *)
(* A bitmap may have many words, so try_alloc and any_free are not atomic. *)
(* They are modelled by what AtomicBitmap guarantees for every word count: *)
(* a scan claims some block that is free, or reports none when no block    *)
(* was free for the whole of the scan (AtomicBitmap!NoneIsHonest).         *)
(***************************************************************************)
EXTENDS Integers, FiniteSets

CONSTANTS
  Threads,
  MaxOrder,      \* max_order
  Width,         \* Width[o] is 1 << o, the leaves of a block of order o
  InitPolicy,    \* "Zero" or "Uninit"
  None           \* no block, no request

Orders == 0 .. MaxOrder

ASSUME MaxOrderAssumption == MaxOrder \in Nat

ASSUME WidthAssumption ==
  /\ Width \in [Orders -> Nat \ {0}]
  /\ Width[0] = 1
  /\ \A o \in Orders : o # 0 => Width[o] = 2 * Width[o - 1]

ASSUME InitPolicyAssumption == InitPolicy \in {"Zero", "Uninit"}

AllLeaves == 0 .. Width[MaxOrder] - 1

(* blocks_at_order: 1 << (max_order - order) blocks of each order. *)
Blocks ==
  UNION {[order : {o}, idx : 0 .. Width[MaxOrder - o] - 1] : o \in Orders}

ASSUME NoneAssumption == None \notin Blocks /\ None \notin Orders

(* The leaves of a block: block_offset and block_size, in units of          *)
(* min_block_size.                                                          *)
Leaves(b) == b.idx * Width[b.order] .. (b.idx + 1) * Width[b.order] - 1

Root == [order |-> MaxOrder, idx |-> 0]

(* Mutant: the split keeps the child it frees. *)
LeftChildWrong(b) == [order |-> b.order - 1, idx |-> 2 * b.idx + 1]

LeftChild(b) == [order |-> b.order - 1, idx |-> 2 * b.idx]

RightChild(b) == [order |-> b.order - 1, idx |-> 2 * b.idx + 1]

(* Mutant: the right neighbour is taken for the buddy. *)
BuddyNext(b) == [b EXCEPT !.idx = b.idx + 1]

(* block_idx ^ 1 *)
Buddy(b) ==
  [b EXCEPT !.idx = IF b.idx % 2 = 0 THEN b.idx + 1 ELSE b.idx - 1]

Parent(b) == [order |-> b.order + 1, idx |-> b.idx \div 2]

OfOrder(o, S) == {b \in S : b.order = o}

(* The order a scan of these orders looks at first. *)
First(orders) == CHOOSE o \in orders : \A p \in orders : o <= p

VARIABLES
  free,      \* the set bits of free_bitmaps
  summary,   \* nonempty_orders, as the set of its set bits
  bufs,      \* the blocks of live buffers
  dirty,     \* the leaves whose bytes are not all zero
  zeroed,    \* zeroed_bitmap
  live,      \* metrics: bytes_live, in leaves
  net,       \* metrics: splits minus coalesces
  pc,        \* pc[t]: what thread t does next
  hand,      \* hand[t]: the block t is splitting or merging
  target,    \* target[t]: target_order of t's allocate, None in a release
  todo,      \* todo[t]: the orders this scan has still to try
  pass,      \* pass[t]: which scan, by "summary" or "full"
  steps,     \* steps[t]: split_steps
  seen,      \* seen[t]: blocks free since t's bitmap scan began
  stood      \* history: the blocks fit for t's request that have been free
             \*   since its call began

vars == <<free, summary, bufs, dirty, zeroed, live, net, pc, hand, target,
          todo, pass, steps, seen, stood>>

memory == <<dirty, zeroed>>

Init ==
  /\ free = {Root}
  /\ summary = {MaxOrder}
  /\ bufs = {}
  /\ dirty = AllLeaves
  /\ zeroed = {}
  /\ live = 0
  /\ net = 0
  /\ pc = [t \in Threads |-> "idle"]
  /\ hand = [t \in Threads |-> None]
  /\ target = [t \in Threads |-> None]
  /\ todo = [t \in Threads |-> {}]
  /\ pass = [t \in Threads |-> "none"]
  /\ steps = [t \in Threads |-> 0]
  /\ seen = [t \in Threads |-> {}]
  /\ stood = [t \in Threads |-> {}]

(* Thread t starts a scan of the bitmaps of these orders, or, with none,    *)
(* ends one; the other scans go on.                                         *)
Scan(t, orders) ==
  /\ seen' = [u \in Threads |->
                IF u = t THEN {b \in free' : b.order \in orders}
                ELSE seen[u] \cap free']
  /\ stood' = [u \in Threads |->
                 IF target'[u] = None THEN {}
                 ELSE IF target[u] = None
                 THEN {b \in free' : b.order >= target'[u]}
                 ELSE stood[u] \cap free']

(* The call returns and its locals go out of scope. *)
Return(t) ==
  /\ pc' = [pc EXCEPT ![t] = "idle"]
  /\ hand' = [hand EXCEPT ![t] = None]
  /\ target' = [target EXCEPT ![t] = None]
  /\ todo' = [todo EXCEPT ![t] = {}]
  /\ pass' = [pass EXCEPT ![t] = "none"]
  /\ steps' = [steps EXCEPT ![t] = 0]
-----------------------------------------------------------------------------
(* allocate: order_for_request has turned the length into an order.  A      *)
(* request larger than the arena fails at once and changes nothing here.    *)
Request(t, o) ==
  /\ pc[t] = "idle"
  /\ target' = [target EXCEPT ![t] = o]
  /\ pc' = [pc EXCEPT ![t] = "summary"]
  /\ UNCHANGED <<free, summary, bufs, memory, live, net, hand, todo, pass, steps>>
  /\ Scan(t, {})

(* try_allocate_from_summary loads the summary; when it names no order that *)
(* would do, the full scan follows.                                         *)
LoadSummary(t) ==
  LET named == {o \in summary : o >= target[t]} IN
  /\ pc[t] = "summary"
  /\ todo' = [todo EXCEPT ![t] = IF named = {} THEN target[t] .. MaxOrder ELSE named]
  /\ pass' = [pass EXCEPT ![t] = IF named = {} THEN "full" ELSE "summary"]
  /\ pc' = [pc EXCEPT ![t] = "scan"]
  /\ UNCHANGED <<free, summary, bufs, memory, live, net, hand, target, steps>>
  /\ Scan(t, {First(todo'[t])})

(* try_alloc on the order at hand finds nothing, and so on to the next. *)
NextOrder(t) ==
  /\ pc[t] = "scan"
  /\ seen[t] = {}
  /\ todo[t] # {First(todo[t])}
  /\ todo' = [todo EXCEPT ![t] = @ \ {First(@)}]
  /\ UNCHANGED <<free, summary, bufs, memory, live, net, pc, hand, target, pass, steps>>
  /\ Scan(t, {First(todo'[t])})

(* No order the summary named had a block: try_allocate_from_full_scan. *)
FullScan(t) ==
  /\ pc[t] = "scan"
  /\ pass[t] = "summary"
  /\ seen[t] = {}
  /\ todo[t] = {First(todo[t])}
  /\ pass' = [pass EXCEPT ![t] = "full"]
  /\ todo' = [todo EXCEPT ![t] = target[t] .. MaxOrder]
  /\ UNCHANGED <<free, summary, bufs, memory, live, net, pc, hand, target, steps>>
  /\ Scan(t, {First(todo'[t])})

(* Mutant: no full scan after the summary's. *)
ArenaFullBySummary(t) ==
  /\ pc[t] = "scan"
  /\ seen[t] = {}
  /\ todo[t] = {First(todo[t])}
  /\ Return(t)
  /\ UNCHANGED <<free, summary, bufs, memory, live, net>>
  /\ Scan(t, {})

(* The full scan found nothing either. *)
ArenaFull(t) ==
  /\ pc[t] = "scan"
  /\ pass[t] = "full"
  /\ seen[t] = {}
  /\ todo[t] = {First(todo[t])}
  /\ Return(t)
  /\ UNCHANGED <<free, summary, bufs, memory, live, net>>
  /\ Scan(t, {})

(* try_alloc claims a block; maybe_clear_summary goes on to any_free. *)
TakeBlock(t, b) ==
  /\ pc[t] = "scan"
  /\ b \in OfOrder(First(todo[t]), free)
  /\ free' = free \ {b}
  /\ hand' = [hand EXCEPT ![t] = b]
  /\ pc' = [pc EXCEPT ![t] = "check"]
  /\ todo' = [todo EXCEPT ![t] = {}]
  /\ pass' = [pass EXCEPT ![t] = "none"]
  /\ UNCHANGED <<summary, bufs, memory, live, net, target, steps>>
  /\ Scan(t, {b.order})

(* The order maybe_clear_summary is about: a release already holds the      *)
(* parent of the pair it merged.                                            *)
CheckedOrder(t) ==
  IF target[t] = None THEN hand[t].order - 1 ELSE hand[t].order

(* After maybe_clear_summary an allocate splits; a release records the      *)
(* coalesce and tries to merge further.                                     *)
Proceed(t) ==
  /\ pc' = [pc EXCEPT ![t] = IF target[t] = None THEN "merge" ELSE "split"]
  /\ net' = IF target[t] = None THEN net - 1 ELSE net
  /\ UNCHANGED <<free, bufs, memory, live, hand, target, todo, pass, steps>>
  /\ Scan(t, {})

(* any_free comes upon a free block. *)
StillFree(t) ==
  /\ pc[t] = "check"
  /\ OfOrder(CheckedOrder(t), free) # {}
  /\ UNCHANGED summary
  /\ Proceed(t)

(* any_free comes upon none. *)
SeeEmpty(t) ==
  /\ pc[t] = "check"
  /\ seen[t] = {}
  /\ pc' = [pc EXCEPT ![t] = "clear"]
  /\ UNCHANGED <<free, summary, bufs, memory, live, net, hand, target, todo, pass, steps>>
  /\ Scan(t, {})

(* The summary bit is cleared, whatever has been freed since any_free. *)
ClearSummary(t) ==
  /\ pc[t] = "clear"
  /\ summary' = summary \ {CheckedOrder(t)}
  /\ Proceed(t)

(* split_down announces the child order in the summary ... *)
MarkChild(t) ==
  /\ pc[t] = "split"
  /\ hand[t].order > target[t]
  /\ summary' = summary \cup {hand[t].order - 1}
  /\ pc' = [pc EXCEPT ![t] = "push"]
  /\ UNCHANGED <<free, bufs, memory, live, net, hand, target, todo, pass, steps>>
  /\ Scan(t, {})

(* ... frees the right child, and goes on with the left one. *)
PushRight(t) ==
  /\ pc[t] = "push"
  /\ free' = free \cup {RightChild(hand[t])}
  /\ hand' = [hand EXCEPT ![t] = LeftChild(@)]
  /\ steps' = [steps EXCEPT ![t] = @ + 1]
  /\ pc' = [pc EXCEPT ![t] = "split"]
  /\ UNCHANGED <<summary, bufs, memory, live, net, target, todo, pass>>
  /\ Scan(t, {})

(* Mutant: one split is recorded however many were made. *)
RecordOneSplit(t) == net' = net + IF steps[t] > 0 THEN 1 ELSE 0

RecordSplits(t) == net' = net + steps[t]

(* The block has the wanted size: zero it unless every leaf was scrubbed on *)
(* return, count it, hand it out.                                           *)
Finish(t) ==
  /\ pc[t] = "split"
  /\ hand[t].order = target[t]
  /\ dirty' = IF InitPolicy = "Zero" /\ ~ Leaves(hand[t]) \subseteq zeroed
              THEN dirty \ Leaves(hand[t]) ELSE dirty
  /\ RecordSplits(t)
  /\ live' = live + Width[hand[t].order]
  /\ bufs' = bufs \cup {hand[t]}
  /\ Return(t)
  /\ UNCHANGED <<free, summary, zeroed>>
  /\ Scan(t, {})

(* The owner of a buffer fills it. *)
Write(b) ==
  /\ b \in bufs
  /\ dirty' = dirty \cup Leaves(b)
  /\ UNCHANGED <<free, summary, bufs, zeroed, live, net, pc, hand, target, todo,
                 pass, steps, seen, stood>>

RecordFree(b) == live' = live - Width[b.order]

(* Mutant: the block is marked as scrubbed and not scrubbed. *)
ScrubForgotten(b) ==
  /\ zeroed' = IF InitPolicy = "Zero" THEN zeroed \cup Leaves(b) ELSE zeroed
  /\ UNCHANGED dirty

(* release_block zeroes the block and remembers that it did. *)
Scrub(b) ==
  IF InitPolicy = "Zero"
  THEN dirty' = dirty \ Leaves(b) /\ zeroed' = zeroed \cup Leaves(b)
  ELSE UNCHANGED memory

(* The last owner of a buffer drops it: ArenaRef::release counts the free,  *)
(* release_block scrubs the block.                                          *)
Release(t, b) ==
  /\ pc[t] = "idle"
  /\ b \in bufs
  /\ bufs' = bufs \ {b}
  /\ RecordFree(b)
  /\ Scrub(b)
  /\ hand' = [hand EXCEPT ![t] = b]
  /\ pc' = [pc EXCEPT ![t] = "merge"]
  /\ UNCHANGED <<free, summary, net, target, todo, pass, steps>>
  /\ Scan(t, {})

(* try_claim_exact gets the buddy: the pair is one block again. *)
ClaimBuddy(t) ==
  /\ pc[t] = "merge"
  /\ hand[t].order < MaxOrder
  /\ Buddy(hand[t]) \in free
  /\ free' = free \ {Buddy(hand[t])}
  /\ hand' = [hand EXCEPT ![t] = Parent(@)]
  /\ pc' = [pc EXCEPT ![t] = "check"]
  /\ UNCHANGED <<summary, bufs, memory, live, net, target, todo, pass, steps>>
  /\ Scan(t, {hand[t].order})

(* Mutant: the merging may end although the buddy is free. *)
NoBuddyUnchecked(t) ==
  /\ pc[t] = "merge"
  /\ pc' = [pc EXCEPT ![t] = "publish"]
  /\ UNCHANGED <<free, summary, bufs, memory, live, net, hand, target, todo, pass, steps>>
  /\ Scan(t, {})

(* There is no buddy, or it is not free: the merging ends. *)
NoBuddy(t) ==
  /\ pc[t] = "merge"
  /\ hand[t].order < MaxOrder => Buddy(hand[t]) \notin free
  /\ pc' = [pc EXCEPT ![t] = "publish"]
  /\ UNCHANGED <<free, summary, bufs, memory, live, net, hand, target, todo, pass, steps>>
  /\ Scan(t, {})

Publish(t) ==
  /\ pc[t] = "publish"
  /\ summary' = summary \cup {hand[t].order}
  /\ pc' = [pc EXCEPT ![t] = "put"]
  /\ UNCHANGED <<free, bufs, memory, live, net, hand, target, todo, pass, steps>>
  /\ Scan(t, {})

PutBack(t) ==
  /\ pc[t] = "put"
  /\ free' = free \cup {hand[t]}
  /\ Return(t)
  /\ UNCHANGED <<summary, bufs, memory, live, net>>
  /\ Scan(t, {})

AllocStep(t) ==
  \/ LoadSummary(t) \/ NextOrder(t) \/ FullScan(t) \/ ArenaFull(t)
  \/ \E b \in Blocks : TakeBlock(t, b)
  \/ MarkChild(t) \/ PushRight(t) \/ Finish(t)

ReleaseStep(t) ==
  ClaimBuddy(t) \/ NoBuddy(t) \/ Publish(t) \/ PutBack(t)

SummaryStep(t) ==
  StillFree(t) \/ SeeEmpty(t) \/ ClearSummary(t)

Step(t) == AllocStep(t) \/ ReleaseStep(t) \/ SummaryStep(t)

Next ==
  \/ \E t \in Threads :
       \/ Step(t)
       \/ \E o \in Orders : Request(t, o)
       \/ \E b \in Blocks : Release(t, b)
  \/ \E b \in Blocks : Write(b)

Spec == Init /\ [][Next]_vars
-----------------------------------------------------------------------------
(* What the locals of a call are at each of its steps. *)
CallOK(t) ==
  /\ pc[t] \in {"idle", "summary", "scan"} <=> hand[t] = None
  /\ pc[t] \in {"idle", "merge", "publish", "put"} => target[t] = None
  /\ pc[t] \in {"summary", "scan", "split", "push"} => target[t] # None
  /\ pc[t] = "scan" => todo[t] # {} /\ todo[t] \subseteq target[t] .. MaxOrder
  /\ target[t] = None \/ hand[t] = None => steps[t] = 0
  /\ target[t] # None /\ hand[t] # None =>
       target[t] <= hand[t].order /\ steps[t] + hand[t].order <= MaxOrder
  /\ pc[t] = "push" => target[t] < hand[t].order

(* Types; and the locals of every call fit the step it is at. *)
TypeOK ==
  /\ free \subseteq Blocks
  /\ summary \subseteq Orders
  /\ bufs \subseteq Blocks
  /\ dirty \subseteq AllLeaves
  /\ zeroed \subseteq AllLeaves
  /\ live \in Int
  /\ net \in Int
  /\ pc \in [Threads -> {"idle", "summary", "scan", "check", "clear", "split",
                         "push", "merge", "publish", "put"}]
  /\ hand \in [Threads -> Blocks \cup {None}]
  /\ target \in [Threads -> Orders \cup {None}]
  /\ todo \in [Threads -> SUBSET Orders]
  /\ pass \in [Threads -> {"none", "summary", "full"}]
  /\ steps \in [Threads -> 0 .. MaxOrder]
  /\ seen \in [Threads -> SUBSET Blocks]
  /\ stood \in [Threads -> SUBSET Blocks]
  /\ \A t \in Threads : CallOK(t)

Quiescent == \A t \in Threads : pc[t] = "idle"

(* The blocks some thread is splitting or merging. *)
InHand == {b \in Blocks : \E t \in Threads : hand[t] = b}

Pieces == free \cup bufs \cup InHand

(* Every block is in one place: free, in a buffer, or in one thread's hand. *)
OnePlace ==
  /\ free \cap bufs = {}
  /\ InHand \cap (free \cup bufs) = {}
  /\ \A t, u \in Threads : hand[t] = hand[u] /\ hand[t] # None => t = u

(* These blocks divide the arena: no two share a leaf and none is missing.  *)
Divide(P) ==
  /\ \A b, c \in P : b # c => Leaves(b) \cap Leaves(c) = {}
  /\ \A x \in AllLeaves : \E b \in P : x \in Leaves(b)

(* However split_down and release_block interleave, the blocks that are     *)
(* free, in buffers and in threads' hands divide the arena: no byte belongs *)
(* to two owners and none is lost.                                          *)
BlocksPartitioned == OnePlace /\ Divide(Pieces)

(* allocate fails with ArenaFull only if no block that would do was free    *)
(* for the whole of the call: a stale summary bit, cleared by               *)
(* maybe_clear_summary after somebody freed a block, costs no allocation.   *)
FullIsHonest ==
  [][\A t \in Threads :
       pc[t] = "scan" /\ pc'[t] = "idle" => stood[t] = {}]_vars

(* The reason FullIsHonest holds: in the full scan, a block that has stayed *)
(* free is of an order still to be tried, and the try_alloc on that order   *)
(* cannot miss it.                                                          *)
StandingAhead ==
  \A t \in Threads : \A b \in stood[t] :
    /\ b \in free /\ target[t] # None /\ target[t] <= b.order
    /\ pc[t] = "scan" /\ pass[t] = "full" => b.order \in todo[t]
    /\ pc[t] = "scan" /\ b.order = First(todo[t]) => b \in seen[t]

(* Under InitPolicy::Zero a buffer arrives with every byte zero, although   *)
(* zeroed_bitmap is never cleared when an owner writes to its block.        *)
FreshIsZero ==
  [][InitPolicy = "Zero" =>
       \A b \in bufs' \ bufs : Leaves(b) \cap dirty' = {}]_vars

(* The reason FreshIsZero holds: a leaf zeroed_bitmap names is zero, or is  *)
(* part of a live buffer and will be scrubbed when that is dropped.         *)
ScrubbedIsZero ==
  InitPolicy = "Zero" => \A x \in zeroed \cap dirty : \E b \in bufs : x \in Leaves(b)

(* What metrics() reports accounts for the blocks there are, whenever no    *)
(* call is under way: the splits and coalesces for how many, bytes_live for *)
(* those of buffers.                                                        *)
BlocksCounted ==
  Quiescent => /\ Cardinality(Pieces) = 1 + net
               /\ live = Cardinality(UNION {Leaves(b) : b \in bufs})

(* What lib.rs says of release: neighbours coalesce.  When no call is under *)
(* way, no two free blocks are buddies.                                     *)
Coalesced ==
  Quiescent => \A b \in free : b.order < MaxOrder => Buddy(b) \notin free

(* The buddy arena implements RegionPool; the owner of a block is the       *)
(* buffer that allocate made of it.                                         *)
Regions ==
  INSTANCE RegionPool WITH
    Owners <- Blocks,
    Extents <- {Leaves(b) : b \in Blocks},
    region <- [b \in Blocks |-> IF b \in bufs THEN Leaves(b) ELSE {}]

(* Buffers of whatever orders, made and dropped by whatever threads, never  *)
(* share a byte.                                                            *)
HandsOutRegions == Regions!Spec
=============================================================================
