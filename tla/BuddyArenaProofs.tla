-------------------------- MODULE BuddyArenaProofs --------------------------
(***************************************************************************)
(* Theorems about the buddy arena for every number of threads and orders:  *)
(* its blocks, what it counts, and calls that follow each other.           *)
(***************************************************************************)
EXTENDS SequentialBuddy, WellFoundedInduction, FiniteSetTheorems, TLAPS

(* Multiplication as the lemmas on leaves need it. *)
LEMMA Doubling ==
  ASSUME NEW i \in Nat, NEW w \in Nat
  PROVE  /\ (2 * i) * w = i * (2 * w)
         /\ (2 * i + 1) * w = i * (2 * w) + w
         /\ (2 * i + 2) * w = i * (2 * w) + 2 * w
         /\ (i + 1) * w = i * w + w
         /\ i * w \in Nat
OBVIOUS

(* Larger indices, larger offsets. *)
LEMMA Monotone ==
  ASSUME NEW i \in Nat, NEW j \in Nat, NEW w \in Nat, i <= j
  PROVE  i * w <= j * w
OBVIOUS

(* Block widths are positive and double from one order to the next. *)
LEMMA Widths ==
  ASSUME NEW o \in Orders
  PROVE  /\ Width[o] \in Nat \ {0}
         /\ o # 0 => o - 1 \in Orders /\ Width[o] = 2 * Width[o - 1]
         /\ MaxOrder - o \in Orders
BY WidthAssumption, MaxOrderAssumption DEF Orders

(* A block is an order and an index below blocks_at_order. *)
LEMMA BlockParts ==
  /\ \A b \in Blocks : /\ b.order \in Orders
                       /\ b.idx \in Nat
                       /\ b.idx < Width[MaxOrder - b.order]
                       /\ b = [order |-> b.order, idx |-> b.idx]
  /\ \A o \in Orders, i \in Nat :
       i < Width[MaxOrder - o] => [order |-> o, idx |-> i] \in Blocks
<1>1. \A o \in Orders : Width[MaxOrder - o] \in Nat \ {0}
  BY Widths
<1> QED
  BY <1>1 DEF Blocks

(* The blocks of one order fill the arena: by least counterexample. *)
LEMMA OrderFills ==
  ASSUME NEW o \in Orders
  PROVE  Width[MaxOrder - o] * Width[o] = Width[MaxOrder]
<1> DEFINE Bad == {n \in Orders : Width[MaxOrder - n] * Width[n] # Width[MaxOrder]}
           R == OpToRel(<, Nat)
<1> SUFFICES ASSUME Bad # {}
             PROVE  FALSE
  OBVIOUS
<1>0. IsWellFoundedOn(R, Nat)
  BY NatLessThanWellFounded, Zenon
<1>1. Bad \subseteq Nat
  BY MaxOrderAssumption DEF Orders
<1> HIDE DEF Bad, R
<1>2. PICK n \in Bad : \A m \in Bad : ~ (<<m, n>> \in R)
  BY <1>0, <1>1, WFMin, Zenon
<1>3. n \in Orders /\ Width[MaxOrder - n] * Width[n] # Width[MaxOrder]
  BY DEF Bad
<1>4. n # 0
  BY <1>3, WidthAssumption, MaxOrderAssumption, Widths DEF Orders
<1>5. n - 1 \in Orders /\ n - 1 \in Nat /\ n \in Nat /\ n - 1 < n
  BY <1>3, <1>4, MaxOrderAssumption DEF Orders
<1>6. n - 1 \notin Bad
  BY <1>2, <1>5, Zenon DEF R, OpToRel
<1>7. Width[MaxOrder - (n - 1)] * Width[n - 1] = Width[MaxOrder]
  BY <1>5, <1>6 DEF Bad
<1>8. /\ Width[n] = 2 * Width[n - 1]
      /\ Width[n - 1] \in Nat /\ Width[MaxOrder - n] \in Nat
      /\ MaxOrder - n \in Orders /\ MaxOrder - (n - 1) \in Orders
  BY <1>3, <1>4, <1>5, Widths, Zenon
<1>9. MaxOrder - (n - 1) # 0 /\ MaxOrder - (n - 1) - 1 = MaxOrder - n
  BY <1>3, MaxOrderAssumption DEF Orders
<1>10. Width[MaxOrder - (n - 1)] = 2 * Width[MaxOrder - n]
  BY <1>8, <1>9, Widths
<1> QED
  BY <1>3, <1>7, <1>8, <1>10, Doubling

(* The leaves of a block are leaves of the arena, and there are some. *)
LEMMA LeavesInArena ==
  ASSUME NEW b \in Blocks
  PROVE  Leaves(b) \subseteq AllLeaves /\ Leaves(b) # {}
<1> DEFINE i == b.idx
           w == Width[b.order]
           n == Width[MaxOrder - b.order]
<1>1. i \in Nat /\ w \in Nat \ {0} /\ n \in Nat /\ i + 1 <= n /\ n * w = Width[MaxOrder]
  BY BlockParts, Widths, OrderFills
<1>2. i * w \in Nat /\ (i + 1) * w = i * w + w /\ (i + 1) * w <= Width[MaxOrder]
  BY <1>1, Doubling, Monotone
<1> HIDE DEF i, w, n
<1>3. i * w .. (i + 1) * w - 1 \subseteq AllLeaves /\ i * w \in i * w .. (i + 1) * w - 1
  BY <1>1, <1>2 DEF AllLeaves
<1> QED
  BY <1>3 DEF Leaves, i, w

(* split_down: the two children of a block are blocks and divide it. *)
LEMMA Children ==
  ASSUME NEW b \in Blocks, b.order # 0
  PROVE  /\ LeftChild(b) \in Blocks /\ RightChild(b) \in Blocks
         /\ LeftChild(b) # b /\ RightChild(b) # b /\ LeftChild(b) # RightChild(b)
         /\ Leaves(LeftChild(b)) \cup Leaves(RightChild(b)) = Leaves(b)
         /\ Leaves(LeftChild(b)) \cap Leaves(RightChild(b)) = {}
<1> DEFINE i == b.idx
           o == b.order
           w == Width[o - 1]
           v == i * (2 * w)
<1>1. o \in Orders /\ i \in Nat /\ i < Width[MaxOrder - o]
  BY BlockParts
<1>2. o - 1 \in Orders /\ Width[o] = 2 * w /\ w \in Nat \ {0} /\ MaxOrder - (o - 1) \in Orders
  BY <1>1, Widths
<1>3. MaxOrder - (o - 1) # 0 /\ MaxOrder - (o - 1) - 1 = MaxOrder - o
  BY <1>1, MaxOrderAssumption DEF Orders
<1>4. Width[MaxOrder - (o - 1)] = 2 * Width[MaxOrder - o] /\ Width[MaxOrder - o] \in Nat
  BY <1>1, <1>2, <1>3, Widths
<1>5. LeftChild(b) \in Blocks /\ RightChild(b) \in Blocks
  BY <1>1, <1>2, <1>4, BlockParts DEF LeftChild, RightChild
<1>6. LeftChild(b) # b /\ RightChild(b) # b /\ LeftChild(b) # RightChild(b)
  BY <1>1, <1>2 DEF LeftChild, RightChild, Orders
<1>7. v \in Nat
  BY <1>1, <1>2, Doubling
<1>8. /\ Leaves(LeftChild(b)) = v .. v + w - 1
      /\ Leaves(RightChild(b)) = v + w .. v + 2 * w - 1
      /\ Leaves(b) = v .. v + 2 * w - 1
  <2>1. /\ (2 * i) * w = v
        /\ (2 * i + 1) * w = v + w
        /\ (2 * i + 1 + 1) * w = v + 2 * w
    <3>1. 2 * i + 1 + 1 = 2 * i + 2
      BY <1>1
    <3> QED
      BY <1>1, <1>2, <3>1, Doubling
  <2>2. i * (2 * w) = v /\ (i + 1) * (2 * w) = v + 2 * w
    BY <1>1, <1>2, Doubling
  <2>3. Leaves(LeftChild(b)) = (2 * i) * w .. (2 * i + 1) * w - 1
    BY DEF Leaves, LeftChild
  <2>4. Leaves(RightChild(b)) = (2 * i + 1) * w .. (2 * i + 1 + 1) * w - 1
    BY DEF Leaves, RightChild
  <2>5. Leaves(b) = i * (2 * w) .. (i + 1) * (2 * w) - 1
    BY <1>2 DEF Leaves
  <2> HIDE DEF i, v, w
  <2>6. Leaves(LeftChild(b)) = v .. v + w - 1
    BY <1>2, <1>7, <2>1, <2>3
  <2>7. Leaves(RightChild(b)) = v + w .. v + 2 * w - 1
    BY <1>2, <1>7, <2>1, <2>4
  <2>8. Leaves(b) = v .. v + 2 * w - 1
    BY <1>2, <1>7, <2>2, <2>5
  <2> QED
    BY <2>6, <2>7, <2>8
<1> HIDE DEF v, w
<1> QED
  BY <1>2, <1>5, <1>6, <1>7, <1>8

(* release_block: a block and its buddy are the children of their parent. *)
LEMMA Merging ==
  ASSUME NEW b \in Blocks, b.order < MaxOrder
  PROVE  /\ Parent(b) \in Blocks /\ Buddy(b) \in Blocks
         /\ Parent(b).order # 0
         /\ {b, Buddy(b)} = {LeftChild(Parent(b)), RightChild(Parent(b))}
<1> DEFINE i == b.idx
           o == b.order
<1>1. o \in Orders /\ i \in Nat /\ i < Width[MaxOrder - o] /\ b = [order |-> o, idx |-> i]
  BY BlockParts
<1>2. MaxOrder - o \in Orders /\ MaxOrder - o # 0 /\ o + 1 \in Orders
  BY <1>1, MaxOrderAssumption DEF Orders
<1>3. Width[MaxOrder - o] = 2 * Width[MaxOrder - o - 1] /\ Width[MaxOrder - o - 1] \in Nat
  BY <1>2, Widths
<1>4. MaxOrder - (o + 1) = MaxOrder - o - 1
  BY <1>1, MaxOrderAssumption DEF Orders
<1>5. Parent(b) = [order |-> o + 1, idx |-> i \div 2]
  BY DEF Parent
<1>6. i \div 2 \in Nat /\ i \div 2 < Width[MaxOrder - (o + 1)]
  BY <1>1, <1>3, <1>4
<1>7. Parent(b) \in Blocks
  BY <1>2, <1>5, <1>6, BlockParts
<1>8. o + 1 - 1 = o /\ o + 1 # 0 /\ o \in Nat
  BY <1>1 DEF Orders
<1>a. /\ LeftChild(Parent(b)) = [order |-> o, idx |-> 2 * (i \div 2)]
      /\ RightChild(Parent(b)) = [order |-> o, idx |-> 2 * (i \div 2) + 1]
      /\ Parent(b).order # 0
  <2>1. Parent(b).order = o + 1 /\ Parent(b).idx = i \div 2
    BY DEF Parent
  <2> HIDE DEF i, o
  <2>2. Parent(b).order - 1 = o
    BY <1>8, <2>1
  <2> QED
    BY <1>8, <2>1, <2>2 DEF LeftChild, RightChild
<1>9. CASE i % 2 = 0
  <2>1. 2 * (i \div 2) = i /\ i + 1 < Width[MaxOrder - o] /\ i + 1 \in Nat
    BY <1>1, <1>3, <1>9
  <2>2. Buddy(b) = [order |-> o, idx |-> i + 1]
    BY <1>1, <1>9 DEF Buddy
  <2>3. LeftChild(Parent(b)) = b /\ RightChild(Parent(b)) = Buddy(b)
    BY <1>1, <1>a, <2>1, <2>2
  <2>4. Buddy(b) \in Blocks
    BY <1>1, <2>1, <2>2, BlockParts
  <2> QED
    BY <1>7, <1>a, <2>3, <2>4
<1>10. CASE i % 2 = 1
  <2>1. 2 * (i \div 2) + 1 = i /\ 2 * (i \div 2) = i - 1 /\ i - 1 < Width[MaxOrder - o] /\ i - 1 \in Nat
    BY <1>1, <1>3, <1>10
  <2>2. Buddy(b) = [order |-> o, idx |-> i - 1]
    BY <1>1, <1>10 DEF Buddy
  <2>3. RightChild(Parent(b)) = b /\ LeftChild(Parent(b)) = Buddy(b)
    BY <1>1, <1>a, <2>1, <2>2
  <2>4. Buddy(b) \in Blocks
    BY <1>1, <2>1, <2>2, BlockParts
  <2> QED
    BY <1>7, <1>a, <2>3, <2>4
<1> QED
  BY <1>1, <1>9, <1>10

(* Splitting a block of a division gives a division. *)
LEMMA SplitDivides ==
  ASSUME NEW P \in SUBSET Blocks, Divide(P), NEW b \in P, b.order # 0
  PROVE  /\ LeftChild(b) \notin P /\ RightChild(b) \notin P
         /\ Divide((P \ {b}) \cup {LeftChild(b), RightChild(b)})
<1> DEFINE l == LeftChild(b)
           r == RightChild(b)
<1>1. /\ l \in Blocks /\ r \in Blocks /\ l # b /\ r # b /\ l # r
      /\ Leaves(l) \cup Leaves(r) = Leaves(b)
      /\ Leaves(l) \cap Leaves(r) = {}
  BY Children
<1>2. Leaves(l) # {} /\ Leaves(r) # {}
  BY <1>1, LeavesInArena
<1> HIDE DEF l, r
<1>3. l \notin P /\ r \notin P
  BY <1>1, <1>2 DEF Divide
<1>4. Divide((P \ {b}) \cup {l, r})
  BY <1>1 DEF Divide
<1> QED
  BY <1>3, <1>4 DEF l, r

(* Merging two buddies of a division gives a division. *)
LEMMA MergeDivides ==
  ASSUME NEW P \in SUBSET Blocks, Divide(P), NEW b \in P, b.order < MaxOrder,
         Buddy(b) \in P
  PROVE  /\ Parent(b) \notin P
         /\ Buddy(b) # b
         /\ Divide((P \ {b, Buddy(b)}) \cup {Parent(b)})
<1> DEFINE p == Parent(b)
           c == Buddy(b)
           l == LeftChild(p)
           r == RightChild(p)
<1>1. p \in Blocks /\ p.order # 0 /\ {b, c} = {l, r}
  BY Merging
<1>2. /\ l # p /\ r # p /\ l # r
      /\ Leaves(l) \cup Leaves(r) = Leaves(p)
  BY <1>1, Children
<1> HIDE DEF p, c, l, r
<1>3. b # c /\ b # p /\ c # p /\ Leaves(b) \cup Leaves(c) = Leaves(p)
  BY <1>1, <1>2
<1>4. Leaves(b) # {} /\ c \in P
  BY LeavesInArena DEF c
<1>5. p \notin P
  BY <1>3, <1>4 DEF Divide
<1>6. Divide((P \ {b, c}) \cup {p})
  BY <1>3, <1>4, <1>5 DEF Divide
<1> QED
  BY <1>3, <1>5, <1>6 DEF p, c

-----------------------------------------------------------------------------
(* A scan starts at one of its orders. *)
LEMMA FirstIn ==
  ASSUME NEW S \in SUBSET Orders, S # {}
  PROVE  First(S) \in S
<1> DEFINE R == OpToRel(<, Nat)
<1>1. IsWellFoundedOn(R, Nat)
  BY NatLessThanWellFounded, Zenon
<1>2. S \subseteq Nat
  BY DEF Orders
<1>3. PICK x \in S : \A y \in S : ~ (<<y, x>> \in R)
  <2> HIDE DEF R
  <2> QED BY <1>1, <1>2, WFMin, Zenon
<1>4. ASSUME NEW y \in S
      PROVE  x <= y
  <2>1. <<y, x>> \notin R
    <3> HIDE DEF R
    <3> QED BY <1>3
  <2>2. y \in Nat /\ x \in Nat /\ (y < x => <<y, x>> \in R)
    BY <1>2 DEF OpToRel
  <2> HIDE DEF R
  <2>3. ~ (y < x)
    BY <2>1, <2>2
  <2> QED
    BY <2>2, <2>3
<1> QED
  BY <1>4 DEF First

(* The scans and the history variables keep their types. *)
LEMMA ScanType ==
  ASSUME NEW t, NEW orders, Scan(t, orders), TypeOK, free' \subseteq Blocks
  PROVE  seen' \in [Threads -> SUBSET Blocks] /\ stood' \in [Threads -> SUBSET Blocks]
BY DEF Scan, TypeOK

(* Orders are numbers, and None is none of them. *)
LEMMA OrderFacts ==
  /\ Orders \subseteq Nat
  /\ \A o \in Orders : o # None /\ o <= MaxOrder
  /\ \A b \in Blocks : b # None /\ b.order \in Orders
BY BlockParts, MaxOrderAssumption, NoneAssumption DEF Orders

(* From an order up to the top there are only orders. *)
LEMMA OrderRange ==
  ASSUME NEW o \in Orders
  PROVE  /\ o .. MaxOrder \subseteq Orders /\ MaxOrder \in o .. MaxOrder
         /\ \A p \in Orders : p < o => o - 1 \in Orders
         /\ \A p \in Orders : p >= o => p \in o .. MaxOrder
BY MaxOrderAssumption DEF Orders

(* allocate begins. *)
LEMMA TypeRequest ==
  ASSUME TypeOK, NEW t \in Threads, NEW o \in Orders, Request(t, o)
  PROVE  TypeOK'
<1> USE OrderFacts
<1>1. free' \subseteq Blocks
  BY DEF Request, TypeOK, CallOK
<1>2. seen' \in [Threads -> SUBSET Blocks] /\ stood' \in [Threads -> SUBSET Blocks]
  BY <1>1, ScanType DEF Request
<1>3. \A u \in Threads : CallOK(u)'
  BY DEF Request, TypeOK, CallOK
<1> QED
  BY <1>1, <1>2, <1>3, Zenon DEF Request, TypeOK, CallOK, memory

(* The summary is loaded. *)
LEMMA TypeLoadSummary ==
  ASSUME TypeOK, NEW t \in Threads, LoadSummary(t)
  PROVE  TypeOK'
<1> USE OrderFacts
<1>a. target[t] \in Orders
  BY OrderRange DEF LoadSummary, TypeOK, CallOK
<1>b. target[t] .. MaxOrder \subseteq Orders /\ target[t] .. MaxOrder # {}
  BY <1>a, OrderRange, Zenon DEF LoadSummary, TypeOK, CallOK
<1>c. todo'[t] # {} /\ todo'[t] \subseteq target[t] .. MaxOrder /\ todo'[t] \subseteq Orders
  BY <1>a, <1>b, OrderRange, Zenon DEF LoadSummary, TypeOK, CallOK
<1>1. free' \subseteq Blocks
  BY <1>a, <1>b, <1>c DEF LoadSummary, TypeOK, CallOK
<1>2. seen' \in [Threads -> SUBSET Blocks] /\ stood' \in [Threads -> SUBSET Blocks]
  BY <1>1, ScanType DEF LoadSummary
<1>3. \A u \in Threads : CallOK(u)'
  BY <1>a, <1>b, <1>c DEF LoadSummary, TypeOK, CallOK
<1> QED
  BY <1>1, <1>2, <1>3, <1>a, <1>b, <1>c, Zenon DEF LoadSummary, TypeOK, memory

(* A scan goes on to its next order. *)
LEMMA TypeNextOrder ==
  ASSUME TypeOK, NEW t \in Threads, NextOrder(t)
  PROVE  TypeOK'
<1> USE OrderFacts
<1>1. free' \subseteq Blocks
  BY DEF NextOrder, TypeOK, CallOK
<1>2. seen' \in [Threads -> SUBSET Blocks] /\ stood' \in [Threads -> SUBSET Blocks]
  BY <1>1, ScanType DEF NextOrder
<1>3. \A u \in Threads : CallOK(u)'
  BY DEF NextOrder, TypeOK, CallOK
<1> QED
  BY <1>1, <1>2, <1>3, Zenon DEF NextOrder, TypeOK, CallOK, memory

(* The full scan begins. *)
LEMMA TypeFullScan ==
  ASSUME TypeOK, NEW t \in Threads, FullScan(t)
  PROVE  TypeOK'
<1> USE OrderFacts
<1>a. target[t] \in Orders
  BY OrderRange DEF FullScan, TypeOK, CallOK
<1>b. target[t] .. MaxOrder \subseteq Orders /\ target[t] .. MaxOrder # {}
  BY <1>a, OrderRange, Zenon DEF FullScan, TypeOK, CallOK
<1>1. free' \subseteq Blocks
  BY <1>a, <1>b DEF FullScan, TypeOK, CallOK
<1>2. seen' \in [Threads -> SUBSET Blocks] /\ stood' \in [Threads -> SUBSET Blocks]
  BY <1>1, ScanType DEF FullScan
<1>3. \A u \in Threads : CallOK(u)'
  BY <1>a, <1>b DEF FullScan, TypeOK, CallOK
<1> QED
  BY <1>1, <1>2, <1>3, <1>a, <1>b, Zenon DEF FullScan, TypeOK, memory

(* allocate fails. *)
LEMMA TypeArenaFull ==
  ASSUME TypeOK, NEW t \in Threads, ArenaFull(t)
  PROVE  TypeOK'
<1> USE OrderFacts
<1>1. free' \subseteq Blocks
  BY DEF ArenaFull, Return, TypeOK, CallOK
<1>2. seen' \in [Threads -> SUBSET Blocks] /\ stood' \in [Threads -> SUBSET Blocks]
  BY <1>1, ScanType DEF ArenaFull, Return
<1>3. \A u \in Threads : CallOK(u)'
  BY DEF ArenaFull, Return, TypeOK, CallOK
<1> QED
  BY <1>1, <1>2, <1>3, Zenon DEF ArenaFull, Return, TypeOK, CallOK, memory

(* A block is claimed. *)
LEMMA TypeTakeBlock ==
  ASSUME TypeOK, NEW t \in Threads, NEW b \in Blocks, TakeBlock(t, b)
  PROVE  TypeOK'
<1> USE OrderFacts
<1>1. free' \subseteq Blocks
  BY FirstIn DEF TakeBlock, OfOrder, TypeOK, CallOK
<1>2. seen' \in [Threads -> SUBSET Blocks] /\ stood' \in [Threads -> SUBSET Blocks]
  BY <1>1, ScanType DEF TakeBlock, OfOrder
<1>3. \A u \in Threads : CallOK(u)'
  BY FirstIn DEF TakeBlock, OfOrder, TypeOK, CallOK
<1> QED
  BY <1>1, <1>2, <1>3, FirstIn, Zenon DEF TakeBlock, OfOrder, TypeOK, CallOK, memory

(* any_free finds a block. *)
LEMMA TypeStillFree ==
  ASSUME TypeOK, NEW t \in Threads, StillFree(t)
  PROVE  TypeOK'
<1> USE OrderFacts
<1>a. net' \in Int
  BY DEF StillFree, Proceed, TypeOK, CallOK
<1>1. free' \subseteq Blocks
  BY <1>a DEF StillFree, Proceed, TypeOK, CallOK
<1>2. seen' \in [Threads -> SUBSET Blocks] /\ stood' \in [Threads -> SUBSET Blocks]
  BY <1>1, ScanType DEF StillFree, Proceed
<1>3. \A u \in Threads : CallOK(u)'
  BY <1>a DEF StillFree, Proceed, TypeOK, CallOK
<1> QED
  BY <1>1, <1>2, <1>3, <1>a, Zenon DEF StillFree, Proceed, TypeOK, memory

(* any_free finds none. *)
LEMMA TypeSeeEmpty ==
  ASSUME TypeOK, NEW t \in Threads, SeeEmpty(t)
  PROVE  TypeOK'
<1> USE OrderFacts
<1>1. free' \subseteq Blocks
  BY DEF SeeEmpty, TypeOK, CallOK
<1>2. seen' \in [Threads -> SUBSET Blocks] /\ stood' \in [Threads -> SUBSET Blocks]
  BY <1>1, ScanType DEF SeeEmpty
<1>3. \A u \in Threads : CallOK(u)'
  BY DEF SeeEmpty, TypeOK, CallOK
<1> QED
  BY <1>1, <1>2, <1>3, Zenon DEF SeeEmpty, TypeOK, CallOK, memory

(* The summary bit is cleared. *)
LEMMA TypeClearSummary ==
  ASSUME TypeOK, NEW t \in Threads, ClearSummary(t)
  PROVE  TypeOK'
<1> USE OrderFacts
<1>a. net' \in Int
  BY DEF ClearSummary, Proceed, TypeOK, CallOK
<1>b. summary' \subseteq Orders
  BY <1>a, Zenon DEF ClearSummary, Proceed, TypeOK, CallOK
<1>1. free' \subseteq Blocks
  BY <1>a, <1>b DEF ClearSummary, Proceed, TypeOK, CallOK
<1>2. seen' \in [Threads -> SUBSET Blocks] /\ stood' \in [Threads -> SUBSET Blocks]
  BY <1>1, ScanType DEF ClearSummary, Proceed
<1>3. \A u \in Threads : CallOK(u)'
  BY <1>a, <1>b DEF ClearSummary, Proceed, TypeOK, CallOK
<1> QED
  BY <1>1, <1>2, <1>3, <1>a, <1>b, Zenon DEF ClearSummary, Proceed, TypeOK, memory

(* split_down announces a child order. *)
LEMMA TypeMarkChild ==
  ASSUME TypeOK, NEW t \in Threads, MarkChild(t)
  PROVE  TypeOK'
<1> USE OrderFacts
<1>a. hand[t] \in Blocks /\ hand[t].order \in Orders
  BY OrderRange DEF MarkChild, TypeOK, CallOK
<1>b. target[t] \in Orders
  BY <1>a, OrderRange DEF MarkChild, TypeOK, CallOK
<1>c. hand[t].order - 1 \in Orders
  BY <1>a, <1>b, OrderRange, Zenon DEF MarkChild, TypeOK, CallOK
<1>1. free' \subseteq Blocks
  BY <1>a, <1>b, <1>c DEF MarkChild, TypeOK, CallOK
<1>2. seen' \in [Threads -> SUBSET Blocks] /\ stood' \in [Threads -> SUBSET Blocks]
  BY <1>1, ScanType DEF MarkChild
<1>3. \A u \in Threads : CallOK(u)'
  BY <1>a, <1>b, <1>c DEF MarkChild, TypeOK, CallOK
<1> QED
  BY <1>1, <1>2, <1>3, <1>a, <1>b, <1>c, Zenon DEF MarkChild, TypeOK, memory

(* split_down frees the right child. *)
LEMMA TypePushRight ==
  ASSUME TypeOK, NEW t \in Threads, PushRight(t)
  PROVE  TypeOK'
<1> USE OrderFacts
<1>a. hand[t] \in Blocks /\ hand[t].order \in Orders /\ target[t] \in Orders
  BY DEF PushRight, TypeOK, CallOK
<1>b. /\ target[t] < hand[t].order /\ steps[t] + hand[t].order <= MaxOrder
      /\ steps[t] \in 0 .. MaxOrder
  BY <1>a DEF PushRight, TypeOK, CallOK
<1>c. /\ hand[t].order # 0 /\ steps[t] + 1 \in 0 .. MaxOrder
      /\ target[t] <= hand[t].order - 1
      /\ (steps[t] + 1) + (hand[t].order - 1) <= MaxOrder
  <2>1. hand[t].order \in Nat /\ target[t] \in Nat
    BY <1>a, Zenon
  <2> HIDE OrderFacts
  <2> QED BY <1>b, <2>1, MaxOrderAssumption
<1>d. /\ LeftChild(hand[t]) \in Blocks /\ RightChild(hand[t]) \in Blocks
      /\ LeftChild(hand[t]).order = hand[t].order - 1
  BY <1>a, <1>c, Children DEF LeftChild
<1>e. free' \subseteq Blocks
  BY <1>d DEF PushRight, TypeOK
<1>f. seen' \in [Threads -> SUBSET Blocks] /\ stood' \in [Threads -> SUBSET Blocks]
  BY <1>e, ScanType DEF PushRight
<1>g. \A u \in Threads : CallOK(u)'
  <2>1. \A u \in Threads \ {t} : CallOK(u)'
    BY DEF PushRight, TypeOK, CallOK
  <2>2. /\ pc'[t] = "split" /\ hand'[t] = LeftChild(hand[t]) /\ target'[t] = target[t]
        /\ steps'[t] = steps[t] + 1
    BY DEF PushRight, TypeOK
  <2>3. CallOK(t)'
    BY <1>a, <1>c, <1>d, <2>2, Zenon DEF CallOK
  <2> QED
    BY <2>1, <2>3
<1> QED
  BY <1>c, <1>d, <1>e, <1>f, <1>g, Zenon DEF PushRight, TypeOK, memory

(* allocate hands its block out. *)
LEMMA TypeFinish ==
  ASSUME TypeOK, NEW t \in Threads, Finish(t)
  PROVE  TypeOK'
<1> USE OrderFacts
<1>a. hand[t] \in Blocks /\ hand[t].order \in Orders
  BY Widths DEF Finish, Return, RecordSplits, TypeOK, CallOK
<1>b. Width[hand[t].order] \in Nat
  BY <1>a, Widths, Zenon DEF Finish, Return, RecordSplits, TypeOK, CallOK
<1>c. live' \in Int /\ net' \in Int /\ dirty' \subseteq AllLeaves /\ bufs' \subseteq Blocks
  BY <1>a, <1>b, Widths DEF Finish, Return, RecordSplits, TypeOK, CallOK, memory
<1>1. free' \subseteq Blocks
  BY <1>a, <1>b, <1>c DEF Finish, Return, RecordSplits, TypeOK, CallOK
<1>2. seen' \in [Threads -> SUBSET Blocks] /\ stood' \in [Threads -> SUBSET Blocks]
  BY <1>1, ScanType DEF Finish, Return, RecordSplits
<1>3. \A u \in Threads : CallOK(u)'
  BY <1>a, <1>b, <1>c DEF Finish, Return, RecordSplits, TypeOK, CallOK
<1>4. /\ summary' = summary /\ zeroed' = zeroed
      /\ pc' = [pc EXCEPT ![t] = "idle"]
      /\ hand' = [hand EXCEPT ![t] = None]
      /\ target' = [target EXCEPT ![t] = None]
      /\ todo' = [todo EXCEPT ![t] = {}]
      /\ pass' = [pass EXCEPT ![t] = "none"]
      /\ steps' = [steps EXCEPT ![t] = 0]
  BY DEF Finish, Return
<1> QED
  BY <1>1, <1>2, <1>3, <1>4, <1>c, MaxOrderAssumption DEF TypeOK

(* release_block begins. *)
LEMMA TypeRelease ==
  ASSUME TypeOK, NEW t \in Threads, NEW b \in Blocks, Release(t, b)
  PROVE  TypeOK'
<1> USE OrderFacts
<1>a. Width[b.order] \in Nat /\ Leaves(b) \subseteq AllLeaves
  BY LeavesInArena, Widths, Zenon DEF Release, RecordFree, Scrub, TypeOK, CallOK
<1>b. live' \in Int /\ dirty' \subseteq AllLeaves /\ zeroed' \subseteq AllLeaves
  BY <1>a, LeavesInArena, Widths DEF Release, RecordFree, Scrub, TypeOK, CallOK, memory
<1>1. free' \subseteq Blocks
  BY <1>a, <1>b DEF Release, RecordFree, Scrub, TypeOK, CallOK
<1>2. seen' \in [Threads -> SUBSET Blocks] /\ stood' \in [Threads -> SUBSET Blocks]
  BY <1>1, ScanType DEF Release, RecordFree, Scrub
<1>3. \A u \in Threads : CallOK(u)'
  BY <1>a, <1>b DEF Release, RecordFree, Scrub, TypeOK, CallOK
<1> QED
  BY <1>1, <1>2, <1>3, <1>a, <1>b, Zenon DEF Release, RecordFree, Scrub, TypeOK, memory

(* A buddy is claimed. *)
LEMMA TypeClaimBuddy ==
  ASSUME TypeOK, NEW t \in Threads, ClaimBuddy(t)
  PROVE  TypeOK'
<1> USE OrderFacts
<1>1. free' \subseteq Blocks
  BY Merging DEF ClaimBuddy, TypeOK, CallOK
<1>2. seen' \in [Threads -> SUBSET Blocks] /\ stood' \in [Threads -> SUBSET Blocks]
  BY <1>1, ScanType, Zenon DEF ClaimBuddy
<1>3. \A u \in Threads : CallOK(u)'
  BY Merging DEF ClaimBuddy, TypeOK, CallOK
<1> QED
  BY <1>1, <1>2, <1>3, Merging, Zenon DEF ClaimBuddy, TypeOK, CallOK, memory

(* The merging ends. *)
LEMMA TypeNoBuddy ==
  ASSUME TypeOK, NEW t \in Threads, NoBuddy(t)
  PROVE  TypeOK'
<1> USE OrderFacts
<1>1. free' \subseteq Blocks
  BY DEF NoBuddy, TypeOK, CallOK
<1>2. seen' \in [Threads -> SUBSET Blocks] /\ stood' \in [Threads -> SUBSET Blocks]
  BY <1>1, ScanType DEF NoBuddy
<1>3. \A u \in Threads : CallOK(u)'
  BY DEF NoBuddy, TypeOK, CallOK
<1> QED
  BY <1>1, <1>2, <1>3, Zenon DEF NoBuddy, TypeOK, CallOK, memory

(* The summary bit is set. *)
LEMMA TypePublish ==
  ASSUME TypeOK, NEW t \in Threads, Publish(t)
  PROVE  TypeOK'
<1> USE OrderFacts
<1>a. hand[t] \in Blocks /\ hand[t].order \in Orders
  BY DEF Publish, TypeOK, CallOK
<1>1. free' \subseteq Blocks
  BY <1>a DEF Publish, TypeOK, CallOK
<1>2. seen' \in [Threads -> SUBSET Blocks] /\ stood' \in [Threads -> SUBSET Blocks]
  BY <1>1, ScanType DEF Publish
<1>3. \A u \in Threads : CallOK(u)'
  BY <1>a DEF Publish, TypeOK, CallOK
<1> QED
  BY <1>1, <1>2, <1>3, <1>a, Zenon DEF Publish, TypeOK, memory

(* The block is put back. *)
LEMMA TypePutBack ==
  ASSUME TypeOK, NEW t \in Threads, PutBack(t)
  PROVE  TypeOK'
<1> USE OrderFacts
<1>1. free' \subseteq Blocks
  BY DEF PutBack, Return, TypeOK, CallOK
<1>2. seen' \in [Threads -> SUBSET Blocks] /\ stood' \in [Threads -> SUBSET Blocks]
  BY <1>1, ScanType DEF PutBack, Return
<1>3. \A u \in Threads : CallOK(u)'
  BY DEF PutBack, Return, TypeOK, CallOK
<1> QED
  BY <1>1, <1>2, <1>3, Zenon DEF PutBack, Return, TypeOK, CallOK, memory

(* An owner fills its buffer. *)
LEMMA TypeWrite ==
  ASSUME TypeOK, NEW b \in Blocks, Write(b)
  PROVE  TypeOK'
<1> USE OrderFacts
<1> QED
  BY LeavesInArena DEF Write, TypeOK, CallOK

(* Every step keeps the variables in their types and a call's locals in     *)
(* step with its program counter.                                           *)
LEMMA TypeStep == TypeOK /\ [Next]_vars => TypeOK'
<1>1. TypeOK /\ UNCHANGED vars => TypeOK'
  BY DEF vars, TypeOK, CallOK
<1> QED
  BY <1>1, TypeRequest, TypeLoadSummary, TypeNextOrder, TypeFullScan, TypeArenaFull,
     TypeTakeBlock, TypeStillFree, TypeSeeEmpty, TypeClearSummary, TypeMarkChild,
     TypePushRight, TypeFinish, TypeRelease, TypeClaimBuddy, TypeNoBuddy,
     TypePublish, TypePutBack, TypeWrite
  DEF Next, Step, AllocStep, ReleaseStep, SummaryStep

(* The whole arena is one block. *)
LEMMA RootBlock == Root \in Blocks /\ Leaves(Root) = AllLeaves
<1>1. MaxOrder \in Orders /\ MaxOrder - MaxOrder = 0 /\ Width[0] = 1
  BY WidthAssumption, MaxOrderAssumption DEF Orders
<1>2. Root \in Blocks
  BY <1>1, BlockParts DEF Root
<1>3. Width[MaxOrder] \in Nat
  BY <1>1, Widths
<1>4. 0 * Width[MaxOrder] = 0 /\ (0 + 1) * Width[MaxOrder] = Width[MaxOrder]
  BY <1>3
<1> QED
  BY <1>2, <1>4 DEF Root, Leaves, AllLeaves

(* The variables keep their types, and the locals of every call agree with  *)
(* its program counter, through any interleaving of allocate and            *)
(* release_block.                                                           *)
THEOREM TypeCorrect == Spec => []TypeOK
<1>1. Init => TypeOK
  BY RootBlock, MaxOrderAssumption DEF Init, TypeOK, CallOK, Orders
<1> QED
  BY <1>1, TypeStep, PTL DEF Spec

(* What the steps that move no block leave alone. *)
LEMMA PartitionedSame ==
  ASSUME BlocksPartitioned, free' = free, bufs' = bufs, hand' = hand
  PROVE  BlocksPartitioned'
BY DEF BlocksPartitioned, OnePlace, Divide, Pieces, InHand, Leaves, AllLeaves

(* A block changes hands: try_alloc claims it, allocate makes a buffer of   *)
(* it, release_block takes a buffer's, or puts one back.  The blocks there  *)
(* are stay the same.                                                       *)
LEMMA PiecesMove ==
  ASSUME TypeOK, OnePlace, NEW t \in Threads,
         \/ Finish(t) \/ PutBack(t)
         \/ \E b \in Blocks : TakeBlock(t, b) \/ Release(t, b)
  PROVE  Pieces' = Pieces /\ OnePlace'
<1> USE OrderFacts
<1>1. ASSUME NEW b \in free \cup bufs, hand[t] = None,
             hand' = [hand EXCEPT ![t] = b],
             \/ b \in free /\ free' = free \ {b} /\ bufs' = bufs
             \/ b \in bufs /\ bufs' = bufs \ {b} /\ free' = free
      PROVE  Pieces' = Pieces /\ OnePlace'
  <2>1. b \in Blocks
    BY DEF TypeOK
  <2>2. InHand' = InHand \cup {b}
    BY <1>1, <2>1 DEF InHand, TypeOK
  <2>3. Pieces' = Pieces
    BY <1>1, <2>2 DEF Pieces
  <2>4. OnePlace'
    BY <1>1, <2>1, <2>2 DEF OnePlace, InHand, TypeOK
  <2> QED
    BY <2>3, <2>4
<1>2. ASSUME hand[t] \in Blocks, hand' = [hand EXCEPT ![t] = None],
             \/ free' = free \cup {hand[t]} /\ bufs' = bufs
             \/ bufs' = bufs \cup {hand[t]} /\ free' = free
      PROVE  Pieces' = Pieces /\ OnePlace'
  <2>1. InHand' = InHand \ {hand[t]} /\ hand[t] \in InHand
    <3>1. hand'[t] = None /\ \A u \in Threads \ {t} : hand'[u] = hand[u]
      BY <1>2 DEF TypeOK
    <3>2. \A u \in Threads : hand[u] = hand[t] => u = t
      BY <1>2 DEF OnePlace
    <3> QED
      BY <1>2, <3>1, <3>2 DEF InHand
  <2>2. Pieces' = Pieces
    BY <1>2, <2>1 DEF Pieces
  <2>3. OnePlace'
    BY <1>2, <2>1 DEF OnePlace, TypeOK
  <2> QED
    BY <2>2, <2>3
<1>3. CASE Finish(t) \/ PutBack(t)
  <2>1. pc[t] \in {"split", "put"} /\ hand' = [hand EXCEPT ![t] = None]
    BY <1>3 DEF Finish, PutBack, Return
  <2>2. hand[t] \in Blocks
    BY <2>1 DEF TypeOK, CallOK
  <2>3. \/ free' = free \cup {hand[t]} /\ bufs' = bufs
        \/ bufs' = bufs \cup {hand[t]} /\ free' = free
    BY <1>3, Zenon DEF Finish, PutBack
  <2> QED
    BY <1>2, <2>1, <2>2, <2>3, Zenon
<1>4. ASSUME NEW b \in Blocks, TakeBlock(t, b)
      PROVE  Pieces' = Pieces /\ OnePlace'
  <2>1. /\ pc[t] = "scan" /\ b \in free
        /\ free' = free \ {b} /\ bufs' = bufs /\ hand' = [hand EXCEPT ![t] = b]
    BY <1>4 DEF TakeBlock, OfOrder
  <2>2. hand[t] = None
    BY <2>1 DEF TypeOK, CallOK
  <2>3. b \in free \cup bufs
    BY <2>1
  <2> QED
    BY <1>1, <2>1, <2>2, <2>3, Zenon
<1>5. ASSUME NEW b \in Blocks, Release(t, b)
      PROVE  Pieces' = Pieces /\ OnePlace'
  <2>1. /\ pc[t] = "idle" /\ b \in bufs
        /\ bufs' = bufs \ {b} /\ free' = free /\ hand' = [hand EXCEPT ![t] = b]
    BY <1>5 DEF Release
  <2>2. hand[t] = None
    BY <2>1 DEF TypeOK, CallOK
  <2>3. b \in free \cup bufs
    BY <2>1
  <2> QED
    BY <1>1, <2>1, <2>2, <2>3, Zenon
<1> QED
  BY <1>3, <1>4, <1>5, Zenon

(* split_down: the block in hand makes way for its children. *)
LEMMA PiecesSplit ==
  ASSUME TypeOK, BlocksPartitioned, NEW t \in Threads, PushRight(t)
  PROVE  /\ hand[t] \in Blocks /\ hand[t].order # 0 /\ hand[t] \in Pieces
         /\ LeftChild(hand[t]) \notin Pieces /\ RightChild(hand[t]) \notin Pieces
         /\ LeftChild(hand[t]) # RightChild(hand[t])
         /\ Pieces' = (Pieces \ {hand[t]}) \cup {LeftChild(hand[t]), RightChild(hand[t])}
         /\ OnePlace'
<1> USE OrderFacts
<1> DEFINE h == hand[t]
           l == LeftChild(h)
           r == RightChild(h)
<1>1. /\ h \in Blocks /\ bufs' = bufs /\ free' = free \cup {r}
      /\ hand' = [hand EXCEPT ![t] = l]
      /\ target[t] \in Orders /\ target[t] < h.order
  BY DEF PushRight, TypeOK, CallOK
<1>2. h.order # 0
  <2>1. h.order \in Nat /\ target[t] \in Nat
    BY <1>1, Zenon
  <2> QED BY <1>1, <2>1
<1>3. l \in Blocks /\ r \in Blocks /\ l # r /\ l # h /\ r # h
  BY <1>1, <1>2, Children
<1>4. h \in InHand /\ h \in Pieces
  BY <1>1 DEF InHand, Pieces
<1>5. Pieces \subseteq Blocks /\ Divide(Pieces) /\ OnePlace
  BY DEF TypeOK, Pieces, InHand, BlocksPartitioned
<1>6. l \notin Pieces /\ r \notin Pieces
  BY <1>2, <1>4, <1>5, SplitDivides, Zenon
<1> HIDE DEF h, l, r
<1>7. InHand' = (InHand \ {h}) \cup {l}
  BY <1>1, <1>3, <1>5 DEF InHand, OnePlace, TypeOK, h
<1>8. Pieces' = (Pieces \ {h}) \cup {l, r}
  BY <1>1, <1>3, <1>4, <1>5, <1>7 DEF Pieces, OnePlace
<1>9. OnePlace'
  <2>1. free' \cap bufs' = {} /\ InHand' \cap (free' \cup bufs') = {}
    BY <1>1, <1>3, <1>5, <1>6, <1>7 DEF OnePlace, Pieces
  <2>2. \A u \in Threads : hand[u] # l
    BY <1>3, <1>6 DEF InHand, Pieces
  <2> QED
    BY <1>1, <1>5, <2>1, <2>2 DEF OnePlace, TypeOK
<1> QED
  BY <1>1, <1>2, <1>3, <1>4, <1>6, <1>8, <1>9 DEF h, l, r

(* release_block: the block in hand and its buddy make way for their        *)
(* parent.                                                                  *)
LEMMA PiecesMerged ==
  ASSUME TypeOK, BlocksPartitioned, NEW t \in Threads, ClaimBuddy(t)
  PROVE  /\ hand[t] \in Blocks /\ hand[t].order < MaxOrder
         /\ hand[t] \in Pieces /\ Buddy(hand[t]) \in Pieces /\ Buddy(hand[t]) # hand[t]
         /\ Parent(hand[t]) \notin Pieces
         /\ Pieces' = (Pieces \ {hand[t], Buddy(hand[t])}) \cup {Parent(hand[t])}
         /\ OnePlace'
<1> USE OrderFacts
<1> DEFINE h == hand[t]
           c == Buddy(h)
           p == Parent(h)
<1>1. /\ h \in Blocks /\ bufs' = bufs /\ free' = free \ {c} /\ c \in free
      /\ hand' = [hand EXCEPT ![t] = p] /\ h.order < MaxOrder
  BY DEF ClaimBuddy, TypeOK, CallOK
<1>2. h \in InHand /\ h \in Pieces /\ c \in Pieces
  BY <1>1 DEF InHand, Pieces
<1>3. Pieces \subseteq Blocks /\ Divide(Pieces) /\ OnePlace
  BY DEF TypeOK, Pieces, InHand, BlocksPartitioned
<1>4. p \notin Pieces /\ c # h
  BY <1>1, <1>2, <1>3, MergeDivides, Zenon
<1>5. p \in Blocks
  BY <1>1, Merging
<1> HIDE DEF h, c, p
<1>6. InHand' = (InHand \ {h}) \cup {p}
  BY <1>1, <1>2, <1>3, <1>4, <1>5 DEF InHand, OnePlace, TypeOK, h, Pieces
<1>7. Pieces' = (Pieces \ {h, c}) \cup {p}
  BY <1>1, <1>2, <1>3, <1>4, <1>6 DEF Pieces, OnePlace
<1>8. OnePlace'
  <2>1. free' \cap bufs' = {} /\ InHand' \cap (free' \cup bufs') = {}
    BY <1>1, <1>3, <1>4, <1>6 DEF OnePlace, Pieces
  <2>2. \A u \in Threads : hand[u] # p
    BY <1>4, <1>5 DEF InHand, Pieces
  <2> QED
    BY <1>1, <1>3, <2>1, <2>2 DEF OnePlace, TypeOK
<1> QED
  BY <1>1, <1>2, <1>4, <1>7, <1>8 DEF h, c, p

(* Every step keeps the division of the arena. *)
LEMMA PartitionStep == TypeOK /\ BlocksPartitioned /\ [Next]_vars => BlocksPartitioned'
<1> SUFFICES ASSUME TypeOK, BlocksPartitioned, [Next]_vars
             PROVE  BlocksPartitioned'
  OBVIOUS
<1>1. CASE UNCHANGED vars
  BY <1>1, PartitionedSame DEF vars
<1>2. Pieces \subseteq Blocks /\ Divide(Pieces) /\ OnePlace
  BY DEF TypeOK, Pieces, InHand, BlocksPartitioned
<1>3. ASSUME NEW P, Divide(P), Pieces' = P, OnePlace'
      PROVE  BlocksPartitioned'
  BY <1>3 DEF BlocksPartitioned, Divide, Leaves, AllLeaves
<1>4. ASSUME NEW t \in Threads,
             \/ Finish(t) \/ PutBack(t)
             \/ \E b \in Blocks : TakeBlock(t, b) \/ Release(t, b)
      PROVE  BlocksPartitioned'
  BY <1>2, <1>3, <1>4, PiecesMove
<1>5. ASSUME NEW t \in Threads, PushRight(t)
      PROVE  BlocksPartitioned'
  BY <1>2, <1>3, <1>5, PiecesSplit, SplitDivides
<1>6. ASSUME NEW t \in Threads, ClaimBuddy(t)
      PROVE  BlocksPartitioned'
  BY <1>2, <1>3, <1>6, PiecesMerged, MergeDivides
<1>7. ASSUME NEW t \in Threads,
              \/ LoadSummary(t) \/ NextOrder(t) \/ FullScan(t) \/ MarkChild(t)
              \/ SummaryStep(t) \/ NoBuddy(t) \/ Publish(t)
              \/ \E o \in Orders : Request(t, o)
       PROVE  BlocksPartitioned'
  BY <1>7, PartitionedSame DEF LoadSummary, NextOrder, FullScan, MarkChild,
     SummaryStep, StillFree, SeeEmpty, ClearSummary, Proceed, NoBuddy, Publish, Request
<1>8. ASSUME NEW t \in Threads, ArenaFull(t)
       PROVE  BlocksPartitioned'
  <2>1. hand' = hand
    BY <1>8, OrderFacts, Zenon DEF ArenaFull, Return, TypeOK, CallOK
  <2> QED
    BY <1>8, <2>1, PartitionedSame DEF ArenaFull
<1>9. ASSUME NEW b \in Blocks, Write(b)
       PROVE  BlocksPartitioned'
  BY <1>9, PartitionedSame DEF Write
<1> QED
  BY <1>1, <1>4, <1>5, <1>6, <1>7, <1>8, <1>9
  DEF Next, Step, AllocStep, ReleaseStep

(* No byte of the arena ever has two owners, and none is lost, whatever the *)
(* number of threads and orders and however allocate and release_block      *)
(* interleave.                                                              *)
THEOREM ArenaDivided == Spec => []BlocksPartitioned
<1>1. Init => BlocksPartitioned
  <2> SUFFICES ASSUME Init
               PROVE  BlocksPartitioned
    OBVIOUS
  <2>1. InHand = {}
    BY OrderFacts DEF Init, InHand
  <2>2. Pieces = {Root}
    BY <2>1 DEF Init, Pieces
  <2> QED
    BY <2>1, <2>2, RootBlock DEF Init, BlocksPartitioned, OnePlace, Divide
<1> QED
  BY <1>1, PartitionStep, TypeCorrect, PTL DEF Spec

-----------------------------------------------------------------------------
(* A block that has stayed free is ahead of the full scan. *)
THEOREM ScanCoversStanding == Spec => []StandingAhead
<1> USE OrderFacts
<1>1. Init => StandingAhead
  BY DEF Init, StandingAhead
<1>2. TypeOK /\ StandingAhead /\ [Next]_vars => StandingAhead'
  <2> SUFFICES ASSUME TypeOK, StandingAhead, [Next]_vars
               PROVE  StandingAhead'
    OBVIOUS
  <2> DEFINE Ahead(u) == \A b \in stood[u] :
               /\ b \in free /\ target[u] # None /\ target[u] <= b.order
               /\ pc[u] = "scan" /\ pass[u] = "full" => b.order \in todo[u]
               /\ pc[u] = "scan" /\ b.order = First(todo[u]) => b \in seen[u]
         Others(t) == \A u \in Threads \ {t} :
                        /\ pc'[u] = pc[u] /\ target'[u] = target[u]
                        /\ todo'[u] = todo[u] /\ pass'[u] = pass[u]
  <2>1. CASE UNCHANGED vars
    BY <2>1 DEF vars, StandingAhead
  <2>2. ASSUME NEW b \in Blocks, Write(b)
        PROVE  StandingAhead'
    BY <2>2 DEF Write, StandingAhead
  (* The scans of the other threads. *)
  <2>3. ASSUME NEW t \in Threads, NEW orders, Scan(t, orders),
               NEW u \in Threads \ {t},
               pc'[u] = pc[u], target'[u] = target[u],
               todo'[u] = todo[u], pass'[u] = pass[u]
        PROVE  Ahead(u)'
    <3>1. seen'[u] = seen[u] \cap free'
      BY <2>3 DEF Scan
    <3>2. stood'[u] \subseteq stood[u] \cap free'
      BY <2>3 DEF Scan
    <3> QED
      BY <2>3, <3>1, <3>2 DEF StandingAhead
  (* The thread itself, outside a scan. *)
  <2>4. ASSUME NEW t \in Threads, NEW orders, Scan(t, orders), pc'[t] # "scan",
               target'[t] = None \/ target'[t] = target[t]
        PROVE  Ahead(t)'
    <3>1. stood'[t] \subseteq stood[t] \cap free' /\ (target'[t] = None => stood'[t] = {})
      BY <2>4 DEF Scan
    <3> QED
      BY <2>4, <3>1, Zenon DEF StandingAhead
  (* The thread itself, as a try_alloc begins. *)
  <2>5. ASSUME NEW t \in Threads, Scan(t, {First(todo'[t])}),
               target[t] \in Orders, target'[t] = target[t], free' = free,
               \A b \in stood[t] : pass'[t] = "full" => b.order \in todo'[t]
        PROVE  Ahead(t)'
    <3>1. stood'[t] = stood[t] \cap free' /\ seen'[t] = {b \in free' : b.order = First(todo'[t])}
      BY <2>5, Zenon DEF Scan
    <3> QED
      BY <2>5, <3>1 DEF StandingAhead
  <2>6. ASSUME NEW t \in Threads, NEW o \in Orders, Request(t, o)
        PROVE  StandingAhead'
    <3>a. Scan(t, {})
      BY <2>6, Zenon DEF Request
    <3>b. Others(t)
      BY <2>6 DEF Request, TypeOK
    <3>1. \A u \in Threads \ {t} : Ahead(u)'
      BY <2>3, <3>a, <3>b, Zenon
    <3>2. stood'[t] = {b \in free' : b.order >= o} /\ target'[t] = o /\ pc'[t] = "summary"
      BY <2>6 DEF Request, Scan, TypeOK, CallOK
    <3>3. free' \subseteq Blocks
      BY <2>6, Zenon DEF Request, TypeOK
    <3>4. \A b \in stood'[t] : b \in free' /\ o # None /\ o <= b.order
      BY <3>2, <3>3
    <3> QED
      BY <3>1, <3>2, <3>4 DEF StandingAhead
  <2>7. ASSUME NEW t \in Threads, LoadSummary(t) \/ FullScan(t)
        PROVE  StandingAhead'
    <3>a. Scan(t, {First(todo'[t])})
      BY <2>7, Zenon DEF LoadSummary, FullScan
    <3>b. Others(t)
      BY <2>7 DEF LoadSummary, FullScan, TypeOK
    <3>1. \A u \in Threads \ {t} : Ahead(u)'
      BY <2>3, <3>a, <3>b, Zenon
    <3>2. /\ Scan(t, {First(todo'[t])}) /\ target[t] \in Orders
          /\ target'[t] = target[t] /\ free' = free
          /\ pass'[t] = "full" => todo'[t] = target[t] .. MaxOrder
      BY <2>7 DEF LoadSummary, FullScan, TypeOK, CallOK
    <3>3. \A b \in stood[t] : b.order \in Orders /\ b.order >= target[t]
      BY <3>2, Zenon DEF StandingAhead, TypeOK
    <3>4. \A b \in stood[t] : b.order \in target[t] .. MaxOrder
      BY <3>2, <3>3, OrderRange, Zenon
    <3>5. Ahead(t)'
      BY <2>5, <3>2, <3>4, Zenon
    <3> QED
      BY <3>1, <3>5, Zenon DEF StandingAhead
  <2>8. ASSUME NEW t \in Threads, NextOrder(t)
        PROVE  StandingAhead'
    <3>a. Scan(t, {First(todo'[t])})
      BY <2>8, Zenon DEF NextOrder
    <3>b. Others(t)
      BY <2>8 DEF NextOrder, TypeOK
    <3>1. \A u \in Threads \ {t} : Ahead(u)'
      BY <2>3, <3>a, <3>b, Zenon
    <3>2. /\ Scan(t, {First(todo'[t])}) /\ target[t] \in Orders
          /\ target'[t] = target[t] /\ free' = free /\ pass'[t] = pass[t]
          /\ todo'[t] = todo[t] \ {First(todo[t])}
          /\ pc[t] = "scan" /\ seen[t] = {}
      BY <2>8, Zenon DEF NextOrder, TypeOK, CallOK
    <3>3. \A b \in stood[t] : pass'[t] = "full" => b.order \in todo'[t]
      BY <3>2, Zenon DEF StandingAhead
    <3>4. Ahead(t)'
      BY <2>5, <3>2, <3>3, Zenon
    <3> QED
      BY <3>1, <3>4, Zenon DEF StandingAhead
  <2>9. ASSUME NEW t \in Threads, NEW orders, Scan(t, orders), pc'[t] # "scan",
               target'[t] = None \/ target'[t] = target[t], Others(t)
        PROVE  StandingAhead'
    <3>1. \A u \in Threads \ {t} : Ahead(u)'
      BY <2>3, <2>9, Zenon
    <3>2. Ahead(t)'
      BY <2>4, <2>9, Zenon
    <3> QED
      BY <3>1, <3>2, Zenon DEF StandingAhead
  <2>10. ASSUME NEW t \in Threads, NEW b \in Blocks, TakeBlock(t, b) \/ Release(t, b)
         PROVE  StandingAhead'
    <3>1. \E orders : Scan(t, orders)
      BY <2>10, Zenon DEF TakeBlock, Release
    <3>2. pc'[t] # "scan" /\ (target'[t] = None \/ target'[t] = target[t])
      BY <2>10 DEF TakeBlock, Release, TypeOK, CallOK
    <3>3. Others(t)
      BY <2>10 DEF TakeBlock, Release, TypeOK
    <3> QED
      BY <2>9, <3>1, <3>2, <3>3, Zenon
  <2>11. ASSUME NEW t \in Threads, ArenaFull(t) \/ Finish(t) \/ PutBack(t)
         PROVE  StandingAhead'
    <3>1. \E orders : Scan(t, orders)
      BY <2>11, Zenon DEF ArenaFull, Finish, PutBack
    <3>2. pc'[t] # "scan" /\ (target'[t] = None \/ target'[t] = target[t])
      BY <2>11, Zenon DEF ArenaFull, Finish, PutBack, Return, TypeOK, CallOK
    <3>3. Others(t)
      BY <2>11, Zenon DEF ArenaFull, Finish, PutBack, Return, TypeOK
    <3> QED
      BY <2>9, <3>1, <3>2, <3>3, Zenon
  <2>12. ASSUME NEW t \in Threads,
                \/ MarkChild(t) \/ PushRight(t) \/ ClaimBuddy(t) \/ NoBuddy(t)
                \/ Publish(t)
         PROVE  StandingAhead'
    <3>1. \E orders : Scan(t, orders)
      BY <2>12, Zenon DEF MarkChild, PushRight, ClaimBuddy, NoBuddy, Publish
    <3>2. pc'[t] # "scan" /\ (target'[t] = None \/ target'[t] = target[t])
      BY <2>12 DEF MarkChild, PushRight, ClaimBuddy, NoBuddy, Publish, TypeOK, CallOK
    <3>3. Others(t)
      BY <2>12, Zenon DEF MarkChild, PushRight, ClaimBuddy, NoBuddy, Publish, TypeOK
    <3> QED
      BY <2>9, <3>1, <3>2, <3>3, Zenon
  <2>13. ASSUME NEW t \in Threads, SummaryStep(t)
         PROVE  StandingAhead'
    <3>1. \E orders : Scan(t, orders)
      BY <2>13, Zenon DEF SummaryStep, StillFree, SeeEmpty, ClearSummary, Proceed
    <3>2. pc'[t] # "scan" /\ (target'[t] = None \/ target'[t] = target[t])
      BY <2>13, Zenon DEF SummaryStep, StillFree, SeeEmpty, ClearSummary, Proceed, TypeOK, CallOK
    <3>3. Others(t)
      BY <2>13, Zenon DEF SummaryStep, StillFree, SeeEmpty, ClearSummary, Proceed, TypeOK
    <3> QED
      BY <2>9, <3>1, <3>2, <3>3, Zenon
  <2> QED
    BY <2>1, <2>2, <2>6, <2>7, <2>8, <2>10, <2>11, <2>12, <2>13, Zenon
    DEF Next, Step, AllocStep, ReleaseStep
<1> QED
  BY <1>1, <1>2, TypeCorrect, PTL DEF Spec

(* ArenaFull is returned only when no block that would do was free for the  *)
(* whole of the call: stale summary bits cost no allocation.                *)
THEOREM HonestFull == Spec => FullIsHonest
<1> DEFINE Honest == \A t \in Threads :
                       pc[t] = "scan" /\ pc'[t] = "idle" => stood[t] = {}
<1>1. TypeOK /\ StandingAhead /\ [Next]_vars => [Honest]_vars
  <2> SUFFICES ASSUME TypeOK, StandingAhead, Next,
                      NEW t \in Threads, pc[t] = "scan", pc'[t] = "idle",
                      NEW b \in stood[t]
               PROVE  FALSE
    OBVIOUS
  <2>1. ASSUME NEW u \in Threads,
               \/ LoadSummary(u) \/ NextOrder(u) \/ FullScan(u) \/ MarkChild(u) \/ PushRight(u)
               \/ \E o \in Orders : Request(u, o)
               \/ \E c \in Blocks : TakeBlock(u, c) \/ Release(u, c)
        PROVE  FALSE
    BY <2>1, Zenon DEF LoadSummary, NextOrder, FullScan, MarkChild, PushRight, Request, TakeBlock,
                Release, TypeOK
  <2>2. ASSUME NEW u \in Threads, SummaryStep(u) \/ ClaimBuddy(u) \/ NoBuddy(u) \/ Publish(u)
        PROVE  FALSE
    BY <2>2 DEF SummaryStep, StillFree, SeeEmpty, ClearSummary, Proceed, ClaimBuddy, NoBuddy,
                Publish, TypeOK
  <2>3. ASSUME NEW u \in Threads, Finish(u) \/ PutBack(u)
        PROVE  FALSE
    BY <2>3, Zenon DEF Finish, PutBack, Return, TypeOK
  <2>4. ASSUME NEW u \in Threads, ArenaFull(u)
        PROVE  u = t
    BY <2>4 DEF ArenaFull, Return, TypeOK
  <2>5. ASSUME NEW c \in Blocks, Write(c)
        PROVE  FALSE
    BY <2>5 DEF Write
  <2>6. ArenaFull(t)
    BY <2>1, <2>2, <2>3, <2>4, <2>5, Zenon DEF Next, Step, AllocStep, ReleaseStep
  <2> QED
    BY <2>6, Zenon DEF ArenaFull, StandingAhead
<1> QED
  BY <1>1, TypeCorrect, ScanCoversStanding, PTL DEF Spec, FullIsHonest

-----------------------------------------------------------------------------
(* A leaf marked as scrubbed is zero unless a live buffer has it. *)
THEOREM ScrubbedLeavesZero == Spec => []ScrubbedIsZero
<1>1. Init => ScrubbedIsZero
  BY DEF Init, ScrubbedIsZero
<1>2. TypeOK /\ ScrubbedIsZero /\ [Next]_vars => ScrubbedIsZero'
  <2> SUFFICES ASSUME TypeOK, ScrubbedIsZero, [Next]_vars
               PROVE  ScrubbedIsZero'
    OBVIOUS
  <2>1. ASSUME dirty' = dirty, zeroed' = zeroed, bufs' = bufs
        PROVE  ScrubbedIsZero'
    BY <2>1 DEF ScrubbedIsZero, Leaves
  <2>2. ASSUME NEW t \in Threads, Finish(t)
        PROVE  ScrubbedIsZero'
    BY <2>2 DEF Finish, ScrubbedIsZero, Leaves
  <2>3. ASSUME NEW t \in Threads, NEW b \in Blocks, Release(t, b)
        PROVE  ScrubbedIsZero'
    BY <2>3 DEF Release, Scrub, ScrubbedIsZero, Leaves
  <2>4. ASSUME NEW b \in Blocks, Write(b)
        PROVE  ScrubbedIsZero'
    BY <2>4, Zenon DEF Write, ScrubbedIsZero, Leaves
  <2>5. CASE UNCHANGED vars
    BY <2>1, <2>5 DEF vars
  <2>6. ASSUME NEW t \in Threads,
               \/ LoadSummary(t) \/ NextOrder(t) \/ FullScan(t) \/ ArenaFull(t)
               \/ MarkChild(t) \/ PushRight(t) \/ ReleaseStep(t) \/ SummaryStep(t)
               \/ \E o \in Orders : Request(t, o)
               \/ \E b \in Blocks : TakeBlock(t, b)
        PROVE  ScrubbedIsZero'
    BY <2>1, <2>6, Zenon DEF memory, LoadSummary, NextOrder, FullScan, ArenaFull, MarkChild,
       PushRight, ReleaseStep, ClaimBuddy, NoBuddy, Publish, PutBack, SummaryStep,
       StillFree, SeeEmpty, ClearSummary, Proceed, Request, TakeBlock
  <2> QED
    BY <2>2, <2>3, <2>4, <2>5, <2>6 DEF Next, Step, AllocStep
<1> QED
  BY <1>1, <1>2, TypeCorrect, PTL DEF Spec

(* Under InitPolicy::Zero every buffer arrives zeroed. *)
THEOREM FreshBuffersZero == Spec => FreshIsZero
<1> DEFINE Fresh == InitPolicy = "Zero" =>
                      \A b \in bufs' \ bufs : Leaves(b) \cap dirty' = {}
<1>1. TypeOK /\ BlocksPartitioned /\ ScrubbedIsZero /\ [Next]_vars => [Fresh]_vars
  <2> SUFFICES ASSUME TypeOK, BlocksPartitioned, ScrubbedIsZero, Next,
                      InitPolicy = "Zero",
                      NEW b \in bufs' \ bufs
               PROVE  Leaves(b) \cap dirty' = {}
    OBVIOUS
  <2>1. PICK t \in Threads : Finish(t)
    BY Zenon DEF Next, Step, AllocStep, ReleaseStep, SummaryStep, Request, LoadSummary,
           NextOrder, FullScan, ArenaFull, TakeBlock, StillFree, SeeEmpty,
           ClearSummary, Proceed, MarkChild, PushRight, Release, ClaimBuddy,
           NoBuddy, Publish, PutBack, Write
  <2>2. b = hand[t] /\ b \in Blocks
    BY <2>1, OrderFacts, Zenon DEF Finish, TypeOK, CallOK
  <2>3. CASE ~ Leaves(b) \subseteq zeroed
    BY <2>1, <2>2, <2>3 DEF Finish
  <2>4. CASE Leaves(b) \subseteq zeroed
    <3>1. dirty' = dirty
      BY <2>1, <2>2, <2>4 DEF Finish
    <3>2. b \in Pieces /\ \A c \in bufs : c \in Pieces /\ c # b
      BY <2>2 DEF Pieces, InHand
    <3>3. \A c \in bufs : Leaves(b) \cap Leaves(c) = {}
      BY <3>2 DEF BlocksPartitioned, Divide
    <3> QED
      BY <2>4, <3>1, <3>3 DEF ScrubbedIsZero
  <2> QED
    BY <2>3, <2>4
<1> QED
  BY <1>1, TypeCorrect, ArenaDivided, ScrubbedLeavesZero, PTL DEF Spec, FreshIsZero

(* Functions that differ at one place only. *)
LEMMA OnePlaceChanged ==
  ASSUME NEW S, NEW f, NEW g, NEW a \in S, NEW v,
         f = [x \in S |-> f[x]], g = [x \in S |-> g[x]],
         g[a] = v, \A x \in S \ {a} : g[x] = f[x]
  PROVE  g = [f EXCEPT ![a] = v]
<1> DEFINE h == [f EXCEPT ![a] = v]
<1>1. h = [x \in S |-> h[x]]
  OBVIOUS
<1>2. \A x \in S : h[x] = g[x]
  OBVIOUS
<1> QED
  BY <1>1, <1>2

(* The buddy arena implements RegionPool: regions handed out and not given  *)
(* back never overlap.                                                      *)
THEOREM ImplementsRegionPool == Spec => HandsOutRegions
<1> DEFINE mapped == [b \in Blocks |-> IF b \in bufs THEN Leaves(b) ELSE {}]
<1>1. Init => Regions!Init
  BY DEF Init, Regions!Init
<1>2. TypeOK /\ BlocksPartitioned /\ [Next]_vars => [Regions!Next]_mapped
  <2> SUFFICES ASSUME TypeOK, BlocksPartitioned, [Next]_vars
               PROVE  Regions!Next \/ mapped' = mapped
    OBVIOUS
  <2>1. ASSUME bufs' = bufs
        PROVE  mapped' = mapped
    BY <2>1 DEF Leaves
  <2>2. ASSUME NEW t \in Threads, Finish(t)
        PROVE  Regions!Next
    <3>1. hand[t] \in Blocks /\ bufs' = bufs \cup {hand[t]}
      BY <2>2, OrderFacts DEF Finish, TypeOK, CallOK
    <3>2. hand[t] \in InHand /\ hand[t] \in Pieces
      BY <3>1 DEF InHand, Pieces
    <3>3. \A c \in bufs : c \in Pieces /\ c # hand[t]
      BY <3>2 DEF BlocksPartitioned, OnePlace, Pieces
    <3>4. \A c \in bufs : Leaves(hand[t]) \cap Leaves(c) = {}
      BY <3>2, <3>3 DEF BlocksPartitioned, Divide
    <3>5. PICK h \in Blocks : h = hand[t]
      BY <3>1
    <3>6. PICK e \in {Leaves(b) : b \in Blocks} : e = Leaves(h)
      BY <3>5
    <3>7. /\ mapped[h] = {} /\ mapped'[h] = e
          /\ \A c \in Blocks \ {h} : mapped'[c] = mapped[c]
      BY <3>1, <3>3, <3>5, <3>6, Zenon DEF Leaves
    <3>8. \A c \in Blocks : e \cap mapped[c] = {}
      BY <3>4, <3>5, <3>6
    <3>9. mapped = [c \in Blocks |-> mapped[c]] /\ mapped' = [c \in Blocks |-> mapped'[c]]
      OBVIOUS
    <3> HIDE DEF mapped
    <3>10. mapped' = [mapped EXCEPT ![h] = e]
      BY <3>7, <3>9, OnePlaceChanged
    <3>11. Regions!HandOut(h)
      BY <3>7, <3>8, <3>10, Zenon DEF Regions!HandOut, mapped
    <3> QED
      BY <3>11 DEF Regions!Next
  <2>3. ASSUME NEW t \in Threads, NEW b \in Blocks, Release(t, b)
        PROVE  Regions!Next
    <3>1. b \in bufs /\ bufs' = bufs \ {b}
      BY <2>3 DEF Release
    <3>2. /\ mapped[b] # {} /\ mapped'[b] = {}
          /\ \A c \in Blocks \ {b} : mapped'[c] = mapped[c]
      BY <3>1, LeavesInArena DEF Leaves
    <3>3. mapped = [c \in Blocks |-> mapped[c]] /\ mapped' = [c \in Blocks |-> mapped'[c]]
      OBVIOUS
    <3> HIDE DEF mapped
    <3>4. mapped' = [mapped EXCEPT ![b] = {}]
      BY <3>2, <3>3, OnePlaceChanged
    <3>5. Regions!GiveBack(b)
      BY <3>2, <3>4 DEF Regions!GiveBack, mapped
    <3> QED
      BY <3>5 DEF Regions!Next
  <2>4. ASSUME NEW t \in Threads,
               \/ LoadSummary(t) \/ NextOrder(t) \/ FullScan(t) \/ ArenaFull(t)
               \/ MarkChild(t) \/ PushRight(t) \/ ReleaseStep(t) \/ SummaryStep(t)
               \/ \E o \in Orders : Request(t, o)
               \/ \E b \in Blocks : TakeBlock(t, b)
        PROVE  bufs' = bufs
    BY <2>4, Zenon DEF LoadSummary, NextOrder, FullScan, ArenaFull, MarkChild,
       PushRight, ReleaseStep, ClaimBuddy, NoBuddy, Publish, PutBack, SummaryStep,
       StillFree, SeeEmpty, ClearSummary, Proceed, Request, TakeBlock
  <2>5. CASE UNCHANGED vars
    BY <2>1, <2>5 DEF vars
  <2>6. ASSUME NEW b \in Blocks, Write(b)
        PROVE  bufs' = bufs
    BY <2>6 DEF Write
  <2> QED
    BY <2>1, <2>2, <2>3, <2>4, <2>5, <2>6 DEF Next, Step, AllocStep
<1> QED
  BY <1>1, <1>2, TypeCorrect, ArenaDivided, PTL DEF Spec, HandsOutRegions, Regions!Spec

(* The splits that split_down has made and allocate has not recorded yet. *)
SplitsToRecord == {p \in Threads \X (1 .. MaxOrder) : p[2] <= steps[p[1]]}

(* The releases that have claimed a buddy and not recorded the coalesce. *)
MergesToRecord == {t \in Threads : target[t] = None /\ pc[t] \in {"check", "clear"}}

(* The reason BlocksCounted holds: at every step the blocks there are, the  *)
(* counters, and the splits and merges still to be recorded agree.          *)
PiecesAccounted ==
  /\ IsFiniteSet(Pieces) /\ IsFiniteSet(SplitsToRecord) /\ IsFiniteSet(MergesToRecord)
  /\ Cardinality(Pieces)
       = 1 + net + Cardinality(SplitsToRecord) - Cardinality(MergesToRecord)

(* bytes_live is exact even while calls are under way. *)
LiveExact ==
  /\ IsFiniteSet(UNION {Leaves(b) : b \in bufs})
  /\ live = Cardinality(UNION {Leaves(b) : b \in bufs})

-----------------------------------------------------------------------------
(* A block has as many leaves as its width. *)
LEMMA LeavesCounted ==
  ASSUME NEW b \in Blocks
  PROVE  IsFiniteSet(Leaves(b)) /\ Cardinality(Leaves(b)) = Width[b.order]
<1> DEFINE w == Width[b.order]
           i == b.idx
<1>1. i \in Nat /\ w \in Nat \ {0}
  BY BlockParts, Widths
<1>2. i * w \in Nat /\ (i + 1) * w = i * w + w
  BY <1>1, Doubling
<1>3. PICK v \in Nat : v = i * w
  BY <1>2
<1>4. Leaves(b) = v .. v + w - 1
  BY <1>1, <1>2, <1>3 DEF Leaves
<1> HIDE DEF w, i
<1>5. /\ IsFiniteSet(v .. v + w - 1)
      /\ Cardinality(v .. v + w - 1) = IF v > v + w - 1 THEN 0 ELSE (v + w - 1) - v + 1
  BY <1>1, FS_Interval
<1>6. ~ (v > v + w - 1) /\ (v + w - 1) - v + 1 = w
  BY <1>1
<1>7. Cardinality(v .. v + w - 1) = w
  BY <1>5, <1>6, Zenon
<1> QED
  BY <1>4, <1>5, <1>7, Zenon DEF w

(* A buffer more, or one fewer, is its width in leaves more or fewer. *)
LEMMA BufferCounted ==
  ASSUME NEW B \in SUBSET Blocks, NEW b \in Blocks \ B,
         \A c \in B : Leaves(b) \cap Leaves(c) = {},
         NEW U, U = UNION {Leaves(c) : c \in B},
         NEW V, V = UNION {Leaves(c) : c \in B \cup {b}}
  PROVE  /\ IsFiniteSet(U) <=> IsFiniteSet(V)
         /\ IsFiniteSet(U) => /\ Cardinality(U) \in Nat
                              /\ Cardinality(V) = Cardinality(U) + Width[b.order]
<1>1. V = U \cup Leaves(b) /\ U \cap Leaves(b) = {} /\ U \subseteq V
  OBVIOUS
<1>2. IsFiniteSet(Leaves(b)) /\ Cardinality(Leaves(b)) = Width[b.order]
  BY LeavesCounted
<1>3. IsFiniteSet(V) => IsFiniteSet(U)
  BY <1>1, FS_Subset
<1>4. ASSUME IsFiniteSet(U)
      PROVE  /\ IsFiniteSet(V) /\ Cardinality(U) \in Nat
             /\ Cardinality(V) = Cardinality(U) + Width[b.order]
  <2>1. IsFiniteSet(U \cup Leaves(b)) /\ Cardinality(U \cup Leaves(b)) =
          Cardinality(U) + Cardinality(Leaves(b)) - Cardinality(U \cap Leaves(b))
    BY <1>2, <1>4, FS_Union
  <2>2. Cardinality(U \cap Leaves(b)) = 0 /\ Cardinality(U) \in Nat
    BY <1>1, <1>4, FS_EmptySet, FS_CardinalityType, Zenon
  <2>3. Width[b.order] \in Nat
    BY BlockParts, Widths
  <2>4. IsFiniteSet(V) /\ Cardinality(V) =
          Cardinality(U) + Cardinality(Leaves(b)) - Cardinality(U \cap Leaves(b))
    BY <1>1, <2>1, Zenon
  <2> QED
    BY <1>2, <2>2, <2>3, <2>4
<1> QED
  BY <1>3, <1>4

(* live is the leaves of the buffers.  Here a buffer and its count change   *)
(* in one step; Metrics takes the two apart.                                *)
LEMMA LiveLeaves == Spec => []LiveExact
<1>1. Init => LiveExact
  <2> SUFFICES ASSUME Init PROVE LiveExact
    OBVIOUS
  <2>1. UNION {Leaves(b) : b \in bufs} = {} /\ live = 0
    BY DEF Init
  <2> QED
    BY <2>1, FS_EmptySet DEF LiveExact
<1>2. TypeOK /\ BlocksPartitioned /\ LiveExact /\ [Next]_vars => LiveExact'
  <2> SUFFICES ASSUME TypeOK, BlocksPartitioned, LiveExact, [Next]_vars
               PROVE  LiveExact'
    OBVIOUS
  <2> DEFINE U == UNION {Leaves(b) : b \in bufs}
  <2>1. ASSUME bufs' = bufs, live' = live
        PROVE  LiveExact'
    BY <2>1 DEF LiveExact, Leaves
  <2>2. ASSUME NEW t \in Threads, Finish(t)
        PROVE  LiveExact'
    <3>1. PICK b \in Blocks : b = hand[t]
      BY <2>2, OrderFacts DEF Finish, TypeOK, CallOK
    <3>2. bufs' = bufs \cup {b} /\ live' = live + Width[b.order] /\ bufs \subseteq Blocks
      BY <2>2, <3>1 DEF Finish, TypeOK
    <3>3. b \in Pieces /\ b \notin bufs /\ \A c \in bufs : c \in Pieces
      BY <3>1 DEF BlocksPartitioned, OnePlace, Pieces, InHand
    <3>4. \A c \in bufs : Leaves(b) \cap Leaves(c) = {}
      BY <3>3 DEF BlocksPartitioned, Divide
    <3>5. U' = UNION {Leaves(c) : c \in bufs \cup {b}}
      BY <3>2 DEF Leaves
    <3>6. IsFiniteSet(U) /\ live = Cardinality(U)
      BY DEF LiveExact
    <3>7. IsFiniteSet(U') /\ Cardinality(U') = Cardinality(U) + Width[b.order]
      <4> HIDE DEF U
      <4>1. U = UNION {Leaves(c) : c \in bufs}
        BY DEF U
      <4> QED BY <3>2, <3>3, <3>4, <3>5, <3>6, <4>1, BufferCounted, Zenon
    <3> QED
      BY <3>2, <3>6, <3>7 DEF LiveExact
  <2>3. ASSUME NEW t \in Threads, NEW b \in Blocks, Release(t, b)
        PROVE  LiveExact'
    <3>2. bufs' = bufs \ {b} /\ live' = live - Width[b.order] /\ bufs \subseteq Blocks /\ b \in bufs
      BY <2>3, Zenon DEF Release, RecordFree, TypeOK
    <3>3. \A c \in bufs : c \in Pieces
      BY DEF Pieces
    <3>4. \A c \in bufs \ {b} : Leaves(b) \cap Leaves(c) = {}
      BY <3>2, <3>3 DEF BlocksPartitioned, Divide
    <3>5. U' = UNION {Leaves(c) : c \in bufs \ {b}}
      BY <3>2 DEF Leaves
    <3>6. IsFiniteSet(U) /\ live = Cardinality(U)
      BY DEF LiveExact
    <3>7. IsFiniteSet(U') /\ Cardinality(U) = Cardinality(U') + Width[b.order]
          /\ Cardinality(U') \in Nat
      <4> HIDE DEF U
      <4>1. PICK B \in SUBSET Blocks : B = bufs \ {b}
        BY <3>2
      <4>2. U = UNION {Leaves(c) : c \in B \cup {b}} /\ U' = UNION {Leaves(c) : c \in B}
        BY <3>2, <3>5, <4>1 DEF U
      <4>3. b \in Blocks \ B /\ \A c \in B : Leaves(b) \cap Leaves(c) = {}
        BY <3>4, <4>1
      <4> QED BY <3>6, <4>2, <4>3, BufferCounted, Zenon
    <3>8. Width[b.order] \in Nat
      BY BlockParts, Widths
    <3> QED
      BY <3>2, <3>6, <3>7, <3>8 DEF LiveExact
  <2>4. ASSUME NEW t \in Threads,
               \/ LoadSummary(t) \/ NextOrder(t) \/ FullScan(t) \/ ArenaFull(t)
               \/ MarkChild(t) \/ PushRight(t) \/ ReleaseStep(t) \/ SummaryStep(t)
               \/ \E o \in Orders : Request(t, o)
               \/ \E b \in Blocks : TakeBlock(t, b)
        PROVE  LiveExact'
    BY <2>1, <2>4, Zenon DEF LoadSummary, NextOrder, FullScan, ArenaFull, MarkChild,
       PushRight, ReleaseStep, ClaimBuddy, NoBuddy, Publish, PutBack, SummaryStep,
       StillFree, SeeEmpty, ClearSummary, Proceed, Request, TakeBlock
  <2>5. CASE UNCHANGED vars
    BY <2>1, <2>5 DEF vars
  <2>6. ASSUME NEW b \in Blocks, Write(b)
        PROVE  LiveExact'
    BY <2>1, <2>6 DEF Write
  <2> QED
    BY <2>2, <2>3, <2>4, <2>5, <2>6 DEF Next, Step, AllocStep
<1> QED
  BY <1>1, <1>2, TypeCorrect, ArenaDivided, PTL DEF Spec

-----------------------------------------------------------------------------
(* The splits of one call: as many as its split_steps, and no other call's. *)
LEMMA SplitsOf ==
  ASSUME TypeOK, NEW t \in Threads, NEW S, S = {t} \X (1 .. steps[t])
  PROVE  /\ S \subseteq SplitsToRecord
         /\ IsFiniteSet(S) /\ Cardinality(S) = steps[t]
<1>1. steps[t] \in Nat /\ steps[t] <= MaxOrder
  BY MaxOrderAssumption DEF TypeOK
<1>2. S \subseteq SplitsToRecord
  BY <1>1, MaxOrderAssumption DEF SplitsToRecord
<1>3. IsFiniteSet({t}) /\ Cardinality({t}) = 1
  BY FS_Singleton, Zenon
<1>4. IsFiniteSet(1 .. steps[t]) /\ Cardinality(1 .. steps[t]) = steps[t]
  <2>1. PICK n \in Nat : n = steps[t]
    BY <1>1
  <2>2. /\ IsFiniteSet(1 .. n)
        /\ Cardinality(1 .. n) = IF 1 > n THEN 0 ELSE n - 1 + 1
    BY FS_Interval
  <2>3. (IF 1 > n THEN 0 ELSE n - 1 + 1) = n
    OBVIOUS
  <2> QED
    BY <2>1, <2>2, <2>3, Zenon
<1>5. IsFiniteSet(S) /\ Cardinality(S) = Cardinality({t}) * Cardinality(1 .. steps[t])
  BY <1>3, <1>4, FS_Product, Zenon
<1> QED
  BY <1>1, <1>2, <1>3, <1>4, <1>5

(* A step that makes, merges and records no block. *)
LEMMA AccountedSame ==
  ASSUME PiecesAccounted, Pieces' = Pieces, net' = net, steps' = steps,
         MergesToRecord' = MergesToRecord
  PROVE  PiecesAccounted'
<1>1. SplitsToRecord' = SplitsToRecord
  BY DEF SplitsToRecord
<1> QED
  BY <1>1 DEF PiecesAccounted

(* split_down makes a block, to be recorded. *)
LEMMA AccountedPushRight ==
  ASSUME TypeOK, BlocksPartitioned, PiecesAccounted, NEW t \in Threads, PushRight(t)
  PROVE  PiecesAccounted'
<1> DEFINE P == Pieces
           h == hand[t]
           l == LeftChild(h)
           r == RightChild(h)
<1>1. h \in P /\ l \notin P /\ r \notin P /\ l # r /\ Pieces' = (P \ {h}) \cup {l, r}
  BY PiecesSplit
<1>2. steps' = [steps EXCEPT ![t] = steps[t] + 1] /\ net' = net /\ pc[t] = "push"
      /\ pc' = [pc EXCEPT ![t] = "split"] /\ target' = target
  BY DEF PushRight
<1>3. steps[t] + 1 \in 1 .. MaxOrder /\ steps[t] \in Nat
  <2>1. steps[t] \in Nat /\ MaxOrder \in Nat
    BY MaxOrderAssumption DEF TypeOK
  <2>2. hand[t] \in Blocks /\ target[t] \in Orders /\ target[t] < hand[t].order
        /\ steps[t] + hand[t].order <= MaxOrder
    BY <1>2, OrderFacts, Zenon DEF TypeOK, CallOK
  <2>3. hand[t].order \in Nat /\ target[t] \in Nat
    BY <2>2, OrderFacts, Zenon
  <2> QED
    BY <2>1, <2>2, <2>3
<1>4. SplitsToRecord' = SplitsToRecord \cup {<<t, steps[t] + 1>>}
  BY <1>2, <1>3 DEF SplitsToRecord, TypeOK
<1>5. <<t, steps[t] + 1>> \notin SplitsToRecord
  BY <1>3 DEF SplitsToRecord
<1>6. MergesToRecord' = MergesToRecord
  BY <1>2 DEF MergesToRecord, TypeOK
<1>7. /\ IsFiniteSet(P) /\ IsFiniteSet(SplitsToRecord)
      /\ Cardinality(P) \in Nat /\ Cardinality(SplitsToRecord) \in Nat
      /\ Cardinality(MergesToRecord) \in Nat
  BY FS_CardinalityType DEF PiecesAccounted
<1>8. IsFiniteSet(SplitsToRecord') /\ Cardinality(SplitsToRecord') = Cardinality(SplitsToRecord) + 1
  BY <1>4, <1>5, <1>7, FS_AddElement, Zenon
<1> HIDE DEF P, h, l, r
<1>9. IsFiniteSet(Pieces') /\ Cardinality(Pieces') = Cardinality(P) + 1
  <2>1. IsFiniteSet(P \ {h}) /\ Cardinality(P \ {h}) = Cardinality(P) - 1
    BY <1>1, <1>7, FS_RemoveElement, Zenon
  <2>2. l \notin P \ {h} /\ r \notin (P \ {h}) \cup {l}
    BY <1>1
  <2>3. IsFiniteSet((P \ {h}) \cup {l}) /\ Cardinality((P \ {h}) \cup {l}) = Cardinality(P) - 1 + 1
    BY <2>1, <2>2, FS_AddElement, Zenon
  <2>4. IsFiniteSet(((P \ {h}) \cup {l}) \cup {r})
        /\ Cardinality(((P \ {h}) \cup {l}) \cup {r}) = Cardinality(P) - 1 + 1 + 1
    BY <2>2, <2>3, FS_AddElement, Zenon
  <2>5. Pieces' = ((P \ {h}) \cup {l}) \cup {r}
    BY <1>1
  <2>6. Cardinality(P) - 1 + 1 + 1 = Cardinality(P) + 1
    BY <1>7
  <2> QED
    BY <2>4, <2>5, <2>6, Zenon
<1>10. net \in Int
  BY DEF TypeOK
<1> QED
  BY <1>2, <1>6, <1>7, <1>8, <1>9, <1>10 DEF PiecesAccounted, P

(* release_block merges two blocks, to be recorded. *)
LEMMA AccountedClaimBuddy ==
  ASSUME TypeOK, BlocksPartitioned, PiecesAccounted, NEW t \in Threads, ClaimBuddy(t)
  PROVE  PiecesAccounted'
<1> DEFINE P == Pieces
           h == hand[t]
           c == Buddy(h)
           p == Parent(h)
<1>1. h \in P /\ c \in P /\ c # h /\ p \notin P /\ Pieces' = (P \ {h, c}) \cup {p}
  BY PiecesMerged
<1>2. /\ steps' = steps /\ net' = net /\ pc[t] = "merge" /\ target[t] = None
      /\ pc' = [pc EXCEPT ![t] = "check"] /\ target' = target
  BY Zenon DEF ClaimBuddy, TypeOK, CallOK
<1>3. MergesToRecord' = MergesToRecord \cup {t} /\ t \notin MergesToRecord
  BY <1>2 DEF MergesToRecord, TypeOK
<1>4. SplitsToRecord' = SplitsToRecord
  BY <1>2 DEF SplitsToRecord
<1>5. /\ IsFiniteSet(P) /\ IsFiniteSet(MergesToRecord)
      /\ Cardinality(P) \in Nat /\ Cardinality(SplitsToRecord) \in Nat
      /\ Cardinality(MergesToRecord) \in Nat
  BY FS_CardinalityType DEF PiecesAccounted
<1>6. IsFiniteSet(MergesToRecord') /\ Cardinality(MergesToRecord') = Cardinality(MergesToRecord) + 1
  BY <1>3, <1>5, FS_AddElement, Zenon
<1> HIDE DEF P, h, c, p
<1>7. IsFiniteSet(Pieces') /\ Cardinality(Pieces') = Cardinality(P) - 1
  <2>1. IsFiniteSet(P \ {h}) /\ Cardinality(P \ {h}) = Cardinality(P) - 1
    BY <1>1, <1>5, FS_RemoveElement, Zenon
  <2>2. c \in P \ {h} /\ p \notin (P \ {h}) \ {c}
    BY <1>1
  <2>3. IsFiniteSet((P \ {h}) \ {c}) /\ Cardinality((P \ {h}) \ {c}) = Cardinality(P) - 1 - 1
    BY <2>1, <2>2, FS_RemoveElement, Zenon
  <2>4. IsFiniteSet(((P \ {h}) \ {c}) \cup {p})
        /\ Cardinality(((P \ {h}) \ {c}) \cup {p}) = Cardinality(P) - 1 - 1 + 1
    BY <2>2, <2>3, FS_AddElement, Zenon
  <2>5. Pieces' = ((P \ {h}) \ {c}) \cup {p}
    BY <1>1
  <2>6. Cardinality(P) - 1 - 1 + 1 = Cardinality(P) - 1
    BY <1>5
  <2> QED
    BY <2>4, <2>5, <2>6, Zenon
<1>8. net \in Int
  BY DEF TypeOK
<1> QED
  BY <1>2, <1>4, <1>5, <1>6, <1>7, <1>8 DEF PiecesAccounted, P

(* After maybe_clear_summary a release records its merge; an allocate has   *)
(* nothing to record.                                                       *)
LEMMA AccountedProceed ==
  ASSUME TypeOK, PiecesAccounted, NEW t \in Threads, StillFree(t) \/ ClearSummary(t)
  PROVE  PiecesAccounted'
<1>1. /\ pc[t] \in {"check", "clear"} /\ free' = free /\ bufs' = bufs /\ hand' = hand
      /\ target' = target /\ steps' = steps
      /\ pc' = [pc EXCEPT ![t] = IF target[t] = None THEN "merge" ELSE "split"]
      /\ net' = IF target[t] = None THEN net - 1 ELSE net
  BY DEF StillFree, ClearSummary, Proceed
<1>2. Pieces' = Pieces /\ SplitsToRecord' = SplitsToRecord
  BY <1>1 DEF Pieces, InHand, SplitsToRecord
<1>3. CASE target[t] # None
  <2>1. MergesToRecord' = MergesToRecord
    BY <1>1, <1>3 DEF MergesToRecord, TypeOK
  <2> QED
    BY <1>1, <1>2, <1>3, <2>1 DEF PiecesAccounted
<1>4. CASE target[t] = None
  <2>1. MergesToRecord' = MergesToRecord \ {t} /\ t \in MergesToRecord
    BY <1>1, <1>4 DEF MergesToRecord, TypeOK
  <2>2. /\ IsFiniteSet(MergesToRecord)
        /\ Cardinality(Pieces) \in Nat /\ Cardinality(SplitsToRecord) \in Nat
        /\ Cardinality(MergesToRecord) \in Nat /\ net \in Int
    BY FS_CardinalityType DEF PiecesAccounted, TypeOK
  <2>3. IsFiniteSet(MergesToRecord') /\ Cardinality(MergesToRecord') = Cardinality(MergesToRecord) - 1
    BY <2>1, <2>2, FS_RemoveElement, Zenon
  <2> QED
    BY <1>1, <1>2, <1>4, <2>2, <2>3 DEF PiecesAccounted
<1> QED
  BY <1>3, <1>4

(* allocate records all the splits it has made. *)
LEMMA AccountedFinish ==
  ASSUME TypeOK, BlocksPartitioned, PiecesAccounted, NEW t \in Threads, Finish(t)
  PROVE  PiecesAccounted'
<1> DEFINE S == {t} \X (1 .. steps[t])
<1>1. Pieces' = Pieces
  BY PiecesMove DEF BlocksPartitioned
<1>2. /\ pc[t] = "split" /\ steps' = [steps EXCEPT ![t] = 0] /\ net' = net + steps[t]
      /\ pc' = [pc EXCEPT ![t] = "idle"] /\ target' = [target EXCEPT ![t] = None]
  BY DEF Finish, Return, RecordSplits
<1>3. MergesToRecord' = MergesToRecord
  BY <1>2 DEF MergesToRecord, TypeOK
<1>4. SplitsToRecord' = SplitsToRecord \ S
  BY <1>2, MaxOrderAssumption DEF SplitsToRecord, TypeOK
<1>5. S \subseteq SplitsToRecord /\ Cardinality(S) = steps[t] /\ steps[t] \in Nat
  BY SplitsOf, MaxOrderAssumption DEF TypeOK
<1> HIDE DEF S
<1>6. /\ IsFiniteSet(SplitsToRecord)
      /\ Cardinality(Pieces) \in Nat /\ Cardinality(SplitsToRecord) \in Nat
      /\ Cardinality(MergesToRecord) \in Nat /\ net \in Int
  BY FS_CardinalityType DEF PiecesAccounted, TypeOK
<1>7. SplitsToRecord \cap S = S
  BY <1>5
<1>8. IsFiniteSet(SplitsToRecord')
      /\ Cardinality(SplitsToRecord') = Cardinality(SplitsToRecord) - steps[t]
  <2>1. IsFiniteSet(SplitsToRecord \ S) /\ Cardinality(SplitsToRecord \ S)
          = Cardinality(SplitsToRecord) - Cardinality(SplitsToRecord \cap S)
    BY <1>6, FS_Difference, Zenon
  <2> QED
    BY <1>4, <1>5, <1>7, <2>1, Zenon
<1> QED
  BY <1>1, <1>2, <1>3, <1>5, <1>6, <1>8 DEF PiecesAccounted

(* Every step keeps the account. *)
LEMMA AccountedStep ==
  TypeOK /\ BlocksPartitioned /\ PiecesAccounted /\ [Next]_vars => PiecesAccounted'
<1> SUFFICES ASSUME TypeOK, BlocksPartitioned, PiecesAccounted, [Next]_vars
             PROVE  PiecesAccounted'
  OBVIOUS
<1>1. CASE UNCHANGED vars
  <2>1. Pieces' = Pieces /\ MergesToRecord' = MergesToRecord
    BY <1>1 DEF vars, Pieces, InHand, MergesToRecord
  <2> QED BY <1>1, <2>1, AccountedSame DEF vars
<1>2. ASSUME NEW t \in Threads,
             \/ LoadSummary(t) \/ NextOrder(t) \/ FullScan(t) \/ MarkChild(t)
             \/ NoBuddy(t) \/ Publish(t) \/ SeeEmpty(t)
             \/ \E o \in Orders : Request(t, o)
      PROVE  PiecesAccounted'
  <2>1. /\ free' = free /\ bufs' = bufs /\ hand' = hand /\ net' = net /\ steps' = steps
    BY <1>2, Zenon DEF LoadSummary, NextOrder, FullScan, MarkChild, NoBuddy, Publish, SeeEmpty,
       Request
  <2>2. Pieces' = Pieces
    BY <2>1 DEF Pieces, InHand
  <2>3. MergesToRecord' = MergesToRecord
    <3>1. \A u \in Threads \ {t} : target'[u] = target[u] /\ pc'[u] = pc[u]
      BY <1>2, Zenon DEF LoadSummary, NextOrder, FullScan, MarkChild, NoBuddy, Publish, SeeEmpty,
                  Request, TypeOK
    <3>2. CASE SeeEmpty(t)
      <4>1. target'[t] = target[t] /\ pc[t] = "check" /\ pc'[t] = "clear"
        BY <3>2 DEF SeeEmpty, TypeOK
      <4> QED
        BY <3>1, <4>1 DEF MergesToRecord
    <3>3. CASE LoadSummary(t) \/ NextOrder(t) \/ FullScan(t) \/ MarkChild(t)
               \/ NoBuddy(t) \/ Publish(t) \/ \E o \in Orders : Request(t, o)
      <4>1. pc[t] \notin {"check", "clear"} /\ pc'[t] \notin {"check", "clear"}
        BY <3>3, Zenon DEF LoadSummary, NextOrder, FullScan, MarkChild, NoBuddy, Publish, Request, TypeOK
      <4> QED
        BY <3>1, <4>1 DEF MergesToRecord
    <3> QED
      BY <1>2, <3>2, <3>3, Zenon
  <2> QED
    BY <2>1, <2>2, <2>3, AccountedSame
<1>3. ASSUME NEW t \in Threads, NEW b \in Blocks, TakeBlock(t, b) \/ Release(t, b)
      PROVE  PiecesAccounted'
  <2>1. Pieces' = Pieces
    BY <1>3, PiecesMove DEF BlocksPartitioned
  <2>2. net' = net /\ steps' = steps
    BY <1>3, Zenon DEF TakeBlock, Release
  <2>3. MergesToRecord' = MergesToRecord
    BY <1>3, Zenon DEF TakeBlock, Release, MergesToRecord, TypeOK, CallOK
  <2> QED
    BY <2>1, <2>2, <2>3, AccountedSame
<1>4. ASSUME NEW t \in Threads, ArenaFull(t) \/ PutBack(t)
      PROVE  PiecesAccounted'
  <2>1. Pieces' = Pieces
    <3>1. CASE PutBack(t)
      BY <3>1, PiecesMove DEF BlocksPartitioned
    <3>2. CASE ArenaFull(t)
      BY <3>2, Zenon DEF ArenaFull, Return, TypeOK, CallOK, Pieces, InHand
    <3> QED
      BY <1>4, <3>1, <3>2
  <2>2. net' = net /\ steps' = steps
    <3>1. pc[t] \in {"scan", "put"}
      BY <1>4, Zenon DEF ArenaFull, PutBack
    <3>2. steps \in [Threads -> 0 .. MaxOrder] /\ steps[t] = 0
      BY <3>1 DEF TypeOK, CallOK
    <3>3. net' = net /\ steps' = [steps EXCEPT ![t] = 0]
      BY <1>4, Zenon DEF ArenaFull, PutBack, Return
    <3> QED
      BY <3>2, <3>3
  <2>3. MergesToRecord' = MergesToRecord
    BY <1>4, Zenon DEF ArenaFull, PutBack, Return, MergesToRecord, TypeOK, CallOK
  <2> QED
    BY <2>1, <2>2, <2>3, AccountedSame
<1>5. ASSUME NEW b \in Blocks, Write(b)
      PROVE  PiecesAccounted'
  <2>1. Pieces' = Pieces /\ MergesToRecord' = MergesToRecord
    BY <1>5 DEF Write, Pieces, InHand, MergesToRecord
  <2> QED BY <1>5, <2>1, AccountedSame DEF Write
<1> QED
  BY <1>1, <1>2, <1>3, <1>4, <1>5, AccountedPushRight, AccountedClaimBuddy,
     AccountedProceed, AccountedFinish
  DEF Next, Step, AllocStep, ReleaseStep, SummaryStep

(* What metrics() reports accounts for the blocks there are.  Between calls *)
(* nothing is left to record, so splits minus coalesces, plus one, is the   *)
(* number of blocks; and bytes_live is exact at any time.                   *)
THEOREM SplitsAccounted == Spec => []BlocksCounted
<1>1. Init => PiecesAccounted
  <2> SUFFICES ASSUME Init PROVE PiecesAccounted
    OBVIOUS
  <2>1. InHand = {}
    BY OrderFacts DEF Init, InHand
  <2>2. Pieces = {Root} /\ MergesToRecord = {} /\ net = 0
    BY <2>1 DEF Init, Pieces, MergesToRecord
  <2>3. SplitsToRecord = {}
    BY DEF Init, SplitsToRecord
  <2>4. IsFiniteSet(Pieces) /\ Cardinality(Pieces) = 1
    BY <2>2, FS_Singleton, Zenon
  <2> QED
    BY <2>2, <2>3, <2>4, FS_EmptySet DEF PiecesAccounted
<1>2. TypeOK /\ PiecesAccounted /\ LiveExact => BlocksCounted
  <2> SUFFICES ASSUME TypeOK, PiecesAccounted, LiveExact, Quiescent
               PROVE  Cardinality(Pieces) = 1 + net
    BY DEF BlocksCounted, LiveExact
  <2>1. MergesToRecord = {}
    BY DEF Quiescent, MergesToRecord
  <2>2. SplitsToRecord = {}
    <3>1. \A t \in Threads : steps[t] = 0
      BY DEF Quiescent, TypeOK, CallOK
    <3> QED
      BY <3>1 DEF SplitsToRecord
  <2> QED
    BY <2>1, <2>2, FS_EmptySet DEF PiecesAccounted, TypeOK
<1> QED
  BY <1>1, <1>2, AccountedStep, LiveLeaves, TypeCorrect, ArenaDivided, PTL DEF Spec

-----------------------------------------------------------------------------
(* The merging of this block would end here. *)
Unmergeable(b) == b.order < MaxOrder => Buddy(b) \notin free

(* The reason SequentialCoalesced holds: until calls overlap, one thread at *)
(* a time is inside a call, no two free blocks are ever buddies, and a      *)
(* block about to be put back still has no free buddy.                      *)
OneCallAtATime ==
  ~ overlapped =>
    /\ \A t, u \in Threads : pc[t] # "idle" /\ pc[u] # "idle" => t = u
    /\ \A b \in free : Unmergeable(b)
    /\ \A t \in Threads : pc[t] \in {"publish", "put"} => Unmergeable(hand[t])

(* Buddy, block by block. *)
LEMMA BuddyOf ==
  ASSUME NEW o, NEW i, NEW b, b = [order |-> o, idx |-> i]
  PROVE  /\ i % 2 = 0 => Buddy(b) = [order |-> o, idx |-> i + 1]
         /\ i % 2 # 0 => Buddy(b) = [order |-> o, idx |-> i - 1]
BY DEF Buddy

(* block_idx ^ 1 pairs the blocks of an order off. *)
LEMMA BuddyPairs ==
  ASSUME NEW b \in Blocks
  PROVE  Buddy(Buddy(b)) = b /\ Buddy(b) # b /\ Buddy(b).order = b.order
<1> DEFINE i == b.idx
           o == b.order
<1>1. i \in Nat /\ b = [order |-> o, idx |-> i]
  BY BlockParts
<1>2. CASE i % 2 = 0
  <2>1. PICK j \in Nat : j = i + 1
    BY <1>1
  <2>2. Buddy(b) = [order |-> o, idx |-> j]
    BY <1>1, <1>2, <2>1, BuddyOf
  <2>3. j % 2 # 0 /\ j - 1 = i /\ j # i
    BY <1>1, <1>2, <2>1
  <2>4. Buddy(Buddy(b)) = [order |-> o, idx |-> j - 1]
    BY <2>2, <2>3, BuddyOf
  <2> QED
    BY <1>1, <2>2, <2>3, <2>4
<1>3. CASE i % 2 = 1
  <2>1. PICK j \in Nat : j = i - 1
    BY <1>1, <1>3
  <2>2. Buddy(b) = [order |-> o, idx |-> j]
    BY <1>1, <1>3, <2>1, BuddyOf
  <2>3. j % 2 = 0 /\ j + 1 = i /\ j # i
    BY <1>1, <1>3, <2>1
  <2>4. Buddy(Buddy(b)) = [order |-> o, idx |-> j + 1]
    BY <2>2, <2>3, BuddyOf
  <2> QED
    BY <1>1, <2>2, <2>3, <2>4
<1> QED
  BY <1>1, <1>2, <1>3

(* The children of a block are buddies. *)
LEMMA ChildrenAreBuddies ==
  ASSUME NEW b \in Blocks, b.order # 0
  PROVE  Buddy(RightChild(b)) = LeftChild(b)
<1>1. b.idx \in Nat
  BY BlockParts
<1>2. (2 * b.idx + 1) % 2 # 0 /\ 2 * b.idx + 1 - 1 = 2 * b.idx
  BY <1>1
<1>3. PICK i : i = 2 * b.idx + 1
  OBVIOUS
<1>4. RightChild(b) = [order |-> b.order - 1, idx |-> i]
  BY <1>3 DEF RightChild
<1>5. Buddy(RightChild(b)) = [order |-> b.order - 1, idx |-> i - 1]
  BY <1>2, <1>3, <1>4, BuddyOf
<1> QED
  BY <1>1, <1>3, <1>5 DEF LeftChild

(* A block is freed that has no free buddy. *)
LEMMA FreeUnmergeable ==
  ASSUME NEW F \in SUBSET Blocks, NEW h \in Blocks,
         \A b \in F : b.order < MaxOrder => Buddy(b) \notin F,
         h.order < MaxOrder => Buddy(h) \notin F
  PROVE  \A b \in F \cup {h} : b.order < MaxOrder => Buddy(b) \notin F \cup {h}
BY BuddyPairs

(* Every step keeps to one call at a time, or notes the overlap. *)
LEMMA OneCallStep ==
  /\ TypeOK /\ BlocksPartitioned /\ OneCallAtATime
  /\ [SeqNext]_<<vars, overlapped>>
  => OneCallAtATime'
<1> USE OrderFacts
<1> SUFFICES ASSUME TypeOK, BlocksPartitioned, OneCallAtATime,
                    [SeqNext]_<<vars, overlapped>>, ~ overlapped'
             PROVE  OneCallAtATime'
  BY DEF OneCallAtATime
<1>1. CASE UNCHANGED <<vars, overlapped>>
  BY <1>1 DEF vars, OneCallAtATime, Unmergeable
<1>2. CASE SeqNext
  <2>1. /\ ~ overlapped
        /\ \A t, u \in Threads : pc'[t] # "idle" /\ pc'[u] # "idle" => t = u
    BY <1>2, Zenon DEF SeqNext
  <2>2. /\ \A t, u \in Threads : pc[t] # "idle" /\ pc[u] # "idle" => t = u
        /\ \A b \in free : Unmergeable(b)
        /\ \A t \in Threads : pc[t] \in {"publish", "put"} => Unmergeable(hand[t])
    BY <2>1 DEF OneCallAtATime
  <2>3. SUFFICES /\ \A b \in free' : Unmergeable(b)'
                 /\ \A t \in Threads : pc'[t] \in {"publish", "put"} => Unmergeable(hand[t])'
    BY <2>1 DEF OneCallAtATime
  <2>4. ASSUME free' \subseteq free,
               \A u \in Threads : pc'[u] \in {"publish", "put"} =>
                 pc[u] \in {"publish", "put"} /\ hand'[u] = hand[u]
        PROVE  /\ \A b \in free' : Unmergeable(b)'
               /\ \A t \in Threads : pc'[t] \in {"publish", "put"} => Unmergeable(hand[t])'
    BY <2>2, <2>4 DEF Unmergeable
  <2>5. ASSUME NEW t \in Threads,
               \/ LoadSummary(t) \/ NextOrder(t) \/ FullScan(t) \/ MarkChild(t)
               \/ Publish(t) \/ SummaryStep(t) \/ ArenaFull(t) \/ Finish(t)
               \/ \E o \in Orders : Request(t, o)
               \/ \E b \in Blocks : TakeBlock(t, b) \/ Release(t, b)
        PROVE  /\ \A b \in free' : Unmergeable(b)'
               /\ \A u \in Threads : pc'[u] \in {"publish", "put"} => Unmergeable(hand[u])'
    <3>1. free' \subseteq free
      BY <2>5, Zenon DEF LoadSummary, NextOrder, FullScan, MarkChild, Publish, SummaryStep,
         StillFree, SeeEmpty, ClearSummary, Proceed, ArenaFull, Finish, Request,
         TakeBlock, Release
    <3>2. \A u \in Threads : pc'[u] \in {"publish", "put"} =>
            pc[u] \in {"publish", "put"} /\ hand'[u] = hand[u]
      BY <2>5, Zenon DEF LoadSummary, NextOrder, FullScan, MarkChild, Publish, SummaryStep,
         StillFree, SeeEmpty, ClearSummary, Proceed, ArenaFull, Finish, Request,
         TakeBlock, Release, Return, TypeOK
    <3> QED
      BY <2>4, <3>1, <3>2
  <2>6. ASSUME NEW t \in Threads, ClaimBuddy(t)
        PROVE  /\ \A b \in free' : Unmergeable(b)'
               /\ \A u \in Threads : pc'[u] \in {"publish", "put"} => Unmergeable(hand[u])'
    BY <2>4, <2>6, Zenon DEF ClaimBuddy, TypeOK
  <2>7. ASSUME NEW t \in Threads, NoBuddy(t)
        PROVE  /\ \A b \in free' : Unmergeable(b)'
               /\ \A u \in Threads : pc'[u] \in {"publish", "put"} => Unmergeable(hand[u])'
    BY <2>2, <2>7, Zenon DEF NoBuddy, TypeOK, Unmergeable
  <2>8. ASSUME NEW t \in Threads, PushRight(t)
        PROVE  /\ \A b \in free' : Unmergeable(b)'
               /\ \A u \in Threads : pc'[u] \in {"publish", "put"} => Unmergeable(hand[u])'
    <3>1. \A u \in Threads : ~ pc'[u] \in {"publish", "put"}
      BY <2>1, <2>8 DEF PushRight, TypeOK
    <3>2. /\ hand[t] \in Blocks /\ hand[t].order # 0
          /\ LeftChild(hand[t]) \notin Pieces
      BY <2>8, PiecesSplit
    <3>3. /\ RightChild(hand[t]) \in Blocks
          /\ Buddy(RightChild(hand[t])) = LeftChild(hand[t])
      BY <3>2, Children, ChildrenAreBuddies
    <3>4. Buddy(RightChild(hand[t])) \notin free /\ free \subseteq Blocks
      BY <3>2, <3>3 DEF Pieces, TypeOK
    <3>5. free' = free \cup {RightChild(hand[t])}
      BY <2>8, Zenon DEF PushRight
    <3>6. \A b \in free \cup {RightChild(hand[t])} :
            b.order < MaxOrder => Buddy(b) \notin free \cup {RightChild(hand[t])}
      BY <2>2, <3>3, <3>4, FreeUnmergeable DEF Unmergeable
    <3> QED
      BY <3>1, <3>5, <3>6, Zenon DEF Unmergeable
  <2>9. ASSUME NEW t \in Threads, PutBack(t)
        PROVE  /\ \A b \in free' : Unmergeable(b)'
               /\ \A u \in Threads : pc'[u] \in {"publish", "put"} => Unmergeable(hand[u])'
    <3>1. pc[t] = "put" /\ pc' = [pc EXCEPT ![t] = "idle"]
      BY <2>9 DEF PutBack, Return
    <3>2. \A u \in Threads : ~ pc'[u] \in {"publish", "put"}
      BY <2>2, <3>1 DEF TypeOK
    <3>3. hand[t] \in Blocks /\ Unmergeable(hand[t]) /\ free \subseteq Blocks
      BY <2>2, <3>1 DEF TypeOK, CallOK
    <3>4. free' = free \cup {hand[t]}
      BY <2>9, Zenon DEF PutBack
    <3>5. \A b \in free \cup {hand[t]} :
            b.order < MaxOrder => Buddy(b) \notin free \cup {hand[t]}
      BY <2>2, <3>3, FreeUnmergeable, Zenon DEF Unmergeable
    <3> QED
      BY <3>2, <3>4, <3>5 DEF Unmergeable
  <2>10. ASSUME NEW b \in Blocks, Write(b)
         PROVE  /\ \A c \in free' : Unmergeable(c)'
                /\ \A u \in Threads : pc'[u] \in {"publish", "put"} => Unmergeable(hand[u])'
    BY <2>4, <2>10, Zenon DEF Write
  <2>11. Next
    BY <1>2 DEF SeqNext
  <2> QED
    BY <2>5, <2>6, <2>7, <2>8, <2>9, <2>10, <2>11, Zenon
    DEF Next, Step, AllocStep, ReleaseStep
<1> QED
  BY <1>1, <1>2

(* As long as no two calls have overlapped, release_block leaves no two     *)
(* buddies free, whatever the number of threads and orders.                 *)
THEOREM SequentialMerges == SeqSpec => []SequentialCoalesced
<1>1. SeqInit => Init /\ OneCallAtATime
  <2> SUFFICES ASSUME SeqInit
               PROVE  OneCallAtATime
    BY Zenon DEF SeqInit
  <2>1. free = {Root} /\ Root.order = MaxOrder
    BY DEF SeqInit, Init, Root
  <2> QED
    BY <2>1, MaxOrderAssumption DEF SeqInit, Init, OneCallAtATime, Unmergeable
<1>2. [SeqNext]_<<vars, overlapped>> => [Next]_vars
  BY DEF SeqNext
<1>3. SeqSpec => [](TypeOK /\ BlocksPartitioned)
  BY <1>1, <1>2, TypeCorrect, ArenaDivided, PTL DEF SeqSpec, Spec
<1>4. OneCallAtATime => SequentialCoalesced
  BY DEF OneCallAtATime, SequentialCoalesced, Coalesced, Unmergeable
<1> QED
  BY <1>1, <1>3, <1>4, OneCallStep, PTL DEF SeqSpec
=============================================================================
