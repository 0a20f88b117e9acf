------------------------- MODULE AtomicBitmapProofs -------------------------
(***************************************************************************)
(* For every number of threads, slots, words and bits per word: the type   *)
(* invariant of AtomicBitmap, exclusive ownership of slots, that a failed  *)
(* try_alloc has missed no slot that was free all along, that a bitmap of  *)
(* one word implements SlotPool, and that ranges are marked exactly.       *)
(***************************************************************************)
EXTENDS BitmapUses, WellFoundedInduction, TLAPS

(* A nonempty set of numbers has a least member.                           *)
LEMMA LeastOf ==
  ASSUME NEW S \in SUBSET Nat, S # {}
  PROVE  \E x \in S : \A y \in S : x <= y
<1> DEFINE Less == OpToRel(<, Nat)
<1>1. PICK x \in S : \A y \in S : ~(<<y, x>> \in Less)
  <2>1. IsWellFoundedOn(Less, Nat)
    BY NatLessThanWellFounded, Zenon
  <2> HIDE DEF Less
  <2> QED BY <2>1, WFMin, Zenon
<1>2. ASSUME NEW y \in S
      PROVE  x <= y
  <2>1. <<y, x>> \notin Less
    <3> HIDE DEF Less
    <3> QED BY <1>1
  <2>2. y \in Nat /\ x \in Nat /\ (y < x => <<y, x>> \in Less)
    BY DEF OpToRel
  <2> HIDE DEF Less
  <2> QED
    BY <2>1, <2>2
<1> QED
  BY <1>2

(* trailing_zeros of a word that is not zero is one of its set bits.        *)
LEMMA LowestBitIn ==
  ASSUME NEW bits, bits # {}, bits \subseteq Nat
  PROVE  LowestBit(bits) \in bits
PROOF BY LeastOf, Zenon DEF LowestBit

(* Every step keeps the variables in their types.                           *)
LEMMA TypeStep == TypeOK /\ [Next]_vars => TypeOK'
<1> USE SlotCountAssumption, ScanWordsAssumption
<1> SUFFICES ASSUME TypeOK, [Next]_vars
             PROVE  TypeOK'
  OBVIOUS
<1>1. ASSUME Watch, free' \subseteq SlotIndices
      PROVE  standing' \in [Threads -> SUBSET SlotIndices] /\ full' \subseteq Threads
  BY <1>1 DEF TypeOK, Watch, Calling
<1>2. ASSUME NEW t \in Threads, TakeCursor(t)
      PROVE  TypeOK'
  BY <1>1, <1>2 DEF TypeOK, TakeCursor, Wrap, WordIndices
<1>3. ASSUME NEW t \in Threads, SeeBit(t)
      PROVE  TypeOK'
  <2>1. LowestBit(Word(word[t])) \in SlotIndices
    <3>1. Word(word[t]) \subseteq SlotIndices
      BY DEF TypeOK, Word
    <3>2. SlotIndices \subseteq Nat
      BY DEF SlotIndices
    <3> QED
      BY <1>3, <3>1, <3>2, LowestBitIn, Zenon DEF SeeBit
  <2> QED
    BY <1>1, <1>3, <2>1 DEF TypeOK, SeeBit
<1>4. ASSUME NEW t \in Threads, SkipWord(t)
      PROVE  TypeOK'
  BY <1>1, <1>4 DEF TypeOK, SkipWord, Wrap, WordIndices
<1>5. ASSUME NEW t \in Threads, GiveUp(t)
      PROVE  TypeOK'
  BY <1>1, <1>5 DEF TypeOK, GiveUp, Return, WordIndices
<1>6. ASSUME NEW t \in Threads, Claim(t)
      PROVE  TypeOK'
  BY <1>1, <1>6 DEF TypeOK, Claim, Return, WordIndices
<1>7. ASSUME NEW t \in Threads, LoseBit(t)
      PROVE  TypeOK'
  BY <1>1, <1>7 DEF TypeOK, LoseBit
<1>8. ASSUME NEW t \in Threads, NEW s \in SlotIndices, ClaimExact(t, s)
      PROVE  TypeOK'
  BY <1>1, <1>8 DEF TypeOK, ClaimExact
<1>9. ASSUME NEW t \in Threads, NEW s \in SlotIndices, Free(t, s)
      PROVE  TypeOK'
  BY <1>1, <1>9 DEF TypeOK, Free
<1>10. CASE UNCHANGED vars
  BY <1>10 DEF TypeOK, vars
<1> QED
  BY <1>2, <1>3, <1>4, <1>5, <1>6, <1>7, <1>8, <1>9, <1>10 DEF Next, AllocStep

(* The variables keep their types, whatever the constants.                  *)
THEOREM TypeCorrect == Spec => []TypeOK
<1>1. Init => TypeOK
  BY SlotCountAssumption, ScanWordsAssumption DEF Init, TypeOK, WordIndices
<1> QED
  BY <1>1, TypeStep, PTL DEF Spec

(* Exclusive ownership for any number of threads and slots: a slot is free  *)
(* or held by exactly one thread (try_claim_word, try_claim_exact, free).   *)
THEOREM ExclusiveOwnership == Spec => []SlotsPartitioned
<1>1. Init => SlotsPartitioned
  BY DEF Init, SlotsPartitioned
<1>2. TypeOK /\ SlotsPartitioned /\ [Next]_vars => SlotsPartitioned'
  <2> SUFFICES ASSUME TypeOK, SlotsPartitioned, [Next]_vars
               PROVE  SlotsPartitioned'
    OBVIOUS
  <2>1. CASE UNCHANGED <<free, held>>
    BY <2>1 DEF SlotsPartitioned
  <2>2. ASSUME NEW t \in Threads, NEW s \in SlotIndices, s \in free,
               free' = free \ {s}, held' = [held EXCEPT ![t] = @ \cup {s}]
        PROVE  SlotsPartitioned'
    BY <2>2 DEF SlotsPartitioned, TypeOK
  <2>3. ASSUME NEW t \in Threads, Claim(t)
        PROVE  SlotsPartitioned'
    BY <2>2, <2>3, Zenon DEF Claim, TypeOK
  <2>4. ASSUME NEW t \in Threads, NEW s \in SlotIndices, ClaimExact(t, s)
        PROVE  SlotsPartitioned'
    BY <2>2, <2>4, Zenon DEF ClaimExact
  <2>5. ASSUME NEW t \in Threads, NEW s \in SlotIndices, Free(t, s)
        PROVE  SlotsPartitioned'
    BY <2>5 DEF Free, SlotsPartitioned, TypeOK
  <2> QED
    BY <2>1, <2>3, <2>4, <2>5
    DEF Next, AllocStep, TakeCursor, SeeBit, SkipWord, GiveUp, LoseBit, vars
<1> QED
  BY <1>1, <1>2, TypeCorrect, PTL DEF Spec

-----------------------------------------------------------------------------
(* Wrap goes round the words: seen from the next word, the word k ahead is  *)
(* one place nearer.                                                        *)
LEMMA WrapStep ==
  ASSUME NEW w \in WordIndices, NEW k \in 0 .. ScanWords - 1, k > 0
  PROVE  Wrap(Wrap(w + 1) + (k - 1)) = Wrap(w + k)
BY ScanWordsAssumption DEF Wrap, WordIndices

(* Every word is fewer than ScanWords places ahead of any other. *)
LEMMA WrapReaches ==
  ASSUME NEW w \in WordIndices, NEW v \in WordIndices
  PROVE  \E k \in 0 .. ScanWords - 1 : v = Wrap(w + k)
<1> w \in Nat /\ v \in Nat /\ w < ScanWords /\ v < ScanWords /\ ScanWords \in Nat
  BY ScanWordsAssumption DEF WordIndices
<1>1. CASE w <= v
  <2>1. v - w \in 0 .. ScanWords - 1 /\ v = Wrap(w + (v - w))
    BY <1>1 DEF Wrap
  <2> QED BY <2>1
<1>2. CASE v < w
  <2>1. /\ v - w + ScanWords \in 0 .. ScanWords - 1
        /\ v = Wrap(w + (v - w + ScanWords))
    BY <1>2 DEF Wrap
  <2> QED BY <2>1
<1> QED
  BY <1>1, <1>2

(* A slot that stays free during a call lies in a word still to be scanned. *)
THEOREM ScanCoversStanding == Spec => []ScannedWordsEmpty
<1>1. Init => ScannedWordsEmpty
  BY DEF Init, ScannedWordsEmpty
<1>2. TypeOK /\ ScannedWordsEmpty /\ [Next]_vars => ScannedWordsEmpty'
  <2> SUFFICES ASSUME TypeOK, ScannedWordsEmpty, [Next]_vars,
                      NEW u \in Threads, NEW r \in standing'[u]
               PROVE  /\ r \in free'
                      /\ \E k \in 0 .. left'[u] - 1 :
                           r \div BitsPerWord = Wrap(word'[u] + k)
    BY DEF ScannedWordsEmpty
  <2> DEFINE Goal == /\ r \in free'
                     /\ \E k \in 0 .. left'[u] - 1 :
                          r \div BitsPerWord = Wrap(word'[u] + k)
  <2>1. CASE UNCHANGED vars
    BY <2>1 DEF vars, ScannedWordsEmpty
  <2>2. ASSUME Watch
        PROVE  /\ r \in free' /\ u \in Calling'
               /\ u \in Calling => r \in standing[u]
    BY <2>2 DEF Watch
  <2>3. ASSUME Watch, u \in Calling, word'[u] = word[u], left'[u] = left[u]
        PROVE  Goal
    BY <2>2, <2>3 DEF ScannedWordsEmpty
  <2>4. ASSUME NEW t \in Threads, TakeCursor(t)
        PROVE  Goal
    <3>1. CASE u # t
      BY <2>2, <2>3, <2>4, <3>1 DEF TakeCursor, Calling, TypeOK
    <3>2. CASE u = t
      <4>1. word'[u] \in WordIndices /\ left'[u] = ScanWords
        BY <2>4, <3>2 DEF TakeCursor, TypeOK
      <4>2. r \in SlotIndices /\ r \in free'
        BY <2>2, <2>4 DEF TakeCursor, TypeOK
      <4>3. r \div BitsPerWord \in WordIndices
        BY <4>2, ScanWordsAssumption
      <4> QED
        BY <4>1, <4>2, <4>3, WrapReaches
    <3> QED
      BY <3>1, <3>2
  <2>5. ASSUME NEW t \in Threads, SkipWord(t)
        PROVE  Goal
    <3>1. CASE u # t
      BY <2>2, <2>3, <2>5, <3>1 DEF SkipWord, Calling, TypeOK
    <3>2. CASE u = t
      <4>1. r \in standing[u] /\ r \in free'
        BY <2>2, <2>5, <3>2 DEF SkipWord, Calling
      <4>2. PICK k \in 0 .. left[u] - 1 : r \div BitsPerWord = Wrap(word[u] + k)
        BY <4>1 DEF ScannedWordsEmpty
      <4>3. word[u] \in WordIndices /\ left[u] \in 0 .. ScanWords
        BY DEF TypeOK
      <4>4. k # 0
        <5>1. r \div BitsPerWord # word[u]
          BY <2>5, <3>2, <4>1 DEF SkipWord, Word
        <5>2. Wrap(word[u] + 0) = word[u]
          BY <4>3, ScanWordsAssumption DEF Wrap, WordIndices
        <5> QED
          BY <4>2, <5>1, <5>2
      <4>5. word'[u] = Wrap(word[u] + 1) /\ left'[u] = left[u] - 1
        BY <2>5, <3>2 DEF SkipWord, TypeOK
      <4>6. Wrap(word'[u] + (k - 1)) = Wrap(word[u] + k)
        BY <4>3, <4>4, <4>5, WrapStep, ScanWordsAssumption
      <4>7. k - 1 \in 0 .. left'[u] - 1
        BY <4>3, <4>4, <4>5, ScanWordsAssumption
      <4> QED
        BY <4>1, <4>2, <4>6, <4>7
    <3> QED
      BY <3>1, <3>2
  <2>6. ASSUME NEW t \in Threads, SeeBit(t) \/ LoseBit(t)
        PROVE  Goal
    BY <2>2, <2>3, <2>6 DEF SeeBit, LoseBit, Calling, TypeOK
  <2>7. ASSUME NEW t \in Threads, GiveUp(t) \/ Claim(t)
        PROVE  Goal
    BY <2>2, <2>3, <2>7 DEF GiveUp, Claim, Return, Calling, TypeOK
  <2>8. ASSUME NEW t \in Threads, NEW s \in SlotIndices, ClaimExact(t, s) \/ Free(t, s)
        PROVE  Goal
    BY <2>2, <2>3, <2>8 DEF ClaimExact, Free, Calling
  <2> QED
    BY <2>1, <2>4, <2>5, <2>6, <2>7, <2>8 DEF Next, AllocStep
<1> QED
  BY <1>1, <1>2, TypeCorrect, PTL DEF Spec

(* A try_alloc that returns None missed no slot that was free all along.    *)
THEOREM HonestNone == Spec => NoneIsHonest
<1> DEFINE Step == \A t \in Threads :
                     pc[t] = "load" /\ pc'[t] = "idle" => standing[t] = {}
<1>1. TypeOK /\ ScannedWordsEmpty /\ [Next]_vars => [Step]_vars
  <2> SUFFICES ASSUME TypeOK, ScannedWordsEmpty, Next,
                      NEW t \in Threads, pc[t] = "load", pc'[t] = "idle",
                      NEW s \in standing[t]
               PROVE  FALSE
    OBVIOUS
  <2>1. GiveUp(t)
    BY DEF Next, AllocStep, TakeCursor, SeeBit, SkipWord, Claim, LoseBit, GiveUp,
           Return, ClaimExact, Free, TypeOK
  <2>2. s \in free /\ s \div BitsPerWord = Wrap(word[t] + 0)
    BY <2>1 DEF GiveUp, ScannedWordsEmpty
  <2>3. Wrap(word[t] + 0) = word[t]
    BY ScanWordsAssumption DEF Wrap, WordIndices, TypeOK
  <2> QED
    BY <2>1, <2>2, <2>3 DEF GiveUp, Word
<1> QED
  BY <1>1, TypeCorrect, ScanCoversStanding, PTL DEF Spec, NoneIsHonest

-----------------------------------------------------------------------------
(* The calls in progress while no slot is free are the ones noted as full. *)
FullNoted == full \subseteq Calling /\ (free = {} => full = Calling)

(* With one word a call that gives up has seen every slot taken at once, so *)
(* try_alloc takes effect at one instant: the bitmap implements SlotPool.   *)
THEOREM OneWordLinearizable == ASSUME ScanWords = 1 PROVE Spec => Linearizable
<1> DEFINE mapped == <<free, held, Calling, full>>
<1>1. Init => Pool!Init /\ FullNoted
  BY DEF Init, Pool!Init, FullNoted, Calling
<1>2. TypeOK /\ FullNoted /\ [Next]_vars => FullNoted'
  <2> SUFFICES ASSUME TypeOK, FullNoted, [Next]_vars
               PROVE  FullNoted'
    OBVIOUS
  <2>1. CASE UNCHANGED vars
    BY <2>1 DEF vars, FullNoted, Calling
  <2>2. CASE Watch
    BY <2>2 DEF Watch, FullNoted, Calling
  <2> QED
    BY <2>1, <2>2 DEF Next, AllocStep, TakeCursor, SeeBit, SkipWord, GiveUp, Claim,
       LoseBit, ClaimExact, Free
<1>3. TypeOK /\ FullNoted /\ [Next]_vars => [Pool!Next]_mapped
  <2> SUFFICES ASSUME TypeOK, FullNoted, [Next]_vars
               PROVE  Pool!Next \/ mapped' = mapped
    OBVIOUS
  <2>1. CASE UNCHANGED vars
    BY <2>1 DEF vars, Calling
  <2>2. Watch => Pool!NoteFull
    BY DEF Watch, Pool!NoteFull
  <2>3. ASSUME NEW t \in Threads, TakeCursor(t)
        PROVE  Pool!Call(t)
    <3>1. t \notin Calling /\ Calling' = Calling \cup {t}
      BY <2>3 DEF TakeCursor, Calling, TypeOK
    <3> QED
      BY <2>2, <2>3, <3>1 DEF TakeCursor, Pool!Call
  <2>4. ASSUME NEW t \in Threads, SeeBit(t) \/ SkipWord(t) \/ LoseBit(t)
        PROVE  mapped' = mapped
    <3>1. Calling' = Calling /\ free' = free /\ held' = held /\ Watch
      BY <2>4 DEF SeeBit, SkipWord, LoseBit, Calling, TypeOK
    <3>2. full' = full
      BY <3>1 DEF Watch, FullNoted
    <3> QED
      BY <3>1, <3>2
  <2>5. ASSUME NEW t \in Threads, GiveUp(t)
        PROVE  Pool!Refuse(t)
    <3>1. word[t] = 0
      BY DEF TypeOK, WordIndices
    <3>2. \A s \in SlotIndices : s \div BitsPerWord = 0
      BY ScanWordsAssumption DEF WordIndices
    <3>3. free = {}
      BY <2>5, <3>1, <3>2 DEF GiveUp, Word, TypeOK
    <3>4. t \in Calling /\ Calling' = Calling \ {t}
      BY <2>5 DEF GiveUp, Return, Calling, TypeOK
    <3>5. t \in full
      BY <3>3, <3>4 DEF FullNoted
    <3> QED
      BY <2>2, <2>5, <3>4, <3>5 DEF GiveUp, Pool!Refuse
  <2>6. ASSUME NEW t \in Threads, Claim(t)
        PROVE  \E s \in SlotIndices : Pool!Grant(t, s)
    <3>1. t \in Calling /\ Calling' = Calling \ {t}
      BY <2>6 DEF Claim, Return, Calling, TypeOK
    <3>2. bit[t] \in SlotIndices
      BY <2>6 DEF Claim, TypeOK
    <3>3. Pool!Grant(t, bit[t])
      BY <2>2, <2>6, <3>1 DEF Claim, Pool!Grant
    <3> QED
      BY <3>2, <3>3
  <2>7. ASSUME NEW t \in Threads, NEW s \in SlotIndices, ClaimExact(t, s)
        PROVE  Pool!GrantExact(t, s)
    <3>1. t \notin Calling /\ Calling' = Calling
      BY <2>7 DEF ClaimExact, Calling
    <3> QED
      BY <2>2, <2>7, <3>1 DEF ClaimExact, Pool!GrantExact
  <2>8. ASSUME NEW t \in Threads, NEW s \in SlotIndices, Free(t, s)
        PROVE  Pool!GiveBack(t, s)
    <3>1. Calling' = Calling
      BY <2>8 DEF Free, Calling
    <3> QED
      BY <2>2, <2>8, <3>1 DEF Free, Pool!GiveBack
  <2> QED
    BY <2>1, <2>3, <2>4, <2>5, <2>6, <2>7, <2>8 DEF Next, AllocStep, Pool!Next
<1> QED
  BY <1>1, <1>2, <1>3, TypeCorrect, PTL DEF Spec, Linearizable, Pool!Spec, Pool!vars

-----------------------------------------------------------------------------
(* The first n + 1 powers of two, by doubling. *)
Doubles(n) ==
  {f \in [0 .. n -> Nat] : f[0] = 1 /\ \A k \in 1 .. n : f[k] = 2 * f[k - 1]}

(* However many powers are wanted, doubling gives them. *)
LEMMA DoublesExist ==
  ASSUME NEW n \in Nat
  PROVE  Doubles(n) # {}
<1> DEFINE Short == {m \in Nat : Doubles(m) = {}}
<1>1. SUFFICES Short = {}
  OBVIOUS
<1>2. SUFFICES ASSUME Short # {} PROVE FALSE
  OBVIOUS
<1>3. PICK m \in Short : \A l \in Short : m <= l
  BY <1>2, LeastOf, Zenon
<1>4. m # 0
  <2>1. [k \in 0 .. 0 |-> 1] \in Doubles(0)
    BY DEF Doubles
  <2> QED
    BY <1>3, <2>1
<1>5. m - 1 \in Nat /\ m - 1 \notin Short
  BY <1>3, <1>4
<1>6. PICK f \in Doubles(m - 1) : TRUE
  BY <1>5
<1> DEFINE g == [k \in 0 .. m |-> IF k = m THEN 2 * f[m - 1] ELSE f[k]]
<1>7. g \in [0 .. m -> Nat] /\ g[0] = 1
  BY <1>4, <1>5, <1>6 DEF Doubles
<1>8. ASSUME NEW k \in 1 .. m PROVE g[k] = 2 * g[k - 1]
  <2>1. k - 1 \in 0 .. m /\ k - 1 # m /\ g[k - 1] = f[k - 1]
    BY <1>5
  <2>2. CASE k = m
    BY <1>5, <2>1, <2>2
  <2>3. CASE k # m
    <3>1. k \in 1 .. m - 1 /\ g[k] = f[k]
      BY <1>5, <2>3
    <3> QED
      BY <1>6, <2>1, <3>1 DEF Doubles
  <2> QED
    BY <2>2, <2>3
<1>9. g \in Doubles(m)
  BY <1>7, <1>8, Zenon DEF Doubles
<1> QED
  BY <1>3, <1>9

(* There is one way to double. *)
LEMMA DoublesAgree ==
  ASSUME NEW n \in Nat, NEW m \in Nat, n <= m, NEW f \in Doubles(n), NEW g \in Doubles(m)
  PROVE  f[n] = g[n]
<1> DEFINE Differ == {k \in 0 .. n : f[k] # g[k]}
<1>1. SUFFICES ASSUME Differ # {} PROVE FALSE
  OBVIOUS
<1>2. PICK k \in Differ : \A l \in Differ : k <= l
  <2>1. Differ \in SUBSET Nat
    OBVIOUS
  <2> QED
    BY <1>1, <2>1, LeastOf, Zenon
<1>3. k # 0
  BY <1>2 DEF Doubles
<1>4. k - 1 \in 0 .. n /\ k - 1 \notin Differ
  BY <1>2, <1>3
<1>5. f[k] = 2 * f[k - 1] /\ g[k] = 2 * g[k - 1]
  BY <1>2, <1>3 DEF Doubles
<1> QED
  BY <1>2, <1>4, <1>5

(* What the recursion computes. *)
LEMMA Pow2Recursion ==
  /\ R!Pow2(0) = 1
  /\ \A k \in Nat : R!Pow2(k + 1) = 2 * R!Pow2(k)
<1> DEFINE Def(f) == [k \in Nat |-> IF k = 0 THEN 1 ELSE 2 * f[k - 1]]
           h == [k \in Nat |-> (CHOOSE d \in Doubles(k) : TRUE)[k]]
<1>1. ASSUME NEW k \in Nat PROVE (CHOOSE d \in Doubles(k) : TRUE) \in Doubles(k)
  BY DoublesExist
<1>2. ASSUME NEW k \in Nat, k # 0
      PROVE  h[k] = 2 * h[k - 1]
  <2>1. PICK f \in Doubles(k) : f = CHOOSE d \in Doubles(k) : TRUE
    BY <1>1
  <2>2. k - 1 \in Nat /\ k - 1 <= k
    BY <1>2
  <2>3. PICK e \in Doubles(k - 1) : e = CHOOSE d \in Doubles(k - 1) : TRUE
    BY <1>1, <2>2
  <2>4. e[k - 1] = f[k - 1]
    BY <2>2, DoublesAgree
  <2>5. f[k] = 2 * f[k - 1]
    BY <1>2 DEF Doubles
  <2>6. h[k] = f[k] /\ h[k - 1] = e[k - 1]
    BY <2>1, <2>2, <2>3
  <2> QED
    BY <2>4, <2>5, <2>6
<1>3. h[0] = 1
  <2>1. (CHOOSE d \in Doubles(0) : TRUE) \in Doubles(0)
    BY <1>1
  <2> QED
    BY <2>1 DEF Doubles
<1>4. h = Def(h)
  <2>1. ASSUME NEW k \in Nat PROVE h[k] = Def(h)[k]
    <3> HIDE DEF h
    <3> QED
      BY <1>2, <1>3
  <2> QED
    BY <2>1, Zenon
<1>5. R!TwoTo = CHOOSE f : f = Def(f)
  BY Zenon DEF R!TwoTo
<1>6. R!TwoTo = Def(R!TwoTo)
  <2> HIDE DEF h, Def
  <2> QED
    BY <1>4, <1>5, Zenon
<1>7. \A k \in Nat : R!TwoTo[k] = IF k = 0 THEN 1 ELSE 2 * R!TwoTo[k - 1]
  BY <1>6
<1> QED
  BY <1>7 DEF R!Pow2

(* Powers of two leave every number behind.                                *)
LEMMA Pow2Above ==
  ASSUME NEW n \in Nat
  PROVE  R!Pow2(n) \in Nat /\ R!Pow2(n) > n
<1> DEFINE Slow == {k \in Nat : ~ (R!Pow2(k) \in Nat /\ R!Pow2(k) > k)}
<1>1. SUFFICES ASSUME Slow # {} PROVE FALSE
  OBVIOUS
<1>2. PICK k \in Slow : \A j \in Slow : k <= j
  BY <1>1, LeastOf, Zenon
<1>3. k # 0
  BY <1>2, Pow2Recursion
<1>4. PICK j \in Nat : k = j + 1
  BY <1>2, <1>3
<1>5. j \notin Slow
  BY <1>2, <1>4
<1>6. R!Pow2(k) = 2 * R!Pow2(j) /\ R!Pow2(j) \in Nat /\ R!Pow2(j) > j
  BY <1>4, <1>5, Pow2Recursion
<1> QED
  BY <1>2, <1>4, <1>6

(* Padded to a power of two, the words hold all the slots.                 *)
LEMMA WordsSuffice ==
  /\ R!PaddedWords \in Nat
  /\ R!PaddedWords * BitsPerWord >= RangeSlots
<1>1. BitsPerWord \in Nat \ {0} /\ RangeSlots \in Nat \ {0}
  BY BitsPerWordAssumption, RangeSlotsAssumption
<1>2. PICK actual \in Nat : actual = (RangeSlots + BitsPerWord - 1) \div BitsPerWord
  BY <1>1
<1>3. actual * BitsPerWord >= RangeSlots
  <2> DEFINE v == RangeSlots + BitsPerWord - 1
  <2>1. v \in Nat /\ v = ((v \div BitsPerWord) * BitsPerWord) + (v % BitsPerWord)
        /\ v % BitsPerWord \in 0 .. BitsPerWord - 1
    BY <1>1
  <2>2. PICK x \in Nat : x = actual * BitsPerWord
    BY <1>1
  <2> QED
    BY <1>1, <1>2, <2>1, <2>2
<1>4. PICK k \in Nat : /\ R!Pow2(k) >= actual
                       /\ \A j \in Nat : R!Pow2(j) >= actual => k <= j
  <2> DEFINE Enough == {j \in Nat : R!Pow2(j) >= actual}
  <2>1. actual \in Enough
    BY Pow2Above
  <2>2. PICK k \in Enough : \A j \in Enough : k <= j
    BY <2>1, LeastOf, Zenon
  <2> QED
    BY <2>2
<1>5. k \in 0 .. actual
  <2>1. R!Pow2(actual) >= actual
    BY Pow2Above
  <2> QED
    BY <1>4, <2>1
<1>6. R!Pow2(k) = 1 \/ R!Pow2(k) < 2 * actual
  <2>1. CASE k = 0
    BY <2>1, Pow2Recursion
  <2>2. CASE k # 0
    <3>1. PICK j \in Nat : k = j + 1
      BY <2>2
    <3>2. R!Pow2(j) \in Nat /\ R!Pow2(k) = 2 * R!Pow2(j)
      BY <3>1, Pow2Recursion, Pow2Above
    <3>3. ~ (R!Pow2(j) >= actual)
      BY <1>4, <3>1
    <3> QED
      BY <3>2, <3>3
  <2> QED
    BY <2>1, <2>2
<1>7. \E n \in {R!Pow2(j) : j \in 0 .. actual} : n >= actual /\ (n = 1 \/ n < 2 * actual)
  BY <1>4, <1>5, <1>6
<1>8. /\ R!PaddedWords \in {R!Pow2(j) : j \in 0 .. actual}
      /\ R!PaddedWords >= actual
  BY <1>2, <1>7, Zenon DEF R!PaddedWords
<1>9. PICK n \in Nat : n = R!PaddedWords
  BY <1>8, Pow2Above
<1>10. n * BitsPerWord >= actual * BitsPerWord
  BY <1>1, <1>8, <1>9
<1> QED
  <2>1. n * BitsPerWord \in Nat /\ actual * BitsPerWord \in Nat
    BY <1>1
  <2> QED
    BY <1>1, <1>3, <1>9, <1>10, <2>1

(* The bits that are 1 in words ws, which SetBits takes of the bitmap. *)
SetOf(ws) == UNION {{w * BitsPerWord + b : b \in ws[w]} : w \in DOMAIN ws}

WordsOfRanges == 0 .. R!PaddedWords - 1

(* The type of the bitmap used for ranges, and what its users are at: an   *)
(* idle owner has no range, the others one of their own, and a call is at  *)
(* a word of its range.                                                    *)
RangesOwned ==
  /\ words \in [WordsOfRanges -> SUBSET R!AllBits]
  /\ marked \subseteq 0 .. RangeSlots - 1
  /\ range \in [Owners -> R!Ranges \cup {R!Idle}]
  /\ at \in [Owners -> {"idle", "query", "answered", "set"}]
  /\ index \in [Owners -> Nat]
  /\ answer \in [Owners -> BOOLEAN]
  /\ \A o \in Owners :
       /\ at[o] = "idle" => range[o] = R!Idle
       /\ at[o] # "idle" => range[o] \in R!Ranges
       /\ at[o] \in {"query", "set"} =>
            index[o] \in range[o].start \div BitsPerWord .. R!LastWord(o)
       /\ \A u \in Owners \ {o} : R!RangeBits(range[o]) \cap R!RangeBits(range[u]) = {}

(* A call has seen set, or has set itself, the bits of its range in the    *)
(* words it has passed.                                                    *)
PassedWordsSet ==
  \A o \in Owners : at[o] \in {"query", "set"} =>
    \A x \in R!RangeBits(range[o]) : x \div BitsPerWord < index[o] => x \in R!SetBits

(* The strengthening that makes RangesExact inductive. *)
RangesInv == RangesOwned /\ PassedWordsSet /\ R!RangesExact

(* Where a bit lies. *)
LEMMA BitPlace ==
  ASSUME NEW x \in Nat
  PROVE  /\ x \div BitsPerWord \in Nat
         /\ x % BitsPerWord \in R!AllBits
         /\ x = ((x \div BitsPerWord) * BitsPerWord) + (x % BitsPerWord)
PROOF BY BitsPerWordAssumption DEF R!AllBits

(* The place of the bit b of word w. *)
LEMMA PlaceOf ==
  ASSUME NEW w \in Nat, NEW b \in R!AllBits
  PROVE  /\ w * BitsPerWord + b \in Nat
         /\ (w * BitsPerWord + b) \div BitsPerWord = w
         /\ (w * BitsPerWord + b) % BitsPerWord = b
<1> DEFINE B == BitsPerWord
<1>1. B \in Nat \ {0} /\ b \in Nat /\ b < B
  BY BitsPerWordAssumption DEF R!AllBits
<1> QED
  BY <1>1

(* A bit of the bitmap is 1 when its word has it. *)
LEMMA SetOfWords ==
  ASSUME NEW ws \in [WordsOfRanges -> SUBSET R!AllBits]
  PROVE  /\ SetOf(ws) \subseteq Nat
         /\ \A x \in Nat : x \in SetOf(ws) <=>
              /\ x \div BitsPerWord \in WordsOfRanges
              /\ x % BitsPerWord \in ws[x \div BitsPerWord]
<1>1. DOMAIN ws = WordsOfRanges /\ WordsOfRanges \subseteq Nat
  BY WordsSuffice DEF WordsOfRanges
<1>2. ASSUME NEW x \in SetOf(ws)
      PROVE  /\ x \in Nat
             /\ x \div BitsPerWord \in WordsOfRanges
             /\ x % BitsPerWord \in ws[x \div BitsPerWord]
  <2>1. PICK w \in DOMAIN ws : x \in {w * BitsPerWord + b : b \in ws[w]}
    BY <1>2, Zenon DEF SetOf
  <2>2. PICK b \in ws[w] : x = w * BitsPerWord + b
    BY <2>1
  <2>3. w \in Nat /\ b \in R!AllBits
    BY <1>1
  <2>4. /\ w * BitsPerWord + b \in Nat
        /\ (w * BitsPerWord + b) \div BitsPerWord = w
        /\ (w * BitsPerWord + b) % BitsPerWord = b
    BY <2>3, PlaceOf
  <2> QED
    BY <1>1, <2>1, <2>2, <2>4, Zenon
<1>3. ASSUME NEW x \in Nat,
             x \div BitsPerWord \in WordsOfRanges,
             x % BitsPerWord \in ws[x \div BitsPerWord]
      PROVE  x \in SetOf(ws)
  <2>1. x = ((x \div BitsPerWord) * BitsPerWord) + (x % BitsPerWord)
    BY BitPlace
  <2>2. x \in {(x \div BitsPerWord) * BitsPerWord + b : b \in ws[x \div BitsPerWord]}
    BY <1>3, <2>1, Zenon
  <2>3. PICK w \in DOMAIN ws : x \in {w * BitsPerWord + b : b \in ws[w]}
    BY <1>1, <1>3, <2>2, Zenon
  <2> QED
    BY <2>3, Zenon DEF SetOf
<1> QED
  BY <1>2, <1>3

(* The words a range touches are words of the bitmap. *)
LEMMA RangeWords ==
  ASSUME NEW r \in R!Ranges
  PROVE  /\ r.start \in Nat /\ r.end \in Nat /\ r.start < r.end /\ r.end <= RangeSlots
         /\ r.start \div BitsPerWord \in Nat
         /\ (r.end - 1) \div BitsPerWord \in WordsOfRanges
         /\ r.start \div BitsPerWord <= (r.end - 1) \div BitsPerWord
         /\ R!RangeBits(r) \subseteq 0 .. RangeSlots - 1
         /\ \A x \in R!RangeBits(r) :
              x \div BitsPerWord \in r.start \div BitsPerWord .. (r.end - 1) \div BitsPerWord
<1>1. /\ r.start \in Nat /\ r.end \in Nat /\ r.start < r.end /\ r.end <= RangeSlots
      /\ r.end - 1 \in Nat
  BY RangeSlotsAssumption DEF R!Ranges
<1> DEFINE B == BitsPerWord
<1>2. B \in Nat \ {0}
  BY BitsPerWordAssumption
<1>3. PICK n \in Nat : n = R!PaddedWords /\ n * B >= RangeSlots
  BY WordsSuffice
<1>4. ASSUME NEW x \in Nat, NEW y \in Nat, x <= y
      PROVE  x \div B <= y \div B /\ x \div B \in Nat /\ y \div B \in Nat
  BY <1>2, <1>4
<1>5. ASSUME NEW x \in Nat, x < n * B
      PROVE  x \div B < n
  <2>1. x \div B \in Nat /\ x % B \in 0 .. B - 1 /\ x = ((x \div B) * B) + (x % B)
    BY <1>2
  <2>2. PICK q \in Nat : q = x \div B
    BY <2>1
  <2>3. ASSUME q >= n PROVE FALSE
    <3>1. q * B >= n * B
      BY <1>2, <2>3
    <3> QED
      BY <1>2, <1>5, <2>1, <2>2, <3>1
  <2> QED
    BY <2>2, <2>3
<1>6. (r.end - 1) \div B < n
  <2>1. r.end - 1 < n * B
    BY <1>1, <1>2, <1>3, RangeSlotsAssumption
  <2> QED
    BY <1>1, <1>5, <2>1
<1>7. R!RangeBits(r) \subseteq 0 .. RangeSlots - 1
  BY <1>1, RangeSlotsAssumption DEF R!RangeBits
<1>8. ASSUME NEW x \in R!RangeBits(r)
      PROVE  x \div B \in r.start \div B .. (r.end - 1) \div B
  <2>1. x \in Nat /\ r.start <= x /\ x <= r.end - 1
    BY <1>1 DEF R!RangeBits
  <2>2. r.start \div B <= x \div B /\ r.start \div B \in Nat /\ x \div B \in Nat
    BY <1>1, <1>4, <2>1
  <2>3. x \div B <= (r.end - 1) \div B /\ (r.end - 1) \div B \in Nat
    BY <1>1, <1>4, <2>1
  <2> QED
    BY <2>2, <2>3
<1>9. r.start \div B <= (r.end - 1) \div B /\ r.start \div B \in Nat /\ (r.end - 1) \div B \in Nat
  <2>1. r.start <= r.end - 1
    BY <1>1
  <2> QED
    BY <1>1, <1>4, <2>1
<1> QED
  BY <1>1, <1>3, <1>6, <1>7, <1>8, <1>9 DEF WordsOfRanges

(* range_mask, first_mask and last_mask: the mask of a range in a word it  *)
(* touches holds the bits of the range in that word, and no other.         *)
LEMMA MaskExact ==
  ASSUME NEW r \in R!Ranges,
         NEW w \in r.start \div BitsPerWord .. (r.end - 1) \div BitsPerWord,
         NEW b \in R!AllBits
  PROVE  b \in R!Mask(r, w) <=> w * BitsPerWord + b \in R!RangeBits(r)
<1> DEFINE B == BitsPerWord
<1>1. B \in Nat \ {0} /\ b \in Nat /\ b < B
  BY BitsPerWordAssumption DEF R!AllBits
<1>2. PICK s \in Nat, e \in Nat : s = r.start /\ e = r.end - 1 /\ s <= e /\ r.end = e + 1
  BY RangeWords
<1>3. PICK qs \in Nat, rs \in 0 .. B - 1 : qs = s \div B /\ rs = s % B /\ s = qs * B + rs
  BY <1>2, BitPlace, Zenon DEF R!AllBits
<1>4. PICK qe \in Nat, re \in 0 .. B - 1 : qe = e \div B /\ re = e % B /\ e = qe * B + re
  BY <1>2, BitPlace, Zenon DEF R!AllBits
<1>5. w \in Nat /\ qs <= w /\ w <= qe
  <2>1. w \in qs .. qe
    BY <1>2, <1>3, <1>4, Zenon
  <2> QED
    BY <2>1
<1>6. rs % B = rs /\ R!LowBits(rs) = 0 .. rs - 1
  BY <1>1, <1>3 DEF R!LowBits
<1>7. r.end - qe * B = re + 1
  BY <1>1, <1>2, <1>4
<1>8. R!UpTo(re + 1) = 0 .. re
  <2>1. CASE re + 1 = B
    BY <1>1, <1>4, <2>1 DEF R!UpTo, R!AllBits
  <2>2. CASE re + 1 < B
    <3>1. (re + 1) % B = re + 1
      BY <1>1, <1>4, <2>2
    <3> QED
      BY <1>1, <1>4, <2>2, <3>1 DEF R!UpTo, R!LowBits
  <2> QED
    BY <1>1, <1>4, <2>1, <2>2
<1>9. b \in R!Mask(r, w) <=> (w = qs => b >= rs) /\ (w = qe => b <= re)
  <2>1. R!Mask(r, w) = (IF w = qe THEN 0 .. re ELSE R!AllBits)
                         \ (IF w = qs THEN 0 .. rs - 1 ELSE {})
    BY <1>2, <1>3, <1>4, <1>6, <1>7, <1>8, Zenon DEF R!Mask
  <2> QED
    BY <1>1, <1>3, <1>4, <2>1
<1>10. w * B + b \in R!RangeBits(r) <=> s <= w * B + b /\ w * B + b <= e
  BY <1>1, <1>2, <1>5 DEF R!RangeBits
<1>11. s <= w * B + b <=> (w = qs => b >= rs)
  <2>1. CASE w = qs
    BY <1>1, <1>3, <1>5, <2>1
  <2>2. CASE qs < w
    <3>1. qs * B + B <= w * B
      BY <1>1, <1>5, <2>2
    <3> QED
      BY <1>1, <1>3, <1>5, <2>2, <3>1
  <2> QED
    BY <1>3, <1>5, <2>1, <2>2
<1>12. w * B + b <= e <=> (w = qe => b <= re)
  <2>1. CASE w = qe
    BY <1>1, <1>4, <1>5, <2>1
  <2>2. CASE w < qe
    <3>1. w * B + B <= qe * B
      BY <1>1, <1>5, <2>2
    <3> QED
      BY <1>1, <1>4, <1>5, <2>2, <3>1
  <2> QED
    BY <1>4, <1>5, <2>1, <2>2
<1> QED
  BY <1>9, <1>10, <1>11, <1>12

(* A mask is a word.                                                       *)
LEMMA MaskIsWord ==
  ASSUME NEW r \in R!Ranges, NEW w
  PROVE  R!Mask(r, w) \subseteq R!AllBits
PROOF BY BitsPerWordAssumption, RangeWords DEF R!Mask, R!UpTo, R!LowBits, R!AllBits

(* A fetch_or of a mask sets the bits of the range in that word, and no     *)
(* other.                                                                  *)
LEMMA OrOfMask ==
  ASSUME NEW ws \in [WordsOfRanges -> SUBSET R!AllBits],
         NEW us \in [WordsOfRanges -> SUBSET R!AllBits],
         NEW r \in R!Ranges,
         NEW w \in r.start \div BitsPerWord .. (r.end - 1) \div BitsPerWord,
         us[w] = ws[w] \cup R!Mask(r, w),
         \A v \in WordsOfRanges \ {w} : us[v] = ws[v]
  PROVE  \A x : x \in SetOf(us) <=>
           x \in SetOf(ws) \/ (x \in R!RangeBits(r) /\ x \div BitsPerWord = w)
<1>1. w \in WordsOfRanges /\ w \in Nat
  BY RangeWords, WordsSuffice DEF WordsOfRanges
<1>2. R!RangeBits(r) \subseteq Nat
  BY RangeWords DEF R!RangeBits
<1>3. SetOf(us) \subseteq Nat /\ SetOf(ws) \subseteq Nat
  BY SetOfWords
<1>4. ASSUME NEW x \in Nat
      PROVE  x \in SetOf(us) <=> x \in SetOf(ws) \/ (x \in R!RangeBits(r) /\ x \div BitsPerWord = w)
  <2>1. x \in SetOf(us) <=> /\ x \div BitsPerWord \in WordsOfRanges
                            /\ x % BitsPerWord \in us[x \div BitsPerWord]
    BY SetOfWords
  <2>2. x \in SetOf(ws) <=> /\ x \div BitsPerWord \in WordsOfRanges
                            /\ x % BitsPerWord \in ws[x \div BitsPerWord]
    BY SetOfWords
  <2>3. CASE x \div BitsPerWord = w
    <3>1. x % BitsPerWord \in R!AllBits /\ x = w * BitsPerWord + (x % BitsPerWord)
      BY <2>3, BitPlace, Zenon
    <3>2. x % BitsPerWord \in R!Mask(r, w) <=> x \in R!RangeBits(r)
      BY <3>1, MaskExact, Zenon
    <3> QED
      BY <1>1, <2>1, <2>2, <2>3, <3>2, Zenon
  <2>4. CASE x \div BitsPerWord # w
    BY <2>1, <2>2, <2>4, Zenon
  <2> QED
    BY <2>3, <2>4, Zenon
<1> QED
  BY <1>2, <1>3, <1>4

(* with_allocation_state: the bits of all the slots and none of the         *)
(* padding's, or none at all.                                              *)
LEMMA RangesInit == R!Init => RangesInv
<1> SUFFICES ASSUME R!Init PROVE RangesInv
  OBVIOUS
<1>1. PICK initially_free \in BOOLEAN :
        /\ words = [w \in WordsOfRanges |-> R!InitialWord(w, initially_free)]
        /\ marked = IF initially_free THEN 0 .. RangeSlots - 1 ELSE {}
  BY DEF R!Init, WordsOfRanges
<1>2. R!SetBits = SetOf(words)
  BY DEF R!SetBits, SetOf
<1>3. WordsOfRanges \subseteq Nat
  BY WordsSuffice DEF WordsOfRanges
<1>4. ASSUME NEW w \in WordsOfRanges
      PROVE  /\ R!InitialWord(w, initially_free) \subseteq R!AllBits
             /\ ~ initially_free => R!InitialWord(w, initially_free) = {}
             /\ initially_free => \A b \in R!AllBits :
                  b \in R!InitialWord(w, initially_free) <=>
                    w * BitsPerWord + b < RangeSlots
  <2> DEFINE B == BitsPerWord
  <2>1. B \in Nat \ {0} /\ w \in Nat /\ RangeSlots \in Nat
    BY <1>3, BitsPerWordAssumption, RangeSlotsAssumption
  <2>2. PICK v \in Int : v = RangeSlots - w * B
    BY <2>1
  <2>3. ~ initially_free => R!InitialWord(w, initially_free) = {}
    BY DEF R!InitialWord
  <2>4. ASSUME initially_free, NEW b \in R!AllBits
        PROVE  b \in R!InitialWord(w, initially_free) <=> b < v
    <3>0. b \in Nat /\ b < B
      BY <2>1 DEF R!AllBits
    <3>1. CASE v <= 0
      BY <2>2, <2>4, <3>0, <3>1 DEF R!InitialWord
    <3>2. CASE v >= B
      BY <2>1, <2>2, <2>4, <3>0, <3>2 DEF R!InitialWord
    <3>3. CASE v > 0 /\ v < B
      <4>1. v % B = v
        BY <2>1, <2>2, <3>3
      <4>2. R!InitialWord(w, initially_free) = 0 .. v - 1
        BY <2>1, <2>2, <2>4, <3>3, <4>1 DEF R!InitialWord, R!LowBits
      <4> QED
        BY <2>2, <3>0, <4>2
    <3> QED
      BY <2>1, <2>2, <3>1, <3>2, <3>3
  <2>5. R!InitialWord(w, initially_free) \subseteq R!AllBits
    BY <2>1, <2>2 DEF R!InitialWord, R!LowBits, R!AllBits
  <2>6. ASSUME NEW b \in R!AllBits
        PROVE  b < v <=> w * B + b < RangeSlots
    BY <2>1, <2>2 DEF R!AllBits
  <2> QED
    BY <2>3, <2>4, <2>5, <2>6
<1>5. words \in [WordsOfRanges -> SUBSET R!AllBits]
  BY <1>1, <1>4
<1>6. SetOf(words) = marked
  <2>1. SetOf(words) \subseteq Nat /\ marked \subseteq Nat
    BY <1>1, <1>5, SetOfWords, RangeSlotsAssumption
  <2>2. ASSUME NEW x \in Nat
        PROVE  x \in SetOf(words) <=> x \in marked
    <3>1. x \in SetOf(words) <=> /\ x \div BitsPerWord \in WordsOfRanges
                                 /\ x % BitsPerWord \in words[x \div BitsPerWord]
      BY <1>5, SetOfWords
    <3>2. CASE ~ initially_free
      BY <1>1, <1>4, <3>1, <3>2
    <3>3. CASE initially_free
      <4>1. x \div BitsPerWord \in Nat
            /\ x % BitsPerWord \in R!AllBits
            /\ x = ((x \div BitsPerWord) * BitsPerWord) + (x % BitsPerWord)
        BY BitPlace
      <4>2. x < RangeSlots => x \div BitsPerWord \in WordsOfRanges
        <5>1. SUFFICES ASSUME x < RangeSlots
                       PROVE  x \div BitsPerWord \in WordsOfRanges
          OBVIOUS
        <5>2. PICK r : r = [start |-> x, end |-> x + 1]
          BY Zenon
        <5>3. r \in R!Ranges /\ r.end - 1 = x
          BY <5>1, <5>2, RangeSlotsAssumption DEF R!Ranges
        <5> QED
          BY <5>3, RangeWords
      <4>3. x \div BitsPerWord \in WordsOfRanges =>
              (x % BitsPerWord \in words[x \div BitsPerWord] <=> x < RangeSlots)
        <5>1. SUFFICES ASSUME x \div BitsPerWord \in WordsOfRanges
                       PROVE  x % BitsPerWord \in words[x \div BitsPerWord] <=> x < RangeSlots
          OBVIOUS
        <5>2. words[x \div BitsPerWord] = R!InitialWord(x \div BitsPerWord, initially_free)
          BY <1>1, <5>1, Zenon
        <5>3. x % BitsPerWord \in R!InitialWord(x \div BitsPerWord, initially_free)
                <=> ((x \div BitsPerWord) * BitsPerWord) + (x % BitsPerWord) < RangeSlots
          BY <1>4, <3>3, <4>1, <5>1, Zenon
        <5> QED
          BY <4>1, <5>2, <5>3, Zenon
      <4>4. x \in marked <=> x < RangeSlots
        BY <1>1, <3>3, RangeSlotsAssumption
      <4> QED
        BY <3>1, <4>2, <4>3, <4>4, Zenon
    <3> QED
      BY <3>2, <3>3
  <2> QED
    BY <2>1, <2>2, Zenon
<1>7. R!RangeBits(R!Idle) = {}
  BY DEF R!RangeBits, R!Idle
<1>8. RangesOwned
  BY <1>1, <1>5, <1>7, RangeSlotsAssumption DEF RangesOwned, R!Init
<1>9. PassedWordsSet /\ R!RangesExact
  BY <1>2, <1>6, Zenon DEF PassedWordsSet, R!RangesExact, R!Init
<1> QED
  BY <1>8, <1>9 DEF RangesInv

(* What RangesOwned says of a call in progress.                            *)
LEMMA CallInRange ==
  ASSUME RangesOwned, NEW o \in Owners, at[o] # "idle"
  PROVE  /\ range[o] \in R!Ranges
         /\ R!RangeBits(range[o]) \subseteq 0 .. RangeSlots - 1
         /\ at[o] \in {"query", "set"} =>
              /\ index[o] \in range[o].start \div BitsPerWord ..
                                (range[o].end - 1) \div BitsPerWord
              /\ index[o] \in WordsOfRanges /\ index[o] \in Nat
              /\ R!LastWord(o) \in Nat /\ index[o] <= R!LastWord(o)
<1>1. range[o] \in R!Ranges /\ index[o] \in Nat
  BY DEF RangesOwned
<1>2. R!LastWord(o) = (range[o].end - 1) \div BitsPerWord
  BY DEF R!LastWord
<1>3. at[o] \in {"query", "set"} => index[o] \in range[o].start \div BitsPerWord .. R!LastWord(o)
  BY DEF RangesOwned
<1>4. PICK m \in Nat, n \in WordsOfRanges :
        m = range[o].start \div BitsPerWord /\ n = R!LastWord(o)
  BY <1>1, <1>2, RangeWords, Zenon
<1>5. n \in Nat /\ \A i \in m .. n : i \in WordsOfRanges /\ i \in Nat /\ i <= n
  BY WordsSuffice DEF WordsOfRanges
<1> QED
  BY <1>1, <1>2, <1>3, <1>4, <1>5, RangeWords, Zenon

(* The ranges of the calls of set_range in progress. *)
BeingSet == UNION {R!RangeBits(range[o]) : o \in {u \in Owners : at[u] = "set"}}

(* A new range is disjoint from the others', and no word of it is passed.   *)
LEMMA RangesQuery ==
  ASSUME RangesInv, NEW o \in Owners, NEW r \in R!Ranges, R!Query(o, r)
  PROVE  RangesInv'
<1>1. /\ at[o] = "idle"
      /\ range' = [range EXCEPT ![o] = r]
      /\ at' = [at EXCEPT ![o] = "query"]
      /\ index' = [index EXCEPT ![o] = r.start \div BitsPerWord]
      /\ UNCHANGED <<words, marked, answer>>
      /\ \A u \in Owners : R!RangeBits(range[u]) \cap R!RangeBits(r) = {}
  BY DEF R!Query, R!Begin
<1>2. /\ range[o] = R!Idle /\ R!RangeBits(R!Idle) = {}
      /\ at' \in [Owners -> {"idle", "query", "answered", "set"}]
      /\ range' \in [Owners -> R!Ranges \cup {R!Idle}]
      /\ index' \in [Owners -> Nat]
  BY <1>1, RangeWords DEF RangesInv, RangesOwned, R!RangeBits, R!Idle
<1>3. /\ at'[o] = "query" /\ range'[o] = r /\ index'[o] = r.start \div BitsPerWord
      /\ \A u \in Owners \ {o} : at'[u] = at[u] /\ range'[u] = range[u] /\ index'[u] = index[u]
  BY <1>1 DEF RangesInv, RangesOwned
<1>4. RangesOwned'
  <2>1. /\ \A u \in Owners \ {o} : R!LastWord(u)' = R!LastWord(u)
        /\ R!LastWord(o)' = (r.end - 1) \div BitsPerWord
    BY <1>3 DEF R!LastWord
  <2>2. r.start \div BitsPerWord \in r.start \div BitsPerWord .. (r.end - 1) \div BitsPerWord
    <3>1. PICK m \in Nat, n \in WordsOfRanges :
            m = r.start \div BitsPerWord /\ n = (r.end - 1) \div BitsPerWord /\ m <= n
      BY RangeWords, Zenon
    <3>2. n \in Nat
      BY WordsSuffice DEF WordsOfRanges
    <3>3. m \in m .. n
      BY <3>1, <3>2
    <3> QED
      BY <3>1, <3>3, Zenon
  <2>3. /\ words' \in [WordsOfRanges -> SUBSET R!AllBits]
        /\ marked' \subseteq 0 .. RangeSlots - 1
        /\ answer' \in [Owners -> BOOLEAN]
    BY <1>1 DEF RangesInv, RangesOwned
  <2>4. ASSUME NEW u \in Owners
        PROVE  /\ at'[u] = "idle" => range'[u] = R!Idle
               /\ at'[u] # "idle" => range'[u] \in R!Ranges
               /\ at'[u] \in {"query", "set"} =>
                    index'[u] \in range'[u].start \div BitsPerWord .. R!LastWord(u)'
    BY <1>3, <2>1, <2>2, Zenon DEF RangesInv, RangesOwned
  <2>5. ASSUME NEW u \in Owners, NEW v \in Owners \ {u}
        PROVE  R!RangeBits(range'[u]) \cap R!RangeBits(range'[v]) = {}
    <3>1. CASE u = o
      BY <1>1, <1>3, <3>1
    <3>2. CASE v = o
      BY <1>1, <1>3, <3>2
    <3>3. CASE u # o /\ v # o
      BY <1>3, <3>3, Zenon DEF RangesInv, RangesOwned
    <3> QED
      BY <3>1, <3>2, <3>3
  <2> QED
    BY <1>2, <2>3, <2>4, <2>5, Zenon DEF RangesOwned
<1>5. R!SetBits' = R!SetBits
  BY <1>1 DEF R!SetBits
<1>6. PassedWordsSet'
  <2>1. ASSUME NEW x \in R!RangeBits(r)
        PROVE  ~ (x \div BitsPerWord < r.start \div BitsPerWord)
    <3>1. PICK m \in Nat, n \in WordsOfRanges :
            m = r.start \div BitsPerWord /\ n = (r.end - 1) \div BitsPerWord
            /\ x \div BitsPerWord \in m .. n
      BY RangeWords, Zenon
    <3>2. n \in Nat
      BY WordsSuffice DEF WordsOfRanges
    <3> QED
      BY <3>1, <3>2
  <2>2. \A x \in R!RangeBits(range'[o]) : x \div BitsPerWord < index'[o] => x \in R!SetBits'
    BY <1>3, <2>1, Zenon
  <2> QED
    BY <1>3, <1>5, <2>2, Zenon DEF RangesInv, PassedWordsSet
<1>7. R!RangesExact'
  <2>1. BeingSet' = BeingSet
    <3>1. ASSUME NEW u \in Owners
          PROVE  at'[u] = "set" <=> at[u] = "set"
      BY <1>1, <1>3
    <3>2. ASSUME NEW u \in Owners, at[u] = "set"
          PROVE  range'[u] = range[u]
      BY <1>1, <1>3, <3>2
    <3> QED
      BY <3>1, <3>2 DEF BeingSet
  <2>2. \A u \in Owners : at'[u] = "answered" => at[u] = "answered" /\ range'[u] = range[u]
    BY <1>3
  <2> QED
    BY <1>1, <1>5, <2>1, <2>2 DEF RangesInv, R!RangesExact, BeingSet
<1> QED
  BY <1>4, <1>6, <1>7 DEF RangesInv

(* all_set_in_range passes a word of which it has seen all bits of its      *)
(* range; a bit that is set and is its own no other call can be setting.    *)
LEMMA RangesQueryWord ==
  ASSUME RangesInv, NEW o \in Owners, R!QueryWord(o)
  PROVE  RangesInv'
<1> DEFINE all == R!Mask(range[o], index[o]) \subseteq words[index[o]]
<1> HIDE DEF all
<1>1. /\ at[o] = "query"
      /\ IF all /\ index[o] < R!LastWord(o)
         THEN index' = [index EXCEPT ![o] = @ + 1] /\ UNCHANGED <<at, answer>>
         ELSE /\ answer' = [answer EXCEPT ![o] = all]
              /\ at' = [at EXCEPT ![o] = "answered"]
              /\ UNCHANGED index
      /\ UNCHANGED <<words, marked, range>>
  BY Zenon DEF R!QueryWord, all
<1>2. /\ range[o] \in R!Ranges
      /\ index[o] \in range[o].start \div BitsPerWord .. (range[o].end - 1) \div BitsPerWord
      /\ index[o] \in WordsOfRanges /\ index[o] \in Nat
      /\ R!LastWord(o) \in Nat /\ index[o] <= R!LastWord(o)
  BY <1>1, CallInRange, Zenon DEF RangesInv
<1>3. R!SetBits' = R!SetBits /\ R!SetBits = SetOf(words)
  BY <1>1 DEF R!SetBits, SetOf
<1>4. R!LastWord(o) = (range[o].end - 1) \div BitsPerWord
  BY DEF R!LastWord
<1>5. ASSUME NEW x \in R!RangeBits(range[o])
      PROVE  /\ x \in Nat
             /\ x \div BitsPerWord \in Nat
             /\ x \div BitsPerWord <= R!LastWord(o)
             /\ x \div BitsPerWord = index[o] =>
                  (x % BitsPerWord \in R!Mask(range[o], index[o]))
                  /\ (x \in R!SetBits <=> x % BitsPerWord \in words[index[o]])
  <2>1. x \in Nat
    BY <1>2, RangeWords DEF R!RangeBits
  <2>2. PICK m \in Nat : m = range[o].start \div BitsPerWord
    BY <1>2, RangeWords
  <2>3. x \div BitsPerWord \in m .. R!LastWord(o)
    BY <1>2, <1>4, <2>2, RangeWords, Zenon
  <2>4. /\ x \div BitsPerWord \in Nat
        /\ x % BitsPerWord \in R!AllBits
        /\ x = ((x \div BitsPerWord) * BitsPerWord) + (x % BitsPerWord)
    BY <2>1, BitPlace
  <2>5. ASSUME x \div BitsPerWord = index[o]
        PROVE  x % BitsPerWord \in R!Mask(range[o], index[o])
    BY <1>2, <2>4, <2>5, MaskExact, Zenon
  <2>6. ASSUME x \div BitsPerWord = index[o]
        PROVE  x \in R!SetBits <=> x % BitsPerWord \in words[index[o]]
    <3>1. words \in [WordsOfRanges -> SUBSET R!AllBits]
      BY DEF RangesInv, RangesOwned
    <3> QED
      BY <1>2, <1>3, <2>1, <2>6, <3>1, SetOfWords, Zenon
  <2>7. x \div BitsPerWord <= R!LastWord(o)
    BY <1>2, <2>2, <2>3
  <2> QED
    BY <2>1, <2>4, <2>5, <2>6, <2>7, Zenon
<1>6. ASSUME all, NEW x \in R!RangeBits(range[o]), x \div BitsPerWord <= index[o]
      PROVE  x \in R!SetBits
  <2>1. CASE x \div BitsPerWord < index[o]
    BY <1>1, <2>1 DEF RangesInv, PassedWordsSet
  <2>2. CASE x \div BitsPerWord = index[o]
    BY <1>5, <1>6, <2>2 DEF all
  <2> QED
    BY <1>2, <1>5, <1>6, <2>1, <2>2
<1>7. CASE all /\ index[o] < R!LastWord(o)
  <2>1. /\ index' = [index EXCEPT ![o] = @ + 1]
        /\ at' = at /\ answer' = answer /\ words' = words /\ marked' = marked /\ range' = range
    BY <1>1, <1>7
  <2>2. /\ index'[o] = index[o] + 1 /\ \A u \in Owners \ {o} : index'[u] = index[u]
        /\ index' \in [Owners -> Nat]
    BY <1>2, <2>1 DEF RangesInv, RangesOwned
  <2>3. \A u \in Owners : R!LastWord(u)' = R!LastWord(u)
    BY <2>1 DEF R!LastWord
  <2>4. RangesOwned'
    <3>1. PICK m \in Nat : m = range[o].start \div BitsPerWord
      BY <1>2, RangeWords, Zenon
    <3>2. index'[o] \in m .. R!LastWord(o)
      BY <1>2, <1>4, <1>7, <2>2, <3>1
    <3>3. ASSUME NEW u \in Owners, at'[u] \in {"query", "set"}
          PROVE  index'[u] \in range'[u].start \div BitsPerWord .. R!LastWord(u)'
      BY <2>1, <2>2, <2>3, <3>1, <3>2, <3>3, Zenon DEF RangesInv, RangesOwned
    <3> QED
      BY <2>1, <2>2, <3>3, Zenon DEF RangesInv, RangesOwned
  <2>5. PassedWordsSet'
    <3>1. ASSUME NEW x \in R!RangeBits(range[o]), x \div BitsPerWord < index[o] + 1
          PROVE  x \in R!SetBits
      BY <1>2, <1>5, <1>6, <1>7, <3>1
    <3> QED
      BY <1>3, <2>1, <2>2, <3>1, Zenon DEF RangesInv, PassedWordsSet
  <2>6. R!RangesExact'
    BY <1>3, <2>1 DEF RangesInv, R!RangesExact
  <2> QED
    BY <2>4, <2>5, <2>6 DEF RangesInv
<1>8. CASE ~ (all /\ index[o] < R!LastWord(o))
  <2>1. /\ answer' = [answer EXCEPT ![o] = all]
        /\ at' = [at EXCEPT ![o] = "answered"]
        /\ index' = index /\ words' = words /\ marked' = marked /\ range' = range
    BY <1>1, <1>8
  <2>2. all \in BOOLEAN
    BY DEF all
  <2>3. /\ at'[o] = "answered" /\ answer'[o] = all
        /\ \A u \in Owners \ {o} : at'[u] = at[u] /\ answer'[u] = answer[u]
        /\ at' \in [Owners -> {"idle", "query", "answered", "set"}]
        /\ answer' \in [Owners -> BOOLEAN]
    BY <2>1, <2>2 DEF RangesInv, RangesOwned
  <2>4. \A u \in Owners : R!LastWord(u)' = R!LastWord(u)
    BY <2>1 DEF R!LastWord
  <2>5. RangesOwned'
    BY <1>1, <2>1, <2>3, <2>4 DEF RangesInv, RangesOwned
  <2>6. PassedWordsSet'
    BY <1>3, <2>1, <2>3, Zenon DEF RangesInv, PassedWordsSet
  <2>7. \A u \in Owners : at'[u] = "set" <=> at[u] = "set"
    BY <1>1, <2>3
  <2>8. all <=> R!RangeBits(range[o]) \subseteq marked
    <3>1. ASSUME all, NEW x \in R!RangeBits(range[o])
          PROVE  x \in marked
      <4>1. x \in R!SetBits
        BY <1>2, <1>5, <1>6, <1>8, <3>1
      <4>2. SUFFICES ASSUME NEW u \in Owners, at[u] = "set", x \in R!RangeBits(range[u])
                     PROVE  FALSE
        BY <4>1 DEF RangesInv, R!RangesExact
      <4> QED
        BY <1>1, <4>2 DEF RangesInv, RangesOwned
    <3>2. ASSUME ~ all
          PROVE  ~ (R!RangeBits(range[o]) \subseteq marked)
      <4>1. PICK b \in R!Mask(range[o], index[o]) : b \notin words[index[o]]
        BY <3>2 DEF all
      <4>2. b \in R!AllBits
        BY <1>2, MaskIsWord
      <4>3. index[o] * BitsPerWord + b \in R!RangeBits(range[o])
        BY <1>2, <4>1, <4>2, MaskExact, Zenon
      <4>4. /\ (index[o] * BitsPerWord + b) \div BitsPerWord = index[o]
            /\ (index[o] * BitsPerWord + b) % BitsPerWord = b
        BY <1>2, <4>2, PlaceOf
      <4>5. index[o] * BitsPerWord + b \notin R!SetBits
        BY <1>5, <4>1, <4>3, <4>4, Zenon
      <4> QED
        BY <4>3, <4>5, Zenon DEF RangesInv, R!RangesExact
    <3> QED
      BY <3>1, <3>2
  <2>9. R!RangesExact'
    <3>1. ASSUME NEW u \in Owners, at'[u] = "answered"
          PROVE  answer'[u] = (R!RangeBits(range'[u]) \subseteq marked')
      <4>1. CASE u = o
        BY <2>1, <2>2, <2>3, <2>8, <4>1
      <4>2. CASE u # o
        BY <2>1, <2>3, <3>1, <4>2, Zenon DEF RangesInv, R!RangesExact
      <4> QED
        BY <4>1, <4>2
    <3>2. BeingSet' = BeingSet
      BY <2>1, <2>7 DEF BeingSet
    <3> QED
      BY <1>3, <2>1, <3>1, <3>2 DEF RangesInv, R!RangesExact, BeingSet
  <2> QED
    BY <2>5, <2>6, <2>9 DEF RangesInv
<1> QED
  BY <1>7, <1>8

(* set_range starts: no word is passed yet.                                *)
LEMMA RangesSetRange ==
  ASSUME RangesInv, NEW o \in Owners, R!SetRange(o)
  PROVE  RangesInv'
<1> DEFINE r == range[o]
<1>1. /\ at[o] = "answered"
      /\ at' = [at EXCEPT ![o] = "set"]
      /\ index' = [index EXCEPT ![o] = r.start \div BitsPerWord]
      /\ words' = words /\ marked' = marked /\ answer' = answer /\ range' = range
  BY DEF R!SetRange, R!Begin
<1>2. r \in R!Ranges
  BY <1>1, CallInRange DEF RangesInv
<1>3. PICK m \in Nat, n \in WordsOfRanges :
        /\ m = r.start \div BitsPerWord /\ n = (r.end - 1) \div BitsPerWord /\ m <= n
        /\ \A x \in R!RangeBits(r) : x \div BitsPerWord \in m .. n
  BY <1>2, RangeWords, Zenon
<1>4. n \in Nat
  BY WordsSuffice DEF WordsOfRanges
<1>5. m \in m .. n /\ \A x \in R!RangeBits(r) : ~ (x \div BitsPerWord < m)
  BY <1>3, <1>4
<1>6. /\ at'[o] = "set" /\ index'[o] = m
      /\ \A u \in Owners \ {o} : at'[u] = at[u] /\ index'[u] = index[u]
      /\ at' \in [Owners -> {"idle", "query", "answered", "set"}]
      /\ index' \in [Owners -> Nat]
  BY <1>1, <1>3 DEF RangesInv, RangesOwned
<1>7. /\ \A u \in Owners : R!LastWord(u)' = R!LastWord(u)
      /\ R!LastWord(o) = n
      /\ R!SetBits' = R!SetBits
  BY <1>1, <1>3 DEF R!LastWord, R!SetBits
<1>8. RangesOwned'
  <2>1. ASSUME NEW u \in Owners
        PROVE  at'[u] \in {"query", "set"} =>
                 index'[u] \in range'[u].start \div BitsPerWord .. R!LastWord(u)'
    <3>1. CASE u = o
      BY <1>1, <1>3, <1>5, <1>6, <1>7, <3>1, Zenon
    <3>2. CASE u # o
      BY <1>1, <1>6, <1>7, <3>2, Zenon DEF RangesInv, RangesOwned
    <3> QED
      BY <3>1, <3>2
  <2> QED
    BY <1>1, <1>2, <1>6, <2>1, Zenon DEF RangesInv, RangesOwned
<1>9. PassedWordsSet'
  BY <1>1, <1>5, <1>6, <1>7, Zenon DEF RangesInv, PassedWordsSet
<1>10. R!RangesExact'
  <2>1. BeingSet \subseteq BeingSet'
    BY <1>1, <1>6 DEF BeingSet
  <2> QED
    BY <1>1, <1>6, <1>7, <2>1 DEF RangesInv, R!RangesExact, BeingSet
<1> QED
  BY <1>8, <1>9, <1>10 DEF RangesInv

(* A fetch_or: the bits set are of the caller's range, and after the last    *)
(* word they are all of them.                                              *)
LEMMA RangesSetWord ==
  ASSUME RangesInv, NEW o \in Owners, R!SetWord(o)
  PROVE  RangesInv'
<1> DEFINE r == range[o]
           here == {x \in R!RangeBits(r) : x \div BitsPerWord = index[o]}
<1>1. /\ at[o] = "set"
      /\ words' = [words EXCEPT ![index[o]] = @ \cup R!Mask(r, index[o])]
      /\ answer' = answer
  BY DEF R!SetWord
<1>2. /\ r \in R!Ranges
      /\ R!RangeBits(r) \subseteq 0 .. RangeSlots - 1
      /\ index[o] \in r.start \div BitsPerWord .. (r.end - 1) \div BitsPerWord
      /\ index[o] \in WordsOfRanges /\ index[o] \in Nat
      /\ R!LastWord(o) \in Nat /\ index[o] <= R!LastWord(o)
      /\ R!LastWord(o) = (r.end - 1) \div BitsPerWord
  BY <1>1, CallInRange, Zenon DEF RangesInv, R!LastWord
<1>3. R!SetBits = SetOf(words) /\ R!SetBits' = SetOf(words')
  BY DEF R!SetBits, SetOf
<1>4. words' \in [WordsOfRanges -> SUBSET R!AllBits] /\ R!SetBits' = R!SetBits \cup here
  <2>1. words \in [WordsOfRanges -> SUBSET R!AllBits]
    BY DEF RangesInv, RangesOwned
  <2>2. /\ words' \in [WordsOfRanges -> SUBSET R!AllBits]
        /\ words'[index[o]] = words[index[o]] \cup R!Mask(r, index[o])
        /\ \A v \in WordsOfRanges \ {index[o]} : words'[v] = words[v]
    BY <1>1, <1>2, <2>1, MaskIsWord, Zenon
  <2>3. \A x : x \in SetOf(words') <=>
          x \in SetOf(words) \/ (x \in R!RangeBits(r) /\ x \div BitsPerWord = index[o])
    BY <1>2, <2>1, <2>2, OrOfMask
  <2> QED
    BY <1>3, <2>2, <2>3
<1>5. ASSUME NEW x \in R!RangeBits(r)
      PROVE  /\ x \div BitsPerWord \in Nat /\ x \div BitsPerWord <= R!LastWord(o)
             /\ x \div BitsPerWord <= index[o] => x \in R!SetBits'
  <2>1. PICK m \in Nat : m = r.start \div BitsPerWord
    BY <1>2, RangeWords, Zenon
  <2>2. x \div BitsPerWord \in m .. R!LastWord(o)
    BY <1>2, <2>1, RangeWords, Zenon
  <2>3. x \div BitsPerWord \in Nat /\ x \div BitsPerWord <= R!LastWord(o)
    BY <1>2, <2>2
  <2>4. x \div BitsPerWord < index[o] => x \in R!SetBits
    BY <1>1 DEF RangesInv, PassedWordsSet
  <2> QED
    BY <1>2, <1>4, <2>3, <2>4
<1>6. CASE index[o] < R!LastWord(o)
  <2>1. /\ index' = [index EXCEPT ![o] = @ + 1]
        /\ at' = at /\ marked' = marked /\ range' = range
    BY <1>6 DEF R!SetWord
  <2>2. /\ index'[o] = index[o] + 1 /\ \A u \in Owners \ {o} : index'[u] = index[u]
        /\ index' \in [Owners -> Nat]
    BY <1>2, <2>1 DEF RangesInv, RangesOwned
  <2>3. \A u \in Owners : R!LastWord(u)' = R!LastWord(u)
    BY <2>1, Zenon DEF R!LastWord
  <2>4. RangesOwned'
    <3>1. PICK m \in Nat : m = range[o].start \div BitsPerWord
      BY <1>2, RangeWords, Zenon
    <3>2. index'[o] \in m .. R!LastWord(o)
      BY <1>2, <1>6, <2>2, <3>1
    <3>3. ASSUME NEW u \in Owners, at'[u] \in {"query", "set"}
          PROVE  index'[u] \in range'[u].start \div BitsPerWord .. R!LastWord(u)'
      BY <2>1, <2>2, <2>3, <3>1, <3>2, <3>3, Zenon DEF RangesInv, RangesOwned
    <3> QED
      BY <1>1, <1>4, <2>1, <2>2, <3>3, Zenon DEF RangesInv, RangesOwned
  <2>5. PassedWordsSet'
    <3>1. ASSUME NEW x \in R!RangeBits(range[o]), x \div BitsPerWord < index[o] + 1
          PROVE  x \in R!SetBits'
      BY <1>2, <1>5, <3>1
    <3> QED
      BY <1>4, <2>1, <2>2, <3>1, Zenon DEF RangesInv, PassedWordsSet
  <2>6. R!RangesExact'
    <3>1. here \subseteq BeingSet
      BY <1>1 DEF BeingSet
    <3>2. BeingSet' = BeingSet
      BY <2>1 DEF BeingSet
    <3> QED
      BY <1>1, <1>4, <2>1, <3>1, <3>2 DEF RangesInv, R!RangesExact, BeingSet
  <2> QED
    BY <2>4, <2>5, <2>6 DEF RangesInv
<1>7. CASE ~ (index[o] < R!LastWord(o))
  <2>1. /\ at' = [at EXCEPT ![o] = "idle"]
        /\ marked' = marked \cup R!RangeBits(r)
        /\ range' = [range EXCEPT ![o] = R!Idle]
        /\ index' = index
    BY <1>7, Zenon DEF R!SetWord
  <2>2. /\ at'[o] = "idle" /\ range'[o] = R!Idle
        /\ \A u \in Owners \ {o} : at'[u] = at[u] /\ range'[u] = range[u]
        /\ at' \in [Owners -> {"idle", "query", "answered", "set"}]
        /\ range' \in [Owners -> R!Ranges \cup {R!Idle}]
        /\ R!RangeBits(R!Idle) = {}
    BY <2>1 DEF RangesInv, RangesOwned, R!RangeBits, R!Idle
  <2>3. \A u \in Owners \ {o} : R!LastWord(u)' = R!LastWord(u)
    BY <2>2 DEF R!LastWord
  <2>4. RangesOwned'
    <3>1. ASSUME NEW u \in Owners
          PROVE  /\ at'[u] = "idle" => range'[u] = R!Idle
                 /\ at'[u] # "idle" => range'[u] \in R!Ranges
                 /\ at'[u] \in {"query", "set"} =>
                      index'[u] \in range'[u].start \div BitsPerWord .. R!LastWord(u)'
      <4>1. CASE u = o
        BY <2>2, <4>1, Zenon
      <4>2. CASE u # o
        BY <2>1, <2>2, <2>3, <4>2, Zenon DEF RangesInv, RangesOwned
      <4> QED
        BY <4>1, <4>2
    <3>2. ASSUME NEW u \in Owners, NEW v \in Owners \ {u}
          PROVE  R!RangeBits(range'[u]) \cap R!RangeBits(range'[v]) = {}
      <4>1. CASE u = o \/ v = o
        BY <2>2, <4>1
      <4>2. CASE u # o /\ v # o
        BY <2>2, <4>2, Zenon DEF RangesInv, RangesOwned
      <4> QED
        BY <4>1, <4>2
    <3>3. /\ marked' \subseteq 0 .. RangeSlots - 1
          /\ index' \in [Owners -> Nat] /\ answer' \in [Owners -> BOOLEAN]
      BY <1>1, <1>2, <2>1, Zenon DEF RangesInv, RangesOwned
    <3> QED
      BY <1>4, <2>2, <3>1, <3>2, <3>3, Zenon DEF RangesOwned
  <2>5. PassedWordsSet'
    <3>1. ASSUME NEW u \in Owners, at'[u] \in {"query", "set"},
                 NEW x \in R!RangeBits(range'[u]), x \div BitsPerWord < index'[u]
          PROVE  x \in R!SetBits'
      <4>1. u # o
        BY <2>2, <3>1
      <4>2. x \in R!SetBits
        BY <2>1, <2>2, <3>1, <4>1, Zenon DEF RangesInv, PassedWordsSet
      <4> QED
        BY <1>4, <4>2, Zenon
    <3> QED
      BY <3>1, Zenon DEF PassedWordsSet
  <2>6. R!RangesExact'
    <3>1. R!RangeBits(r) \subseteq R!SetBits'
      BY <1>2, <1>5, <1>7
    <3>2. marked' \subseteq R!SetBits'
      BY <1>4, <2>1, <3>1 DEF RangesInv, R!RangesExact
    <3>3. ASSUME NEW x \in R!SetBits'
          PROVE  x \in marked' \cup BeingSet'
      <4>1. CASE x \in R!RangeBits(r)
        BY <2>1, <4>1
      <4>2. CASE x \notin R!RangeBits(r)
        <5>1. x \in marked \/ x \in BeingSet
          BY <1>4, <3>3, <4>2 DEF RangesInv, R!RangesExact, BeingSet
        <5>2. CASE x \in marked
          BY <2>1, <5>2
        <5>3. CASE x \in BeingSet
          <6>1. PICK u \in Owners : at[u] = "set" /\ x \in R!RangeBits(range[u])
            BY <5>3 DEF BeingSet
          <6>2. u # o
            BY <4>2, <6>1
          <6>3. at'[u] = "set" /\ x \in R!RangeBits(range'[u])
            BY <2>2, <6>1, <6>2
          <6> QED
            BY <6>3 DEF BeingSet
        <5> QED
          BY <5>1, <5>2, <5>3
      <4> QED
        BY <4>1, <4>2
    <3>4. ASSUME NEW u \in Owners, at'[u] = "answered"
          PROVE  answer'[u] = (R!RangeBits(range'[u]) \subseteq marked')
      <4>1. u # o /\ at[u] = "answered" /\ range'[u] = range[u]
        BY <2>2, <3>4
      <4>2. R!RangeBits(range[u]) \cap R!RangeBits(r) = {}
        BY <4>1, Zenon DEF RangesInv, RangesOwned
      <4>3. answer[u] = (R!RangeBits(range[u]) \subseteq marked)
        BY <4>1 DEF RangesInv, R!RangesExact
      <4>4. R!RangeBits(range[u]) \subseteq marked' <=> R!RangeBits(range[u]) \subseteq marked
        BY <2>1, <4>2
      <4>5. answer'[u] = answer[u]
        BY <1>1
      <4> QED
        BY <4>1, <4>3, <4>4, <4>5
    <3> QED
      BY <3>2, <3>3, <3>4 DEF R!RangesExact, BeingSet
  <2> QED
    BY <2>4, <2>5, <2>6 DEF RangesInv
<1> QED
  BY <1>6, <1>7

(* RangesExact, for every number of owners, slots and bits per word:        *)
(* set_range of ranges that share words and not bits loses and adds no      *)
(* bit, and all_set_in_range, reading word by word beside it, answers for   *)
(* exactly its range.                                                      *)
THEOREM RangesMarkedExactly == UsesSpec => []RangesExact
<1>1. UsesInit => RangesInv
  BY RangesInit DEF UsesInit
<1>2. RangesInv /\ [UsesNext]_<<use, vars, zeroed>> => RangesInv'
  <2> SUFFICES ASSUME RangesInv, [UsesNext]_<<use, vars, zeroed>>
               PROVE  RangesInv'
    OBVIOUS
  <2>1. CASE R!Next
    BY <2>1, RangesQuery, RangesQueryWord, RangesSetRange, RangesSetWord DEF R!Next
  <2>2. CASE UNCHANGED zeroed
    <3>1. /\ words' = words /\ marked' = marked /\ range' = range
          /\ at' = at /\ index' = index /\ answer' = answer
      BY <2>2 DEF zeroed
    <3> QED
      BY <3>1 DEF RangesInv, RangesOwned, PassedWordsSet, R!RangesExact, R!SetBits, R!LastWord
  <2> QED
    BY <2>1, <2>2 DEF UsesNext
<1>3. RangesInv => RangesExact
  BY DEF RangesInv, RangesExact
<1> QED
  BY <1>1, <1>2, <1>3, PTL DEF UsesSpec
=============================================================================
