---------------------------- MODULE SizesProofs ----------------------------
(***************************************************************************)
(* What the arithmetic of Sizes computes, for every width of usize: powers *)
(* of two, rounding and division, and the answers of snap_to_valid_        *)
(* geometry, SlotSpec::resolve, BuddyHint::resolve and order_for_request.  *)
(***************************************************************************)
EXTENDS Sizes, WellFoundedInduction, TLAPS

-----------------------------------------------------------------------------
(* Powers of two. *)

(* A nonempty set of numbers has a least member.                           *)
LEMMA LeastOf ==
  ASSUME NEW S \in SUBSET Nat, S # {}
  PROVE  \E x \in S : \A y \in S : x <= y
<1> DEFINE Less == OpToRel(<, Nat)
<1>1. PICK x \in S : \A y \in S : ~(<<y, x>> \in Less)
  <2>1. IsWellFoundedOn(Less, Nat)
    BY NatLessThanWellFounded, Zenon
  <2> HIDE DEF Less
  <2> QED BY <2>1, WFMin, Zenon
<1>2. ASSUME NEW y \in S
      PROVE  x <= y
  <2>1. <<y, x>> \notin Less
    <3> HIDE DEF Less
    <3> QED BY <1>1
  <2>2. y \in Nat /\ x \in Nat /\ (y < x => <<y, x>> \in Less)
    BY DEF OpToRel
  <2> HIDE DEF Less
  <2> QED
    BY <2>1, <2>2
<1> QED
  BY <1>2

(* The first n + 1 powers of two, by doubling. *)
Doubles(n) ==
  {f \in [0 .. n -> Nat] : f[0] = 1 /\ \A k \in 1 .. n : f[k] = 2 * f[k - 1]}

(* However many powers are wanted, doubling gives them. *)
LEMMA DoublesExist ==
  ASSUME NEW n \in Nat
  PROVE  Doubles(n) # {}
<1> DEFINE Short == {m \in Nat : Doubles(m) = {}}
<1>1. SUFFICES Short = {}
  OBVIOUS
<1>2. SUFFICES ASSUME Short # {} PROVE FALSE
  OBVIOUS
<1>3. PICK m \in Short : \A l \in Short : m <= l
  BY <1>2, LeastOf, Zenon
<1>4. m # 0
  <2>1. [k \in 0 .. 0 |-> 1] \in Doubles(0)
    BY DEF Doubles
  <2> QED
    BY <1>3, <2>1
<1>5. m - 1 \in Nat /\ m - 1 \notin Short
  BY <1>3, <1>4
<1>6. PICK f \in Doubles(m - 1) : TRUE
  BY <1>5
<1> DEFINE g == [k \in 0 .. m |-> IF k = m THEN 2 * f[m - 1] ELSE f[k]]
<1>7. g \in [0 .. m -> Nat] /\ g[0] = 1
  BY <1>4, <1>5, <1>6 DEF Doubles
<1>8. ASSUME NEW k \in 1 .. m PROVE g[k] = 2 * g[k - 1]
  <2>1. k - 1 \in 0 .. m /\ k - 1 # m /\ g[k - 1] = f[k - 1]
    BY <1>5
  <2>2. CASE k = m
    BY <1>5, <2>1, <2>2
  <2>3. CASE k # m
    <3>1. k \in 1 .. m - 1 /\ g[k] = f[k]
      BY <1>5, <2>3
    <3> QED
      BY <1>6, <2>1, <3>1 DEF Doubles
  <2> QED
    BY <2>2, <2>3
<1>9. g \in Doubles(m)
  BY <1>7, <1>8, Zenon DEF Doubles
<1> QED
  BY <1>3, <1>9

(* There is one way to double. *)
LEMMA DoublesAgree ==
  ASSUME NEW n \in Nat, NEW m \in Nat, n <= m, NEW f \in Doubles(n), NEW g \in Doubles(m)
  PROVE  f[n] = g[n]
<1> DEFINE Differ == {k \in 0 .. n : f[k] # g[k]}
<1>1. SUFFICES ASSUME Differ # {} PROVE FALSE
  OBVIOUS
<1>2. PICK k \in Differ : \A l \in Differ : k <= l
  <2>1. Differ \in SUBSET Nat
    OBVIOUS
  <2> QED
    BY <1>1, <2>1, LeastOf, Zenon
<1>3. k # 0
  BY <1>2 DEF Doubles
<1>4. k - 1 \in 0 .. n /\ k - 1 \notin Differ
  BY <1>2, <1>3
<1>5. f[k] = 2 * f[k - 1] /\ g[k] = 2 * g[k - 1]
  BY <1>2, <1>3 DEF Doubles
<1> QED
  BY <1>2, <1>4, <1>5

(* What the recursion computes. *)
LEMMA Pow2Recursion ==
  /\ Pow2(0) = 1
  /\ \A k \in Nat : Pow2(k + 1) = 2 * Pow2(k)
<1> DEFINE Def(f) == [k \in Nat |-> IF k = 0 THEN 1 ELSE 2 * f[k - 1]]
           h == [k \in Nat |-> (CHOOSE d \in Doubles(k) : TRUE)[k]]
<1>1. ASSUME NEW k \in Nat PROVE (CHOOSE d \in Doubles(k) : TRUE) \in Doubles(k)
  BY DoublesExist
<1>2. ASSUME NEW k \in Nat, k # 0
      PROVE  h[k] = 2 * h[k - 1]
  <2>1. PICK f \in Doubles(k) : f = CHOOSE d \in Doubles(k) : TRUE
    BY <1>1
  <2>2. k - 1 \in Nat /\ k - 1 <= k
    BY <1>2
  <2>3. PICK e \in Doubles(k - 1) : e = CHOOSE d \in Doubles(k - 1) : TRUE
    BY <1>1, <2>2
  <2>4. e[k - 1] = f[k - 1]
    BY <2>2, DoublesAgree
  <2>5. f[k] = 2 * f[k - 1]
    BY <1>2 DEF Doubles
  <2>6. h[k] = f[k] /\ h[k - 1] = e[k - 1]
    BY <2>1, <2>2, <2>3
  <2> QED
    BY <2>4, <2>5, <2>6
<1>3. h[0] = 1
  <2>1. (CHOOSE d \in Doubles(0) : TRUE) \in Doubles(0)
    BY <1>1
  <2> QED
    BY <2>1 DEF Doubles
<1>4. h = Def(h)
  <2>1. ASSUME NEW k \in Nat PROVE h[k] = Def(h)[k]
    <3> HIDE DEF h
    <3> QED
      BY <1>2, <1>3
  <2> QED
    BY <2>1, Zenon
<1>5. TwoTo = CHOOSE f : f = Def(f)
  BY Zenon DEF TwoTo
<1>6. TwoTo = Def(TwoTo)
  <2> HIDE DEF h, Def
  <2> QED
    BY <1>4, <1>5, Zenon
<1>7. \A k \in Nat : TwoTo[k] = IF k = 0 THEN 1 ELSE 2 * TwoTo[k - 1]
  BY <1>6
<1> QED
  BY <1>7 DEF Pow2

(* A power of two is a number above 0.                                     *)
LEMMA Pow2Positive == \A k \in 0 .. Bits : Pow2(k) \in Nat \ {0}
<1> SUFFICES ASSUME NEW S, S = {k \in 0 .. Bits : Pow2(k) \notin Nat \ {0}}, S # {}
             PROVE  FALSE
  BY Zenon
<1>1. S \in SUBSET Nat /\ Bits \in Nat
  BY BitsAssumption
<1>2. PICK k \in S : \A j \in S : k <= j
  BY <1>1, LeastOf
<1>3. CASE k = 0
  BY <1>2, <1>3, Pow2Recursion
<1>4. CASE k # 0
  <2>1. k - 1 \in 0 .. Bits - 1 /\ k - 1 \notin S /\ k - 1 \in 0 .. Bits
    BY <1>1, <1>2, <1>4
  <2>2. Pow2(k - 1) \in Nat \ {0}
    BY <2>1
  <2>3. Pow2((k - 1) + 1) = 2 * Pow2(k - 1)
    BY <2>1, Pow2Recursion
  <2>4. (k - 1) + 1 = k
    BY <1>1
  <2> QED
    BY <2>2, <2>3, <2>4
<1> QED
  BY <1>3, <1>4

(* The next power of two.                                                  *)
LEMMA Pow2Double ==
  ASSUME NEW k \in 0 .. Bits - 1
  PROVE  k + 1 \in 0 .. Bits /\ k \in 0 .. Bits /\ Pow2(k + 1) = 2 * Pow2(k)
PROOF BY BitsAssumption, Pow2Recursion

(* A larger exponent gives at least twice as much.                         *)
LEMMA Pow2Grows ==
  ASSUME NEW j \in 0 .. Bits, NEW k \in 0 .. Bits, j < k
  PROVE  2 * Pow2(j) <= Pow2(k)
<1>0. PICK S : S = {i \in j + 1 .. Bits : ~ (2 * Pow2(j) <= Pow2(i))}
  BY Zenon
<1> SUFFICES ASSUME S # {} PROVE FALSE
  <2>1. k \in j + 1 .. Bits
    BY BitsAssumption
  <2> QED
    BY <1>0, <2>1
<1>1. S \in SUBSET Nat /\ Bits \in Nat /\ j \in Nat
  BY <1>0, BitsAssumption
<1>2. PICK i \in S : \A h \in S : i <= h
  BY <1>1, LeastOf
<1>3. PICK h \in 0 .. Bits - 1 : i = h + 1 /\ h >= j
  BY <1>0, <1>1, <1>2
<1>4. Pow2(i) = 2 * Pow2(h) /\ Pow2(h) \in Nat /\ Pow2(j) \in Nat /\ Pow2(i) \in Nat
  BY <1>1, <1>3, Pow2Double, Pow2Positive
<1>5. CASE h = j
  BY <1>0, <1>2, <1>4, <1>5
<1>6. CASE h > j
  <2>1. h \notin S /\ h \in j + 1 .. Bits
    BY <1>0, <1>1, <1>2, <1>3, <1>6
  <2>2. 2 * Pow2(j) <= Pow2(h)
    BY <1>0, <2>1
  <2> QED
    BY <1>0, <1>2, <1>4, <2>2
<1> QED
  BY <1>1, <1>3, <1>5, <1>6

(* Exponents compare as their powers do.                                   *)
LEMMA Pow2Order ==
  ASSUME NEW j \in 0 .. Bits, NEW k \in 0 .. Bits
  PROVE  /\ j <= k <=> Pow2(j) <= Pow2(k)
         /\ j < k <=> Pow2(j) < Pow2(k)
         /\ j = k <=> Pow2(j) = Pow2(k)
<1>1. j \in Nat /\ k \in Nat /\ Pow2(j) \in Nat \ {0} /\ Pow2(k) \in Nat \ {0}
  BY Pow2Positive
<1>2. j < k => 2 * Pow2(j) <= Pow2(k)
  BY Pow2Grows
<1>3. k < j => 2 * Pow2(k) <= Pow2(j)
  BY Pow2Grows
<1> QED
  BY <1>1, <1>2, <1>3

(* The product of powers is the power of the sum.                          *)
LEMMA Pow2Product ==
  ASSUME NEW j \in 0 .. Bits, NEW k \in 0 .. Bits, j + k <= Bits
  PROVE  Pow2(j + k) = Pow2(j) * Pow2(k)
<1>1. PICK S : S = {i \in 0 .. Bits - j : Pow2(j + i) # Pow2(j) * Pow2(i)}
  BY Zenon
<1> SUFFICES ASSUME S # {} PROVE FALSE
  <2>1. k \in 0 .. Bits - j
    BY BitsAssumption
  <2> QED
    BY <1>1, <2>1
<1>2. S \in SUBSET Nat /\ Bits \in Nat /\ j \in Nat
  BY <1>1, BitsAssumption
<1>3. PICK i \in S : \A h \in S : i <= h
  BY <1>1, <1>2, LeastOf
<1>4. CASE i = 0
  <2>1. Pow2(j + 0) = Pow2(j) /\ Pow2(0) = 1 /\ Pow2(j) \in Nat
    BY <1>2, Pow2Recursion, Pow2Positive
  <2> QED
    BY <1>1, <1>3, <1>4, <2>1
<1>5. CASE i # 0
  <2>1. PICK h \in 0 .. Bits - 1 : i = h + 1 /\ h \in 0 .. Bits - j
    BY <1>1, <1>2, <1>3, <1>5
  <2>2. h \notin S /\ j + h \in 0 .. Bits - 1 /\ j + i = (j + h) + 1
    BY <1>1, <1>2, <1>3, <2>1
  <2>3. Pow2(j + h) = Pow2(j) * Pow2(h)
    BY <1>1, <2>1, <2>2
  <2>4. Pow2(i) = 2 * Pow2(h) /\ Pow2(j + i) = 2 * Pow2(j + h)
    BY <2>1, <2>2, Pow2Double
  <2>5. Pow2(j) \in Nat /\ Pow2(h) \in Nat
    BY <2>1, Pow2Positive, Pow2Double
  <2>6. \A x, y \in Nat : 2 * (x * y) = x * (2 * y)
    OBVIOUS
  <2>7. Pow2(j + i) = Pow2(j) * Pow2(i)
    BY <2>3, <2>4, <2>5, <2>6
  <2> QED
    BY <1>1, <1>3, <2>7
<1> QED
  BY <1>4, <1>5

(* A power divides the larger ones.                                        *)
LEMMA Pow2Divides ==
  ASSUME NEW j \in 0 .. Bits, NEW k \in 0 .. Bits, j <= k
  PROVE  /\ k - j \in 0 .. Bits
         /\ Pow2(k) = Pow2(k - j) * Pow2(j)
         /\ Pow2(k) % Pow2(j) = 0
         /\ Pow2(k) \div Pow2(j) = Pow2(k - j)
<1>1. PICK i \in 0 .. Bits : i = k - j /\ i + j = k
  BY BitsAssumption
<1>2. Pow2(k) = Pow2(i) * Pow2(j)
  BY <1>1, Pow2Product
<1>3. PICK a \in Nat \ {0}, b \in Nat \ {0} : a = Pow2(i) /\ b = Pow2(j)
  BY Pow2Positive
<1>4. (a * b) % b = 0 /\ (a * b) \div b = a
  BY <1>3
<1> QED
  BY <1>1, <1>2, <1>3, <1>4

(* The powers of two that are sizes.                                       *)
LEMMA PowersAre ==
  /\ PowersOfTwo \subseteq 1 .. Pow2(Bits - 1)
  /\ \A k \in 0 .. Bits - 1 : Pow2(k) \in PowersOfTwo
  /\ \A p \in PowersOfTwo : \E k \in 0 .. Bits - 1 : p = Pow2(k)
  /\ Pow2(Bits - 1) \in Nat \ {0} /\ Pow2(Bits) = 2 * Pow2(Bits - 1)
  /\ UsizeMax \in Nat /\ IsizeMax \in Nat /\ UsizeMax = 2 * IsizeMax + 1
  /\ IsizeMax = Pow2(Bits - 1) - 1
<1>1. Bits - 1 \in 0 .. Bits - 1 /\ Bits - 1 \in 0 .. Bits /\ (Bits - 1) + 1 = Bits
  BY BitsAssumption
<1>2. Pow2(Bits - 1) \in Nat \ {0} /\ Pow2(Bits) = 2 * Pow2(Bits - 1)
  BY <1>1, Pow2Positive, Pow2Double
<1>3. ASSUME NEW k \in 0 .. Bits - 1
      PROVE  Pow2(k) \in 1 .. Pow2(Bits - 1)
  <2>1. k \in 0 .. Bits /\ k <= Bits - 1
    BY BitsAssumption
  <2> QED
    BY <1>1, <1>2, <2>1, Pow2Order, Pow2Positive
<1> QED
  BY <1>2, <1>3 DEF PowersOfTwo, UsizeMax, IsizeMax

(* What that says of one of them.                                          *)
LEMMA Pow2Size ==
  ASSUME NEW k \in 0 .. Bits - 1
  PROVE  /\ k \in 0 .. Bits /\ k \in Nat
         /\ Pow2(k) \in Nat \ {0} /\ Pow2(k) \in PowersOfTwo /\ Pow2(k) <= Pow2(Bits - 1)
PROOF BY BitsAssumption, PowersAre, Pow2Positive

(* And of a size that is one.                                              *)
LEMMA PowerSize ==
  ASSUME NEW p \in PowersOfTwo
  PROVE  /\ p \in Nat \ {0} /\ p <= Pow2(Bits - 1)
         /\ \E k \in 0 .. Bits - 1 : p = Pow2(k)
PROOF BY PowersAre

(* Every number up to the largest power lies at or below a least power.    *)
LEMMA NextPowerExists ==
  ASSUME NEW n \in Nat, n <= Pow2(Bits - 1)
  PROVE  \E k \in 0 .. Bits - 1 : n <= Pow2(k) /\ (Pow2(k) < 2 * n \/ Pow2(k) = 1)
<1>1. PICK S : S = {k \in 0 .. Bits - 1 : n <= Pow2(k)}
  BY Zenon
<1>2. S \in SUBSET Nat /\ Bits - 1 \in S
  BY <1>1, BitsAssumption
<1>3. PICK k \in S : \A j \in S : k <= j
  BY <1>2, LeastOf
<1>4. CASE k = 0
  BY <1>1, <1>3, <1>4, Pow2Recursion
<1>5. CASE k # 0
  <2>1. PICK j \in 0 .. Bits - 1 : k = j + 1
    BY <1>1, <1>3, <1>5, BitsAssumption
  <2>2. Pow2(k) = 2 * Pow2(j) /\ Pow2(j) \in Nat
    BY <2>1, Pow2Double, Pow2Positive
  <2>3. ~ (n <= Pow2(j))
    BY <1>1, <1>3, <2>1
  <2> QED
    BY <1>1, <1>3, <2>2, <2>3
<1> QED
  BY <1>4, <1>5

(* next_power_of_two: the least power at or above n, or 0 where that is     *)
(* none.                                                                   *)
LEMMA NextPowerIs ==
  ASSUME NEW n \in Nat
  PROVE  /\ n > Pow2(Bits - 1) => NextPowerOfTwo(n) = 0
         /\ n <= Pow2(Bits - 1) =>
              /\ NextPowerOfTwo(n) \in PowersOfTwo
              /\ n <= NextPowerOfTwo(n)
              /\ NextPowerOfTwo(n) < 2 * n \/ NextPowerOfTwo(n) = 1
              /\ \A q \in PowersOfTwo : n <= q => NextPowerOfTwo(n) <= q
<1>1. n > Pow2(Bits - 1) => NextPowerOfTwo(n) = 0
  BY DEF NextPowerOfTwo
<1>2. ASSUME n <= Pow2(Bits - 1)
      PROVE  /\ NextPowerOfTwo(n) \in PowersOfTwo
             /\ n <= NextPowerOfTwo(n)
             /\ NextPowerOfTwo(n) < 2 * n \/ NextPowerOfTwo(n) = 1
  <2>1. \E p \in PowersOfTwo : n <= p /\ (p < 2 * n \/ p = 1)
    BY <1>2, NextPowerExists, PowersAre, Zenon
  <2>2. NextPowerOfTwo(n) = CHOOSE p \in PowersOfTwo : n <= p /\ (p < 2 * n \/ p = 1)
    BY <1>2, PowersAre DEF NextPowerOfTwo
  <2> HIDE DEF NextPowerOfTwo
  <2> QED
    BY <2>1, <2>2
<1>3. ASSUME n <= Pow2(Bits - 1), NEW q \in PowersOfTwo, n <= q
      PROVE  NextPowerOfTwo(n) <= q
  <2>1. PICK p \in PowersOfTwo : p = NextPowerOfTwo(n) /\ (p < 2 * n \/ p = 1)
    BY <1>2, <1>3
  <2>2. PICK j \in 0 .. Bits - 1, k \in 0 .. Bits - 1 : q = Pow2(j) /\ p = Pow2(k)
    BY PowersAre
  <2>3. p \in Nat \ {0} /\ q \in Nat \ {0}
    BY PowersAre
  <2>4. j \in 0 .. Bits /\ k \in 0 .. Bits
    BY BitsAssumption
  <2>5. j < k => 2 * q <= p
    BY <2>2, <2>4, Pow2Grows
  <2>6. k <= j => p <= q
    BY <2>2, <2>4, Pow2Order
  <2> QED
    BY <1>3, <2>1, <2>3, <2>4, <2>5, <2>6
<1> QED
  BY <1>1, <1>2, <1>3

(* A power of two is its own next power.                                   *)
LEMMA NextPowerSame ==
  ASSUME NEW p \in PowersOfTwo
  PROVE  NextPowerOfTwo(p) = p
<1>1. p \in Nat /\ p <= Pow2(Bits - 1) /\ PowersOfTwo \subseteq Nat
  BY PowersAre
<1>2. NextPowerOfTwo(p) \in PowersOfTwo /\ p <= NextPowerOfTwo(p)
  BY <1>1, NextPowerIs
<1>3. NextPowerOfTwo(p) <= p
  BY <1>1, NextPowerIs
<1>4. PICK q \in Nat : q = NextPowerOfTwo(p)
  BY <1>1, <1>2, Zenon
<1> QED
  BY <1>1, <1>2, <1>3, <1>4

(* prev_power_of_two: the largest power at or below n.                     *)
LEMMA PrevPowerIs ==
  ASSUME NEW n \in 1 .. UsizeMax
  PROVE  /\ prev_power_of_two(n) \in PowersOfTwo
         /\ prev_power_of_two(n) <= n
         /\ n < 2 * prev_power_of_two(n)
<1>1. PICK S : S = {k \in 0 .. Bits - 1 : n < 2 * Pow2(k)}
  BY Zenon
<1>2. S \in SUBSET Nat /\ Bits - 1 \in S /\ n \in Nat \ {0}
  BY <1>1, BitsAssumption, PowersAre DEF UsizeMax
<1>3. PICK k \in S : \A j \in S : k <= j
  BY <1>2, LeastOf
<1>4. Pow2(k) <= n
  <2>1. CASE k = 0
    BY <1>2, <2>1, Pow2Recursion
  <2>2. CASE k # 0
    <3>1. PICK j \in 0 .. Bits - 1 : k = j + 1
      BY <1>1, <1>3, <2>2, BitsAssumption
    <3>2. Pow2(k) = 2 * Pow2(j) /\ Pow2(j) \in Nat
      BY <3>1, Pow2Double, Pow2Positive
    <3>3. ~ (n < 2 * Pow2(j))
      BY <1>1, <1>3, <3>1
    <3> QED
      BY <1>2, <3>2, <3>3
  <2> QED
    BY <2>1, <2>2
<1>5. \E p \in PowersOfTwo : p <= n /\ n < 2 * p
  BY <1>1, <1>3, <1>4, PowersAre, Zenon
<1>6. prev_power_of_two(n) = CHOOSE p \in PowersOfTwo : p <= n /\ n < 2 * p
  BY <1>2 DEF prev_power_of_two
<1> HIDE DEF prev_power_of_two
<1> QED
  BY <1>5, <1>6

(* trailing_zeros of a power of two is its exponent.                       *)
LEMMA TrailingZerosIs ==
  ASSUME NEW k \in 0 .. Bits - 1
  PROVE  TrailingZeros(Pow2(k)) = k
<1>1. k \in 0 .. Bits /\ Pow2(k) \in Nat \ {0}
  BY BitsAssumption, Pow2Positive
<1>2. ASSUME NEW j \in 0 .. Bits - 1
      PROVE  Pow2(k) % Pow2(j) = 0 /\ Pow2(k) % Pow2(j + 1) # 0 <=> j = k
  <2>1. j \in 0 .. Bits /\ j + 1 \in 0 .. Bits /\ j \in Nat /\ k \in Nat
    BY BitsAssumption
  <2>2. j <= k => Pow2(k) % Pow2(j) = 0
    BY <1>1, <2>1, Pow2Divides
  <2>3. j + 1 <= k => Pow2(k) % Pow2(j + 1) = 0
    BY <1>1, <2>1, Pow2Divides
  <2>4. ASSUME NEW i \in 0 .. Bits, i > k
        PROVE  Pow2(k) % Pow2(i) # 0
    <3>1. Pow2(k) < Pow2(i) /\ Pow2(i) \in Nat
      BY <1>1, <2>4, Pow2Order, Pow2Positive
    <3>2. Pow2(k) % Pow2(i) = Pow2(k)
      BY <1>1, <3>1
    <3> QED
      BY <1>1, <3>2
  <2>5. j > k => Pow2(k) % Pow2(j) # 0
    BY <2>1, <2>4
  <2>6. j + 1 > k => Pow2(k) % Pow2(j + 1) # 0
    BY <2>1, <2>4
  <2> QED
    BY <2>1, <2>2, <2>3, <2>5, <2>6
<1>3. TrailingZeros(Pow2(k)) =
        CHOOSE j \in 0 .. Bits - 1 : Pow2(k) % Pow2(j) = 0 /\ Pow2(k) % Pow2(j + 1) # 0
  BY <1>1 DEF TrailingZeros
<1> HIDE DEF TrailingZeros
<1> QED
  BY <1>2, <1>3

(* A shift of a power adds to its exponent, as long as it stays in the      *)
(* width.                                                                  *)
LEMMA ShlIs ==
  ASSUME NEW i \in 0 .. Bits - 1, NEW k \in 0 .. Bits - 1, i + k <= Bits - 1
  PROVE  Shl(Pow2(i), k) = Pow2(i + k)
<1>1. k % Bits = k /\ i + k \in 0 .. Bits /\ i \in 0 .. Bits /\ k \in 0 .. Bits /\ Bits \in 0 .. Bits
      /\ i + k < Bits /\ i + k <= Bits
  BY BitsAssumption
<1>2. Pow2(i + k) = Pow2(i) * Pow2(k)
  BY <1>1, Pow2Product
<1>3. Pow2(i + k) \in Nat /\ Pow2(Bits) \in Nat /\ Pow2(i + k) < Pow2(Bits)
  BY <1>1, Pow2Positive, Pow2Order
<1>4. Pow2(i + k) % Pow2(Bits) = Pow2(i + k)
  BY <1>3
<1> QED
  BY <1>1, <1>2, <1>4 DEF Shl

-----------------------------------------------------------------------------
(* The arithmetic of sizes. *)

(* Multiplication and division.                                            *)
LEMMA MulDiv ==
  ASSUME NEW x \in Nat, NEW m \in Nat \ {0}
  PROVE  x * m \in Nat /\ (x * m) % m = 0 /\ (x * m) \div m = x
OBVIOUS

(* Division with remainder.                                                *)
LEMMA DivMod ==
  ASSUME NEW x \in Nat, NEW m \in Nat \ {0}
  PROVE  /\ x \div m \in Nat /\ x % m \in 0 .. m - 1
         /\ (x \div m) * m \in Nat
         /\ x = ((x \div m) * m) + (x % m)
OBVIOUS

(* An error is not None.                                                   *)
LEMMA ErrorIsSome ==
  ASSUME NEW e \in Errors
  PROVE  Err(e).err = e /\ e # None
PROOF BY ErrorsAssumption DEF Err

(* align_down: the multiple of align at or below val.                      *)
LEMMA AlignDownIs ==
  ASSUME NEW val \in Nat, NEW align \in Nat \ {0}
  PROVE  /\ align_down(val, align) \in Nat
         /\ align_down(val, align) = (val \div align) * align
         /\ align_down(val, align) <= val
         /\ val < align_down(val, align) + align
         /\ align_down(val, align) % align = 0
<1>1. /\ val \div align \in Nat /\ val % align \in 0 .. align - 1
      /\ val = ((val \div align) * align) + (val % align)
  OBVIOUS
<1>2. PICK q \in Nat, r \in Nat : q = val \div align /\ r = val % align /\ r < align
  BY <1>1
<1>3. PICK m \in Nat : m = q * align /\ m % align = 0
  <2>1. q * align \in Nat /\ (q * align) % align = 0
    OBVIOUS
  <2> QED
    BY <2>1
<1>4. val = m + r /\ align_down(val, align) = m
  BY <1>1, <1>2, <1>3 DEF align_down
<1> QED
  BY <1>2, <1>3, <1>4

(* align_up: the multiple of alignment at or above value, if that is a      *)
(* usize.                                                                  *)
LEMMA AlignUpIs ==
  ASSUME NEW value \in Nat, NEW alignment \in Nat \ {0}
  PROVE  /\ ((value + alignment - 1) \div alignment) * alignment \in Nat
         /\ value <= ((value + alignment - 1) \div alignment) * alignment
         /\ (((value + alignment - 1) \div alignment) * alignment) % alignment = 0
         /\ value + alignment - 1 <= UsizeMax =>
              align_up(value, alignment) = ((value + alignment - 1) \div alignment) * alignment
         /\ value + alignment - 1 > UsizeMax => align_up(value, alignment) = None
<1>1. PICK v \in Nat : v = value + alignment - 1
  OBVIOUS
<1>2. PICK d \in Nat : /\ d = align_down(v, alignment) /\ d = (v \div alignment) * alignment
                       /\ v < d + alignment /\ d % alignment = 0
  BY AlignDownIs, Zenon
<1>3. UsizeMax \in Nat
  BY PowersAre
<1>4. value <= d
  BY <1>1, <1>2
<1>5. v <= UsizeMax => align_up(value, alignment) = d
  BY <1>1, <1>2, <1>3 DEF align_up
<1>6. v > UsizeMax => align_up(value, alignment) = None
  BY <1>1, <1>3 DEF align_up
<1> QED
  BY <1>1, <1>2, <1>4, <1>5, <1>6

(* The hint, raised to a block. *)
Raised(total, i) == IF total < Pow2(i) THEN Pow2(i) ELSE total

(* snap_to_valid_geometry: the least power of two that is at least the hint *)
(* and the block, in blocks; an overflow if there is none.                 *)
LEMMA SnapIs ==
  ASSUME NEW total \in Nat, NEW i \in 0 .. Bits - 1, NEW al
  PROVE  /\ Raised(total, i) > Pow2(Bits - 1) =>
              snap_to_valid_geometry(total, Pow2(i), al) = Err("SizeOverflow")
         /\ Raised(total, i) <= Pow2(Bits - 1) =>
              \E a \in i .. Bits - 1 :
                /\ Pow2(a) = NextPowerOfTwo(Raised(total, i))
                /\ snap_to_valid_geometry(total, Pow2(i), al) =
                     Geometry(Pow2(a), Pow2(i), a - i, al, TRUE)
<1>0. PICK t \in Nat : t = Raised(total, i) /\ t = IF total < Pow2(i) THEN Pow2(i) ELSE total
  BY Pow2Size DEF Raised
<1>1. PICK m \in Nat \ {0} : m = Pow2(i)
  BY Pow2Size
<1>2. PICK top \in Nat \ {0} : top = Pow2(Bits - 1) /\ UsizeMax = 2 * top - 1 /\ m <= top
  BY <1>1, PowersAre, Pow2Size
<1>3. t \in Nat /\ t >= m /\ t # 0
  BY <1>0, <1>1
<1>4. PICK sum \in Nat : sum = t + m - 1
  BY <1>1, <1>3
<1>5. PICK q \in Nat, r \in 0 .. m - 1 : q = sum \div m /\ sum = q * m + r
  <2>1. sum \div m \in Nat /\ sum % m \in 0 .. m - 1 /\ sum = ((sum \div m) * m) + (sum % m)
    OBVIOUS
  <2> QED
    BY <2>1
<1>6. snap_to_valid_geometry(total, Pow2(i), al) =
        IF sum > UsizeMax \/ NextPowerOfTwo(q) = 0 \/ NextPowerOfTwo(q) * m > UsizeMax
        THEN Err("SizeOverflow")
        ELSE Geometry(NextPowerOfTwo(q) * m, m, TrailingZeros(NextPowerOfTwo(q)), al, TRUE)
  BY <1>0, <1>1, <1>4, <1>5 DEF snap_to_valid_geometry
<1>7. t <= q * m
  BY <1>1, <1>3, <1>4, <1>5
<1>8. i \in 0 .. Bits /\ Bits - 1 \in 0 .. Bits /\ Bits \in 0 .. Bits /\ Bits \in Nat /\ i \in Nat
  BY BitsAssumption
<1>9. CASE t > top
  <2>0. SUFFICES snap_to_valid_geometry(total, Pow2(i), al) = Err("SizeOverflow")
    <3>1. ~ (t <= Pow2(Bits - 1))
      BY <1>2, <1>3, <1>9
    <3> QED
      BY <1>0, <3>1, Zenon
  <2>1. SUFFICES ASSUME ~ (sum > UsizeMax), NextPowerOfTwo(q) # 0
                 PROVE  NextPowerOfTwo(q) * m > UsizeMax
    BY <1>6, Zenon
  <2>2. q <= top /\ NextPowerOfTwo(q) \in PowersOfTwo /\ q <= NextPowerOfTwo(q)
    BY <1>2, <2>1, NextPowerIs
  <2>3. PICK k \in 0 .. Bits - 1 : NextPowerOfTwo(q) = Pow2(k)
    BY <2>2, PowersAre, Zenon
  <2>4. k \in 0 .. Bits /\ k \in Nat
    BY <1>8
  <2>5. PICK p \in Nat \ {0} : p = Pow2(k)
    BY <2>4, Pow2Positive
  <2>6. q * m <= p * m
    BY <1>1, <2>2, <2>3, <2>5
  <2>7. top < p * m
    BY <1>1, <1>2, <1>3, <1>5, <1>7, <1>9, <2>5, <2>6
  <2>8. CASE i + k <= Bits - 1
    <3>1. Pow2(i + k) = m * p
      BY <1>1, <1>8, <2>4, <2>5, <2>8, Pow2Product
    <3>2. i + k \in 0 .. Bits /\ Pow2(i + k) <= top
      BY <1>2, <1>8, <2>4, <2>8, Pow2Order
    <3>3. m * p = p * m
      BY <1>1, <2>5
    <3> QED
      BY <1>1, <1>2, <2>5, <2>7, <3>1, <3>2, <3>3
  <2>9. CASE i + k >= Bits
    <3>1. PICK h \in 0 .. Bits : h + i = Bits /\ h <= k
      BY <1>8, <2>4, <2>9
    <3>2. Pow2(Bits) = Pow2(h) * m
      BY <1>1, <1>8, <3>1, Pow2Product
    <3>3. PICK g \in Nat : g = Pow2(h) /\ g <= p
      BY <2>4, <2>5, <3>1, Pow2Order, Pow2Positive
    <3>4. g * m <= p * m
      BY <1>1, <2>5, <3>3
    <3>5. Pow2(Bits) = 2 * top
      BY <1>2, PowersAre
    <3> QED
      BY <1>1, <1>2, <2>3, <2>5, <3>2, <3>3, <3>4, <3>5
  <2> QED
    BY <1>8, <2>4, <2>8, <2>9
<1>10. CASE t <= top
  <2>1. PICK a \in 0 .. Bits - 1 :
          Pow2(a) = NextPowerOfTwo(t) /\ t <= Pow2(a) /\ (Pow2(a) < 2 * t \/ Pow2(a) = 1)
    <3>1. /\ NextPowerOfTwo(t) \in PowersOfTwo /\ t <= NextPowerOfTwo(t)
          /\ NextPowerOfTwo(t) < 2 * t \/ NextPowerOfTwo(t) = 1
      BY <1>2, <1>3, <1>10, NextPowerIs
    <3> QED
      BY <3>1, PowerSize
  <2>2. a \in 0 .. Bits /\ a \in Nat /\ Pow2(a) \in Nat \ {0}
    BY <1>8, Pow2Positive
  <2>3. i <= a
    BY <1>1, <1>3, <1>8, <2>1, <2>2, Pow2Order
  <2>4. PICK k \in 0 .. Bits - 1 : k = a - i /\ k + i = a /\ k \in 0 .. Bits
    BY <1>8, <2>2, <2>3
  <2>5. PICK p \in Nat \ {0} : p = Pow2(k) /\ Pow2(a) = p * m
    <3>1. Pow2(k + i) = Pow2(k) * Pow2(i)
      BY <1>8, <2>2, <2>4, Pow2Product
    <3> QED
      BY <1>1, <2>4, <3>1, Pow2Positive
  <2>6. q <= p
    <3>1. ASSUME q > p PROVE FALSE
      <4>1. p * m + m <= q * m
        BY <1>1, <1>5, <2>5, <3>1
      <4> QED
        BY <1>1, <1>3, <1>4, <1>5, <2>1, <2>2, <2>5, <4>1
    <3> QED
      BY <1>5, <2>5, <3>1
  <2>7. p < 2 * q \/ p = 1
    <3>1. SUFFICES ASSUME p # 1, 2 * q <= p PROVE FALSE
      BY <1>5, <2>5
    <3>2. (2 * q) * m <= p * m /\ (2 * q) * m = 2 * (q * m)
      BY <1>1, <1>5, <2>5, <3>1
    <3>3. 2 * t <= Pow2(a)
      BY <1>1, <1>3, <1>5, <1>7, <2>2, <2>5, <3>2
    <3>4. Pow2(a) = 1
      BY <1>3, <2>1, <2>2, <3>3
    <3> QED
      BY <1>3, <2>1, <3>3, <3>4
  <2>8. NextPowerOfTwo(q) = p
    <3>1. p \in PowersOfTwo /\ p <= top
      BY <1>2, <2>4, <2>5, PowersAre
    <3>2. q <= top
      BY <1>2, <1>5, <2>5, <2>6, <3>1
    <3>3. PICK n \in PowersOfTwo : n = NextPowerOfTwo(q) /\ n <= p /\ q <= n
      BY <1>2, <1>5, <2>6, <3>1, <3>2, NextPowerIs, Zenon
    <3>4. PICK j \in 0 .. Bits - 1 : n = Pow2(j)
      BY PowersAre
    <3>5. j \in 0 .. Bits
      BY <1>8
    <3>6. j < k => 2 * n <= p
      BY <2>4, <2>5, <3>4, <3>5, Pow2Grows
    <3>7. n \in Nat \ {0}
      BY PowersAre
    <3>8. ~ (j < k)
      BY <1>5, <2>5, <2>7, <3>3, <3>6, <3>7
    <3>9. j <= k
      BY <2>4, <2>5, <3>3, <3>4, <3>5, Pow2Order
    <3> QED
      BY <2>4, <2>5, <3>3, <3>4, <3>5, <3>8, <3>9
  <2>9. sum <= UsizeMax /\ p * m <= UsizeMax
    <3>1. Pow2(a) <= top
      BY <1>2, <1>8, <2>2, Pow2Order
    <3> QED
      BY <1>1, <1>2, <1>3, <1>4, <1>10, <2>2, <2>5, <3>1
  <2>10. TrailingZeros(p) = k
    BY <2>4, <2>5, TrailingZerosIs
  <2>11. snap_to_valid_geometry(total, Pow2(i), al) = Geometry(p * m, m, k, al, TRUE)
    <3>1. ~ (sum > UsizeMax) /\ p # 0 /\ ~ (p * m > UsizeMax)
      BY <1>2, <1>4, <2>2, <2>5, <2>9
    <3> QED
      BY <1>6, <2>8, <2>10, <3>1, Zenon
  <2>12. a \in i .. Bits - 1
    BY <1>8, <2>2, <2>3
  <2>13. snap_to_valid_geometry(total, Pow2(i), al) = Geometry(Pow2(a), Pow2(i), a - i, al, TRUE)
    BY <1>1, <2>4, <2>5, <2>11, Zenon
  <2>14. ~ (t > Pow2(Bits - 1))
    BY <1>2, <1>3, <1>10
  <2> QED
    BY <1>0, <2>1, <2>12, <2>13, <2>14, Zenon
<1>11. t > top \/ t <= top
  BY <1>2, <1>3
<1> QED
  BY <1>9, <1>10, <1>11, Zenon

(* The loop of BuddyHint::resolve ends, at the order that leaves no room    *)
(* for the next.                                                           *)
LEMMA OrdersAre ==
  ASSUME NEW i \in 0 .. Bits - 1, NEW len \in 0 .. IsizeMax, Pow2(i) <= len
  PROVE  /\ Orders(Pow2(i), len) # {}
         /\ \A k \in Orders(Pow2(i), len) :
              /\ k \in 0 .. Bits - 1 /\ i + k <= Bits - 1
              /\ Pow2(i + k) <= len /\ len < 2 * Pow2(i + k)
<1>0. Bits \in Nat /\ i \in Nat /\ len \in Nat
  BY BitsAssumption, PowersAre
<1>1. PICK S : S = {n \in 0 .. Bits - 1 : len < Pow2(n)}
  BY Zenon
<1>2. S \in SUBSET Nat /\ Bits - 1 \in S
  BY <1>0, <1>1, BitsAssumption, PowersAre
<1>3. PICK n \in S : \A j \in S : n <= j
  BY <1>2, LeastOf
<1>4. \A j \in 0 .. Bits - 1 : j < n => Pow2(j) <= len
  <2>1. ASSUME NEW j \in 0 .. Bits - 1, j < n PROVE Pow2(j) <= len
    <3>1. ~ (len < Pow2(j))
      BY <1>0, <1>1, <1>2, <1>3, <2>1
    <3>2. Pow2(j) \in Nat
      BY Pow2Size
    <3> QED
      BY <1>0, <3>1, <3>2
  <2> QED
    BY <2>1
<1>5. n \in 0 .. Bits - 1 /\ len < Pow2(n) /\ Pow2(n) \in Nat
  BY <1>1, <1>3, Pow2Size
<1>6. i < n
  <2>1. i \in 0 .. Bits /\ n \in 0 .. Bits
    BY <1>0, <1>5
  <2>2. Pow2(i) \in Nat
    BY Pow2Size
  <2>3. Pow2(i) < Pow2(n)
    BY <1>0, <1>5, <2>2
  <2> QED
    BY <2>1, <2>3, Pow2Order
<1>7. PICK k \in 0 .. Bits - 1 : k = n - i - 1 /\ i + k + 1 = n /\ k + 1 \in 0 .. Bits - 1 /\ i + (k + 1) = n
  BY <1>0, <1>5, <1>6
<1>8. ASSUME NEW j \in 0 .. Bits - 1, j <= k
      PROVE  /\ Shl(Pow2(i), j + 1) = Pow2(i + (j + 1))
             /\ j < k => Shl(Pow2(i), j + 1) <= len
  <2>1. j + 1 \in 0 .. Bits - 1 /\ i + (j + 1) <= Bits - 1 /\ i + (j + 1) \in 0 .. Bits - 1
    BY <1>0, <1>5, <1>7, <1>8
  <2>2. Shl(Pow2(i), j + 1) = Pow2(i + (j + 1))
    BY <2>1, ShlIs
  <2>3. j < k => i + (j + 1) < n
    BY <1>0, <1>5, <1>7
  <2> QED
    BY <1>4, <2>1, <2>2, <2>3
<1>9. k \in Orders(Pow2(i), len)
  <2>1. Shl(Pow2(i), k + 1) > len
    BY <1>0, <1>5, <1>7, <1>8
  <2>2. ASSUME NEW j \in 0 .. k - 1 PROVE Shl(Pow2(i), j + 1) <= len
    <3>1. j \in 0 .. Bits - 1 /\ j < k
      BY <1>0, <1>7
    <3> QED
      BY <1>7, <1>8, <3>1
  <2> QED
    BY <2>1, <2>2 DEF Orders
<1>10. ASSUME NEW h \in Orders(Pow2(i), len) PROVE h = k
  <2>1. /\ h \in 0 .. Bits - 1 /\ Shl(Pow2(i), h + 1) > len
        /\ \A j \in 0 .. h - 1 : Shl(Pow2(i), j + 1) <= len
    BY DEF Orders
  <2>2. ~ (h < k)
    <3>1. ASSUME h < k PROVE FALSE
      <4>1. Shl(Pow2(i), h + 1) <= len /\ Shl(Pow2(i), h + 1) = Pow2(i + (h + 1))
        BY <1>0, <1>7, <1>8, <2>1, <3>1
      <4>2. i + (h + 1) \in 0 .. Bits - 1
        BY <1>0, <1>5, <1>7, <2>1, <3>1
      <4>3. Pow2(i + (h + 1)) \in Nat
        BY <4>2, Pow2Size
      <4> QED
        BY <1>0, <2>1, <4>1, <4>3
    <3> QED
      BY <3>1
  <2>3. ~ (k < h)
    <3>1. ASSUME k < h PROVE FALSE
      <4>1. k \in 0 .. h - 1
        BY <1>0, <1>7, <2>1, <3>1
      <4>2. Shl(Pow2(i), k + 1) <= len
        BY <2>1, <4>1
      <4>3. Shl(Pow2(i), k + 1) = Pow2(n)
        BY <1>0, <1>7, <1>8
      <4> QED
        BY <1>0, <1>5, <4>2, <4>3
    <3> QED
      BY <3>1
  <2> QED
    BY <1>0, <1>7, <2>1, <2>2, <2>3
<1>11. /\ i + k \in 0 .. Bits - 1 /\ i + k < n
       /\ Pow2(i + k) <= len /\ len < 2 * Pow2(i + k)
  <2>1. i + k \in 0 .. Bits - 1 /\ i + k < n /\ i + k <= Bits - 1 /\ (i + k) + 1 = n
    BY <1>0, <1>5, <1>7
  <2>2. Pow2(n) = 2 * Pow2(i + k)
    BY <2>1, Pow2Double
  <2> QED
    BY <1>4, <1>5, <2>1, <2>2
<1>12. i + k <= Bits - 1
  BY <1>0, <1>11
<1> QED
  BY <1>9, <1>10, <1>11, <1>12, <1>7

(* BuddyHint::resolve: a power of two and an order that fit the memory and  *)
(* leave less than half of it; or an error that is due.                    *)
LEMMA HintIs ==
  ASSUME NEW min \in 1 .. UsizeMax, NEW len \in 0 .. IsizeMax
  PROVE  \/ /\ ResolveHint(min, len) \in {Err("panic"), Err("hang")}
            /\ min > Pow2(Bits - 1)
         \/ ResolveHint(min, len) = Err("ZeroUsableSlots") /\ min > len
         \/ \E i, k \in 0 .. Bits - 1 :
              /\ i + k <= Bits - 1
              /\ ResolveHint(min, len) = [err |-> None, min_block_size |-> Pow2(i), max_order |-> k]
              /\ Pow2(i + k) <= len /\ len < 2 * Pow2(i + k)
              /\ Pow2(i) < min => NextPowerOfTwo(min) > len
<1>0. min \in Nat \ {0} /\ len \in Nat /\ UsizeMax \in Nat /\ Pow2(Bits - 1) \in Nat
  BY PowersAre
<1>1. CASE min > Pow2(Bits - 1)
  <2>1. NextPowerOfTwo(min) = 0
    BY <1>0, <1>1, NextPowerIs
  <2>2. Orders(0, len) = {}
    <3>1. ASSUME NEW k \in 0 .. Bits - 1
          PROVE  Shl(0, k + 1) = 0
      <4>1. (k + 1) % Bits \in 0 .. Bits /\ Bits \in 0 .. Bits
        BY BitsAssumption
      <4>2. Pow2((k + 1) % Bits) \in Nat /\ Pow2(Bits) \in Nat \ {0}
        BY <4>1, Pow2Positive
      <4>3. 0 * Pow2((k + 1) % Bits) = 0 /\ 0 % Pow2(Bits) = 0
        BY <4>2
      <4> QED
        BY <4>3 DEF Shl
    <3> QED
      BY <1>0, <3>1 DEF Orders
  <2>3. ~ (0 > len)
    BY <1>0
  <2> QED
    BY <1>1, <2>1, <2>2, <2>3, OverflowChecksAssumption DEF ResolveHint
<1>2. CASE min <= Pow2(Bits - 1)
  <2>1. PICK up \in PowersOfTwo : up = NextPowerOfTwo(min) /\ min <= up
    BY <1>0, <1>2, NextPowerIs
  <2>2. PICK prev \in PowersOfTwo : prev = prev_power_of_two(min) /\ prev <= min
    BY PrevPowerIs
  <2>3. PICK m \in PowersOfTwo : m = IF up > len THEN prev ELSE up
    BY <2>1, <2>2
  <2>4. up \in Nat \ {0} /\ prev \in Nat \ {0} /\ m \in Nat \ {0}
    BY PowersAre
  <2>5. ResolveHint(min, len) =
          IF m > len THEN Err("ZeroUsableSlots")
          ELSE IF Orders(m, len) = {} THEN Err(IF OverflowChecks THEN "panic" ELSE "hang")
          ELSE [err |-> None, min_block_size |-> m,
                max_order |-> CHOOSE k \in Orders(m, len) : TRUE]
    BY <2>1, <2>2, <2>3, <2>4 DEF ResolveHint
  <2>6. CASE m > len
    <3>1. ResolveHint(min, len) = Err("ZeroUsableSlots")
      BY <2>5, <2>6
    <3>2. min > len
      BY <1>0, <2>2, <2>3, <2>4, <2>6
    <3> QED
      BY <3>1, <3>2
  <2>7. CASE m <= len
    <3>1. PICK i \in 0 .. Bits - 1 : m = Pow2(i)
      BY PowersAre
    <3>2. Orders(m, len) # {}
      BY <2>7, <3>1, OrdersAre
    <3>3. PICK k \in Orders(m, len) : k = CHOOSE j \in Orders(m, len) : TRUE
      BY <3>2
    <3>4. k \in 0 .. Bits - 1 /\ i + k <= Bits - 1 /\ Pow2(i + k) <= len /\ len < 2 * Pow2(i + k)
      BY <2>7, <3>1, <3>3, OrdersAre
    <3>5. ~ (m > len)
      BY <1>0, <2>4, <2>7
    <3>6. ResolveHint(min, len) = [err |-> None, min_block_size |-> Pow2(i), max_order |-> k]
      BY <2>5, <3>1, <3>2, <3>3, <3>5
    <3>7. m < min => up > len
      BY <1>0, <2>1, <2>3, <2>4
    <3> QED
      BY <2>1, <3>1, <3>4, <3>6, <3>7
  <2> QED
    BY <1>0, <2>4, <2>6, <2>7
<1> QED
  BY <1>0, <1>1, <1>2

(* Of a product of powers that is a usize.                                 *)
LEMMA ProductFits ==
  ASSUME NEW i \in 0 .. Bits - 1, NEW k \in 0 .. Bits - 1, Pow2(k) * Pow2(i) <= UsizeMax
  PROVE  i + k <= Bits - 1 /\ i + k \in 0 .. Bits - 1 /\ Pow2(i + k) = Pow2(k) * Pow2(i)
<1>1. i \in 0 .. Bits /\ k \in 0 .. Bits /\ Bits \in 0 .. Bits /\ Bits \in Nat /\ i \in Nat /\ k \in Nat
  BY BitsAssumption
<1>2. PICK p \in Nat \ {0}, m \in Nat \ {0} : p = Pow2(k) /\ m = Pow2(i)
  BY <1>1, Pow2Positive
<1>3. CASE i + k >= Bits
  <2>1. PICK h \in 0 .. Bits : h + i = Bits /\ h <= k
    BY <1>1, <1>3
  <2>2. Pow2(Bits) = Pow2(h) * m
    BY <1>1, <1>2, <2>1, Pow2Product
  <2>3. PICK g \in Nat : g = Pow2(h) /\ g <= p
    BY <1>1, <1>2, <2>1, Pow2Order, Pow2Positive
  <2>4. g * m <= p * m
    BY <1>2, <2>3
  <2>5. PICK u \in Nat : u = Pow2(Bits) /\ UsizeMax = u - 1
    BY <1>1, Pow2Positive DEF UsizeMax
  <2>6. p * m <= UsizeMax /\ u = g * m /\ p * m \in Nat
    BY <1>2, <2>2, <2>3, <2>5
  <2> QED
    BY <2>4, <2>5, <2>6
<1>4. CASE i + k <= Bits - 1
  <2>1. Pow2(k + i) = Pow2(k) * Pow2(i) /\ k + i = i + k
    BY <1>1, <1>4, Pow2Product
  <2> QED
    BY <1>1, <1>4, <2>1
<1> QED
  BY <1>1, <1>3, <1>4

(* Division rounds down: one more would be too much.                       *)
LEMMA DivRoundsDown ==
  ASSUME NEW len \in Nat, NEW n \in Nat \ {0}
  PROVE  /\ len \div n \in Nat
         /\ (len \div n) * n <= len
         /\ len < ((len \div n) + 1) * n
         /\ \A m \in Nat : len \div n < m => len < n * m
<1>1. PICK q \in Nat, r \in Nat, p \in Nat :
        q = len \div n /\ r = len % n /\ r < n /\ p = q * n /\ len = p + r
  BY DivMod
<1>2. (q + 1) * n = p + n
  BY <1>1
<1>3. ASSUME NEW m \in Nat, q < m
      PROVE  len < n * m
  <2>1. PICK d \in Nat : m = q + 1 + d
    <3>1. m - q - 1 \in Nat /\ m = q + 1 + (m - q - 1)
      BY <1>1, <1>3
    <3> QED
      BY <3>1
  <2>2. PICK e \in Nat : e = n * d
    BY <2>1
  <2>3. n * m = p + n + e
    <3>1. n * m = n * (q + 1 + d)
      BY <2>1
    <3>2. n * (q + 1 + d) = q * n + n + n * d
      BY <1>1, <2>1
    <3> QED
      BY <1>1, <2>2, <3>1, <3>2
  <2> QED
    BY <1>1, <2>2, <2>3
<1> QED
  BY <1>1, <1>2, <1>3

(* What a multiple is.                                                     *)
LEMMA MultipleIs ==
  ASSUME NEW a \in Nat \ {0}, NEW x \in Nat, x % a = 0
  PROVE  \E q \in Nat : x = q * a
<1>1. x \div a \in Nat /\ x = ((x \div a) * a) + (x % a) /\ (x \div a) * a \in Nat
  BY DivMod
<1> QED
  BY <1>1

(* What lies a multiple further on is as aligned.                          *)
LEMMA ShiftAligned ==
  ASSUME NEW a \in Nat \ {0}, NEW b \in Nat, NEW y \in Nat, y % a = 0
  PROVE  b % a = 0 => (b + y) % a = 0
<1> SUFFICES ASSUME b % a = 0 PROVE (b + y) % a = 0
  OBVIOUS
<1>1. PICK q \in Nat, p \in Nat : b = q * a /\ y = p * a
  BY MultipleIs
<1>2. PICK s \in Nat : s = q + p
  OBVIOUS
<1>3. b + y = s * a
  BY <1>1, <1>2
<1>4. (s * a) % a = 0
  BY MulDiv
<1> QED
  BY <1>3, <1>4, Zenon

(* A multiple, repeated, is one.                                           *)
LEMMA RepeatAligned ==
  ASSUME NEW a \in Nat \ {0}, NEW x \in Nat, x % a = 0, NEW n \in Nat
  PROVE  (n * x) % a = 0
<1>1. PICK q \in Nat : x = q * a
  BY MultipleIs
<1>2. PICK s \in Nat : s = n * q
  OBVIOUS
<1>3. n * x = s * a
  BY <1>1, <1>2
<1>4. (s * a) % a = 0
  BY MulDiv
<1> QED
  BY <1>3, <1>4, Zenon

(* A row of n extents of c bytes each.                                     *)
LEMMA RowFits ==
  ASSUME NEW n \in Nat, NEW c \in Nat \ {0}, NEW i \in 0 .. n - 1
  PROVE  i * c \in Nat /\ i * c + c <= n * c /\ n * c \in Nat
<1>1. PICK d \in Nat : n = i + 1 + d
  <2>1. n - i - 1 \in Nat /\ n = i + 1 + (n - i - 1)
    OBVIOUS
  <2> QED
    BY <2>1
<1>2. PICK p \in Nat, e \in Nat : p = i * c /\ e = d * c
  BY <1>1
<1>3. n * c = (i + 1 + d) * c
  BY <1>1
<1>4. (i + 1 + d) * c = i * c + c + d * c
  BY <1>1
<1> QED
  BY <1>2, <1>3, <1>4

(* A number by its page and its place in the page.                         *)
LEMMA PageIs ==
  ASSUME NEW p \in Nat \ {0}, NEW z \in Nat, NEW v \in 0 .. p - 1, NEW x \in Nat, x = z * p + v
  PROVE  x \div p = z
<1>1. /\ x \div p \in Nat /\ x % p \in 0 .. p - 1
      /\ x = ((x \div p) * p) + (x % p)
  BY DivMod, Zenon
<1>2. \A u \in Nat, w \in 0 .. p - 1 : z * p + v = u * p + w => u = z
  OBVIOUS
<1>3. z * p + v = ((x \div p) * p) + (x % p)
  BY <1>1
<1> QED
  BY <1>1, <1>2, <1>3, Zenon

(* The offset a page of the memory is touched at.                          *)
LEMMA PageTouched ==
  ASSUME NEW p \in Nat \ {0}, NEW ptr \in Nat, ptr % p = 0, NEW d \in Nat
  PROVE  \E o \in 0 .. d : o % p = 0 /\ (ptr + o) \div p = (ptr + d) \div p
<1>1. PICK q \in Nat : ptr = q * p
  BY MultipleIs
<1>2. PICK s \in Nat, r \in 0 .. p - 1, o \in Nat : o = s * p /\ d = o + r
  <2>1. /\ d \div p \in Nat /\ d % p \in 0 .. p - 1 /\ (d \div p) * p \in Nat
        /\ d = ((d \div p) * p) + (d % p)
    BY DivMod, Zenon
  <2> QED
    BY <2>1, Zenon
<1>3. o \in 0 .. d /\ o % p = 0
  BY <1>2, MulDiv
<1>4. PICK z \in Nat, w \in Nat : z = q + s /\ w = z * p /\ ptr + o = w /\ ptr + d = w + r
  BY <1>1, <1>2
<1>5. w \div p = z
  BY <1>4, MulDiv
<1>6. (w + r) \div p = z
  <2>1. PICK x \in Nat : x = w + r
    BY <1>4
  <2> QED
    BY <1>4, <2>1, PageIs
<1> QED
  BY <1>3, <1>4, <1>5, <1>6, Zenon

(* From any start prefault_region touches the page of every byte but,      *)
(* perhaps, those of the last page.                                        *)
LEMMA PageTouchedOrLast ==
  ASSUME NEW p \in Nat \ {0}, NEW ptr \in Nat, NEW n \in Nat, NEW d \in 0 .. n - 1
  PROVE  \/ \E o \in 0 .. n - 1 : o % p = 0 /\ (ptr + o) \div p = (ptr + d) \div p
         \/ (ptr + d) \div p = (ptr + n - 1) \div p
<1>1. PICK s \in Nat, r \in 0 .. p - 1, o \in Nat : o = s * p /\ d = o + r
  <2>1. d \in Nat
    OBVIOUS
  <2>2. /\ d \div p \in Nat /\ d % p \in 0 .. p - 1 /\ (d \div p) * p \in Nat
        /\ d = ((d \div p) * p) + (d % p)
    BY <2>1, DivMod, Zenon
  <2> QED
    BY <2>2, Zenon
<1>2. o % p = 0 /\ o \in 0 .. n - 1
  BY <1>1, MulDiv
<1>3. PICK y \in Nat, v \in 0 .. p - 1, w \in Nat : w = y * p /\ ptr + o = w + v
  <2>1. PICK x \in Nat : x = ptr + o
    BY <1>1
  <2>2. /\ x \div p \in Nat /\ x % p \in 0 .. p - 1 /\ (x \div p) * p \in Nat
        /\ x = ((x \div p) * p) + (x % p)
    BY <2>1, DivMod, Zenon
  <2> QED
    BY <2>1, <2>2, Zenon
<1>4. (ptr + o) \div p = y
  BY <1>3, PageIs
<1>5. CASE v + r < p
  <2>1. PICK x \in Nat, q \in 0 .. p - 1 : x = ptr + d /\ q = v + r /\ x = w + q
    BY <1>1, <1>3, <1>5
  <2>2. x \div p = y
    BY <1>3, <2>1, PageIs
  <2> QED
    BY <1>2, <1>4, <2>1, <2>2, Zenon
<1>6. CASE v + r >= p
  <2>1. PICK z \in Nat, c \in Nat : z = y + 1 /\ c = z * p /\ c = w + p
    BY <1>3
  <2>2. (ptr + d) \div p = z
    <3>1. PICK x \in Nat, q \in 0 .. p - 1 : x = ptr + d /\ q = v + r - p /\ x = c + q
      BY <1>1, <1>3, <1>6, <2>1
    <3> QED
      BY <2>1, <3>1, PageIs
  <2>3. CASE o + p <= n - 1
    <3>1. PICK b \in Nat, a \in Nat : b = s + 1 /\ a = b * p /\ a = o + p
      BY <1>1
    <3>2. a % p = 0 /\ a \in 0 .. n - 1
      BY <2>3, <3>1, MulDiv
    <3>3. (ptr + a) \div p = z
      <4>1. PICK x \in Nat : x = ptr + a /\ x = c + v
        BY <1>3, <2>1, <3>1
      <4> QED
        BY <1>3, <2>1, <4>1, PageIs
    <3> QED
      BY <2>2, <3>2, <3>3, Zenon
  <2>4. CASE o + p > n - 1
    <3>1. PICK x \in Nat, q \in 0 .. p - 1 : x = ptr + n - 1 /\ q = v + (n - 1 - o) - p /\ x = c + q
      BY <1>1, <1>3, <1>6, <2>1, <2>4
    <3>2. x \div p = z
      BY <2>1, <3>1, PageIs
    <3> QED
      BY <2>2, <3>1, <3>2
  <2> QED
    BY <1>1, <2>3, <2>4
<1> QED
  BY <1>1, <1>3, <1>5, <1>6

(* The count and the size of slots that SlotSpec::resolve carves. *)
CarvedSlots(spec, len, al, count, cap) ==
  /\ ResolveSlots(spec, len, al) = Carved(count, cap)
  /\ count * cap <= len
  /\ cap % al = 0
  /\ spec.by = "Count" => count = spec.n /\ spec.n * (cap + al) > len
  /\ spec.by = "Size" => /\ cap <= spec.n /\ cap + al > spec.n
                         /\ (count + 1) * cap > len

(* What SlotSpec::resolve answers.                                         *)
LEMMA SlotsAre ==
  ASSUME NEW spec, spec.by \in {"Count", "Size"}, spec.n \in Nat \ {0},
         NEW len \in Nat, NEW al \in Nat \ {0}
  PROVE  \/ /\ ResolveSlots(spec, len, al) = Err("ZeroUsableSlots")
            /\ \/ spec.by = "Count" /\ spec.n * al > len
               \/ spec.by = "Size" /\ spec.n < al
         \/ /\ ResolveSlots(spec, len, al) = Err("SlotSizeExceedsBacking")
            /\ spec.n > len
         \/ \E count, cap \in Nat \ {0} : CarvedSlots(spec, len, al, count, cap)
<1>1. PICK n \in Nat \ {0} : n = spec.n /\ spec.by \in {"Count", "Size"}
  OBVIOUS
<1>2. CASE spec.by = "Count"
  <2>1. PICK q \in Nat : /\ q = len \div n /\ q * n <= len
                         /\ \A m \in Nat : q < m => len < n * m
    BY DivRoundsDown
  <2>2. PICK d \in Nat : d = align_down(q, al) /\ d <= q /\ q < d + al /\ d % al = 0
    BY AlignDownIs, Zenon
  <2>3. len < n * (d + al)
    BY <2>1, <2>2
  <2>4. CASE d = 0
    <3>1. ResolveSlots(spec, len, al) = Err("ZeroUsableSlots")
      BY <1>1, <1>2, <2>1, <2>2, <2>4 DEF ResolveSlots
    <3>2. d + al = al
      BY <2>4
    <3> QED
      BY <1>1, <1>2, <2>3, <3>1, <3>2
  <2>5. CASE d # 0
    <3>1. ResolveSlots(spec, len, al) = Carved(n, d)
      BY <1>1, <1>2, <2>1, <2>2, <2>5 DEF ResolveSlots
    <3>2. n * d <= len
      <4>1. n * d <= n * q /\ n * q = q * n /\ n * d \in Nat
        BY <2>1, <2>2
      <4> QED
        BY <2>1, <4>1
    <3> QED
      BY <1>1, <1>2, <2>2, <2>3, <2>5, <3>1, <3>2 DEF CarvedSlots
  <2> QED
    BY <2>4, <2>5
<1>3. CASE spec.by = "Size"
  <2>1. spec.by # "Count"
    BY <1>3
  <2>2. PICK d \in Nat : d = align_down(n, al) /\ d <= n /\ n < d + al /\ d % al = 0
    BY AlignDownIs, Zenon
  <2>3. CASE d = 0
    <3>1. ResolveSlots(spec, len, al) = Err("ZeroUsableSlots")
      BY <1>1, <2>1, <2>2, <2>3 DEF ResolveSlots
    <3> QED
      BY <1>1, <1>3, <2>2, <2>3, <3>1
  <2>4. CASE d # 0 /\ d > len
    <3>1. ResolveSlots(spec, len, al) = Err("SlotSizeExceedsBacking")
      BY <1>1, <2>1, <2>2, <2>4 DEF ResolveSlots
    <3> QED
      BY <1>1, <2>2, <2>4, <3>1
  <2>5. CASE d # 0 /\ d <= len
    <3>1. PICK q \in Nat : q = len \div d /\ q * d <= len /\ len < (q + 1) * d
      BY <2>5, DivRoundsDown
    <3>2. q # 0
      <4>1. ASSUME q = 0 PROVE FALSE
        <5>1. (q + 1) * d = d
          BY <4>1
        <5> QED
          BY <2>5, <3>1, <5>1
      <4> QED
        BY <4>1
    <3>3. ResolveSlots(spec, len, al) = Carved(q, d)
      <4>1. ~ (d > len)
        BY <2>5
      <4> QED
        BY <1>1, <2>1, <2>2, <2>5, <3>1, <4>1 DEF ResolveSlots
    <3> QED
      BY <1>1, <2>1, <2>2, <2>5, <3>1, <3>2, <3>3 DEF CarvedSlots
  <2>6. d = 0 \/ (d # 0 /\ d > len) \/ (d # 0 /\ d <= len)
    BY <2>2
  <2> QED
    BY <2>3, <2>4, <2>5, <2>6, Zenon
<1> QED
  BY <1>1, <1>2, <1>3

(* What order_for_request answers: the order of the smallest block that    *)
(* holds the request, if one does.                                         *)
LEMMA OrderIs ==
  ASSUME NEW i \in 0 .. Bits - 1, NEW k \in 0 .. Bits - 1, i + k <= Bits - 1,
         NEW len \in Nat, len <= Pow2(Bits - 1)
  PROVE  /\ len > Pow2(i + k) => order_for_request(len, Pow2(i), Pow2(i + k)) = None
         /\ len <= Pow2(i + k) =>
              \E a \in i .. i + k :
                /\ order_for_request(len, Pow2(i), Pow2(i + k)) = a - i
                /\ len <= Pow2(a)
                /\ a > i => Pow2(a - 1) < len
<1>1. PICK m \in Nat \ {0}, u \in Nat \ {0} :
        m = Pow2(i) /\ u = Pow2(i + k) /\ m <= u /\ m <= Pow2(Bits - 1) /\ u \in PowersOfTwo
  <2>1. i + k \in 0 .. Bits - 1 /\ i \in 0 .. Bits /\ i + k \in 0 .. Bits /\ i <= i + k
    BY BitsAssumption
  <2> QED
    BY <2>1, Pow2Size, Pow2Order
<1>2. PICK t \in Nat : t = IF len < m THEN m ELSE len
  BY <1>1
<1>3. t <= Pow2(Bits - 1) /\ len <= t /\ m <= t /\ t \in {len, m}
  BY <1>1, <1>2
<1>4. PICK s \in PowersOfTwo :
        s = NextPowerOfTwo(t) /\ t <= s /\ \A q \in PowersOfTwo : t <= q => s <= q
  BY <1>2, <1>3, NextPowerIs
<1>5. PICK a \in 0 .. Bits - 1 : s = Pow2(a) /\ s \in Nat \ {0} /\ s # 0
  BY PowerSize
<1>6. a \in 0 .. Bits /\ a \in Nat /\ i \in 0 .. Bits /\ i \in Nat /\ i + k \in 0 .. Bits
      /\ Bits \in Nat
  BY BitsAssumption
<1>7. i <= a
  <2>1. Pow2(i) <= Pow2(a)
    BY <1>1, <1>2, <1>3, <1>4, <1>5
  <2> QED
    BY <1>6, <2>1, Pow2Order
<1>8. order_for_request(len, Pow2(i), Pow2(i + k)) =
        IF s > u THEN None ELSE TrailingZeros(s) - TrailingZeros(m)
  BY <1>1, <1>2, <1>4, <1>5 DEF order_for_request, RequestSize
<1>9. len > u => s > u
  BY <1>1, <1>2, <1>3, <1>4, <1>5
<1>10. ASSUME len <= u
       PROVE  \E b \in i .. i + k :
                /\ order_for_request(len, Pow2(i), Pow2(i + k)) = b - i
                /\ len <= Pow2(b)
                /\ b > i => Pow2(b - 1) < len
  <2>1. s <= u
    BY <1>1, <1>2, <1>3, <1>4, <1>10
  <2>2. a <= i + k
    BY <1>1, <1>5, <1>6, <2>1, Pow2Order
  <2>3. order_for_request(len, Pow2(i), Pow2(i + k)) = a - i
    <3>1. ~ (s > u)
      BY <1>1, <1>5, <2>1
    <3>2. TrailingZeros(s) = a /\ TrailingZeros(m) = i
      BY <1>1, <1>5, TrailingZerosIs
    <3> QED
      BY <1>8, <3>1, <3>2
  <2>4. ASSUME a > i PROVE Pow2(a - 1) < len
    <3>1. PICK c \in 0 .. Bits - 1 : c = a - 1 /\ c + 1 = a /\ i <= c
      BY <1>6, <2>4
    <3>2. PICK p \in Nat \ {0} : p = Pow2(c) /\ p \in PowersOfTwo /\ s = 2 * p
      BY <1>5, <3>1, Pow2Size, Pow2Double
    <3>3. m <= p
      BY <1>1, <1>6, <3>1, <3>2, Pow2Order, Pow2Size
    <3>4. ~ (t <= p)
      BY <1>4, <1>5, <3>2
    <3> QED
      BY <1>1, <1>2, <3>1, <3>2, <3>3, <3>4
  <2>5. len <= Pow2(a)
    BY <1>2, <1>3, <1>4, <1>5
  <2> QED
    BY <1>6, <1>7, <2>2, <2>3, <2>4, <2>5
<1> QED
  BY <1>1, <1>8, <1>9, <1>10

(* Only above half of the address space does next_power_of_two overflow,   *)
(* and with it the order is one that no arena has.                         *)
LEMMA OrderBeyond ==
  ASSUME NEW i \in 0 .. Bits - 1, NEW k \in 0 .. Bits - 1, i + k <= Bits - 1, NEW len \in Nat
  PROVE  /\ len <= Pow2(Bits - 1) => ~ RequestPanics(len, Pow2(i))
         /\ len > Pow2(Bits - 1) => order_for_request(len, Pow2(i), Pow2(i + k)) \notin 0 .. k
<1>1. PICK m \in Nat \ {0}, u \in Nat \ {0} : m = Pow2(i) /\ u = Pow2(i + k) /\ m <= Pow2(Bits - 1)
  <2>1. i + k \in 0 .. Bits - 1
    BY BitsAssumption
  <2> QED
    BY <2>1, Pow2Size
<1>2. PICK t \in Nat : t = IF len < m THEN m ELSE len
  BY <1>1
<1>3. RequestSize(len, Pow2(i)) = NextPowerOfTwo(t)
  BY <1>1, <1>2 DEF RequestSize
<1>4. ASSUME len <= Pow2(Bits - 1)
      PROVE  ~ RequestPanics(len, Pow2(i))
  <2>1. t <= Pow2(Bits - 1)
    BY <1>1, <1>2, <1>4
  <2>2. NextPowerOfTwo(t) \in PowersOfTwo
    BY <2>1, NextPowerIs
  <2> QED
    BY <1>3, <2>2, PowerSize DEF RequestPanics
<1>5. ASSUME len > Pow2(Bits - 1)
      PROVE  order_for_request(len, Pow2(i), Pow2(i + k)) \notin 0 .. k
  <2>1. t > Pow2(Bits - 1)
    BY <1>1, <1>2, <1>5, PowersAre
  <2>2. RequestSize(len, Pow2(i)) = 0
    BY <1>3, <2>1, NextPowerIs
  <2>3. order_for_request(len, Pow2(i), Pow2(i + k)) = TrailingZeros(0) - TrailingZeros(Pow2(i))
    BY <1>1, <2>2 DEF order_for_request
  <2>4. TrailingZeros(0) = Bits /\ TrailingZeros(Pow2(i)) = i
    BY TrailingZerosIs DEF TrailingZeros
  <2> QED
    BY <2>3, <2>4, BitsAssumption
<1> QED
  BY <1>4, <1>5

=============================================================================
