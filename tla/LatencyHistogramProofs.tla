----------------------- MODULE LatencyHistogramProofs ------------------------
(***************************************************************************)
(* The buckets of a latency histogram, for every width and every number of *)
(* octaves: every value has one, larger values have none that is smaller,  *)
(* and what a bucket reports is close to each of its values.  Induction    *)
(* goes through the least element of a set of numbers.                     *)
(***************************************************************************)
EXTENDS LatencyHistogram, WellFoundedInduction, TLAPS

(* Every non-empty set of natural numbers has a least element; the         *)
(* inductions below look at the least number for which a fact fails.       *)
LEMMA LeastNumber ==
  ASSUME NEW T \in SUBSET Nat, T # {}
  PROVE  \E m \in T : \A k \in T : m <= k
<1> DEFINE R == OpToRel(<, Nat)
<1>1. IsWellFoundedOn(R, Nat)
  BY NatLessThanWellFounded
<1>2. \A p, q \in Nat : p < q => <<p, q>> \in R
  BY DEF OpToRel
<1> HIDE DEF R
<1>3. PICK m \in T : \A k \in T : ~(<<k, m>> \in R)
  BY <1>1, WFMin
<1>4. ASSUME NEW k \in T PROVE m <= k
  <2>1. m \in Nat /\ k \in Nat
    OBVIOUS
  <2>2. ~(k < m)
    BY <1>2, <1>3, <2>1
  <2> QED
    BY <2>1, <2>2
<1> QED
  BY <1>4

(* What holds of 0, and of the next number whenever it holds of one, holds *)
(* up to n.                                                                *)
LEMMA Ascend ==
  ASSUME NEW n \in Nat, NEW Good \in SUBSET Nat,
         0 \in Good, \A i \in 1 .. n : i - 1 \in Good => i \in Good
  PROVE  0 .. n \subseteq Good
<1> DEFINE Bad == (0 .. n) \ Good
<1> SUFFICES ASSUME Bad # {} PROVE FALSE
  OBVIOUS
<1>1. Bad \in SUBSET Nat
  OBVIOUS
<1> HIDE DEF Bad
<1>2. PICK m \in Bad : \A k \in Bad : m <= k
  BY <1>1, LeastNumber
<1>3. m \in 0 .. n /\ m \notin Good
  BY DEF Bad
<1>4. m \in 1 .. n /\ m - 1 \in 0 .. n
  BY <1>3
<1>5. m - 1 \notin Bad
  BY <1>2, <1>4
<1>6. m - 1 \in Good
  BY <1>4, <1>5 DEF Bad
<1> QED
  BY <1>3, <1>4, <1>6
-----------------------------------------------------------------------------
(* t is the running total over f.                                          *)
IsTotal(t, f, n) ==
  /\ t \in [0 .. n -> Nat] /\ t[0] = f[0]
  /\ \A i \in 1 .. n : t[i] = t[i - 1] + f[i]

(* One turn of the loop that makes it.                                     *)
TotalStep(g, f, i) == (IF i = 0 THEN 0 ELSE g[i - 1]) + f[i]

(* There is one.                                                           *)
LEMMA TotalsExist ==
  ASSUME NEW n \in Nat, NEW f \in [0 .. n -> Nat]
  PROVE  \E g \in [0 .. n -> Nat] : g = [i \in 0 .. n |-> TotalStep(g, f, i)]
<1> DEFINE Good == {k \in 0 .. n : \E g \in [0 .. k -> Nat] :
                                     g = [i \in 0 .. k |-> TotalStep(g, f, i)]}
<1>1. 0 \in Good
  <2> DEFINE g == [i \in 0 .. 0 |-> f[0]]
  <2>1. g \in [0 .. 0 -> Nat]
    OBVIOUS
  <2>2. g = [i \in 0 .. 0 |-> TotalStep(g, f, i)]
    BY DEF TotalStep
  <2> QED
    BY <2>1, <2>2
<1>2. ASSUME NEW m \in 1 .. n, m - 1 \in Good PROVE m \in Good
  <2>1. PICK g \in [0 .. m - 1 -> Nat] : g = [i \in 0 .. m - 1 |-> TotalStep(g, f, i)]
    BY <1>2
  <2> DEFINE h == [i \in 0 .. m |-> IF i = m THEN g[m - 1] + f[m] ELSE g[i]]
  <2>2. h \in [0 .. m -> Nat]
    OBVIOUS
  <2>3. ASSUME NEW i \in 0 .. m PROVE h[i] = TotalStep(h, f, i)
    <3>1. CASE i = m
      <4>1. h[i] = g[m - 1] + f[m] /\ h[m - 1] = g[m - 1]
        BY <3>1
      <4> QED
        BY <3>1, <4>1 DEF TotalStep
    <3>2. CASE i \in 1 .. m - 1
      <4>1. h[i] = g[i] /\ h[i - 1] = g[i - 1]
        BY <3>2
      <4>2. g[i] = TotalStep(g, f, i)
        <5>1. i \in 0 .. m - 1
          BY <3>2
        <5> QED
          BY <2>1, <5>1, Zenon
      <4> HIDE DEF h
      <4> QED
        BY <3>2, <4>1, <4>2 DEF TotalStep
    <3>3. CASE i = 0
      <4>1. h[0] = g[0] /\ 0 \in 0 .. m - 1
        BY <3>3
      <4>2. g[0] = TotalStep(g, f, 0)
        BY <2>1, <4>1
      <4> HIDE DEF h
      <4> QED
        BY <3>3, <4>1, <4>2 DEF TotalStep
    <3> QED
      BY <3>1, <3>2, <3>3
  <2>4. h = [i \in 0 .. m |-> TotalStep(h, f, i)]
    BY <2>3
  <2> HIDE DEF h
  <2>5. \E k \in [0 .. m -> Nat] : k = [i \in 0 .. m |-> TotalStep(k, f, i)]
    BY <2>2, <2>4, Zenon
  <2>6. m \in 0 .. n
    OBVIOUS
  <2> QED
    BY <2>5, <2>6, Zenon
<1>3. Good \in SUBSET Nat
  OBVIOUS
<1>4. 0 .. n \subseteq Good
  <2> HIDE DEF Good
  <2> QED
    BY <1>1, <1>2, <1>3, Ascend
<1>5. n \in Good
  <2> HIDE DEF Good
  <2> QED
    BY <1>4
<1> QED
  BY <1>5

(* Totals() is a running total, of natural numbers.                        *)
LEMMA TotalsRun ==
  ASSUME NEW n \in Nat, NEW f \in [0 .. n -> Nat]
  PROVE  IsTotal(Totals(f, n), f, n)
<1>1. PICK g \in [0 .. n -> Nat] : g = [i \in 0 .. n |-> TotalStep(g, f, i)]
  BY TotalsExist
<1>2. g = [i \in 0 .. n |-> (IF i = 0 THEN 0 ELSE g[i - 1]) + f[i]]
  BY <1>1 DEF TotalStep
<1> DEFINE t == Totals(f, n)
<1>3. t = [i \in 0 .. n |-> (IF i = 0 THEN 0 ELSE t[i - 1]) + f[i]]
  BY <1>2 DEF Totals
<1> HIDE DEF t
<1>4. t[0] = f[0] /\ \A i \in 1 .. n : t[i] = t[i - 1] + f[i]
  BY <1>3
<1> DEFINE Good == {i \in 0 .. n : t[i] \in Nat}
<1>5. 0 \in Good /\ \A i \in 1 .. n : i - 1 \in Good => i \in Good
  <2>1. 0 \in 0 .. n /\ t[0] \in Nat
    BY <1>4
  <2>2. ASSUME NEW i \in 1 .. n, i - 1 \in Good PROVE i \in Good
    <3>1. t[i - 1] \in Nat /\ f[i] \in Nat /\ t[i] = t[i - 1] + f[i]
      BY <1>4, <2>2
    <3>2. t[i] \in Nat
      BY ONLY <3>1
    <3> QED
      BY <3>2
  <2> QED
    BY <2>1, <2>2
<1>6. 0 .. n \subseteq Good
  <2>1. Good \in SUBSET Nat
    OBVIOUS
  <2> HIDE DEF Good
  <2> QED
    BY <1>5, <2>1, Ascend
<1>7. t \in [0 .. n -> Nat]
  BY <1>3, <1>6
<1> QED
  BY <1>4, <1>7 DEF IsTotal, t

(* It never falls, and covers each of the numbers it is made of.           *)
LEMMA TotalsGrow ==
  ASSUME NEW n \in Nat, NEW f \in [0 .. n -> Nat], NEW t, IsTotal(t, f, n)
  PROVE  \A i, j \in 0 .. n : /\ i <= j => t[i] <= t[j]
                              /\ f[i] <= t[i]
                              /\ i < j => t[i] + f[j] <= t[j]
<1>1. ASSUME NEW i \in 0 .. n
      PROVE  \A j \in 0 .. n : i <= j => t[i] <= t[j]
  <2> DEFINE Good == {j \in 0 .. n : i <= j => t[i] <= t[j]}
  <2>1. 0 \in Good
    BY DEF IsTotal
  <2>2. ASSUME NEW j \in 1 .. n, j - 1 \in Good PROVE j \in Good
    <3>1. t[j] = t[j - 1] + f[j] /\ f[j] \in Nat /\ t[j - 1] \in Nat /\ t[i] \in Nat
          /\ t[j] \in Nat
      BY DEF IsTotal
    <3>2. CASE i = j
      BY <3>1, <3>2
    <3>3. CASE i # j
      BY <3>1, <3>3, <2>2
    <3> QED
      BY <3>2, <3>3
  <2>3. 0 .. n \subseteq Good
    <3>1. Good \in SUBSET Nat
      OBVIOUS
    <3> HIDE DEF Good
    <3> QED
      BY <2>1, <2>2, <3>1, Ascend
  <2> QED
    BY <2>3
<1>2. \A i \in 0 .. n : f[i] <= t[i]
  <2> SUFFICES ASSUME NEW i \in 0 .. n PROVE f[i] <= t[i]
    OBVIOUS
  <2>1. CASE i = 0
    BY <2>1 DEF IsTotal
  <2>2. CASE i \in 1 .. n
    <3>1. t[i] = t[i - 1] + f[i] /\ f[i] \in Nat /\ t[i - 1] \in Nat
      BY <2>2 DEF IsTotal
    <3> QED
      BY <3>1
  <2> QED
    BY <2>1, <2>2
<1>3. ASSUME NEW i \in 0 .. n, NEW j \in 0 .. n, i < j PROVE t[i] + f[j] <= t[j]
  <2>1. j \in 1 .. n /\ j - 1 \in 0 .. n /\ i <= j - 1
    BY <1>3
  <2>2. t[j] = t[j - 1] + f[j] /\ f[j] \in Nat /\ t[j - 1] \in Nat /\ t[i] \in Nat
    BY <2>1 DEF IsTotal
  <2>3. t[i] <= t[j - 1]
    BY <2>1, <1>1
  <2> QED
    BY <2>2, <2>3
<1> QED
  BY <1>1, <1>2, <1>3

(* g is f with one more at x; s is the sum of f and g.                     *)
IsOneMore(g, f, x, n) == \A i \in 0 .. n : g[i] = IF i = x THEN f[i] + 1 ELSE f[i]
IsSum(s, f, g, n) == \A i \in 0 .. n : s[i] = f[i] + g[i]

(* u is one above t from x on.                                             *)
IsAbove(u, t, x, n) == \A i \in 0 .. n : u[i] = IF x <= i THEN t[i] + 1 ELSE t[i]

(* One more at x is one more from x on.                                    *)
LEMMA TotalsOfOneMore ==
  ASSUME NEW n \in Nat, NEW f \in [0 .. n -> Nat], NEW t, IsTotal(t, f, n),
         NEW x \in 0 .. n, NEW g, IsOneMore(g, f, x, n), NEW u, IsTotal(u, g, n)
  PROVE  IsAbove(u, t, x, n)
<1> DEFINE Good == {i \in 0 .. n : u[i] = IF x <= i THEN t[i] + 1 ELSE t[i]}
<1>1. \A i \in 0 .. n : g[i] = IF i = x THEN f[i] + 1 ELSE f[i]
  BY DEF IsOneMore
<1>2. IsTotal(u, g, n)
  OBVIOUS
<1>3. 0 \in Good
  BY <1>1, <1>2 DEF IsTotal
<1>4. ASSUME NEW i \in 1 .. n, i - 1 \in Good PROVE i \in Good
  <2>1. u[i] = u[i - 1] + g[i]
    BY <1>2 DEF IsTotal
  <2>0. t[i] = t[i - 1] + f[i] /\ f[i] \in Nat /\ t[i - 1] \in Nat
    BY DEF IsTotal
  <2>2. u[i - 1] = IF x <= i - 1 THEN t[i - 1] + 1 ELSE t[i - 1]
    BY <1>4
  <2>3. g[i] = IF i = x THEN f[i] + 1 ELSE f[i]
    BY <1>1
  <2>4. u[i] = IF x <= i THEN t[i] + 1 ELSE t[i]
    <3>1. CASE i = x
      <4>1. u[i - 1] = t[i - 1] /\ g[i] = f[i] + 1
        BY <2>2, <2>3, <3>1
      <4>2. u[i] = t[i] + 1
        BY <2>0, <2>1, <4>1
      <4> QED
        BY <3>1, <4>2
    <3>2. CASE i # x
      BY <2>0, <2>1, <2>2, <2>3, <3>2
    <3> QED
      BY <3>1, <3>2
  <2> QED
    BY <2>4
<1>5. 0 .. n \subseteq Good
  <2>1. Good \in SUBSET Nat
    OBVIOUS
  <2> HIDE DEF Good
  <2> QED
    BY <1>3, <1>4, <2>1, Ascend
<1> QED
  BY <1>5 DEF IsAbove

(* The total of sums is the sum of the totals.                             *)
LEMMA TotalsOfSums ==
  ASSUME NEW n \in Nat, NEW f \in [0 .. n -> Nat], NEW g \in [0 .. n -> Nat],
         NEW s, IsSum(s, f, g, n),
         NEW t, IsTotal(t, f, n), NEW u, IsTotal(u, g, n), NEW w, IsTotal(w, s, n)
  PROVE  IsSum(w, t, u, n)
<1> DEFINE Good == {i \in 0 .. n : w[i] = t[i] + u[i]}
<1>0. IsTotal(w, s, n) /\ \A i \in 0 .. n : s[i] = f[i] + g[i]
  BY DEF IsSum
<1>1. 0 \in Good
  BY <1>0 DEF IsTotal
<1>2. ASSUME NEW i \in 1 .. n, i - 1 \in Good PROVE i \in Good
  <2>1. /\ w[i] = w[i - 1] + (f[i] + g[i]) /\ t[i] = t[i - 1] + f[i]
        /\ u[i] = u[i - 1] + g[i]
        /\ f[i] \in Nat /\ t[i - 1] \in Nat /\ g[i] \in Nat /\ u[i - 1] \in Nat
    BY <1>0 DEF IsTotal
  <2>2. w[i - 1] = t[i - 1] + u[i - 1]
    BY <1>2
  <2>3. w[i] = t[i] + u[i]
    BY <2>1, <2>2
  <2> QED
    BY <2>3
<1>3. 0 .. n \subseteq Good
  <2>1. Good \in SUBSET Nat
    OBVIOUS
  <2> HIDE DEF Good
  <2> QED
    BY <1>1, <1>2, <2>1, Ascend
<1> QED
  BY <1>3 DEF IsSum

(* The total of zeros is zero.                                             *)
LEMMA TotalsOfNothing ==
  ASSUME NEW n \in Nat, NEW t, IsTotal(t, [i \in 0 .. n |-> 0], n)
  PROVE  \A i \in 0 .. n : t[i] = 0
<1> DEFINE Good == {i \in 0 .. n : t[i] = 0}
<1>1. 0 \in Good /\ \A i \in 1 .. n : i - 1 \in Good => i \in Good
  BY DEF IsTotal
<1>2. 0 .. n \subseteq Good
  <2>1. Good \in SUBSET Nat
    OBVIOUS
  <2> HIDE DEF Good
  <2> QED
    BY <1>1, <2>1, Ascend
<1> QED
  BY <1>2
-----------------------------------------------------------------------------
(* The largest shift.                                                      *)
TopShift == SubBucketBits + Octaves + 1

(* The constants, as the shifts use them.                                  *)
LEMMA Shifts == /\ SubBucketBits \in Nat \ {0} /\ Octaves \in Nat \ {0}
                /\ TopShift \in Nat /\ SubBucketBits + 1 <= TopShift
BY HistogramAssumption DEF TopShift

(* The powers of two up to the largest shift exist.                        *)
LEMMA PowersExist ==
  \E g : g = [i \in 0 .. TopShift |-> IF i = 0 THEN 1 ELSE 2 * g[i - 1]]
<1> DEFINE Power(g, k) == [i \in 0 .. k |-> IF i = 0 THEN 1 ELSE 2 * g[i - 1]]
           Good == {k \in 0 .. TopShift : \E g : g = Power(g, k)}
<1> USE Shifts
<1>1. 0 \in Good
  <2> DEFINE g == [i \in 0 .. 0 |-> 1]
  <2>1. g = Power(g, 0)
    OBVIOUS
  <2> HIDE DEF g, Power
  <2>2. \E k : k = Power(k, 0)
    BY <2>1
  <2>3. 0 \in 0 .. TopShift
    OBVIOUS
  <2> QED
    BY <2>2, <2>3, Zenon
<1>2. ASSUME NEW m \in 1 .. TopShift, m - 1 \in Good PROVE m \in Good
  <2>1. PICK g : g = Power(g, m - 1)
    BY <1>2
  <2> DEFINE h == [i \in 0 .. m |-> IF i = m THEN 2 * g[m - 1] ELSE g[i]]
  <2>2. h[m] = 2 * g[m - 1] /\ \A i \in 0 .. m - 1 : h[i] = g[i]
    OBVIOUS
  <2>3. \A i \in 0 .. m - 1 : g[i] = IF i = 0 THEN 1 ELSE 2 * g[i - 1]
    BY <2>1
  <2>4. ASSUME NEW i \in 0 .. m PROVE h[i] = IF i = 0 THEN 1 ELSE 2 * h[i - 1]
    <3> HIDE DEF h
    <3>1. CASE i = m
      BY <3>1, <2>2
    <3>2. CASE i \in 1 .. m - 1
      <4>1. i \in 0 .. m - 1 /\ i - 1 \in 0 .. m - 1
        BY <3>2
      <4> QED
        BY <3>2, <4>1, <2>2, <2>3
    <3>3. CASE i = 0
      <4>1. i \in 0 .. m - 1
        BY <3>3
      <4> QED
        BY <3>3, <4>1, <2>2, <2>3
    <3> QED
      BY <3>1, <3>2, <3>3
  <2>5. h = Power(h, m)
    BY <2>4
  <2> HIDE DEF h, Power
  <2>6. \E k : k = Power(k, m)
    BY <2>5
  <2>7. m \in 0 .. TopShift
    OBVIOUS
  <2> QED
    BY <2>6, <2>7, Zenon
<1>3. Good \in SUBSET Nat
  OBVIOUS
<1>4. TopShift \in Good
  <2> HIDE DEF Good
  <2> QED
    BY <1>1, <1>2, <1>3, Ascend
<1> QED
  BY <1>4

(* Each is twice the one before.                                           *)
LEMMA Powers ==
  /\ Pow2[0] = 1
  /\ \A i \in 1 .. TopShift : Pow2[i] = 2 * Pow2[i - 1]
  /\ \A i \in 0 .. TopShift : Pow2[i] \in Nat \ {0}
<1> USE Shifts
<1>1. Pow2 = [i \in 0 .. TopShift |-> IF i = 0 THEN 1 ELSE 2 * Pow2[i - 1]]
  BY PowersExist DEF Pow2, TopShift
<1>2. Pow2[0] = 1 /\ \A i \in 1 .. TopShift : Pow2[i] = 2 * Pow2[i - 1]
  BY <1>1
<1> DEFINE Good == {i \in 0 .. TopShift : Pow2[i] \in Nat \ {0}}
<1>3. 0 \in Good
  BY <1>2
<1>4. ASSUME NEW i \in 1 .. TopShift, i - 1 \in Good PROVE i \in Good
  BY <1>2, <1>4
<1>5. 0 .. TopShift \subseteq Good
  <2>1. Good \in SUBSET Nat
    OBVIOUS
  <2> HIDE DEF Good
  <2> QED
    BY <1>3, <1>4, <2>1, Ascend
<1> QED
  BY <1>2, <1>5

(* A larger shift gives no smaller power.                                  *)
LEMMA PowersGrow ==
  ASSUME NEW i \in 0 .. TopShift, NEW j \in 0 .. TopShift, i <= j
  PROVE  Pow2[i] <= Pow2[j]
<1> DEFINE Good == {k \in 0 .. TopShift : i <= k => Pow2[i] <= Pow2[k]}
<1> USE Shifts
<1>1. 0 \in Good
  BY Powers
<1>2. ASSUME NEW k \in 1 .. TopShift, k - 1 \in Good PROVE k \in Good
  <2>1. Pow2[k] = 2 * Pow2[k - 1] /\ Pow2[k - 1] \in Nat /\ Pow2[i] \in Nat
    BY Powers
  <2> QED
    BY <1>2, <2>1
<1>3. 0 .. TopShift \subseteq Good
  <2>1. Good \in SUBSET Nat
    OBVIOUS
  <2> HIDE DEF Good
  <2> QED
    BY <1>1, <1>2, <2>1, Ascend
<1> QED
  BY <1>3

(* The first power of the octave of a shift.                               *)
LEMMA OctaveStart ==
  ASSUME NEW k \in 0 .. Octaves + 1
  PROVE  Pow2[SubBucketBits + k] = kSubBucketCount * Pow2[k]
<1> DEFINE n == Octaves + 1
           Good == {i \in 0 .. n : Pow2[SubBucketBits + i] = kSubBucketCount * Pow2[i]}
<1> USE Shifts
<1>1. kSubBucketCount \in Nat /\ kSubBucketCount = Pow2[SubBucketBits]
  BY Powers DEF kSubBucketCount, TopShift
<1>2. 0 \in Good
  BY <1>1, Powers
<1>3. ASSUME NEW i \in 1 .. n, i - 1 \in Good PROVE i \in Good
  <2>1. /\ i \in 1 .. TopShift /\ SubBucketBits + i \in 1 .. TopShift /\ i - 1 \in 0 .. TopShift
        /\ SubBucketBits + i - 1 = SubBucketBits + (i - 1)
    BY DEF TopShift
  <2>2. /\ Pow2[i] = 2 * Pow2[i - 1] /\ Pow2[i - 1] \in Nat
        /\ Pow2[SubBucketBits + i] = 2 * Pow2[SubBucketBits + (i - 1)]
    BY <2>1, Powers
  <2>3. Pow2[SubBucketBits + (i - 1)] = kSubBucketCount * Pow2[i - 1]
    BY <1>3
  <2>4. kSubBucketCount * (2 * Pow2[i - 1]) = 2 * (kSubBucketCount * Pow2[i - 1])
    BY <1>1, <2>2
  <2> QED
    BY <2>2, <2>3, <2>4
<1>4. 0 .. n \subseteq Good
  <2>1. Good \in SUBSET Nat /\ n \in Nat
    OBVIOUS
  <2> HIDE DEF Good, n
  <2> QED
    BY <1>2, <1>3, <2>1, Ascend
<1> QED
  BY <1>4
-----------------------------------------------------------------------------
(* Products, in the forms the buckets need them.                           *)
LEMMA Multiples ==
  ASSUME NEW p \in Nat, NEW a \in Int, NEW b \in Int
  PROVE  /\ p * a \in Int /\ p * a = a * p
         /\ p * (a + 1) = p * a + p /\ p * (a - 1) = p * a - p
         /\ p * (a + b) = p * a + p * b
         /\ a <= b => p * a <= p * b
         /\ (p # 0 /\ p * a < p * b + p) => a <= b
<1>1. p * a \in Int /\ p * a = a * p /\ p * (a + 1) = p * a + p
      /\ p * (a - 1) = p * a - p
  OBVIOUS
<1>2. \A c \in Int : p * (a + c) = p * a + p * c
  OBVIOUS
<1>3. ASSUME a <= b PROVE p * a <= p * b
  <2>1. p * (b - a) >= 0
    BY <1>3
  <2>2. p * b = p * a + p * (b - a)
    OBVIOUS
  <2> QED
    BY <1>1, <2>1, <2>2
<1>4. ASSUME p # 0, p * a < p * b + p PROVE a <= b
  <2> SUFFICES ASSUME a >= b + 1 PROVE FALSE
    OBVIOUS
  <2>1. p * (a - (b + 1)) >= 0
    OBVIOUS
  <2>2. p * (a - (b + 1)) = p * a - (p * b + p)
    OBVIOUS
  <2> QED
    BY <1>1, <1>4, <2>1, <2>2
<1> QED
  BY <1>1, <1>2, <1>3, <1>4

(* Division.                                                               *)
LEMMA Quotient ==
  ASSUME NEW p \in Nat \ {0}, NEW v \in Nat
  PROVE  /\ v \div p \in Nat /\ v % p \in 0 .. p - 1
         /\ v = p * (v \div p) + (v % p)
OBVIOUS

(* There is one quotient and one remainder.                                *)
LEMMA OnlyQuotient ==
  ASSUME NEW p \in Nat \ {0}, NEW q \in Nat, NEW r \in 0 .. p - 1
  PROVE  (p * q + r) \div p = q /\ (p * q + r) % p = r
<1> DEFINE v == p * q + r
<1>1. v \in Nat
  OBVIOUS
<1> DEFINE d == v \div p
           m == v % p
<1>2. d \in Nat /\ m \in 0 .. p - 1 /\ v = p * d + m
  BY <1>1, Quotient
<1>3. p * q + r = p * d + m
  BY <1>2
<1> HIDE DEF v, d, m
<1>4. p * q \in Int /\ p * d \in Int
  BY <1>2, Multiples
<1>5. p * q < p * d + p /\ p * d < p * q + p
  BY <1>2, <1>3, <1>4
<1>6. q <= d
  BY <1>2, <1>5, Multiples
<1>7. d <= q
  BY <1>2, <1>5, Multiples
<1>8. q = d /\ r = m
  BY <1>2, <1>3, <1>4, <1>6, <1>7
<1> QED
  BY <1>8 DEF v, d, m
-----------------------------------------------------------------------------
(* The constants of the buckets.                                           *)
LEMMA Widths ==
  /\ kSubBucketCount \in Nat \ {0} /\ kLinearLimit = 2 * kSubBucketCount
  /\ kLinearLimit \in Nat /\ Limit \in Nat /\ kBucketCount \in Nat
  /\ kBucketCount = kSubBucketCount * Octaves + 2 * kSubBucketCount
  /\ kLinearLimit = Pow2[SubBucketBits + 1] /\ kLinearLimit <= kBucketCount
<1> USE Shifts
<1>1. /\ SubBucketBits \in 0 .. TopShift /\ SubBucketBits + 1 \in 1 .. TopShift
      /\ (SubBucketBits + 1) - 1 = SubBucketBits
  OBVIOUS
<1>2. kSubBucketCount \in Nat \ {0} /\ Limit \in Nat
  BY <1>1, Powers DEF kSubBucketCount, Limit, TopShift
<1>3. kLinearLimit = 2 * kSubBucketCount /\ kLinearLimit = Pow2[SubBucketBits + 1]
  BY <1>1, Powers DEF kSubBucketCount, kLinearLimit
<1>4. kSubBucketCount * Octaves \in Nat /\ Octaves * kSubBucketCount = kSubBucketCount * Octaves
  BY <1>2
<1> QED
  BY <1>2, <1>3, <1>4 DEF kBucketCount

(* The leading bit of a value beyond the exact region.                     *)
LEMMA LeadingBit ==
  ASSUME NEW v \in kLinearLimit .. Limit - 1
  PROVE  \E k \in 1 .. Octaves :
           /\ Exponent(v) = SubBucketBits + k
           /\ kSubBucketCount * Pow2[k] <= v /\ v < 2 * (kSubBucketCount * Pow2[k])
<1> USE Shifts, Widths
<1> DEFINE Above == {n \in 0 .. TopShift : v < Pow2[n]}
           e == Exponent(v)
<1>1. Above \in SUBSET Nat /\ TopShift \in Above
  BY DEF Limit, TopShift
<1>2. PICK n \in Above : \A j \in Above : n <= j
  <2> HIDE DEF Above
  <2> QED
    BY <1>1, LeastNumber
<1>3. n \in 0 .. TopShift /\ v < Pow2[n]
  OBVIOUS
<1>4. n # 0
  BY <1>3, Powers
<1>5. n - 1 \in 0 .. TopShift /\ n - 1 \notin Above
  BY <1>2, <1>3, <1>4
<1>6. Pow2[n - 1] <= v
  BY <1>5, Powers
<1>7. \E i \in 0 .. SubBucketBits + Octaves : Pow2[i] <= v /\ v < Pow2[i + 1]
  <2>1. n - 1 \in 0 .. SubBucketBits + Octaves /\ (n - 1) + 1 = n
    BY <1>3, <1>4 DEF TopShift
  <2> QED
    BY <1>3, <1>6, <2>1
<1>8. e \in 0 .. SubBucketBits + Octaves /\ Pow2[e] <= v /\ v < Pow2[e + 1]
  BY <1>7 DEF Exponent
<1> HIDE DEF e
<1>9. e >= SubBucketBits + 1
  <2> SUFFICES ASSUME e + 1 <= SubBucketBits + 1 PROVE FALSE
    BY <1>8
  <2>1. Pow2[e + 1] <= Pow2[SubBucketBits + 1]
    <3>1. e + 1 \in 0 .. TopShift /\ SubBucketBits + 1 \in 0 .. TopShift
      BY <1>8 DEF TopShift
    <3> QED
      BY <3>1, PowersGrow
  <2>2. Pow2[e + 1] \in Nat
    BY <1>8, Powers DEF TopShift
  <2> QED
    BY <1>8, <2>1, <2>2
<1> DEFINE k == e - SubBucketBits
<1>10. k \in 1 .. Octaves /\ e = SubBucketBits + k /\ e + 1 \in 1 .. TopShift /\ (e + 1) - 1 = e
  BY <1>8, <1>9 DEF TopShift
<1> HIDE DEF k
<1>11. Pow2[e] = kSubBucketCount * Pow2[k]
  BY <1>10, OctaveStart
<1>12. Pow2[e + 1] = 2 * Pow2[e]
  BY <1>10, Powers
<1> QED
  BY <1>8, <1>10, <1>11, <1>12 DEF e

(* A value in the bucket d of octave k, kSubBucketCount wide ones to each. *)
Placed(v, k, d) ==
  /\ k \in 1 .. Octaves /\ d \in kSubBucketCount .. 2 * kSubBucketCount - 1
  /\ Pow2[k] * d <= v /\ v < Pow2[k] * d + Pow2[k]

(* Every value beyond the exact region is in one of them.                  *)
LEMMA Place ==
  ASSUME NEW v \in kLinearLimit .. Limit - 1
  PROVE  \E k, d \in Nat : /\ Placed(v, k, d)
                          /\ bucketIndexFor(v) = kSubBucketCount * k + d
<1> USE Shifts, Widths
<1>1. PICK k \in 1 .. Octaves :
        /\ Exponent(v) = SubBucketBits + k
        /\ kSubBucketCount * Pow2[k] <= v /\ v < 2 * (kSubBucketCount * Pow2[k])
  BY LeadingBit
<1> DEFINE B == kSubBucketCount
           P == Pow2[k]
           d == v \div P
<1>2. P \in Nat \ {0} /\ B \in Nat \ {0} /\ v \in Nat
  BY Powers DEF TopShift
<1>3. d \in Nat /\ P * d <= v /\ v < P * d + P
  <2>1. v \div P \in Nat /\ v % P \in 0 .. P - 1 /\ v = P * (v \div P) + (v % P)
    BY <1>2, Quotient
  <2> HIDE DEF P
  <2>2. P * (v \div P) \in Int
    BY <1>2, <2>1, Multiples
  <2> QED
    BY <1>2, <2>1, <2>2
<1>4. P * B <= v /\ v < P * (2 * B)
  <2>1. B * P = P * B /\ 2 * (B * P) = P * (2 * B)
    BY <1>2
  <2> QED
    BY <1>1, <2>1
<1>5. (v \div P) = d
  OBVIOUS
<1> HIDE DEF d, P, B
<1>6. B <= d
  <2>1. P * B < P * d + P
    BY <1>2, <1>3, <1>4, Multiples
  <2> QED
    BY <1>2, <1>3, <2>1, Multiples
<1>7. d <= 2 * B - 1
  <2>1. P * d < P * (2 * B - 1) + P
    <3>1. 2 * B \in Int /\ 2 * B - 1 \in Int /\ (2 * B - 1) + 1 = 2 * B
      BY <1>2
    <3>2. P * (2 * B) = P * (2 * B - 1) + P
      BY <1>2, <3>1, Multiples
    <3> QED
      BY <1>2, <1>3, <1>4, <3>1, <3>2, Multiples
  <2> QED
    BY <1>2, <1>3, <2>1, Multiples
<1>8. d % B = d - B
  <2>1. B * 1 + (d - B) = d /\ d - B \in 0 .. B - 1
    BY <1>2, <1>3, <1>6, <1>7
  <2>2. (B * 1 + (d - B)) % B = d - B
    BY <1>2, <2>1, OnlyQuotient
  <2> QED
    BY <2>1, <2>2
<1>9. Placed(v, k, d)
  BY <1>3, <1>6, <1>7 DEF Placed, P, B
<1>10. bucketIndexFor(v) = 2 * B + (k - 1) * B + (d - B)
  <2>1. Exponent(v) - SubBucketBits = k
    BY <1>1
  <2>2. ~(v < kLinearLimit)
    OBVIOUS
  <2>3. bucketIndexFor(v) = kLinearLimit + (k - 1) * B + ((v \div P) % B)
    BY <2>1, <2>2 DEF bucketIndexFor, P, B
  <2> QED
    BY <1>5, <1>8, <2>3 DEF B
<1>11. 2 * B + (k - 1) * B + (d - B) = B * k + d
  BY <1>2, <1>3
<1> QED
  BY <1>3, <1>9, <1>10, <1>11 DEF B

(* The last value of such a bucket.                                        *)
LEMMA LastOf ==
  ASSUME NEW k \in 1 .. Octaves, NEW d \in kSubBucketCount .. 2 * kSubBucketCount - 1
  PROVE  bucketUpperBound(kSubBucketCount * k + d) = Pow2[k] * d + Pow2[k] - 1
<1> USE Shifts, Widths
<1> DEFINE B == kSubBucketCount
           P == Pow2[k]
           offset == B * k + d - kLinearLimit
<1>1. B \in Nat \ {0} /\ P \in Nat \ {0} /\ k - 1 \in Nat /\ d \in Nat /\ d - B \in 0 .. B - 1
  BY Powers DEF TopShift
<1>2. offset = B * (k - 1) + (d - B)
  BY <1>1, Multiples
<1>3. offset \div B = k - 1 /\ offset % B = d - B
  <2> HIDE DEF offset, B
  <2>1. /\ (B * (k - 1) + (d - B)) \div B = k - 1
        /\ (B * (k - 1) + (d - B)) % B = d - B
    BY <1>1, OnlyQuotient
  <2> QED
    BY <1>2, <2>1
<1>4. ~(B * k + d < kLinearLimit)
  <2>1. B * (k - 1) >= 0 /\ B * (k - 1) \in Int
    BY <1>1
  <2> QED
    BY <1>1, <1>2, <2>1
<1>5. bucketUpperBound(B * k + d)
        = (B + (offset % B)) * Pow2[offset \div B + 1] + Pow2[offset \div B + 1] - 1
  BY <1>4 DEF bucketUpperBound
<1>6. (k - 1) + 1 = k /\ B + (d - B) = d
  BY <1>1
<1>7. bucketUpperBound(B * k + d) = d * P + P - 1
  <2> HIDE DEF offset, B
  <2> QED
    BY <1>3, <1>5, <1>6
<1> QED
  BY <1>1, <1>7, Multiples
-----------------------------------------------------------------------------
(* Every value has a bucket.                                               *)
LEMMA IndexInRange ==
  ASSUME NEW v \in 0 .. Limit - 1
  PROVE  bucketIndexFor(v) \in 0 .. kBucketCount - 1
<1> USE Shifts, Widths
<1>1. CASE v < kLinearLimit
  BY <1>1 DEF bucketIndexFor
<1>2. CASE v >= kLinearLimit
  <2>1. PICK k, d \in Nat : Placed(v, k, d) /\ bucketIndexFor(v) = kSubBucketCount * k + d
    BY <1>2, Place
  <2>2. k <= Octaves /\ k \in Int /\ d \in Nat /\ d <= 2 * kSubBucketCount - 1
    BY <2>1 DEF Placed
  <2>3. kSubBucketCount * k <= kSubBucketCount * Octaves
    BY <2>2, Multiples
  <2>4. kSubBucketCount * k \in Nat /\ kSubBucketCount * Octaves \in Nat
    OBVIOUS
  <2> QED
    BY <2>1, <2>2, <2>3, <2>4
<1> QED
  BY <1>1, <1>2

(* A larger value has no smaller bucket.                                   *)
LEMMA IndexGrows ==
  ASSUME NEW v \in 0 .. Limit - 1, NEW w \in 0 .. Limit - 1, v <= w
  PROVE  bucketIndexFor(v) <= bucketIndexFor(w)
<1> USE Shifts, Widths
<1> DEFINE B == kSubBucketCount
<1>1. CASE w < kLinearLimit
  BY <1>1 DEF bucketIndexFor
<1>2. ASSUME w >= kLinearLimit PROVE bucketIndexFor(w) >= kLinearLimit
  <2>1. PICK l, e \in Nat : Placed(w, l, e) /\ bucketIndexFor(w) = B * l + e
    BY <1>2, Place
  <2>2. B * l >= B * 1 /\ e >= B
    BY <2>1, Multiples DEF Placed
  <2>3. B * l \in Int /\ B * 1 = B
    OBVIOUS
  <2> QED
    BY <2>1, <2>2, <2>3
<1>3. CASE v < kLinearLimit /\ w >= kLinearLimit
  <2>1. bucketIndexFor(w) >= kLinearLimit /\ bucketIndexFor(w) \in Int
    BY <1>2, <1>3, IndexInRange
  <2>2. bucketIndexFor(v) = v
    BY <1>3 DEF bucketIndexFor
  <2> QED
    BY <1>3, <2>1, <2>2
<1>4. CASE v >= kLinearLimit
  <2>1. PICK k, d \in Nat : Placed(v, k, d) /\ bucketIndexFor(v) = B * k + d
    BY <1>4, Place
  <2>2. PICK l, e \in Nat : Placed(w, l, e) /\ bucketIndexFor(w) = B * l + e
    BY <1>4, Place
  <2>3. /\ Pow2[k] \in Nat \ {0} /\ Pow2[l] \in Nat \ {0} /\ k \in 1 .. Octaves /\ l \in 1 .. Octaves
        /\ d \in B .. 2 * B - 1 /\ e \in B .. 2 * B - 1
        /\ Pow2[k] * d <= v /\ v < Pow2[k] * d + Pow2[k]
        /\ Pow2[l] * e <= w /\ w < Pow2[l] * e + Pow2[l]
    BY <2>1, <2>2, Powers DEF Placed, TopShift
  <2>4. B * k \in Int /\ B * l \in Int /\ Pow2[k] * d \in Int /\ Pow2[l] * e \in Int
    BY <2>3, Multiples
  <2>5. k <= l
    <3> SUFFICES ASSUME l + 1 <= k PROVE FALSE
      OBVIOUS
    <3>1. Pow2[l + 1] = 2 * Pow2[l] /\ Pow2[l + 1] <= Pow2[k]
      <4>1. l + 1 \in 1 .. TopShift /\ l + 1 \in 0 .. TopShift /\ k \in 0 .. TopShift /\ (l + 1) - 1 = l
        BY <2>3 DEF TopShift
      <4> QED
        BY <4>1, Powers, PowersGrow
    <3>2. Pow2[k] * B <= Pow2[k] * d
      BY <2>3, Multiples
    <3>3. B * (2 * Pow2[l]) <= B * Pow2[k]
      BY <2>3, <3>1, Multiples
    <3>4. Pow2[l] * e <= Pow2[l] * (2 * B - 1)
      <4>1. 2 * B - 1 \in Int /\ e <= 2 * B - 1 /\ e \in Int
        BY <2>3
      <4> QED
        BY <2>3, <4>1, Multiples
    <3>5. /\ Pow2[l] * (2 * B - 1) = B * (2 * Pow2[l]) - Pow2[l]
          /\ B * Pow2[k] = Pow2[k] * B
          /\ Pow2[k] * B \in Int /\ B * (2 * Pow2[l]) \in Int
      BY <2>3
    <3> HIDE DEF B
    <3> QED
      BY <2>3, <2>4, <3>2, <3>3, <3>4, <3>5
  <2>6. CASE k = l
    <3>1. d <= e
      <4>1. Pow2[k] * d < Pow2[k] * e + Pow2[k]
        BY <2>3, <2>4, <2>6
      <4> QED
        BY <2>3, <4>1, Multiples
    <3> QED
      BY <2>1, <2>2, <2>4, <2>6, <3>1
  <2>7. CASE k + 1 <= l
    <3>1. B * (k + 1) <= B * l /\ B * (k + 1) = B * k + B
      BY <2>3, <2>7, Multiples
    <3> QED
      BY <2>1, <2>2, <2>3, <2>4, <3>1
  <2> QED
    BY <2>3, <2>5, <2>6, <2>7
<1> QED
  BY <1>1, <1>3, <1>4

(* What a bucket reports is not below the value, nor above it by more than *)
(* one part in kSubBucketCount.                                            *)
LEMMA BoundIsClose ==
  ASSUME NEW v \in 0 .. Limit - 1
  PROVE  LET bound == bucketUpperBound(bucketIndexFor(v)) IN
         /\ bound \in Nat /\ v <= bound
         /\ kSubBucketCount * (bound - v) <= v
<1> USE Shifts, Widths
<1> DEFINE B == kSubBucketCount
           bound == bucketUpperBound(bucketIndexFor(v))
<1>1. CASE v < kLinearLimit
  <2>1. bound = v
    BY <1>1 DEF bucketIndexFor, bucketUpperBound
  <2> QED
    BY <2>1
<1>2. CASE v >= kLinearLimit
  <2>1. PICK k, d \in Nat : Placed(v, k, d) /\ bucketIndexFor(v) = B * k + d
    BY <1>2, Place
  <2> DEFINE P == Pow2[k]
  <2>2. /\ P \in Nat \ {0} /\ k \in 1 .. Octaves /\ d \in B .. 2 * B - 1
        /\ P * d <= v /\ v < P * d + P
    BY <2>1, Powers DEF Placed, TopShift
  <2>3. bound = P * d + P - 1
    BY <2>1, <2>2, LastOf
  <2> HIDE DEF bound, P, B
  <2>4. P * d \in Nat /\ B \in Nat \ {0}
    BY <2>2 DEF B
  <2>5. bound - v <= P /\ bound - v \in Int
    BY <2>2, <2>3, <2>4
  <2>6. B * (bound - v) <= B * P /\ P * B <= P * d
    BY <2>2, <2>4, <2>5, Multiples
  <2>7. B * P = P * B /\ P * B \in Int /\ B * (bound - v) \in Int
    BY <2>2, <2>4, <2>5
  <2> QED
    BY <2>2, <2>3, <2>4, <2>6, <2>7 DEF bound, B
<1> QED
  BY <1>1, <1>2

(* For every width of the buckets and every number of octaves: bucket      *)
(* numbers stay inside the array and never fall as values grow, and        *)
(* bucketUpperBound() of a value's bucket is not below the value and above *)
(* it by at most one part in kSubBucketCount.                              *)
THEOREM BucketsAreTight ==
  \A v \in 0 .. Limit - 1 :
    /\ bucketIndexFor(v) \in 0 .. kBucketCount - 1
    /\ \A w \in v .. Limit - 1 : bucketIndexFor(v) <= bucketIndexFor(w)
    /\ v <= bucketUpperBound(bucketIndexFor(v))
    /\ kSubBucketCount * (bucketUpperBound(bucketIndexFor(v)) - v) <= v
<1> TAKE v \in 0 .. Limit - 1
<1>1. \A w \in v .. Limit - 1 : bucketIndexFor(v) <= bucketIndexFor(w)
  <2> TAKE w \in v .. Limit - 1
  <2>1. w \in 0 .. Limit - 1 /\ v <= w
    BY Widths
  <2> QED
    BY <2>1, IndexGrows
<1> QED
  BY <1>1, IndexInRange, BoundIsClose
-----------------------------------------------------------------------------
(* Min() of a set is a member no other is below.                           *)
LEMMA MinIs ==
  ASSUME NEW T \in SUBSET Int, NEW m \in T, \A y \in T : m <= y
  PROVE  Min(T) = m
<1>1. \A x \in T : (\A y \in T : x <= y) => x = m
  OBVIOUS
<1> QED
  BY <1>1 DEF Min

(* The same of the largest.                                                *)
LEMMA MaxIs ==
  ASSUME NEW T \in SUBSET Int, NEW m \in T, \A y \in T : m >= y
  PROVE  Max(T) = m
<1>1. \A x \in T : (\A y \in T : x >= y) => x = m
  OBVIOUS
<1> QED
  BY <1>1 DEF Max

(* Min() and Max() of two numbers.                                         *)
LEMMA OfTwo ==
  ASSUME NEW m \in Int, NEW n \in Int
  PROVE  /\ Max({m, n}) = IF m >= n THEN m ELSE n
         /\ Min({m, n}) = IF m <= n THEN m ELSE n
<1> DEFINE large == IF m >= n THEN m ELSE n
           small == IF m <= n THEN m ELSE n
<1>1. large \in {m, n} /\ small \in {m, n} /\ {m, n} \in SUBSET Int
  OBVIOUS
<1>2. \A y \in {m, n} : large >= y /\ small <= y
  OBVIOUS
<1> HIDE DEF large, small
<1>3. Max({m, n}) = large /\ Min({m, n}) = small
  BY <1>1, <1>2, MinIs, MaxIs
<1> QED
  BY <1>3 DEF large, small
-----------------------------------------------------------------------------
(* What a histogram keeps of the samples it was given, counted by value:   *)
(* up to the last value of a bucket, the running total over the buckets    *)
(* equals that over the samples.  No state of the array alone is           *)
(* inductive for the percentiles; this is, through record() and merge().   *)
Follows(h, counts) ==
  LET seen   == Totals(counts, MaxClock)
      filled == Totals(h.buckets, kBucketCount - 1)
  IN /\ h.count = seen[MaxClock]
     /\ \A v \in 0 .. MaxClock, i \in 0 .. kBucketCount - 1 :
          /\ bucketIndexFor(v) <= i => seen[v] <= filled[i]
          /\ i < bucketIndexFor(v) => filled[i] <= seen[v - 1]
     /\ \A v \in 0 .. MaxClock : counts[v] > 0 => h.min <= v /\ v <= h.max
     /\ h.count = 0 => h.min = Limit /\ h.max = 0
     /\ h.count > 0 =>
          /\ h.min \in 0 .. MaxClock /\ counts[h.min] > 0
          /\ h.max \in 0 .. MaxClock /\ counts[h.max] > 0

(* Every sample fits the buckets.                                          *)
LEMMA ClockFits ==
  /\ MaxClock \in Nat /\ MaxClock < Limit /\ Limit \in Nat /\ kBucketCount - 1 \in Nat
  /\ 0 \in 0 .. MaxClock /\ MaxClock \in 0 .. MaxClock
  /\ \A v \in 0 .. MaxClock : v \in 0 .. Limit - 1
<1>1. kLinearLimit <= kBucketCount /\ kLinearLimit = 2 * kSubBucketCount
      /\ kSubBucketCount \in Nat \ {0} /\ kBucketCount \in Nat /\ Limit \in Nat
  BY Widths
<1> QED
  BY <1>1, SampleAssumption

(* Totals() of the samples and of the buckets.                             *)
LEMMA SeenAndFilled ==
  ASSUME NEW h \in HistogramType, NEW counts \in [0 .. MaxClock -> Nat]
  PROVE  /\ h.buckets \in [0 .. kBucketCount - 1 -> Nat]
         /\ IsTotal(Totals(counts, MaxClock), counts, MaxClock)
         /\ IsTotal(Totals(h.buckets, kBucketCount - 1), h.buckets, kBucketCount - 1)
         /\ Totals(counts, MaxClock) \in [0 .. MaxClock -> Nat]
         /\ Totals(h.buckets, kBucketCount - 1) \in [0 .. kBucketCount - 1 -> Nat]
<1>1. h.buckets \in [0 .. kBucketCount - 1 -> Nat]
  BY DEF HistogramType
<1>2. /\ IsTotal(Totals(counts, MaxClock), counts, MaxClock)
      /\ IsTotal(Totals(h.buckets, kBucketCount - 1), h.buckets, kBucketCount - 1)
  BY <1>1, ClockFits, TotalsRun
<1> QED
  BY <1>1, <1>2 DEF IsTotal

(* A new histogram has none.                                               *)
LEMMA EmptyFollows ==
  /\ Empty \in HistogramType
  /\ [v \in 0 .. MaxClock |-> 0] \in [0 .. MaxClock -> Nat]
  /\ Follows(Empty, [v \in 0 .. MaxClock |-> 0])
<1> DEFINE counts == [v \in 0 .. MaxClock |-> 0]
           seen   == Totals(counts, MaxClock)
           filled == Totals(Empty.buckets, kBucketCount - 1)
<1> USE ClockFits
<1>1. Empty \in HistogramType
  BY DEF Empty, HistogramType
<1>2. /\ counts \in [0 .. MaxClock -> Nat] /\ \A v \in 0 .. MaxClock : counts[v] = 0
      /\ Empty.buckets = [i \in 0 .. kBucketCount - 1 |-> 0]
      /\ Empty.count = 0 /\ Empty.max = 0 /\ Empty.min = Limit
  BY DEF Empty
<1>3. IsTotal(seen, counts, MaxClock) /\ IsTotal(filled, Empty.buckets, kBucketCount - 1)
  BY <1>1, <1>2, SeenAndFilled
<1>4. \A v \in 0 .. MaxClock : seen[v] = 0
  BY <1>3, TotalsOfNothing
<1>5. \A i \in 0 .. kBucketCount - 1 : filled[i] = 0
  BY <1>2, <1>3, TotalsOfNothing
<1>6. ASSUME NEW v \in 0 .. MaxClock, NEW i \in 0 .. kBucketCount - 1,
             i < bucketIndexFor(v)
      PROVE  v - 1 \in 0 .. MaxClock
  BY <1>6, Widths DEF bucketIndexFor
<1> HIDE DEF counts, seen, filled
<1>7. \A v \in 0 .. MaxClock, i \in 0 .. kBucketCount - 1 :
        /\ bucketIndexFor(v) <= i => seen[v] <= filled[i]
        /\ i < bucketIndexFor(v) => filled[i] <= seen[v - 1]
  BY <1>4, <1>5, <1>6
<1>8. Follows(Empty, counts)
  BY <1>2, <1>4, <1>7 DEF Follows, seen, filled
<1> QED
  BY <1>1, <1>2, <1>8 DEF counts

(* What record() makes of a histogram.                                     *)
LEMMA RecordedFields ==
  ASSUME NEW h \in HistogramType, NEW x \in 0 .. MaxClock
  PROVE  /\ record(h, x) \in HistogramType
         /\ record(h, x).buckets = [h.buckets EXCEPT ![bucketIndexFor(x)] = @ + 1]
         /\ record(h, x).count = h.count + 1
         /\ record(h, x).max = (IF h.max >= x THEN h.max ELSE x)
         /\ record(h, x).min = (IF h.min <= x THEN h.min ELSE x)
<1> USE ClockFits
<1>1. Max({x, 0}) = x
  BY OfTwo
<1>2. bucketIndexFor(x) \in 0 .. kBucketCount - 1
  BY IndexInRange
<1>3. /\ h.buckets \in [0 .. kBucketCount - 1 -> Nat]
      /\ h.count \in Nat /\ h.max \in Nat /\ h.min \in 0 .. Limit
  BY DEF HistogramType
<1>4. /\ Max({h.max, x}) = (IF h.max >= x THEN h.max ELSE x)
      /\ Min({h.min, x}) = (IF h.min <= x THEN h.min ELSE x)
  <2>1. h.max \in Int /\ h.min \in Int /\ x \in Int
    BY <1>3
  <2> QED
    BY <2>1, OfTwo
<1> DEFINE at_x == bucketIndexFor(x)
<1>5. record(h, x) = [h EXCEPT !.buckets = [h.buckets EXCEPT ![at_x] = h.buckets[at_x] + 1],
                               !.count = h.count + 1,
                               !.max = Max({h.max, x}), !.min = Min({h.min, x})]
  <2>1. 1 # 0
    OBVIOUS
  <2> QED
    BY <1>1, <2>1, Zenon DEF record, recordMany
<1> DEFINE buckets == [h.buckets EXCEPT ![at_x] = h.buckets[at_x] + 1]
<1>6. buckets \in [0 .. kBucketCount - 1 -> Nat]
  BY <1>2, <1>3
<1>7. /\ (IF h.max >= x THEN h.max ELSE x) \in Nat
      /\ (IF h.min <= x THEN h.min ELSE x) \in 0 .. Limit
  BY <1>3
<1>8. record(h, x) = [h EXCEPT !.buckets = buckets, !.count = h.count + 1,
                               !.max = IF h.max >= x THEN h.max ELSE x,
                               !.min = IF h.min <= x THEN h.min ELSE x]
  BY <1>4, <1>5
<1> HIDE DEF buckets
<1> QED
  <2>1. record(h, x) = [buckets |-> buckets, count |-> h.count + 1,
                        max |-> IF h.max >= x THEN h.max ELSE x,
                        min |-> IF h.min <= x THEN h.min ELSE x]
    BY <1>8 DEF HistogramType
  <2> QED
    BY <1>3, <1>6, <1>7, <2>1 DEF HistogramType, buckets

(* A value beyond a bucket is not the first.                               *)
LEMMA NotFirst ==
  ASSUME NEW v \in 0 .. MaxClock, NEW i \in 0 .. kBucketCount - 1, i < bucketIndexFor(v)
  PROVE  v - 1 \in 0 .. MaxClock /\ v > 0
BY Widths, ClockFits DEF bucketIndexFor

(* record() keeps to the samples.                                          *)
LEMMA RecordFollows ==
  ASSUME NEW h \in HistogramType, NEW counts \in [0 .. MaxClock -> Nat],
         Follows(h, counts), NEW x \in 0 .. MaxClock
  PROVE  /\ [counts EXCEPT ![x] = @ + 1] \in [0 .. MaxClock -> Nat]
         /\ Follows(record(h, x), [counts EXCEPT ![x] = @ + 1])
<1> DEFINE r == record(h, x)
           more == [counts EXCEPT ![x] = @ + 1]
           seen    == Totals(counts, MaxClock)
           filled  == Totals(h.buckets, kBucketCount - 1)
           seen2   == Totals(more, MaxClock)
           filled2 == Totals(r.buckets, kBucketCount - 1)
<1> USE ClockFits
<1>1. /\ r \in HistogramType /\ r.count = h.count + 1
      /\ r.buckets = [h.buckets EXCEPT ![bucketIndexFor(x)] = @ + 1]
      /\ r.max = (IF h.max >= x THEN h.max ELSE x)
      /\ r.min = (IF h.min <= x THEN h.min ELSE x)
  BY RecordedFields
<1>2. /\ more \in [0 .. MaxClock -> Nat]
      /\ \A v \in 0 .. MaxClock : more[v] = IF v = x THEN counts[v] + 1 ELSE counts[v]
  OBVIOUS
<1>3. /\ h.buckets \in [0 .. kBucketCount - 1 -> Nat]
      /\ IsTotal(seen, counts, MaxClock) /\ IsTotal(filled, h.buckets, kBucketCount - 1)
      /\ seen \in [0 .. MaxClock -> Nat] /\ filled \in [0 .. kBucketCount - 1 -> Nat]
      /\ h.count \in Nat /\ h.max \in Nat /\ h.min \in 0 .. Limit
  BY SeenAndFilled DEF HistogramType
<1>4. /\ IsTotal(seen2, more, MaxClock) /\ IsTotal(filled2, r.buckets, kBucketCount - 1)
  <2> HIDE DEF r, more
  <2> QED
    BY <1>1, <1>2, SeenAndFilled
<1>5. \A v \in 0 .. MaxClock : seen2[v] = IF x <= v THEN seen[v] + 1 ELSE seen[v]
  <2> HIDE DEF seen, seen2, more
  <2>1. IsOneMore(more, counts, x, MaxClock)
    BY <1>2 DEF IsOneMore
  <2>2. MaxClock \in Nat /\ counts \in [0 .. MaxClock -> Nat] /\ x \in 0 .. MaxClock
    OBVIOUS
  <2>3. IsTotal(seen, counts, MaxClock) /\ IsTotal(seen2, more, MaxClock)
    BY <1>3, <1>4
  <2>4. IsAbove(seen2, seen, x, MaxClock)
    BY ONLY <2>1, <2>2, <2>3, TotalsOfOneMore
  <2> QED
    BY <2>4 DEF IsAbove
<1>6. bucketIndexFor(x) \in 0 .. kBucketCount - 1
  BY IndexInRange
<1>7. \A i \in 0 .. kBucketCount - 1 :
        filled2[i] = IF bucketIndexFor(x) <= i THEN filled[i] + 1 ELSE filled[i]
  <2> HIDE DEF r, filled, filled2
  <2>1. IsOneMore(r.buckets, h.buckets, bucketIndexFor(x), kBucketCount - 1)
    BY <1>1, <1>3, <1>6 DEF IsOneMore
  <2>2. /\ kBucketCount - 1 \in Nat /\ h.buckets \in [0 .. kBucketCount - 1 -> Nat]
        /\ IsTotal(filled, h.buckets, kBucketCount - 1)
        /\ IsTotal(filled2, r.buckets, kBucketCount - 1)
    BY <1>3, <1>4
  <2>3. IsAbove(filled2, filled, bucketIndexFor(x), kBucketCount - 1)
    BY ONLY <1>6, <2>1, <2>2, TotalsOfOneMore
  <2> QED
    BY <2>3 DEF IsAbove
<1>8. /\ h.count = seen[MaxClock]
      /\ \A v \in 0 .. MaxClock, i \in 0 .. kBucketCount - 1 :
           /\ bucketIndexFor(v) <= i => seen[v] <= filled[i]
           /\ i < bucketIndexFor(v) => filled[i] <= seen[v - 1]
      /\ \A v \in 0 .. MaxClock : counts[v] > 0 => h.min <= v /\ v <= h.max
      /\ h.count = 0 => h.min = Limit /\ h.max = 0
      /\ h.count > 0 =>
           /\ h.min \in 0 .. MaxClock /\ counts[h.min] > 0
           /\ h.max \in 0 .. MaxClock /\ counts[h.max] > 0
  BY DEF Follows
<1> HIDE DEF r, more, seen, filled, seen2, filled2
<1>9. ASSUME NEW v \in 0 .. MaxClock, NEW i \in 0 .. kBucketCount - 1
      PROVE  /\ bucketIndexFor(v) <= i => seen2[v] <= filled2[i]
             /\ i < bucketIndexFor(v) => filled2[i] <= seen2[v - 1]
  <2>1. bucketIndexFor(v) \in Int /\ bucketIndexFor(x) \in Int
    BY <1>6, IndexInRange
  <2>2. /\ x <= v => bucketIndexFor(x) <= bucketIndexFor(v)
        /\ v <= x => bucketIndexFor(v) <= bucketIndexFor(x)
    BY IndexGrows
  <2>3. ASSUME bucketIndexFor(v) <= i PROVE seen2[v] <= filled2[i]
    <3>1. seen[v] <= filled[i] /\ seen[v] \in Nat /\ filled[i] \in Nat
      BY <1>3, <1>8, <2>3
    <3>2. x <= v => bucketIndexFor(x) <= i
      BY <2>1, <2>2, <2>3
    <3> QED
      BY <1>5, <1>7, <3>1, <3>2
  <2>4. ASSUME i < bucketIndexFor(v) PROVE filled2[i] <= seen2[v - 1]
    <3>1. v - 1 \in 0 .. MaxClock
      BY <2>4, NotFirst
    <3>2. filled[i] <= seen[v - 1] /\ seen[v - 1] \in Nat /\ filled[i] \in Nat
      BY <1>3, <1>8, <2>4, <3>1
    <3>3. bucketIndexFor(x) <= i => x <= v - 1
      BY <2>1, <2>2, <2>4
    <3> QED
      BY <1>5, <1>7, <3>1, <3>2, <3>3
  <2> QED
    BY <2>3, <2>4
<1>10. r.count = seen2[MaxClock]
  BY <1>1, <1>5, <1>8
<1>11. \A v \in 0 .. MaxClock : more[v] > 0 => r.min <= v /\ v <= r.max
  <2> SUFFICES ASSUME NEW v \in 0 .. MaxClock, more[v] > 0
               PROVE  r.min <= v /\ v <= r.max
    OBVIOUS
  <2>1. CASE v = x
    BY <1>1, <1>3, <2>1
  <2>2. CASE v # x
    <3>1. h.min <= v /\ v <= h.max
      BY <1>2, <1>8, <2>2
    <3>2. h.min \in Int /\ h.max \in Int
      BY <1>3
    <3> QED
      BY <1>1, <3>1, <3>2
  <2> QED
    BY <2>1, <2>2
<1>12. /\ r.min \in 0 .. MaxClock /\ more[r.min] > 0
       /\ r.max \in 0 .. MaxClock /\ more[r.max] > 0
  <2>1. more[x] > 0 /\ \A v \in 0 .. MaxClock : counts[v] > 0 => more[v] > 0
    BY <1>2
  <2>2. CASE h.count = 0
    <3>1. h.min = Limit /\ h.max = 0
      BY <1>8, <2>2
    <3>2. r.min = x /\ r.max = x
      BY <1>1, <3>1
    <3> QED
      BY <2>1, <3>2
  <2>3. CASE h.count > 0
    <3>1. r.min \in {h.min, x} /\ r.max \in {h.max, x}
      BY <1>1
    <3> QED
      BY <1>8, <2>1, <2>3, <3>1
  <2> QED
    BY <1>3, <2>2, <2>3
<1>13. Follows(r, more)
  <2>1. r.count > 0
    BY <1>1, <1>3
  <2> QED
    BY <1>9, <1>10, <1>11, <1>12, <2>1 DEF Follows, seen2, filled2
<1> QED
  BY <1>2, <1>13 DEF r, more

(* A histogram without a sample has none of any value.                     *)
LEMMA NoneOfAny ==
  ASSUME NEW h \in HistogramType, NEW counts \in [0 .. MaxClock -> Nat],
         Follows(h, counts), h.count = 0
  PROVE  \A v \in 0 .. MaxClock : counts[v] = 0
<1> DEFINE seen == Totals(counts, MaxClock)
<1> USE ClockFits
<1>1. IsTotal(seen, counts, MaxClock) /\ seen \in [0 .. MaxClock -> Nat]
  BY SeenAndFilled
<1>2. seen[MaxClock] = 0
  BY DEF Follows
<1> HIDE DEF seen
<1>3. \A v \in 0 .. MaxClock : counts[v] <= seen[v] /\ seen[v] <= seen[MaxClock]
  <2>1. MaxClock \in Nat /\ counts \in [0 .. MaxClock -> Nat] /\ MaxClock \in 0 .. MaxClock
    OBVIOUS
  <2>2. \A i, j \in 0 .. MaxClock : (i <= j => seen[i] <= seen[j]) /\ counts[i] <= seen[i]
    BY ONLY <1>1, <2>1, TotalsGrow
  <2> QED
    BY <2>1, <2>2
<1> QED
  BY <1>1, <1>2, <1>3

(* merge() keeps to the samples of both.                                   *)
LEMMA MergeFollows ==
  ASSUME NEW h \in HistogramType, NEW a \in [0 .. MaxClock -> Nat], Follows(h, a),
         NEW k \in HistogramType, NEW b \in [0 .. MaxClock -> Nat], Follows(k, b)
  PROVE  /\ merge(h, k) \in HistogramType
         /\ [v \in 0 .. MaxClock |-> a[v] + b[v]] \in [0 .. MaxClock -> Nat]
         /\ Follows(merge(h, k), [v \in 0 .. MaxClock |-> a[v] + b[v]])
<1> DEFINE r == merge(h, k)
           both == [v \in 0 .. MaxClock |-> a[v] + b[v]]
<1> USE ClockFits
<1>1. /\ both \in [0 .. MaxClock -> Nat] /\ \A v \in 0 .. MaxClock : both[v] = a[v] + b[v]
  OBVIOUS
<1>2. CASE k.count = 0
  <2>1. \A v \in 0 .. MaxClock : b[v] = 0
    BY <1>2, NoneOfAny
  <2>2. both = a
    BY <2>1
  <2>3. r = h
    BY <1>2 DEF merge
  <2> QED
    BY <2>2, <2>3
<1>3. CASE k.count # 0
  <2> DEFINE sums == [i \in 0 .. kBucketCount - 1 |-> h.buckets[i] + k.buckets[i]]
             seen_h == Totals(a, MaxClock)
             seen_o == Totals(b, MaxClock)
             filled_h == Totals(h.buckets, kBucketCount - 1)
             filled_o == Totals(k.buckets, kBucketCount - 1)
             seen == Totals(both, MaxClock)
             filled == Totals(r.buckets, kBucketCount - 1)
  <2>1. /\ h.buckets \in [0 .. kBucketCount - 1 -> Nat]
        /\ k.buckets \in [0 .. kBucketCount - 1 -> Nat]
        /\ h.count \in Nat /\ h.max \in Nat /\ h.min \in 0 .. Limit
        /\ k.count \in Nat /\ k.max \in Nat /\ k.min \in 0 .. Limit
    BY DEF HistogramType
  <2>2. r = [buckets |-> sums, count |-> h.count + k.count,
             max |-> IF h.max >= k.max THEN h.max ELSE k.max,
             min |-> IF h.min <= k.min THEN h.min ELSE k.min]
    <3>1. h.max \in Int /\ k.max \in Int /\ h.min \in Int /\ k.min \in Int
      BY <2>1
    <3>2. /\ Max({h.max, k.max}) = IF h.max >= k.max THEN h.max ELSE k.max
          /\ Min({h.min, k.min}) = IF h.min <= k.min THEN h.min ELSE k.min
      BY <3>1, OfTwo
    <3> QED
      BY <1>3, <3>2 DEF merge
  <2>3. /\ sums \in [0 .. kBucketCount - 1 -> Nat]
        /\ \A i \in 0 .. kBucketCount - 1 : sums[i] = h.buckets[i] + k.buckets[i]
    <3>1. ASSUME NEW i \in 0 .. kBucketCount - 1 PROVE h.buckets[i] + k.buckets[i] \in Nat
      <4>1. h.buckets[i] \in Nat /\ k.buckets[i] \in Nat
        BY <2>1
      <4> QED
        BY ONLY <4>1
    <3> QED
      BY <3>1
  <2> HIDE DEF r, sums, both
  <2>4. r \in HistogramType
    <3>1. /\ (IF h.max >= k.max THEN h.max ELSE k.max) \in Nat
          /\ (IF h.min <= k.min THEN h.min ELSE k.min) \in 0 .. Limit
      BY <2>1
    <3> QED
      BY <2>1, <2>2, <2>3, <3>1 DEF HistogramType
  <2>5. /\ r.buckets = sums /\ r.count = h.count + k.count
        /\ r.max = IF h.max >= k.max THEN h.max ELSE k.max
        /\ r.min = IF h.min <= k.min THEN h.min ELSE k.min
    BY <2>2
  <2>6. /\ IsTotal(seen_h, a, MaxClock) /\ seen_h \in [0 .. MaxClock -> Nat]
        /\ IsTotal(seen_o, b, MaxClock) /\ seen_o \in [0 .. MaxClock -> Nat]
        /\ IsTotal(filled_h, h.buckets, kBucketCount - 1)
        /\ filled_h \in [0 .. kBucketCount - 1 -> Nat]
        /\ IsTotal(filled_o, k.buckets, kBucketCount - 1)
        /\ filled_o \in [0 .. kBucketCount - 1 -> Nat]
    BY SeenAndFilled
  <2>7. IsTotal(seen, both, MaxClock) /\ IsTotal(filled, sums, kBucketCount - 1)
    BY <1>1, <2>4, <2>5, SeenAndFilled
  <2>8. /\ h.count = seen_h[MaxClock]
        /\ \A v \in 0 .. MaxClock, i \in 0 .. kBucketCount - 1 :
             /\ bucketIndexFor(v) <= i => seen_h[v] <= filled_h[i]
             /\ i < bucketIndexFor(v) => filled_h[i] <= seen_h[v - 1]
        /\ \A v \in 0 .. MaxClock : a[v] > 0 => h.min <= v /\ v <= h.max
        /\ h.count = 0 => h.min = Limit /\ h.max = 0
        /\ h.count > 0 =>
             /\ h.min \in 0 .. MaxClock /\ a[h.min] > 0
             /\ h.max \in 0 .. MaxClock /\ a[h.max] > 0
    BY DEF Follows
  <2>9. /\ k.count = seen_o[MaxClock]
        /\ \A v \in 0 .. MaxClock, i \in 0 .. kBucketCount - 1 :
             /\ bucketIndexFor(v) <= i => seen_o[v] <= filled_o[i]
             /\ i < bucketIndexFor(v) => filled_o[i] <= seen_o[v - 1]
        /\ \A v \in 0 .. MaxClock : b[v] > 0 => k.min <= v /\ v <= k.max
        /\ k.min \in 0 .. MaxClock /\ b[k.min] > 0
        /\ k.max \in 0 .. MaxClock /\ b[k.max] > 0
    <3>1. Follows(k, b) /\ k.count > 0
      BY <1>3, <2>1
    <3> QED
      BY ONLY <3>1 DEF Follows
  <2> HIDE DEF seen_h, seen_o, filled_h, filled_o, seen, filled
  <2>10. \A v \in 0 .. MaxClock : seen[v] = seen_h[v] + seen_o[v]
    <3>1. IsSum(both, a, b, MaxClock)
      BY <1>1 DEF IsSum
    <3>2. MaxClock \in Nat /\ a \in [0 .. MaxClock -> Nat] /\ b \in [0 .. MaxClock -> Nat]
      OBVIOUS
    <3>3. /\ IsTotal(seen_h, a, MaxClock) /\ IsTotal(seen_o, b, MaxClock)
          /\ IsTotal(seen, both, MaxClock)
      BY <2>6, <2>7
    <3>4. IsSum(seen, seen_h, seen_o, MaxClock)
      BY ONLY <3>1, <3>2, <3>3, TotalsOfSums
    <3> QED
      BY <3>4 DEF IsSum
  <2>11. \A i \in 0 .. kBucketCount - 1 : filled[i] = filled_h[i] + filled_o[i]
    <3>1. IsSum(sums, h.buckets, k.buckets, kBucketCount - 1)
      BY <2>3 DEF IsSum
    <3>2. /\ kBucketCount - 1 \in Nat
          /\ h.buckets \in [0 .. kBucketCount - 1 -> Nat]
          /\ k.buckets \in [0 .. kBucketCount - 1 -> Nat]
      BY <2>1
    <3>3. /\ IsTotal(filled_h, h.buckets, kBucketCount - 1)
          /\ IsTotal(filled_o, k.buckets, kBucketCount - 1)
          /\ IsTotal(filled, sums, kBucketCount - 1)
          /\ filled_h \in [0 .. kBucketCount - 1 -> Nat]
          /\ filled_o \in [0 .. kBucketCount - 1 -> Nat]
      BY <2>6, <2>7
    <3>4. IsSum(filled, filled_h, filled_o, kBucketCount - 1)
      BY ONLY <3>1, <3>2, <3>3, TotalsOfSums
    <3> QED
      BY <3>4 DEF IsSum
  <2>12. ASSUME NEW v \in 0 .. MaxClock, NEW i \in 0 .. kBucketCount - 1
         PROVE  /\ bucketIndexFor(v) <= i => seen[v] <= filled[i]
                /\ i < bucketIndexFor(v) => filled[i] <= seen[v - 1]
    <3>1. ASSUME bucketIndexFor(v) <= i PROVE seen[v] <= filled[i]
      <4>1. /\ seen_h[v] <= filled_h[i] /\ seen_o[v] <= filled_o[i]
            /\ seen_h[v] \in Nat /\ filled_h[i] \in Nat /\ seen_o[v] \in Nat /\ filled_o[i] \in Nat
        BY <2>6, <2>8, <2>9, <3>1
      <4>2. seen[v] = seen_h[v] + seen_o[v]
        BY <2>10
      <4>3. filled[i] = filled_h[i] + filled_o[i]
        BY <2>11
      <4> QED
        BY ONLY <4>1, <4>2, <4>3
    <3>2. ASSUME i < bucketIndexFor(v) PROVE filled[i] <= seen[v - 1]
      <4>1. v - 1 \in 0 .. MaxClock
        BY <3>2, NotFirst
      <4>2. /\ filled_h[i] <= seen_h[v - 1] /\ filled_o[i] <= seen_o[v - 1]
            /\ seen_h[v - 1] \in Nat /\ filled_h[i] \in Nat
            /\ seen_o[v - 1] \in Nat /\ filled_o[i] \in Nat
        BY <2>6, <2>8, <2>9, <3>2, <4>1
      <4>3. seen[v - 1] = seen_h[v - 1] + seen_o[v - 1]
        BY <2>10, <4>1
      <4>4. filled[i] = filled_h[i] + filled_o[i]
        BY <2>11
      <4> QED
        BY ONLY <4>2, <4>3, <4>4
    <3> QED
      BY <3>1, <3>2
  <2>13. r.count = seen[MaxClock] /\ r.count > 0 /\ r.count # 0
    <3>1. seen[MaxClock] = seen_h[MaxClock] + seen_o[MaxClock]
      BY <2>10
    <3>2. h.count = seen_h[MaxClock] /\ k.count = seen_o[MaxClock]
      BY <2>8, <2>9
    <3>3. h.count \in Nat /\ k.count \in Nat \ {0} /\ r.count = h.count + k.count
      BY <1>3, <2>1, <2>5
    <3>4. r.count = seen[MaxClock]
      BY ONLY <3>1, <3>2, <3>3
    <3>5. r.count > 0 /\ r.count # 0
      BY ONLY <3>3
    <3> QED
      BY <3>4, <3>5
  <2>14. \A v \in 0 .. MaxClock : both[v] > 0 => r.min <= v /\ v <= r.max
    <3> SUFFICES ASSUME NEW v \in 0 .. MaxClock, both[v] > 0 PROVE r.min <= v /\ v <= r.max
      OBVIOUS
    <3>1. a[v] > 0 \/ b[v] > 0
      BY <1>1
    <3>2. (h.min <= v /\ v <= h.max) \/ (k.min <= v /\ v <= k.max)
      BY <2>8, <2>9, <3>1
    <3>3. h.max \in Int /\ k.max \in Int /\ h.min \in Int /\ k.min \in Int
      BY <2>1
    <3>4. r.min <= h.min /\ r.min <= k.min /\ r.min \in Int
      BY <2>5, <3>3
    <3>5. h.max <= r.max /\ k.max <= r.max /\ r.max \in Int
      BY <2>5, <3>3
    <3> v \in Int
      OBVIOUS
    <3>6. CASE h.min <= v /\ v <= h.max
      BY ONLY <3>3, <3>4, <3>5, <3>6, v \in Int
    <3>7. CASE k.min <= v /\ v <= k.max
      BY ONLY <3>3, <3>4, <3>5, <3>7, v \in Int
    <3> QED
      BY <3>2, <3>6, <3>7
  <2>15. /\ r.min \in 0 .. MaxClock /\ both[r.min] > 0
         /\ r.max \in 0 .. MaxClock /\ both[r.max] > 0
    <3>1. \A v \in 0 .. MaxClock : a[v] > 0 \/ b[v] > 0 => both[v] > 0
      BY <1>1
    <3>2. CASE h.count = 0
      <4>1. h.min = Limit /\ h.max = 0
        BY <2>8, <3>2
      <4>2. r.min = k.min /\ r.max = k.max
        BY <2>5, <2>9, <4>1
      <4> QED
        BY <2>9, <3>1, <4>2
    <3>3. CASE h.count > 0
      <4>1. r.min \in {h.min, k.min} /\ r.max \in {h.max, k.max}
        BY <2>5
      <4> QED
        BY <2>8, <2>9, <3>1, <3>3, <4>1
    <3> QED
      BY <2>1, <3>2, <3>3
  <2>16. Follows(r, both)
    BY ONLY <2>12, <2>13, <2>14, <2>15, Zenon DEF Follows, seen, filled
  <2> QED
    BY <1>1, <2>4, <2>16 DEF r, both
<1> QED
  BY <1>2, <1>3

(* The rank percentile() looks for is the rank of the quantile.            *)
LEMMA RankIsTarget ==
  ASSUME NEW q \in Nat, NEW count \in Nat \ {0}
  PROVE  /\ RankOf(Min({q, 1000}), count) = Target(q, count)
         /\ Target(q, count) \in 1 .. count
<1> DEFINE part == Min({q, 1000})
           c == part * count
           d == (c + 999) \div 1000
<1>1. part \in 0 .. 1000 /\ Max({0, part}) = part
  <2>1. part = IF q <= 1000 THEN q ELSE 1000
    BY OfTwo
  <2>2. part \in 0 .. 1000 /\ part \in Int /\ 0 \in Int
    BY <2>1
  <2> HIDE DEF part
  <2> QED
    BY <2>2, OfTwo
<1>2. c \in Nat /\ c <= 1000 * count
  <2> HIDE DEF part
  <2>1. count * part <= count * 1000 /\ count * part = part * count
    BY <1>1, Multiples
  <2>2. part * count \in Nat
    BY <1>1
  <2> QED
    BY <2>1, <2>2
<1>3. Target(q, count) = Max({1, Min({count, d})})
  <2>1. Target(q, count)
          = Max({1, Min({count, (Max({0, part}) * count + 999) \div 1000})})
    BY DEF Target
  <2> HIDE DEF part
  <2>2. (Max({0, part}) * count + 999) \div 1000 = d
    BY <1>1
  <2> HIDE DEF d
  <2> QED
    BY <2>1, <2>2, Zenon
<1>4. RankOf(part, count) = CHOOSE r \in 1 .. count : 1000 * r >= c /\ (r = 1 \/ 1000 * (r - 1) < c)
  BY DEF RankOf
<1> HIDE DEF c, part
<1>5. d \in Nat /\ 1000 * d <= c + 999 /\ c + 999 < 1000 * d + 1000
  BY <1>2
<1> HIDE DEF d
<1>6. d <= count
  BY <1>2, <1>5
<1>7. Target(q, count) = IF d = 0 THEN 1 ELSE d
  <2>0. count \in Int /\ d \in Int /\ 1 \in Int
    BY <1>5
  <2>1. Min({count, d}) = d
    <3>1. Min({count, d}) = IF count <= d THEN count ELSE d
      BY <2>0, OfTwo
    <3> QED
      BY <1>6, <2>0, <3>1
  <2>2. Max({1, d}) = IF 1 >= d THEN 1 ELSE d
    BY <2>0, OfTwo
  <2> QED
    BY <1>3, <1>5, <2>1, <2>2
<1> DEFINE T == Target(q, count)
<1>8. /\ T \in 1 .. count /\ 1000 * T >= c /\ (T = 1 \/ 1000 * (T - 1) < c)
  BY <1>2, <1>5, <1>6, <1>7
<1> HIDE DEF T
<1>9. ASSUME NEW r \in 1 .. count, 1000 * r >= c, r = 1 \/ 1000 * (r - 1) < c
      PROVE  r = T
  BY <1>2, <1>8, <1>9
<1>10. RankOf(part, count) = T
  BY <1>4, <1>8, <1>9
<1> QED
  BY <1>8, <1>10 DEF T, part

(* The value of a rank is among the samples, and no smaller value has it.  *)
LEMMA RankedIs ==
  ASSUME NEW counts \in [0 .. MaxClock -> Nat], NEW seen,
         seen = Totals(counts, MaxClock), NEW rank \in 1 .. seen[MaxClock]
  PROVE  LET t == Ranked(counts, rank) IN
         /\ t \in 0 .. MaxClock /\ counts[t] > 0 /\ seen[t] >= rank
         /\ t = 0 \/ seen[t - 1] < rank
<1> DEFINE T == {v \in 0 .. MaxClock : seen[v] >= rank}
           t == Ranked(counts, rank)
<1> USE ClockFits
<1>1. /\ seen \in [0 .. MaxClock -> Nat] /\ seen[0] = counts[0]
      /\ \A i \in 1 .. MaxClock : seen[i] = seen[i - 1] + counts[i]
  BY TotalsRun DEF IsTotal
<1>2. T \in SUBSET Nat /\ MaxClock \in T
  BY <1>1
<1>3. PICK m \in T : \A v \in T : m <= v
  <2> HIDE DEF T
  <2> QED
    BY <1>2, LeastNumber
<1>4. m \in 0 .. MaxClock /\ seen[m] >= rank /\ (m = 0 \/ seen[m - 1] < rank)
  <2>1. m \in 0 .. MaxClock /\ seen[m] >= rank
    OBVIOUS
  <2>2. CASE m # 0
    <3>1. m - 1 \in 0 .. MaxClock /\ m - 1 \notin T
      BY <1>3, <2>1, <2>2
    <3>2. seen[m - 1] \in Nat
      BY <1>1, <3>1
    <3> QED
      BY <2>1, <3>1, <3>2
  <2> QED
    BY <2>1, <2>2
<1>5. t \in 0 .. MaxClock /\ seen[t] >= rank /\ (t = 0 \/ seen[t - 1] < rank)
  BY <1>4 DEF Ranked
<1> HIDE DEF t
<1>6. counts[t] > 0
  <2>1. CASE t = 0
    BY <1>1, <1>5, <2>1
  <2>2. CASE t # 0
    <3>1. t \in 1 .. MaxClock /\ t - 1 \in 0 .. MaxClock
      BY <1>5, <2>2
    <3>2. seen[t] = seen[t - 1] + counts[t] /\ seen[t - 1] \in Nat /\ counts[t] \in Nat
      BY <1>1, <3>1
    <3> QED
      BY <1>1, <1>5, <2>2, <3>2
  <2> QED
    BY <2>1, <2>2
<1> QED
  BY <1>5, <1>6 DEF t

(* The percentile of a histogram that follows the samples.                 *)
LEMMA PercentileIsClose ==
  ASSUME NEW h \in HistogramType, NEW counts \in [0 .. MaxClock -> Nat],
         Follows(h, counts), h.count > 0, NEW q \in Nat
  PROVE  LET true_q   == Ranked(counts, RankOf(Min({q, 1000}), h.count))
             reported == percentile(h, q)
         IN /\ true_q <= reported /\ reported <= h.max
            /\ (reported - true_q) * kSubBucketCount <= true_q
<1> DEFINE seen   == Totals(counts, MaxClock)
           filled == Totals(h.buckets, kBucketCount - 1)
           rank   == Target(q, h.count)
           t      == Ranked(counts, rank)
           reached == {i \in 0 .. kBucketCount - 1 : filled[i] >= rank}
           found  == bucketIndexFor(t)
           bound  == bucketUpperBound(found)
           B      == kSubBucketCount
<1> USE ClockFits
<1>1. h.count \in Nat \ {0} /\ h.max \in Nat
  BY DEF HistogramType
<1>2. RankOf(Min({q, 1000}), h.count) = rank /\ rank \in 1 .. h.count
  <2>1. ASSUME NEW count \in Nat \ {0}
        PROVE  RankOf(Min({q, 1000}), count) = Target(q, count) /\ Target(q, count) \in 1 .. count
    BY RankIsTarget, ZenonT(60)
  <2> QED
    BY <1>1, <2>1
<1>3. /\ seen \in [0 .. MaxClock -> Nat] /\ filled \in [0 .. kBucketCount - 1 -> Nat]
  BY SeenAndFilled
<1>4. /\ h.count = seen[MaxClock]
      /\ \A v \in 0 .. MaxClock, i \in 0 .. kBucketCount - 1 :
           /\ bucketIndexFor(v) <= i => seen[v] <= filled[i]
           /\ i < bucketIndexFor(v) => filled[i] <= seen[v - 1]
      /\ \A v \in 0 .. MaxClock : counts[v] > 0 => h.min <= v /\ v <= h.max
  BY DEF Follows
<1>5. /\ t \in 0 .. MaxClock /\ counts[t] > 0 /\ seen[t] >= rank
      /\ t = 0 \/ seen[t - 1] < rank
  <2> HIDE DEF rank
  <2>1. rank \in 1 .. seen[MaxClock]
    BY <1>2, <1>4
  <2> QED
    BY <2>1, RankedIs
<1>6. percentile(h, q) = IF reached = {} THEN h.max ELSE Min({bucketUpperBound(Min(reached)), h.max})
  BY <1>1 DEF percentile
<1> HIDE DEF seen, filled, rank, t
<1>7. found \in 0 .. kBucketCount - 1
  BY <1>5, IndexInRange
<1>8. found \in reached
  <2>1. seen[t] <= filled[found] /\ seen[t] \in Nat /\ filled[found] \in Nat
    BY <1>3, <1>4, <1>5, <1>7
  <2> QED
    BY <1>1, <1>2, <1>5, <1>7, <2>1
<1>9. ASSUME NEW i \in reached PROVE found <= i
  <2> SUFFICES ASSUME i < found PROVE FALSE
    BY <1>7
  <2>1. t - 1 \in 0 .. MaxClock /\ t > 0
    BY <1>5, NotFirst
  <2>2. filled[i] <= seen[t - 1] /\ seen[t - 1] \in Nat /\ filled[i] \in Nat
    BY <1>3, <1>4, <1>5, <2>1
  <2>3. filled[i] >= rank /\ seen[t - 1] < rank
    BY <1>5, <2>1
  <2> QED
    BY <1>1, <1>2, <2>2, <2>3
<1>10. Min(reached) = found
  <2>1. reached \in SUBSET Int
    OBVIOUS
  <2> HIDE DEF reached
  <2> QED
    BY <1>8, <1>9, <2>1, MinIs
<1>11. percentile(h, q) = Min({bound, h.max})
  BY <1>6, <1>8, <1>10
<1>12. bound \in Nat /\ t <= bound /\ B * (bound - t) <= t
  <2>1. t \in 0 .. Limit - 1
    BY <1>5
  <2> QED
    BY <2>1, BoundIsClose
<1> HIDE DEF bound, found, reached, B
<1> DEFINE reported == percentile(h, q)
<1>13. reported = IF bound <= h.max THEN bound ELSE h.max
  <2>1. bound \in Int /\ h.max \in Int
    BY <1>1, <1>12
  <2> QED
    BY <1>11, <2>1, OfTwo
<1> HIDE DEF reported
<1>14. t \in Nat /\ t <= h.max
  BY <1>4, <1>5
<1>15. reported \in Nat /\ t <= reported /\ reported <= h.max /\ reported <= bound
  BY <1>1, <1>12, <1>13, <1>14
<1>16. B \in Nat
  BY Widths DEF B
<1>17. (reported - t) * B <= t
  <2>1. B * (reported - t) <= B * (bound - t)
    <3>1. reported - t \in Int /\ bound - t \in Int /\ reported - t <= bound - t
      BY <1>12, <1>14, <1>15
    <3> QED
      BY <1>16, <3>1, Multiples
  <2>2. /\ (reported - t) * B = B * (reported - t)
        /\ B * (reported - t) \in Int /\ B * (bound - t) \in Int
    BY <1>12, <1>14, <1>15, <1>16
  <2> QED
    BY <1>12, <1>14, <2>1, <2>2
<1> QED
  BY <1>2, <1>15, <1>17 DEF reported, t, B

(* A histogram that follows its samples describes them.                    *)
LEMMA FollowsDescribes ==
  ASSUME NEW h \in HistogramType, NEW counts \in [0 .. MaxClock -> Nat],
         Follows(h, counts)
  PROVE  Describes(h, counts)
<1> DEFINE given == {v \in 0 .. MaxClock : counts[v] > 0}
<1> USE ClockFits
<1>1. h.count = Totals(counts, MaxClock)[MaxClock] /\ h.count \in Nat
  BY DEF Follows, HistogramType
<1>2. ASSUME given # {}
      PROVE  /\ minimum(h) = Min(given) /\ h.max = Max(given)
             /\ h.count > 0
  <2>1. h.count # 0
    BY <1>2, NoneOfAny
  <2>2. /\ h.min \in given /\ h.max \in given
        /\ \A v \in given : h.min <= v /\ h.max >= v
    BY <1>1, <2>1 DEF Follows
  <2>3. given \in SUBSET Int
    OBVIOUS
  <2> HIDE DEF given
  <2>4. Min(given) = h.min /\ Max(given) = h.max
    BY <2>2, <2>3, MinIs, MaxIs
  <2> QED
    BY <1>1, <2>1, <2>4 DEF minimum
<1>3. ASSUME given # {}, NEW q \in Quantiles
      PROVE  LET true_q   == Ranked(counts, RankOf(Min({q, 1000}), h.count))
                 reported == percentile(h, q)
             IN /\ true_q <= reported /\ reported <= h.max
                /\ (reported - true_q) * kSubBucketCount <= true_q
  <2>1. q \in Nat /\ h.count > 0
    BY <1>2, <1>3, SampleAssumption
  <2> QED
    BY <2>1, PercentileIsClose
<1> QED
  BY <1>1, <1>2, <1>3 DEF Describes
=============================================================================
