----------------------------- MODULE Crc32Proofs -----------------------------
(***************************************************************************)
(* Three facts about Crc32 of src/safety/crc32.cpp: the CRC is linear, the *)
(* table computes the division by kPolynomial for a message of every       *)
(* length, and a telegram with one to five flipped bits is detected.       *)
(*                                                                         *)
(* The first two follow a message byte by byte.  The third rests on them   *)
(* and on the assumptions of TelegramCrc, which have no parameter and are  *)
(* evaluated: by linearity the flipped bits alone decide, each adds its    *)
(* effect, odd numbers of them leave an odd word, two leave nothing only   *)
(* if two effects are the same, and four only if two pairs of effects      *)
(* differ in the same bits.                                                *)
(***************************************************************************)
EXTENDS TelegramCrc, FiniteSetTheorems, TLAPS

(* Every non-empty set of natural numbers has a least element; the         *)
(* inductions below look at the least number for which a fact fails.       *)
LEMMA LeastNumber ==
  ASSUME NEW T \in SUBSET Nat, T # {}
  PROVE  \E m \in T : \A k \in T : m <= k
<1> DEFINE R == OpToRel(<, Nat)
<1>1. IsWellFoundedOn(R, Nat)
  BY NatLessThanWellFounded
<1>2. \A p, q \in Nat : p < q => <<p, q>> \in R
  BY DEF OpToRel
<1> HIDE DEF R
<1>3. PICK m \in T : \A k \in T : ~(<<k, m>> \in R)
  BY <1>1, WFMin
<1>4. ASSUME NEW k \in T PROVE m <= k
  <2>1. m \in Nat /\ k \in Nat
    OBVIOUS
  <2>2. ~(k < m)
    BY <1>2, <1>3, <2>1
  <2> QED
    BY <2>1, <2>2
<1> QED
  BY <1>4

(* What holds of 0, and of the next number whenever it holds of one, holds *)
(* up to n.                                                                *)
LEMMA Ascend ==
  ASSUME NEW n \in Nat, NEW Good \in SUBSET Nat,
         0 \in Good, \A i \in 1 .. n : i - 1 \in Good => i \in Good
  PROVE  0 .. n \subseteq Good
<1> DEFINE Bad == (0 .. n) \ Good
<1> SUFFICES ASSUME Bad # {} PROVE FALSE
  OBVIOUS
<1>1. Bad \in SUBSET Nat
  OBVIOUS
<1> HIDE DEF Bad
<1>2. PICK m \in Bad : \A k \in Bad : m <= k
  BY <1>1, LeastNumber
<1>3. m \in 0 .. n /\ m \notin Good
  BY DEF Bad
<1>4. m \in 1 .. n /\ m - 1 \in 0 .. n
  BY <1>3
<1>5. m - 1 \notin Bad
  BY <1>2, <1>4
<1>6. m - 1 \in Good
  BY <1>4, <1>5 DEF Bad
<1> QED
  BY <1>3, <1>4, <1>6
-----------------------------------------------------------------------------
(* Exclusive or, bit by bit.                                               *)
LEMMA BitOfXor ==
  ASSUME NEW x, NEW y, NEW i
  PROVE  (i \in SymDiff(x, y)) <=> ((i \in x) # (i \in y))
BY DEF SymDiff

(* Exclusive or stays within the bits of its arguments.                    *)
LEMMA XorOfWords ==
  ASSUME NEW S, NEW x \in SUBSET S, NEW y \in SUBSET S
  PROVE  SymDiff(x, y) \in SUBSET S
BY DEF SymDiff

(* A shift to the right, bit by bit.                                       *)
LEMMA BitOfShift ==
  ASSUME NEW x \in Words, NEW by \in Nat, NEW i
  PROVE  (i \in ShiftRight(x, by)) <=> (i \in 0 .. 31 /\ i + by \in x)
<1>1. \A j \in x : j \in 0 .. 31
  BY DEF Words
<1>2. ASSUME i \in ShiftRight(x, by) PROVE i \in 0 .. 31 /\ i + by \in x
  <2>1. PICK j \in x : j >= by /\ i = j - by
    BY <1>2 DEF ShiftRight
  <2> QED BY <1>1, <2>1
<1>3. ASSUME i \in 0 .. 31, i + by \in x PROVE i \in ShiftRight(x, by)
  <2>1. i + by >= by /\ i = (i + by) - by
    BY <1>3
  <2> QED BY <1>3, <2>1 DEF ShiftRight
<1> QED BY <1>2, <1>3

(* A shifted word is a word.                                               *)
LEMMA ShiftType ==
  ASSUME NEW x \in Words, NEW by \in Nat
  PROVE  ShiftRight(x, by) \in Words
<1>1. \A i \in ShiftRight(x, by) : i \in 0 .. 31
  BY BitOfShift
<1> QED BY <1>1 DEF Words

(* The exclusive or of words is a word.                                    *)
LEMMA XorType ==
  ASSUME NEW x \in Words, NEW y \in Words
  PROVE  SymDiff(x, y) \in Words
BY XorOfWords DEF Words

(* A shift goes through an exclusive or.                                   *)
LEMMA ShiftOfXor ==
  ASSUME NEW x \in Words, NEW y \in Words, NEW by \in Nat
  PROVE  ShiftRight(SymDiff(x, y), by) = SymDiff(ShiftRight(x, by), ShiftRight(y, by))
<1>1. SymDiff(x, y) \in Words
  BY XorType
<1>2. ASSUME NEW i
      PROVE  (i \in ShiftRight(SymDiff(x, y), by))
                <=> (i \in SymDiff(ShiftRight(x, by), ShiftRight(y, by)))
  BY <1>1, BitOfShift, BitOfXor
<1> QED BY <1>2
-----------------------------------------------------------------------------
(* g is the run of the n functions F from the start.                       *)
IsRun(g, n, S, start, F) ==
  /\ g \in [0 .. n -> S] /\ g[0] = start
  /\ \A i \in 1 .. n : g[i] = F[i][g[i - 1]]

(* There is one.                                                           *)
LEMMA RunExists ==
  ASSUME NEW n \in Nat, NEW S, NEW start \in S, NEW F \in [1 .. n -> [S -> S]]
  PROVE  \E g : IsRun(g, n, S, start, F)
<1> DEFINE Good == {k \in 0 .. n : \E g : IsRun(g, k, S, start, F)}
<1>1. 0 \in Good
  <2> DEFINE g == [i \in 0 .. 0 |-> start]
  <2>1. IsRun(g, 0, S, start, F)
    BY DEF IsRun
  <2> QED BY <2>1
<1>2. ASSUME NEW m \in 1 .. n, m - 1 \in Good PROVE m \in Good
  <2>1. PICK g : IsRun(g, m - 1, S, start, F)
    BY <1>2
  <2> DEFINE h == [i \in 0 .. m |-> IF i = m THEN F[m][g[m - 1]] ELSE g[i]]
  <2>2. g \in [0 .. m - 1 -> S] /\ F[m] \in [S -> S] /\ g[m - 1] \in S
    BY <2>1 DEF IsRun
  <2>3. h \in [0 .. m -> S] /\ h[0] = start
    BY <2>1, <2>2 DEF IsRun
  <2>4. ASSUME NEW i \in 1 .. m PROVE h[i] = F[i][h[i - 1]]
    <3>1. h[i - 1] = g[i - 1]
      OBVIOUS
    <3>2. CASE i = m
      BY <3>1, <3>2
    <3>3. CASE i \in 1 .. m - 1
      <4>1. h[i] = g[i] /\ g[i] = F[i][g[i - 1]]
        BY <2>1, <3>3 DEF IsRun
      <4> QED BY <3>1, <4>1
    <3> QED BY <3>2, <3>3
  <2>5. IsRun(h, m, S, start, F)
    BY <2>3, <2>4 DEF IsRun
  <2>6. m \in 0 .. n /\ \E k : IsRun(k, m, S, start, F)
    BY <2>5
  <2> QED BY <2>6
<1>3. Good \in SUBSET Nat
  OBVIOUS
<1>4. 0 .. n \subseteq Good
  <2> HIDE DEF Good
  <2> QED BY <1>1, <1>2, <1>3, Ascend
<1>5. n \in Good
  BY <1>4
<1> QED BY <1>5
-----------------------------------------------------------------------------
(* The reflected polynomial of crc32.hpp is a word.                        *)
LEMMA PolynomialType == kReflectedPolynomial \in Words
BY DEF kReflectedPolynomial, Word, Bits, Words

(* A step of buildTable() takes a word to a word.                          *)
LEMMA StepType ==
  ASSUME NEW x \in Words
  PROVE  Step(x) \in Words
BY PolynomialType, ShiftType, XorType DEF Step

(* A step goes through an exclusive or.                                    *)
LEMMA StepOfXor ==
  ASSUME NEW x \in Words, NEW y \in Words
  PROVE  Step(SymDiff(x, y)) = SymDiff(Step(x), Step(y))
<1> DEFINE p == kReflectedPolynomial
           u == ShiftRight(x, 1)
           v == ShiftRight(y, 1)
<1>1. ShiftRight(SymDiff(x, y), 1) = SymDiff(u, v)
  BY ShiftOfXor
<1>2. (0 \in SymDiff(x, y)) <=> ((0 \in x) # (0 \in y))
  BY BitOfXor
<1>3. /\ Step(SymDiff(x, y)) = IF 0 \in SymDiff(x, y) THEN SymDiff(SymDiff(u, v), p)
                               ELSE SymDiff(u, v)
      /\ Step(x) = IF 0 \in x THEN SymDiff(u, p) ELSE u
      /\ Step(y) = IF 0 \in y THEN SymDiff(v, p) ELSE v
  BY <1>1 DEF Step
<1> HIDE DEF p, u, v
<1>4. /\ SymDiff(SymDiff(u, p), SymDiff(v, p)) = SymDiff(u, v)
      /\ SymDiff(SymDiff(u, p), v) = SymDiff(SymDiff(u, v), p)
      /\ SymDiff(u, SymDiff(v, p)) = SymDiff(SymDiff(u, v), p)
  BY DEF SymDiff
<1> QED BY <1>2, <1>3, <1>4

(* g is the eight steps from x.                                            *)
IsSteps(g, x) ==
  g \in [0 .. 8 -> Words] /\ g[0] = x /\ \A k \in 1 .. 8 : g[k] = Step(g[k - 1])

(* There are such, of every word, and the table has their last.            *)
LEMMA StepsExist ==
  ASSUME NEW x \in Words
  PROVE  \E g : IsSteps(g, x)
<1> DEFINE F == [k \in 1 .. 8 |-> [r \in Words |-> Step(r)]]
<1>1. F \in [1 .. 8 -> [Words -> Words]]
  BY StepType
<1>2. PICK g : IsRun(g, 8, Words, x, F)
  <2> HIDE DEF F
  <2> QED BY <1>1, RunExists
<1>3. g \in [0 .. 8 -> Words] /\ g[0] = x
  BY <1>2 DEF IsRun
<1>4. ASSUME NEW k \in 1 .. 8 PROVE g[k] = Step(g[k - 1])
  <2>1. g[k - 1] \in Words
    BY <1>3
  <2>2. g[k] = F[k][g[k - 1]]
    BY <1>2 DEF IsRun
  <2> QED BY <2>1, <2>2
<1> QED BY <1>3, <1>4 DEF IsSteps

(* The eight steps go through an exclusive or.                             *)
LEMMA StepsOfXor ==
  ASSUME NEW x \in Words, NEW y \in Words, NEW g, NEW h, NEW e,
         IsSteps(g, x), IsSteps(h, y), IsSteps(e, SymDiff(x, y))
  PROVE  e[8] = SymDiff(g[8], h[8])
<1> DEFINE Good == {k \in 0 .. 8 : e[k] = SymDiff(g[k], h[k])}
<1>1. 0 \in Good
  BY DEF IsSteps
<1>2. ASSUME NEW k \in 1 .. 8, k - 1 \in Good PROVE k \in Good
  <2>1. g[k - 1] \in Words /\ h[k - 1] \in Words
    BY DEF IsSteps
  <2>2. e[k] = Step(e[k - 1]) /\ g[k] = Step(g[k - 1]) /\ h[k] = Step(h[k - 1])
    BY DEF IsSteps
  <2>3. e[k - 1] = SymDiff(g[k - 1], h[k - 1])
    BY <1>2
  <2> QED BY <2>1, <2>2, <2>3, StepOfXor
<1>3. 8 \in Nat /\ Good \in SUBSET Nat
  OBVIOUS
<1>4. 0 .. 8 \subseteq Good
  <2> HIDE DEF Good
  <2> QED BY <1>1, <1>2, <1>3, Ascend
<1>5. 8 \in Good
  BY <1>4
<1> QED BY <1>5

(* The table has the last of the eight.                                    *)
LEMMA TableIs ==
  ASSUME NEW x \in Bytes
  PROVE  \E g : IsSteps(g, x) /\ kTable[x] = g[8]
<1>1. x \in Words
  BY DEF Bytes, Words
<1>2. PICK h : IsSteps(h, x)
  BY <1>1, StepsExist
<1>3. h = [bit \in 0 .. 8 |-> IF bit = 0 THEN x ELSE Step(h[bit - 1])]
  BY <1>2 DEF IsSteps
<1> DEFINE g == CHOOSE g : g = [bit \in 0 .. 8 |-> IF bit = 0 THEN x ELSE Step(g[bit - 1])]
<1>4. kTable[x] = g[8]
  BY DEF kTable
<1>5. g = [bit \in 0 .. 8 |-> IF bit = 0 THEN x ELSE Step(g[bit - 1])]
  BY <1>3
<1> HIDE DEF g
<1>6. g[0] = x /\ \A k \in 1 .. 8 : g[k] = Step(g[k - 1])
  BY <1>5
<1> DEFINE Good == {k \in 0 .. 8 : g[k] \in Words}
<1>7. 0 \in Good /\ \A k \in 1 .. 8 : k - 1 \in Good => k \in Good
  BY <1>1, <1>6, StepType
<1>8. 8 \in Nat /\ Good \in SUBSET Nat
  OBVIOUS
<1>9. 0 .. 8 \subseteq Good
  <2> HIDE DEF Good
  <2> QED BY <1>7, <1>8, Ascend
<1>10. IsSteps(g, x)
  BY <1>5, <1>6, <1>9 DEF IsSteps
<1> QED BY <1>4, <1>10

(* The entries of kTable are words.                                        *)
LEMMA TableType ==
  ASSUME NEW x \in Bytes
  PROVE  kTable[x] \in Words
BY TableIs DEF IsSteps

(* A look-up in kTable goes through an exclusive or.                       *)
LEMMA TableOfXor ==
  ASSUME NEW x \in Bytes, NEW y \in Bytes
  PROVE  kTable[SymDiff(x, y)] = SymDiff(kTable[x], kTable[y])
<1>1. SymDiff(x, y) \in Bytes /\ x \in Words /\ y \in Words
  BY DEF SymDiff, Bytes, Words
<1>2. PICK g : IsSteps(g, x) /\ kTable[x] = g[8]
  BY TableIs
<1>3. PICK h : IsSteps(h, y) /\ kTable[y] = h[8]
  BY TableIs
<1>4. PICK e : IsSteps(e, SymDiff(x, y)) /\ kTable[SymDiff(x, y)] = e[8]
  BY <1>1, TableIs
<1> QED BY <1>1, <1>2, <1>3, <1>4, StepsOfXor
-----------------------------------------------------------------------------
(* update() takes a state to a state.                                      *)
LEMMA UpdateType ==
  ASSUME NEW x \in Words, NEW byte \in Bytes
  PROVE  /\ SymDiff(x, byte) \cap (0 .. 7) \in Bytes
         /\ update(x, byte) \in Words
<1>1. SymDiff(x, byte) \cap (0 .. 7) \in Bytes
  BY DEF Bytes
<1> QED BY <1>1, TableType, ShiftType, XorType DEF update

(* A byte goes through an exclusive or.                                    *)
LEMMA UpdateOfXor ==
  ASSUME NEW x \in Words, NEW y \in Words, NEW b \in Bytes, NEW c \in Bytes
  PROVE  update(SymDiff(x, y), SymDiff(b, c)) = SymDiff(update(x, b), update(y, c))
<1> DEFINE i == SymDiff(x, b) \cap (0 .. 7)
           j == SymDiff(y, c) \cap (0 .. 7)
           u == ShiftRight(x, 8)
           v == ShiftRight(y, 8)
<1>1. SymDiff(SymDiff(x, y), SymDiff(b, c)) \cap (0 .. 7) = SymDiff(i, j)
  BY DEF SymDiff
<1>2. i \in Bytes /\ j \in Bytes
  BY UpdateType
<1>3. ShiftRight(SymDiff(x, y), 8) = SymDiff(u, v)
  BY ShiftOfXor
<1>4. update(x, b) = SymDiff(u, kTable[i]) /\ update(y, c) = SymDiff(v, kTable[j])
  BY DEF update
<1>5. update(SymDiff(x, y), SymDiff(b, c)) = SymDiff(SymDiff(u, v), kTable[SymDiff(i, j)])
  BY <1>1, <1>3 DEF update
<1> HIDE DEF i, j, u, v
<1>6. kTable[SymDiff(i, j)] = SymDiff(kTable[i], kTable[j])
  BY <1>2, TableOfXor
<1>7. \A s, t : SymDiff(SymDiff(u, v), SymDiff(s, t)) = SymDiff(SymDiff(u, s), SymDiff(v, t))
  BY DEF SymDiff
<1> QED BY <1>4, <1>5, <1>6, <1>7

(* g is the states from s on, fed with the n bytes of data.                *)
IsFed(g, s, data, n) ==
  /\ g \in [0 .. n -> Words] /\ g[0] = s
  /\ \A i \in 1 .. n : g[i] = update(g[i - 1], data[i])

(* There is one, and update() of a span ends where it does.                *)
LEMMA FedIs ==
  ASSUME NEW n \in Nat, NEW s \in Words, NEW data \in [1 .. n -> Bytes]
  PROVE  /\ Len(data) = n
         /\ \E g : IsFed(g, s, data, n) /\ updateAll(s, data) = g[n]
<1>0. Len(data) = n
  OBVIOUS
<1> DEFINE F == [i \in 1 .. n |-> [r \in Words |-> update(r, data[i])]]
<1>1. F \in [1 .. n -> [Words -> Words]]
  BY UpdateType
<1>2. PICK h : IsRun(h, n, Words, s, F)
  <2> HIDE DEF F
  <2> QED BY <1>1, RunExists
<1>3. h \in [0 .. n -> Words] /\ h[0] = s
  BY <1>2 DEF IsRun
<1>4. ASSUME NEW i \in 1 .. n PROVE h[i] = update(h[i - 1], data[i])
  <2>1. h[i - 1] \in Words
    BY <1>3
  <2>2. h[i] = F[i][h[i - 1]]
    BY <1>2 DEF IsRun
  <2> QED BY <2>1, <2>2
<1>5. h = [i \in 0 .. n |-> IF i = 0 THEN s ELSE update(h[i - 1], data[i])]
  BY <1>3, <1>4
<1> DEFINE g == CHOOSE g : g = [i \in 0 .. n |-> IF i = 0 THEN s ELSE update(g[i - 1], data[i])]
<1>6. updateAll(s, data) = g[n]
  BY <1>0 DEF updateAll
<1>7. g = [i \in 0 .. n |-> IF i = 0 THEN s ELSE update(g[i - 1], data[i])]
  BY <1>5
<1> HIDE DEF g
<1>8. g[0] = s /\ \A i \in 1 .. n : g[i] = update(g[i - 1], data[i])
  BY <1>7
<1> DEFINE Good == {i \in 0 .. n : g[i] \in Words}
<1>9. 0 \in Good /\ \A i \in 1 .. n : i - 1 \in Good => i \in Good
  <2>1. ASSUME NEW i \in 1 .. n, i - 1 \in Good PROVE i \in Good
    <3>1. g[i - 1] \in Words /\ data[i] \in Bytes
      BY <2>1
    <3>2. g[i] \in Words
      BY <1>8, <3>1, UpdateType
    <3> QED BY <3>2
  <2> QED BY <1>8, <2>1
<1>10. 0 .. n \subseteq Good
  <2>1. Good \in SUBSET Nat
    OBVIOUS
  <2> HIDE DEF Good
  <2> QED BY <1>9, <2>1, Ascend
<1>11. IsFed(g, s, data, n)
  BY <1>7, <1>8, <1>10 DEF IsFed
<1> QED BY <1>0, <1>6, <1>11

(* A message goes through an exclusive or.                                 *)
LEMMA FedOfXor ==
  ASSUME NEW n \in Nat, NEW x \in Words, NEW y \in Words,
         NEW data \in [1 .. n -> Bytes], NEW flips \in [1 .. n -> Bytes],
         NEW both \in [1 .. n -> Bytes],
         \A i \in 1 .. n : both[i] = SymDiff(data[i], flips[i])
  PROVE  updateAll(SymDiff(x, y), both) = SymDiff(updateAll(x, data), updateAll(y, flips))
<1>1. SymDiff(x, y) \in Words
  BY XorType
<1>2. PICK g : IsFed(g, x, data, n) /\ updateAll(x, data) = g[n]
  BY FedIs
<1>3. PICK h : IsFed(h, y, flips, n) /\ updateAll(y, flips) = h[n]
  BY FedIs
<1>4. PICK e : IsFed(e, SymDiff(x, y), both, n) /\ updateAll(SymDiff(x, y), both) = e[n]
  BY <1>1, FedIs
<1> DEFINE Good == {i \in 0 .. n : e[i] = SymDiff(g[i], h[i])}
<1>5. 0 \in Good
  BY <1>2, <1>3, <1>4 DEF IsFed
<1>6. ASSUME NEW i \in 1 .. n, i - 1 \in Good PROVE i \in Good
  <2>1. g[i - 1] \in Words /\ h[i - 1] \in Words
    BY <1>2, <1>3 DEF IsFed
  <2>2. /\ g[i] = update(g[i - 1], data[i])
        /\ h[i] = update(h[i - 1], flips[i])
        /\ e[i] = update(e[i - 1], both[i])
    BY <1>2, <1>3, <1>4 DEF IsFed
  <2>3. /\ data[i] \in Bytes /\ flips[i] \in Bytes
        /\ both[i] = SymDiff(data[i], flips[i])
        /\ e[i - 1] = SymDiff(g[i - 1], h[i - 1])
    BY <1>6
  <2>4. e[i] = SymDiff(g[i], h[i])
    BY <2>1, <2>2, <2>3, UpdateOfXor
  <2> QED BY <2>4
<1>7. 0 .. n \subseteq Good
  <2>1. Good \in SUBSET Nat
    OBVIOUS
  <2> HIDE DEF Good
  <2> QED BY <1>5, <1>6, <2>1, Ascend
<1>8. n \in Good
  BY <1>7
<1> QED BY <1>2, <1>3, <1>4, <1>8

(* The CRC of a message with some bits flipped differs from that of the    *)
(* message by what the flips alone, from a state of zero, come to: it does *)
(* not depend on the message.                                              *)
THEOREM CrcIsLinear ==
  \A n \in Nat : \A data, flips \in [1 .. n -> Bytes] :
    compute([i \in 1 .. n |-> SymDiff(data[i], flips[i])])
      = SymDiff(compute(data), updateAll({}, flips))
<1> SUFFICES ASSUME NEW n \in Nat,
                    NEW data \in [1 .. n -> Bytes], NEW flips \in [1 .. n -> Bytes]
             PROVE  compute([i \in 1 .. n |-> SymDiff(data[i], flips[i])])
                      = SymDiff(compute(data), updateAll({}, flips))
  OBVIOUS
<1> DEFINE both == [i \in 1 .. n |-> SymDiff(data[i], flips[i])]
<1>1. \A i \in 1 .. n : SymDiff(data[i], flips[i]) \in Bytes
  BY DEF SymDiff, Bytes
<1>2. both \in [1 .. n -> Bytes] /\ \A i \in 1 .. n : both[i] = SymDiff(data[i], flips[i])
  BY <1>1
<1> HIDE DEF both
<1>3. {} \in Words /\ kInitial \in Words /\ SymDiff(kInitial, {}) = kInitial
  BY DEF Words, kInitial, SymDiff
<1>4. updateAll(kInitial, both) = SymDiff(updateAll(kInitial, data), updateAll({}, flips))
  BY <1>2, <1>3, FedOfXor
<1>5. \A p, q, r : SymDiff(SymDiff(p, q), r) = SymDiff(SymDiff(p, r), q)
  BY DEF SymDiff
<1>6. compute(both) = SymDiff(compute(data), updateAll({}, flips))
  BY <1>4, <1>5 DEF compute, value
<1> QED BY <1>6 DEF both
-----------------------------------------------------------------------------
(* To shift by k and then by one is to shift by k + 1.                     *)
LEMMA ShiftAgain ==
  ASSUME NEW x \in Words, NEW k \in Nat
  PROVE  ShiftRight(ShiftRight(x, k), 1) = ShiftRight(x, k + 1)
<1>1. ShiftRight(x, k) \in Words /\ \A i \in x : i \in 0 .. 31
  BY ShiftType DEF Words
<1>2. ASSUME NEW i
      PROVE  (i \in ShiftRight(ShiftRight(x, k), 1)) <=> (i \in ShiftRight(x, k + 1))
  <2>1. (i \in ShiftRight(ShiftRight(x, k), 1))
          <=> (i \in 0 .. 31 /\ i + 1 \in ShiftRight(x, k))
    BY <1>1, BitOfShift
  <2>2. (i + 1 \in ShiftRight(x, k)) <=> (i + 1 \in 0 .. 31 /\ (i + 1) + k \in x)
    BY BitOfShift
  <2>3. (i \in ShiftRight(x, k + 1)) <=> (i \in 0 .. 31 /\ i + (k + 1) \in x)
    BY BitOfShift
  <2>4. ASSUME i \in 0 .. 31
        PROVE  /\ i + (k + 1) = (i + 1) + k
               /\ (i + 1) + k \in x => i + 1 \in 0 .. 31
    BY <1>1, <2>4
  <2> QED BY <2>1, <2>2, <2>3, <2>4
<1> QED BY <1>2

(* Eight steps on bits above the lowest eight only shift them.             *)
LEMMA StepsOfHigh ==
  ASSUME NEW x \in Words, \A i \in 0 .. 7 : i \notin x, NEW g, IsSteps(g, x)
  PROVE  g[8] = ShiftRight(x, 8)
<1> DEFINE Good == {k \in 0 .. 8 : g[k] = ShiftRight(x, k)}
<1>1. 0 \in Good
  <2>1. ASSUME NEW i PROVE (i \in ShiftRight(x, 0)) <=> (i \in x)
    <3>1. (i \in ShiftRight(x, 0)) <=> (i \in 0 .. 31 /\ i + 0 \in x)
      BY BitOfShift
    <3>2. i \in x => i \in 0 .. 31
      BY DEF Words
    <3> QED BY <3>1, <3>2
  <2>2. ShiftRight(x, 0) = x
    BY <2>1
  <2> QED BY <2>2 DEF IsSteps
<1>2. ASSUME NEW k \in 1 .. 8, k - 1 \in Good PROVE k \in Good
  <2>1. g[k - 1] = ShiftRight(x, k - 1) /\ k - 1 \in Nat
    BY <1>2
  <2>2. 0 \notin ShiftRight(x, k - 1)
    <3>1. k - 1 \in 0 .. 7 /\ 0 + (k - 1) = k - 1
      OBVIOUS
    <3> QED BY <2>1, <3>1, BitOfShift
  <2>3. g[k] = ShiftRight(ShiftRight(x, k - 1), 1)
    BY <2>1, <2>2 DEF IsSteps, Step
  <2>4. g[k] = ShiftRight(x, (k - 1) + 1)
    BY <2>1, <2>3, ShiftAgain
  <2> QED BY <2>4
<1>3. 8 \in Nat /\ Good \in SUBSET Nat
  OBVIOUS
<1>4. 0 .. 8 \subseteq Good
  <2> HIDE DEF Good
  <2> QED BY <1>1, <1>2, <1>3, Ascend
<1>5. 8 \in Good
  BY <1>4
<1> QED BY <1>5

(* A byte through the table is eight steps.                                *)
LEMMA UpdateIsSteps ==
  ASSUME NEW x \in Words, NEW byte \in Bytes, NEW g, IsSteps(g, SymDiff(x, byte))
  PROVE  update(x, byte) = g[8]
<1> DEFINE low  == SymDiff(x, byte) \cap (0 .. 7)
           high == x \ (0 .. 7)
<1>1. low \in Bytes /\ low \in Words /\ high \in Words
  BY DEF Bytes, Words
<1>2. SymDiff(low, high) = SymDiff(x, byte)
  BY DEF SymDiff, Bytes
<1>3. ShiftRight(high, 8) = ShiftRight(x, 8)
  <2>1. ASSUME NEW i PROVE (i \in ShiftRight(high, 8)) <=> (i \in ShiftRight(x, 8))
    <3>1. (i \in ShiftRight(high, 8)) <=> (i \in 0 .. 31 /\ i + 8 \in high)
      BY <1>1, BitOfShift
    <3>2. (i \in ShiftRight(x, 8)) <=> (i \in 0 .. 31 /\ i + 8 \in x)
      BY BitOfShift
    <3> QED BY <3>1, <3>2
  <2> QED BY <2>1
<1>4. update(x, byte) = SymDiff(ShiftRight(x, 8), kTable[low])
  BY DEF update
<1>5. \A i \in 0 .. 7 : i \notin high
  OBVIOUS
<1> HIDE DEF low, high
<1>6. PICK a : IsSteps(a, low) /\ kTable[low] = a[8]
  BY <1>1, TableIs
<1>7. PICK b : IsSteps(b, high)
  BY <1>1, StepsExist
<1>8. b[8] = ShiftRight(x, 8)
  BY <1>1, <1>3, <1>5, <1>7, StepsOfHigh
<1>9. g[8] = SymDiff(a[8], b[8])
  BY <1>1, <1>2, <1>6, <1>7, StepsOfXor
<1>10. SymDiff(a[8], b[8]) = SymDiff(b[8], a[8])
  BY DEF SymDiff
<1> QED BY <1>4, <1>6, <1>8, <1>9, <1>10
-----------------------------------------------------------------------------
(* One step of the reflected algorithm that takes its bit from outside.    *)
BitStep(x, bit) ==
  IF (0 \in x) <=> ~bit THEN SymDiff(ShiftRight(x, 1), kReflectedPolynomial)
  ELSE ShiftRight(x, 1)

(* Such a step takes a word to a word.                                     *)
LEMMA BitStepType ==
  ASSUME NEW x \in Words, NEW bit
  PROVE  BitStep(x, bit) \in Words
BY PolynomialType, ShiftType, XorType DEF BitStep

(* To add a word first is to take its lowest bit now and the others later. *)
LEMMA StepTakesBit ==
  ASSUME NEW x \in Words, NEW w \in Words
  PROVE  Step(SymDiff(x, w)) = SymDiff(BitStep(x, 0 \in w), ShiftRight(w, 1))
<1> DEFINE p == kReflectedPolynomial
           u == ShiftRight(x, 1)
           v == ShiftRight(w, 1)
<1>1. ShiftRight(SymDiff(x, w), 1) = SymDiff(u, v)
  BY ShiftOfXor
<1>2. (0 \in SymDiff(x, w)) <=> ((0 \in x) <=> ~(0 \in w))
  BY BitOfXor
<1>3. /\ Step(SymDiff(x, w)) = IF 0 \in SymDiff(x, w) THEN SymDiff(SymDiff(u, v), p)
                               ELSE SymDiff(u, v)
      /\ BitStep(x, 0 \in w) = IF (0 \in x) <=> ~(0 \in w) THEN SymDiff(u, p) ELSE u
      /\ v = ShiftRight(w, 1)
  BY <1>1 DEF Step, BitStep
<1> HIDE DEF p, u, v
<1>4. SymDiff(SymDiff(u, p), v) = SymDiff(SymDiff(u, v), p)
  BY DEF SymDiff
<1>5. CASE 0 \in SymDiff(x, w)
  BY <1>2, <1>3, <1>4, <1>5
<1>6. CASE 0 \notin SymDiff(x, w)
  BY <1>2, <1>3, <1>6
<1> QED BY <1>5, <1>6

(* e is the eight steps from x that take the bits of a byte in turn.       *)
IsBitSteps(e, x, byte) ==
  /\ e \in [0 .. 8 -> Words] /\ e[0] = x
  /\ \A k \in 1 .. 8 : e[k] = BitStep(e[k - 1], (k - 1) \in byte)

(* They do what update() does with the byte.                               *)
LEMMA BitStepsAreUpdate ==
  ASSUME NEW x \in Words, NEW byte \in Bytes, NEW e, IsBitSteps(e, x, byte)
  PROVE  e[8] = update(x, byte)
<1>1. byte \in Words /\ SymDiff(x, byte) \in Words
  <2>1. byte \in Words
    BY DEF Bytes, Words
  <2> QED BY <2>1, XorType
<1>2. PICK g : IsSteps(g, SymDiff(x, byte))
  BY <1>1, StepsExist
<1>3. ASSUME NEW k \in Nat, NEW i
      PROVE  (i \in ShiftRight(byte, k)) <=> (i \in 0 .. 31 /\ i + k \in byte)
  BY <1>1, BitOfShift
<1>4. ShiftRight(byte, 0) = byte /\ ShiftRight(byte, 8) = {}
  <2>1. \A i \in byte : i \in 0 .. 7
    BY DEF Bytes
  <2>2. ASSUME NEW i PROVE (i \in ShiftRight(byte, 0)) <=> (i \in byte)
    <3>1. (i \in ShiftRight(byte, 0)) <=> (i \in 0 .. 31 /\ i + 0 \in byte)
      BY <1>3
    <3> QED BY <2>1, <3>1
  <2>3. ASSUME NEW i \in ShiftRight(byte, 8) PROVE FALSE
    <3>1. i \in 0 .. 31 /\ i + 8 \in byte
      BY <1>3
    <3> QED BY <2>1, <3>1
  <2> QED BY <2>2, <2>3
<1> DEFINE Good == {k \in 0 .. 8 : g[k] = SymDiff(e[k], ShiftRight(byte, k))}
<1>5. 0 \in Good
  BY <1>2, <1>4 DEF IsSteps, IsBitSteps
<1>6. ASSUME NEW k \in 1 .. 8, k - 1 \in Good PROVE k \in Good
  <2> DEFINE w == ShiftRight(byte, k - 1)
  <2>1. k - 1 \in Nat /\ 0 + (k - 1) = k - 1 /\ (k - 1) + 1 = k
    OBVIOUS
  <2>2. w \in Words /\ ShiftRight(w, 1) = ShiftRight(byte, k)
    BY <1>1, <2>1, ShiftType, ShiftAgain
  <2>3. (0 \in w) <=> ((k - 1) \in byte)
    BY <1>3, <2>1
  <2>4. e[k - 1] \in Words /\ e[k] = BitStep(e[k - 1], (k - 1) \in byte)
    BY DEF IsBitSteps
  <2>5. BitStep(e[k - 1], (k - 1) \in byte) = BitStep(e[k - 1], 0 \in w)
    BY <2>3 DEF BitStep
  <2>6. g[k] = Step(g[k - 1]) /\ g[k - 1] = SymDiff(e[k - 1], w)
    BY <1>2, <1>6 DEF IsSteps
  <2> HIDE DEF w
  <2>7. g[k] = SymDiff(e[k], ShiftRight(byte, k))
    BY <2>2, <2>4, <2>5, <2>6, StepTakesBit
  <2> QED BY <2>7
<1>7. 8 \in Nat /\ Good \in SUBSET Nat
  OBVIOUS
<1>8. 0 .. 8 \subseteq Good
  <2> HIDE DEF Good
  <2> QED BY <1>5, <1>6, <1>7, Ascend
<1>9. g[8] = SymDiff(e[8], {})
  <2>1. 8 \in Good
    BY <1>8
  <2> QED BY <1>4, <2>1
<1>10. g[8] = e[8]
  BY <1>9 DEF SymDiff
<1> QED BY <1>2, <1>10, UpdateIsSteps
-----------------------------------------------------------------------------
(* Reflection, and a bit of the division, in terms of bits.                *)
LEMMA BitOfReflected ==
  ASSUME NEW r \in Words, NEW i
  PROVE  (i \in Reflected(r)) <=> (i \in 0 .. 31 /\ 31 - i \in r)
BY DEF Reflected, Words

(* The division and the reflection stay within words.                      *)
LEMMA DividedType ==
  ASSUME NEW r \in Words, NEW bit
  PROVE  DividedBit(r, bit) \in Words /\ Reflected(r) \in Words
<1> DEFINE shifted == {i + 1 : i \in r \ {31}}
<1>1. kPolynomial \in Words
  BY DEF kPolynomial, Word, Bits, Words
<1>2. shifted \in Words
  BY DEF Words
<1>3. DividedBit(r, bit) = IF (31 \in r) <=> ~bit THEN SymDiff(shifted, kPolynomial) ELSE shifted
  BY DEF DividedBit
<1>4. Reflected(r) \in Words
  BY DEF Reflected, Words
<1> HIDE DEF shifted
<1> QED BY <1>1, <1>2, <1>3, <1>4, XorType

(* Reflected, a bit of the division is a step of the reflected algorithm.  *)
LEMMA DividedReflects ==
  ASSUME NEW r \in Words, NEW bit \in BOOLEAN
  PROVE  Reflected(DividedBit(r, bit)) = BitStep(Reflected(r), bit)
<1> DEFINE shifted == {i + 1 : i \in r \ {31}}
           x == Reflected(r)
<1>1. kPolynomial \in Words
  BY DEF kPolynomial, Word, Bits, Words
<1>2. shifted \in Words /\ x \in Words
  BY DividedType DEF Words
<1>3. (0 \in x) <=> (31 \in r)
  <2>1. (0 \in x) <=> (0 \in 0 .. 31 /\ 31 - 0 \in r)
    BY BitOfReflected
  <2> QED BY <2>1
<1>4. Reflected(shifted) = ShiftRight(x, 1)
  <2>1. ASSUME NEW i PROVE (i \in Reflected(shifted)) <=> (i \in ShiftRight(x, 1))
    <3>1. (i \in Reflected(shifted)) <=> (i \in 0 .. 31 /\ 31 - i \in shifted)
      BY <1>2, BitOfReflected
    <3>2. (i \in ShiftRight(x, 1)) <=> (i \in 0 .. 31 /\ i + 1 \in x)
      BY <1>2, BitOfShift
    <3>3. (i + 1 \in x) <=> (i + 1 \in 0 .. 31 /\ 31 - (i + 1) \in r)
      BY BitOfReflected
    <3>4. ASSUME i \in 0 .. 31
          PROVE  (31 - i \in shifted) <=> (i + 1 \in 0 .. 31 /\ 31 - (i + 1) \in r)
      <4>1. ASSUME 31 - i \in shifted PROVE i + 1 \in 0 .. 31 /\ 31 - (i + 1) \in r
        <5>1. PICK j \in r \ {31} : 31 - i = j + 1
          BY <4>1
        <5>2. j \in 0 .. 31
          BY DEF Words
        <5>3. i + 1 \in 0 .. 31 /\ 31 - (i + 1) = j
          BY <3>4, <5>1, <5>2
        <5> QED BY <5>3
      <4>2. ASSUME i + 1 \in 0 .. 31, 31 - (i + 1) \in r PROVE 31 - i \in shifted
        <5>1. 31 - (i + 1) # 31 /\ 31 - i = (31 - (i + 1)) + 1
          BY <3>4
        <5> QED BY <4>2, <5>1
      <4> QED BY <4>1, <4>2
    <3> QED BY <3>1, <3>2, <3>3, <3>4
  <2> QED BY <2>1
<1>5. Reflected(SymDiff(shifted, kPolynomial)) = SymDiff(Reflected(shifted), Reflected(kPolynomial))
  <2> HIDE DEF shifted
  <2>1. SymDiff(shifted, kPolynomial) \in Words
    BY <1>1, <1>2, XorType
  <2>2. ASSUME NEW i
        PROVE  (i \in Reflected(SymDiff(shifted, kPolynomial)))
                 <=> (i \in SymDiff(Reflected(shifted), Reflected(kPolynomial)))
    BY <1>1, <1>2, <2>1, BitOfReflected, BitOfXor
  <2> QED BY <2>2
<1>6. DividedBit(r, bit) = IF (31 \in r) <=> ~bit THEN SymDiff(shifted, kPolynomial) ELSE shifted
  BY DEF DividedBit
<1>7. BitStep(x, bit) = IF (0 \in x) <=> ~bit THEN SymDiff(ShiftRight(x, 1), kReflectedPolynomial)
                        ELSE ShiftRight(x, 1)
  BY DEF BitStep
<1>8. Reflected(DividedBit(r, bit)) = BitStep(x, bit)
  <2> HIDE DEF shifted, x
  <2>1. CASE (31 \in r) <=> ~bit
    BY <1>3, <1>4, <1>5, <1>6, <1>7, <2>1, PolynomialsReflect
  <2>2. CASE ~((31 \in r) <=> ~bit)
    BY <1>3, <1>4, <1>6, <1>7, <2>2
  <2> QED BY <2>1, <2>2
<1> QED BY <1>8

(* rest is the division of the first n bytes of a message, bit by bit.     *)
IsRest(rest, data, n) ==
  /\ rest \in [0 .. 8 * n -> Words] /\ rest[0] = kInitial
  /\ \A m \in 1 .. 8 * n :
       rest[m] = DividedBit(rest[m - 1], ((m - 1) % 8) \in data[1 + (m - 1) \div 8])

(* There is one, and the reference definition ends where it does.          *)
LEMMA DividedIs ==
  ASSUME NEW n \in Nat, NEW data \in [1 .. n -> Bytes]
  PROVE  \E rest : IsRest(rest, data, n) /\ Divided(data) = SymDiff(Reflected(rest[8 * n]), kFinalXor)
<1> DEFINE Bit(m) == ((m - 1) % 8) \in data[1 + (m - 1) \div 8]
           F == [m \in 1 .. 8 * n |-> [r \in Words |-> DividedBit(r, Bit(m))]]
<1>0. Len(data) = n /\ 8 * n \in Nat
  OBVIOUS
<1>1. F \in [1 .. 8 * n -> [Words -> Words]]
  <2> HIDE DEF Bit
  <2> QED BY DividedType
<1>2. kInitial \in Words
  BY DEF kInitial, Words
<1>3. PICK h : IsRun(h, 8 * n, Words, kInitial, F)
  <2> HIDE DEF F
  <2> QED BY <1>0, <1>1, <1>2, RunExists
<1>4. h \in [0 .. 8 * n -> Words] /\ h[0] = kInitial
  BY <1>3 DEF IsRun
<1>5. ASSUME NEW m \in 1 .. 8 * n PROVE h[m] = DividedBit(h[m - 1], Bit(m))
  <2> HIDE DEF Bit
  <2>1. h[m - 1] \in Words
    BY <1>0, <1>4
  <2>2. h[m] = F[m][h[m - 1]]
    BY <1>3 DEF IsRun
  <2> QED BY <2>1, <2>2
<1>6. h = [m \in 0 .. 8 * n |-> IF m = 0 THEN kInitial ELSE DividedBit(h[m - 1], Bit(m))]
  <2> HIDE DEF Bit
  <2> QED BY <1>0, <1>4, <1>5
<1> DEFINE g == CHOOSE g : g = [m \in 0 .. 8 * n |->
                                  IF m = 0 THEN kInitial ELSE DividedBit(g[m - 1], Bit(m))]
<1>7. Divided(data) = SymDiff(Reflected(g[8 * n]), kFinalXor)
  BY <1>0 DEF Divided
<1>8. g = [m \in 0 .. 8 * n |-> IF m = 0 THEN kInitial ELSE DividedBit(g[m - 1], Bit(m))]
  <2> HIDE DEF Bit
  <2> QED BY <1>6
<1> HIDE DEF g
<1>9. g[0] = kInitial /\ \A m \in 1 .. 8 * n : g[m] = DividedBit(g[m - 1], Bit(m))
  <2> HIDE DEF Bit
  <2> QED BY <1>0, <1>8
<1> DEFINE Good == {m \in 0 .. 8 * n : g[m] \in Words}
<1>10. 0 \in Good /\ \A m \in 1 .. 8 * n : m - 1 \in Good => m \in Good
  <2> HIDE DEF Bit
  <2>1. ASSUME NEW m \in 1 .. 8 * n, m - 1 \in Good PROVE m \in Good
    <3>1. g[m - 1] \in Words /\ g[m] = DividedBit(g[m - 1], Bit(m))
      BY <1>9, <2>1
    <3>2. g[m] \in Words
      BY <3>1, DividedType
    <3> QED BY <1>0, <3>2
  <2> QED BY <1>0, <1>2, <1>9, <2>1
<1>11. 0 .. 8 * n \subseteq Good
  <2>1. Good \in SUBSET Nat
    BY <1>0
  <2> HIDE DEF Good
  <2> QED BY <1>0, <1>10, <2>1, Ascend
<1>12. IsRest(g, data, n)
  <2>1. g \in [0 .. 8 * n -> Words]
    <3> HIDE DEF Bit
    <3> QED BY <1>8, <1>11
  <2> QED BY <1>9, <2>1 DEF IsRest
<1> QED BY <1>7, <1>12

(* The bits of byte k are the eight after those of the bytes before it.    *)
LEMMA RestOfByte ==
  ASSUME NEW n \in Nat, NEW data \in [1 .. n -> Bytes], NEW rest, IsRest(rest, data, n),
         NEW k \in 1 .. n
  PROVE  Reflected(rest[8 * k]) = update(Reflected(rest[8 * (k - 1)]), data[k])
<1> DEFINE e == [j \in 0 .. 8 |-> Reflected(rest[8 * (k - 1) + j])]
<1>1. ASSUME NEW j \in 0 .. 8 PROVE rest[8 * (k - 1) + j] \in Words
  <2>1. 8 * (k - 1) + j \in 0 .. 8 * n
    OBVIOUS
  <2> QED BY <2>1 DEF IsRest
<1>2. e \in [0 .. 8 -> Words] /\ e[0] = Reflected(rest[8 * (k - 1)])
  <2>1. e \in [0 .. 8 -> Words]
    BY <1>1, DividedType
  <2>2. 8 * (k - 1) + 0 = 8 * (k - 1)
    OBVIOUS
  <2> QED BY <2>1, <2>2
<1>3. ASSUME NEW j \in 1 .. 8 PROVE e[j] = BitStep(e[j - 1], (j - 1) \in data[k])
  <2> DEFINE m == 8 * (k - 1) + j
  <2>1. m \in 1 .. 8 * n /\ m - 1 = 8 * (k - 1) + (j - 1)
    OBVIOUS
  <2>2. (m - 1) % 8 = j - 1 /\ 1 + (m - 1) \div 8 = k
    BY <2>1
  <2>3. rest[m] = DividedBit(rest[m - 1], ((m - 1) % 8) \in data[1 + (m - 1) \div 8])
    BY <2>1 DEF IsRest
  <2>4. rest[m] = DividedBit(rest[m - 1], (j - 1) \in data[k])
    BY <2>2, <2>3
  <2>5. rest[m - 1] \in Words /\ e[j] = Reflected(rest[m]) /\ e[j - 1] = Reflected(rest[m - 1])
    <3>1. j - 1 \in 0 .. 8
      OBVIOUS
    <3>2. rest[8 * (k - 1) + (j - 1)] \in Words /\ e[j - 1] = Reflected(rest[8 * (k - 1) + (j - 1)])
      BY <1>1, <3>1
    <3>3. e[j] = Reflected(rest[m])
      OBVIOUS
    <3> HIDE DEF e, m
    <3> QED BY <2>1, <3>2, <3>3
  <2> DEFINE bit == (j - 1) \in data[k]
  <2>6. bit \in BOOLEAN
    OBVIOUS
  <2>7. rest[m] = DividedBit(rest[m - 1], bit)
    BY <2>4
  <2> HIDE DEF e, m, bit
  <2>8. e[j] = BitStep(e[j - 1], bit)
    BY <2>5, <2>6, <2>7, DividedReflects
  <2> QED BY <2>8 DEF bit
<1>4. e[8] = Reflected(rest[8 * k])
  <2>1. 8 * (k - 1) + 8 = 8 * k
    OBVIOUS
  <2> QED BY <2>1
<1> HIDE DEF e
<1>5. IsBitSteps(e, e[0], data[k]) /\ e[0] \in Words /\ data[k] \in Bytes
  BY <1>2, <1>3 DEF IsBitSteps
<1> QED BY <1>2, <1>4, <1>5, BitStepsAreUpdate

(* The table-driven CRC of crc32.cpp is, for a message of every length,    *)
(* the division by 0xF4ACFB13 that the parameters in crc32.hpp name.       *)
THEOREM TableIsDivision ==
  \A n \in Nat : \A data \in [1 .. n -> Bytes] : compute(data) = Divided(data)
<1> SUFFICES ASSUME NEW n \in Nat, NEW data \in [1 .. n -> Bytes]
             PROVE  compute(data) = Divided(data)
  OBVIOUS
<1>1. kInitial \in Words /\ Reflected(kInitial) = kInitial
  <2>1. kInitial \in Words
    BY DEF kInitial, Words
  <2>2. ASSUME NEW i PROVE (i \in Reflected(kInitial)) <=> (i \in kInitial)
    <3>1. (i \in Reflected(kInitial)) <=> (i \in 0 .. 31 /\ 31 - i \in kInitial)
      BY <2>1, BitOfReflected
    <3>2. i \in 0 .. 31 => 31 - i \in 0 .. 31
      OBVIOUS
    <3> QED BY <3>1, <3>2 DEF kInitial
  <2> QED BY <2>1, <2>2
<1>2. PICK g : IsFed(g, kInitial, data, n) /\ updateAll(kInitial, data) = g[n]
  BY <1>1, FedIs
<1>3. PICK rest : /\ IsRest(rest, data, n)
                  /\ Divided(data) = SymDiff(Reflected(rest[8 * n]), kFinalXor)
  BY DividedIs
<1> DEFINE Good == {k \in 0 .. n : Reflected(rest[8 * k]) = g[k]}
<1>4. 0 \in Good
  <2>1. rest[8 * 0] = kInitial /\ g[0] = kInitial
    BY <1>2, <1>3 DEF IsFed, IsRest
  <2> QED BY <1>1, <2>1
<1>5. ASSUME NEW k \in 1 .. n, k - 1 \in Good PROVE k \in Good
  <2>1. Reflected(rest[8 * k]) = update(Reflected(rest[8 * (k - 1)]), data[k])
    BY <1>3, RestOfByte
  <2>2. Reflected(rest[8 * (k - 1)]) = g[k - 1] /\ g[k] = update(g[k - 1], data[k])
    BY <1>2, <1>5 DEF IsFed
  <2>3. Reflected(rest[8 * k]) = g[k]
    BY <2>1, <2>2
  <2> QED BY <2>3
<1>6. 0 .. n \subseteq Good
  <2>1. Good \in SUBSET Nat
    OBVIOUS
  <2> HIDE DEF Good
  <2> QED BY <1>4, <1>5, <2>1, Ascend
<1>7. n \in Good
  BY <1>6
<1>8. Reflected(rest[8 * n]) = g[n]
  BY <1>7
<1> QED BY <1>2, <1>3, <1>8 DEF compute, value
-----------------------------------------------------------------------------
(* A zero byte leaves a state of zero as it is.                            *)
LEMMA UpdateOfZero == update({}, {}) = {}
<1>1. {} \in Words /\ {} \in Bytes /\ SymDiff({}, {}) = {}
  BY DEF Words, Bytes, SymDiff
<1>2. update(SymDiff({}, {}), SymDiff({}, {})) = SymDiff(update({}, {}), update({}, {}))
  BY <1>1, UpdateOfXor
<1>3. SymDiff(update({}, {}), update({}, {})) = {}
  BY DEF SymDiff
<1> QED BY <1>1, <1>2, <1>3

(* The bytes that flip the bits at some places of a message of n bytes.    *)
Flips(places, n) == [m \in 1 .. n |-> {bit \in 0 .. 7 : <<n - m, bit>> \in places}]

(* They are bytes.                                                         *)
LEMMA FlipsType ==
  ASSUME NEW places, NEW n \in Nat
  PROVE  Flips(places, n) \in [1 .. n -> Bytes]
BY DEF Flips, Bytes

(* Zeros before the first flipped bit change nothing.                      *)
LEMMA LeadingZeros ==
  ASSUME NEW n \in Nat, NEW data \in [1 .. n -> Bytes], NEW g, IsFed(g, {}, data, n),
         NEW k \in 0 .. n, \A i \in 1 .. k : data[i] = {}
  PROVE  g[k] = {}
<1> DEFINE Good == {i \in 0 .. k : g[i] = {}}
<1>1. 0 \in Good
  BY DEF IsFed
<1>2. ASSUME NEW i \in 1 .. k, i - 1 \in Good PROVE i \in Good
  <2>1. g[i] = update(g[i - 1], data[i]) /\ g[i - 1] = {} /\ data[i] = {}
    BY <1>2 DEF IsFed
  <2>2. g[i] = {}
    BY <2>1, UpdateOfZero
  <2> QED BY <2>2
<1>3. Good \in SUBSET Nat /\ k \in Nat
  OBVIOUS
<1>4. 0 .. k \subseteq Good
  <2> HIDE DEF Good
  <2> QED BY <1>1, <1>2, <1>3, Ascend
<1>5. k \in Good
  BY <1>4
<1> QED BY <1>5

(* So one flipped bit does to the CRC what its distance from the end says. *)
LEMMA FlipIsSyndrome ==
  ASSUME NEW n \in Nat, NEW following \in 0 .. n - 1, NEW bit \in 0 .. 7
  PROVE  updateAll({}, Flips({<<following, bit>>}, n)) = Syndrome(bit, following)
<1> DEFINE data == Flips({<<following, bit>>}, n)
           tail == [m \in 1 .. following + 1 |-> IF m = 1 THEN {bit} ELSE {}]
           k    == n - (following + 1)
<1>1. /\ data \in [1 .. n -> Bytes] /\ tail \in [1 .. following + 1 -> Bytes]
      /\ {} \in Words /\ following + 1 \in Nat /\ k \in 0 .. n
      /\ Syndrome(bit, following) = updateAll({}, tail)
  BY FlipsType DEF Syndrome, Bytes, Words
<1>2. ASSUME NEW m \in 1 .. n
      PROVE  data[m] = IF n - m = following THEN {bit} ELSE {}
  BY DEF Flips
<1>3. \A i \in 1 .. k : data[i] = {}
  BY <1>2
<1>4. ASSUME NEW j \in 1 .. following + 1
      PROVE  k + j \in 1 .. n /\ data[k + j] = tail[j] /\ (k + j) - 1 = k + (j - 1)
  <2>1. k + j \in 1 .. n /\ (n - (k + j) = following <=> j = 1) /\ (k + j) - 1 = k + (j - 1)
    OBVIOUS
  <2>2. data[k + j] = IF n - (k + j) = following THEN {bit} ELSE {}
    BY <1>2, <2>1
  <2> QED BY <2>1, <2>2
<1>5. k + (following + 1) = n /\ k + 0 = k
  OBVIOUS
<1> HIDE DEF data, tail, k
<1>6. PICK g : IsFed(g, {}, data, n) /\ updateAll({}, data) = g[n]
  BY <1>1, FedIs
<1>7. PICK h : IsFed(h, {}, tail, following + 1) /\ updateAll({}, tail) = h[following + 1]
  BY <1>1, FedIs
<1> DEFINE Good == {j \in 0 .. following + 1 : g[k + j] = h[j]}
<1>8. 0 \in Good
  <2>1. g[k] = {}
    BY <1>1, <1>3, <1>6, LeadingZeros
  <2>2. h[0] = {}
    BY <1>7 DEF IsFed
  <2>3. g[k + 0] = h[0]
    BY <1>5, <2>1, <2>2
  <2>4. 0 \in 0 .. following + 1
    OBVIOUS
  <2> QED BY <2>3, <2>4
<1>9. ASSUME NEW j \in 1 .. following + 1, j - 1 \in Good PROVE j \in Good
  <2>1. k + j \in 1 .. n /\ data[k + j] = tail[j] /\ (k + j) - 1 = k + (j - 1)
    BY <1>4
  <2>2. g[k + j] = update(g[(k + j) - 1], data[k + j]) /\ h[j] = update(h[j - 1], tail[j])
    BY <1>6, <1>7, <2>1 DEF IsFed
  <2>3. g[k + (j - 1)] = h[j - 1]
    BY <1>9
  <2>4. g[k + j] = h[j]
    BY <2>1, <2>2, <2>3
  <2> QED BY <2>4
<1>10. 0 .. following + 1 \subseteq Good
  <2>1. Good \in SUBSET Nat
    BY <1>1
  <2> HIDE DEF Good
  <2> QED BY <1>1, <1>8, <1>9, <2>1, Ascend
<1>11. following + 1 \in Good
  BY <1>1, <1>10
<1>12. g[n] = h[following + 1]
  BY <1>5, <1>11
<1> QED BY <1>1, <1>6, <1>7, <1>12 DEF data
-----------------------------------------------------------------------------
(* The difference that flipped bits make between the CRC of the bytes and  *)
(* the CRC of the telegram: damage is missed when it is empty.             *)
Net(places, n) ==
  SymDiff(updateAll({}, Flips(places, n)), {i \in 0 .. 31 : <<-1, i>> \in places})

(* The difference is a word.                                               *)
LEMMA NetType ==
  ASSUME NEW places, NEW n \in Nat
  PROVE  Net(places, n) \in Words
<1>1. {} \in Words /\ {i \in 0 .. 31 : <<-1, i>> \in places} \in Words
  BY DEF Words
<1>2. PICK g : IsFed(g, {}, Flips(places, n), n) /\ updateAll({}, Flips(places, n)) = g[n]
  BY <1>1, FlipsType, FedIs
<1>3. g[n] \in Words
  BY <1>2 DEF IsFed
<1> QED BY <1>1, <1>2, <1>3, XorType DEF Net

(* Without flipped bits there is none.                                     *)
LEMMA NetOfNothing ==
  ASSUME NEW n \in Nat
  PROVE  Net({}, n) = {}
<1>1. {} \in Words /\ Flips({}, n) \in [1 .. n -> Bytes]
  BY FlipsType DEF Words
<1>2. PICK g : IsFed(g, {}, Flips({}, n), n) /\ updateAll({}, Flips({}, n)) = g[n]
  BY <1>1, FedIs
<1>3. \A i \in 1 .. n : Flips({}, n)[i] = {}
  BY DEF Flips
<1>4. g[n] = {}
  BY <1>1, <1>2, <1>3, LeadingZeros
<1> QED BY <1>2, <1>4 DEF Net, SymDiff

(* The places are bits of the bytes or of the CRC, fewer in a telegram     *)
(* that is shorter.                                                        *)
LEMMA PlaceIs ==
  ASSUME NEW size \in 0 .. kMaxPayloadBytes, NEW p \in Places(size)
  PROVE  /\ p = <<p[1], p[2]>> /\ p \in DOMAIN Effect
         /\ \/ p[1] = -1 /\ p[2] \in 0 .. 31 /\ Effect[p] = {p[2]}
            \/ p[1] \in 8 .. size + 12 /\ p[2] \in 0 .. 7 /\ Effect[p] = Syndrome(p[2], p[1])
<1>1. /\ Places(size) = ((8 .. size + 12) \X (0 .. 7)) \cup ({-1} \X (0 .. 31))
      /\ Places(64) = ((8 .. 76) \X (0 .. 7)) \cup ({-1} \X (0 .. 31))
  <2>1. /\ Addressed = 8 /\ Addressed + SentBytes(size) - 1 = size + 12
        /\ Addressed + SentBytes(64) - 1 = 76 /\ size \in Nat
    BY DEF Addressed, SentBytes, kMaxPayloadBytes
  <2> QED BY <2>1 DEF Places
<1>2. /\ p = <<p[1], p[2]>>
      /\ \/ p[1] = -1 /\ p[2] \in 0 .. 31
         \/ p[1] \in 8 .. size + 12 /\ p[2] \in 0 .. 7
  BY <1>1
<1>3. size + 12 <= 76 /\ size \in Nat
  BY DEF kMaxPayloadBytes
<1>4. p \in Places(64)
  BY <1>1, <1>2, <1>3
<1>5. p \in DOMAIN Effect /\ Effect[p] = IF p[1] = -1 THEN {p[2]} ELSE Syndrome(p[2], p[1])
  BY <1>4 DEF Effect, kMaxPayloadBytes
<1> QED BY <1>2, <1>5

(* One more place adds its effect.                                         *)
LEMMA NetOfOneMore ==
  ASSUME NEW size \in 0 .. kMaxPayloadBytes, NEW n, n = size + 13,
         NEW places, NEW p \in Places(size), p \notin places
  PROVE  Net(places \cup {p}, n) = SymDiff(Net(places, n), Effect[p])
<1> DEFINE more == places \cup {p}
           crc(d) == {i \in 0 .. 31 : <<-1, i>> \in d}
<1>1. n \in Nat /\ size \in Nat
  BY DEF kMaxPayloadBytes
<1>2. /\ p = <<p[1], p[2]>>
      /\ \/ p[1] = -1 /\ p[2] \in 0 .. 31 /\ Effect[p] = {p[2]}
         \/ p[1] \in 8 .. size + 12 /\ p[2] \in 0 .. 7 /\ Effect[p] = Syndrome(p[2], p[1])
  BY PlaceIs
<1>3. ASSUME NEW d PROVE Net(d, n) = SymDiff(updateAll({}, Flips(d, n)), crc(d))
  BY DEF Net
<1>4. ASSUME NEW a, NEW b, NEW c
      PROVE  /\ SymDiff(a, SymDiff(b, c)) = SymDiff(SymDiff(a, b), c)
             /\ SymDiff(SymDiff(a, c), b) = SymDiff(SymDiff(a, b), c)
  BY DEF SymDiff
<1>5. CASE p[1] = -1 /\ p[2] \in 0 .. 31 /\ Effect[p] = {p[2]}
  <2>1. Flips(more, n) = Flips(places, n)
    <3>1. ASSUME NEW m \in 1 .. n, NEW bit \in 0 .. 7
          PROVE  (<<n - m, bit>> \in more) <=> (<<n - m, bit>> \in places)
      <4>1. n - m # -1
        BY <1>1
      <4>2. <<n - m, bit>> # <<p[1], p[2]>>
        BY <1>5, <4>1
      <4> QED BY <1>2, <4>2
    <3> HIDE DEF more
    <3> QED BY <3>1 DEF Flips
  <2>2. crc(more) = SymDiff(crc(places), {p[2]})
    <3>1. ASSUME NEW i \in 0 .. 31
          PROVE  (<<-1, i>> \in more) <=> (<<-1, i>> \in places \/ i = p[2])
      BY <1>2, <1>5
    <3>2. <<-1, p[2]>> \notin places
      BY <1>2, <1>5
    <3> HIDE DEF more
    <3> QED BY <1>5, <3>1, <3>2 DEF SymDiff
  <2> HIDE DEF more, crc
  <2>3. Net(more, n) = SymDiff(Net(places, n), {p[2]})
    BY <1>3, <1>4, <2>1, <2>2
  <2> QED BY <1>5, <2>3 DEF more
<1>6. CASE p[1] \in 8 .. size + 12 /\ p[2] \in 0 .. 7 /\ Effect[p] = Syndrome(p[2], p[1])
  <2> DEFINE one == Flips({p}, n)
             old == Flips(places, n)
             new == Flips(more, n)
  <2>1. crc(more) = crc(places)
    <3>1. ASSUME NEW i \in 0 .. 31 PROVE (<<-1, i>> \in more) <=> (<<-1, i>> \in places)
      <4>1. <<-1, i>> # <<p[1], p[2]>>
        BY <1>6
      <4> QED BY <1>2, <4>1
    <3> HIDE DEF more
    <3> QED BY <3>1
  <2>2. one \in [1 .. n -> Bytes] /\ old \in [1 .. n -> Bytes] /\ new \in [1 .. n -> Bytes]
    BY <1>1, FlipsType
  <2>3. \A m \in 1 .. n : new[m] = SymDiff(old[m], one[m])
    BY DEF Flips, SymDiff
  <2>4. updateAll({}, one) = Effect[p]
    <3>1. p[1] \in 0 .. n - 1
      BY <1>1, <1>6
    <3>2. updateAll({}, Flips({<<p[1], p[2]>>}, n)) = Syndrome(p[2], p[1])
      BY <1>1, <1>6, <3>1, FlipIsSyndrome
    <3>3. {p} = {<<p[1], p[2]>>}
      BY <1>2
    <3> QED BY <1>6, <3>2, <3>3
  <2>5. {} \in Words /\ SymDiff({}, {}) = {}
    BY DEF Words, SymDiff
  <2>6. Net(more, n) = SymDiff(updateAll({}, new), crc(more))
           /\ Net(places, n) = SymDiff(updateAll({}, old), crc(places))
    BY <1>3
  <2> HIDE DEF more, crc, one, old, new
  <2>7. updateAll(SymDiff({}, {}), new) = SymDiff(updateAll({}, old), updateAll({}, one))
    <3> DEFINE zero == {}
    <3>1. zero \in Words
      BY <2>5
    <3> HIDE DEF zero
    <3>2. updateAll(SymDiff(zero, zero), new) = SymDiff(updateAll(zero, old), updateAll(zero, one))
      BY ONLY <1>1, <2>2, <2>3, <3>1, FedOfXor
    <3> QED BY <3>2 DEF zero
  <2>8. Net(more, n) = SymDiff(Net(places, n), Effect[p])
    BY <1>4, <2>1, <2>4, <2>5, <2>6, <2>7
  <2> QED BY <2>8 DEF more
<1> QED BY <1>2, <1>5, <1>6
-----------------------------------------------------------------------------
(* Intervals are finite.                                                   *)
LEMMA IntervalIsFinite == \A a, b \in Int : IsFiniteSet(a .. b)
BY FS_Interval

(* Words are finite, so that their bits can be counted.                    *)
LEMMA WordIsFinite ==
  ASSUME NEW x \in Words
  PROVE  IsFiniteSet(x) /\ Cardinality(x) \in Nat
<1>1. IsFiniteSet(0 .. 31)
  <2>1. 0 \in Int /\ 31 \in Int
    OBVIOUS
  <2> QED BY <2>1, IntervalIsFinite, Zenon
<1>2. x \in SUBSET (0 .. 31)
  BY DEF Words
<1> QED BY <1>1, <1>2, FS_Subset, FS_CardinalityType

(* Exclusive or adds parities.                                             *)
LEMMA ParityOfXor ==
  ASSUME NEW x \in Words, NEW y \in Words
  PROVE  Cardinality(SymDiff(x, y)) % 2 = (Cardinality(x) + Cardinality(y)) % 2
<1> DEFINE a == Cardinality(x)
           b == Cardinality(y)
           c == Cardinality(x \cap y)
<1>1. IsFiniteSet(x) /\ IsFiniteSet(y) /\ a \in Nat /\ b \in Nat
  BY WordIsFinite
<1>2. IsFiniteSet(x \cap y) /\ c \in Nat
  <2>1. x \cap y \in Words
    BY DEF Words
  <2> QED BY <2>1, WordIsFinite
<1>3. IsFiniteSet(x \ y) /\ Cardinality(x \ y) = a - c
  BY <1>1, FS_Difference
<1>4. IsFiniteSet(y \ x) /\ Cardinality(y \ x) = b - c
  <2>1. y \cap x = x \cap y
    OBVIOUS
  <2>2. IsFiniteSet(y \ x) /\ Cardinality(y \ x) = b - Cardinality(y \cap x)
    BY <1>1, FS_Difference
  <2> QED BY <2>1, <2>2
<1>5. Cardinality((x \ y) \cap (y \ x)) = 0
  <2>1. (x \ y) \cap (y \ x) = {}
    OBVIOUS
  <2> QED BY <2>1, FS_EmptySet
<1>6. Cardinality(SymDiff(x, y))
        = Cardinality(x \ y) + Cardinality(y \ x) - Cardinality((x \ y) \cap (y \ x))
  BY <1>3, <1>4, FS_Union DEF SymDiff
<1>7. Cardinality(SymDiff(x, y)) = (a - c) + (b - c)
  <2> HIDE DEF a, b, c
  <2> QED BY <1>1, <1>2, <1>3, <1>4, <1>5, <1>6
<1> HIDE DEF a, b, c
<1>8. ((a - c) + (b - c)) % 2 = (a + b) % 2
  BY <1>1, <1>2
<1> QED BY <1>7, <1>8 DEF a, b

(* The effect of a place is a word with an odd number of bits.             *)
LEMMA EffectType ==
  ASSUME NEW p \in DOMAIN Effect
  PROVE  Effect[p] \in Words /\ Effect[p] \in Effects /\ Cardinality(Effect[p]) % 2 = 1
<1>1. p \in Places(kMaxPayloadBytes) /\ kMaxPayloadBytes \in 0 .. kMaxPayloadBytes
  BY DEF Effect, kMaxPayloadBytes
<1>2. \/ p[1] = -1 /\ p[2] \in 0 .. 31 /\ Effect[p] = {p[2]}
      \/ p[1] \in 8 .. kMaxPayloadBytes + 12 /\ p[2] \in 0 .. 7 /\ Effect[p] = Syndrome(p[2], p[1])
  BY <1>1, PlaceIs
<1>3. Effect[p] \in Words
  <2>1. CASE p[2] \in 0 .. 31 /\ Effect[p] = {p[2]}
    BY <2>1 DEF Words
  <2>2. CASE p[1] \in 8 .. kMaxPayloadBytes + 12 /\ p[2] \in 0 .. 7 /\ Effect[p] = Syndrome(p[2], p[1])
    <3> DEFINE data == [m \in 1 .. p[1] + 1 |-> IF m = 1 THEN {p[2]} ELSE {}]
    <3>1. p[1] + 1 \in Nat /\ data \in [1 .. p[1] + 1 -> Bytes] /\ {} \in Words
      BY <2>2 DEF Bytes, Words, kMaxPayloadBytes
    <3>2. Effect[p] = updateAll({}, data)
      BY <2>2 DEF Syndrome
    <3> HIDE DEF data
    <3>3. PICK g : IsFed(g, {}, data, p[1] + 1) /\ updateAll({}, data) = g[p[1] + 1]
      BY <3>1, FedIs
    <3>4. g[p[1] + 1] \in Words
      BY <3>1, <3>3 DEF IsFed
    <3> QED BY <3>2, <3>3, <3>4
  <2> QED BY <1>2, <2>1, <2>2
<1>4. Effect[p] \in Effects
  BY DEF Effects
<1> QED BY <1>3, <1>4, EffectsAreOdd

(* The effects of so many places together have the parity of their number. *)
LEMMA NetParity ==
  ASSUME NEW size \in 0 .. kMaxPayloadBytes, NEW n, n = size + 13, NEW most \in Nat
  PROVE  \A places \in SUBSET Places(size) :
           IsFiniteSet(places) /\ Cardinality(places) = most
             => Cardinality(Net(places, n)) % 2 = most % 2
<1>0. n \in Nat /\ size \in Nat
  BY DEF kMaxPayloadBytes
<1> DEFINE P(k) == \A places \in SUBSET Places(size) :
                     IsFiniteSet(places) /\ Cardinality(places) = k
                       => Cardinality(Net(places, n)) % 2 = k % 2
           Good == {k \in 0 .. most : P(k)}
<1>1. 0 \in Good
  <2>1. ASSUME NEW places, IsFiniteSet(places), Cardinality(places) = 0
        PROVE  Cardinality(Net(places, n)) % 2 = 0 % 2
    <3>1. places = {}
      BY <2>1, FS_EmptySet
    <3>2. Net(places, n) = {}
      BY <1>0, <3>1, NetOfNothing
    <3> QED BY <3>2, FS_EmptySet
  <2> QED BY <2>1
<1>2. ASSUME NEW k \in 1 .. most, k - 1 \in Good PROVE k \in Good
  <2>1. ASSUME NEW places \in SUBSET Places(size), IsFiniteSet(places), Cardinality(places) = k
        PROVE  Cardinality(Net(places, n)) % 2 = k % 2
    <3>1. places # {}
      BY <2>1, FS_EmptySet
    <3>2. PICK p : p \in places
      BY <3>1
    <3> DEFINE less == places \ {p}
    <3>3. /\ IsFiniteSet(less) /\ Cardinality(less) = k - 1
          /\ less \in SUBSET Places(size) /\ p \in Places(size) /\ p \notin less
          /\ places = less \cup {p}
      BY <2>1, <3>2, FS_RemoveElement
    <3>4. P(k - 1)
      BY <1>2
    <3>5. Cardinality(Net(less, n)) % 2 = (k - 1) % 2
      BY <3>3, <3>4
    <3> HIDE DEF less, P, Good
    <3>6. Net(places, n) = SymDiff(Net(less, n), Effect[p])
      BY <3>3, NetOfOneMore
    <3>7. Effect[p] \in Words /\ Cardinality(Effect[p]) % 2 = 1
      BY <3>3, PlaceIs, EffectType
    <3>8. Net(less, n) \in Words
      BY <1>0, NetType
    <3>9. Cardinality(Net(less, n)) \in Nat /\ Cardinality(Effect[p]) \in Nat
      BY <3>7, <3>8, WordIsFinite
    <3>10. Cardinality(Net(places, n)) % 2
             = (Cardinality(Net(less, n)) + Cardinality(Effect[p])) % 2
      BY <3>6, <3>7, <3>8, ParityOfXor
    <3>11. ASSUME NEW a \in Nat, NEW b \in Nat, a % 2 = (k - 1) % 2, b % 2 = 1
           PROVE  (a + b) % 2 = k % 2
      BY <3>11
    <3> QED BY <3>5, <3>7, <3>9, <3>10, <3>11
  <2> QED BY <2>1
<1>3. Good \in SUBSET Nat
  OBVIOUS
<1>4. 0 .. most \subseteq Good
  <2> HIDE DEF Good
  <2> QED BY <1>1, <1>2, <1>3, Ascend
<1>5. most \in Good
  BY <1>4
<1> QED BY <1>5
-----------------------------------------------------------------------------
(* There are finitely many places, effects and pairs of effects.           *)
LEMMA PlacesAreFinite == IsFiniteSet(DOMAIN Effect) /\ IsFiniteSet(Effects) /\ IsFiniteSet(Pairs)
<1>1. IsFiniteSet(DOMAIN Effect)
  <2>1. DOMAIN Effect = ((8 .. 76) \X (0 .. 7)) \cup ({-1} \X (0 .. 31))
    <3>1. Addressed = 8 /\ Addressed + SentBytes(64) - 1 = 76
      BY DEF Addressed, SentBytes
    <3> QED BY <3>1 DEF Effect, Places, kMaxPayloadBytes
  <2>2. IsFiniteSet(8 .. 76) /\ IsFiniteSet(0 .. 7) /\ IsFiniteSet({-1}) /\ IsFiniteSet(0 .. 31)
    <3>1. 8 \in Int /\ 76 \in Int /\ 0 \in Int /\ 7 \in Int /\ 31 \in Int
      OBVIOUS
    <3>2. IsFiniteSet({-1})
      BY FS_Singleton
    <3> QED BY <3>1, <3>2, IntervalIsFinite, Zenon
  <2> DEFINE S == (8 .. 76) \X (0 .. 7)
             T == {-1} \X (0 .. 31)
  <2>3. IsFiniteSet(S) /\ IsFiniteSet(T)
    BY <2>2, FS_Product
  <2>4. DOMAIN Effect = S \cup T
    BY <2>1
  <2> HIDE DEF S, T
  <2>5. IsFiniteSet(S \cup T)
    BY <2>3, FS_Union
  <2> QED BY <2>4, <2>5
<1>2. Effect \in Surjection(DOMAIN Effect, Effects)
  BY DEF Effect, Effects, Surjection
<1>3. IsFiniteSet(Effects)
  BY <1>1, <1>2, FS_Surjection
<1>4. IsFiniteSet(SUBSET Effects)
  BY <1>3, FS_SUBSET
<1>5. Pairs \in SUBSET SUBSET Effects
  BY DEF Pairs
<1>6. IsFiniteSet(Pairs)
  BY <1>4, <1>5, FS_Subset
<1> QED BY <1>1, <1>3, <1>6

(* No two places have one effect.                                          *)
LEMMA EffectsDiffer ==
  ASSUME NEW p \in DOMAIN Effect, NEW q \in DOMAIN Effect, p # q
  PROVE  Effect[p] # Effect[q]
<1>1. Effect \in Surjection(DOMAIN Effect, Effects)
  BY DEF Effect, Effects, Surjection
<1>2. Effect \in Injection(DOMAIN Effect, Effects)
  BY <1>1, PlacesAreFinite, EffectsAreApart, FS_SurjSameCardinalityImpliesInj
<1> QED BY <1>2 DEF Injection, IsInjective

(* No two pairs differ in the same bits.                                   *)
LEMMA PairsDiffer ==
  ASSUME NEW a \in Pairs, NEW b \in Pairs, a # b
  PROVE  Differ(a) # Differ(b)
<1> DEFINE f == [pair \in Pairs |-> Differ(pair)]
           T == {Differ(pair) : pair \in Pairs}
<1>1. f \in Surjection(Pairs, T)
  BY DEF Surjection
<1>2. Cardinality(Pairs) = Cardinality(T)
  BY PairsAreApart
<1>3. f \in Injection(Pairs, T)
  <2> HIDE DEF f, T
  <2> QED BY <1>1, <1>2, PlacesAreFinite, FS_SurjSameCardinalityImpliesInj
<1>4. f[a] # f[b]
  <2> HIDE DEF f, T
  <2> QED BY <1>3 DEF Injection, IsInjective
<1> QED BY <1>4

(* Where two effects differ is their exclusive or.                         *)
LEMMA DifferIsXor ==
  ASSUME NEW x \in Effects, NEW y \in Effects, x \in Words, y \in Words, x # y
  PROVE  {x, y} \in Pairs /\ Differ({x, y}) = SymDiff(x, y)
<1>1. {x, y} \in Pairs
  BY DEF Pairs
<1>2. Differ({x, y}) = SymDiff(x, y)
  BY DEF Differ, SymDiff, Words
<1> QED BY <1>1, <1>2

(* One to five places together leave something, two and four of them       *)
(* because no effects and no pairs of effects agree.                       *)
LEMMA NetIsNotNothing ==
  ASSUME NEW size \in 0 .. kMaxPayloadBytes, NEW n, n = size + 13,
         NEW places \in SUBSET Places(size), Cardinality(places) \in 1 .. 5
  PROVE  Net(places, n) # {}
<1>0. n \in Nat /\ size \in Nat
  BY DEF kMaxPayloadBytes
<1>1. \A p \in Places(size) : p \in DOMAIN Effect
  BY PlaceIs
<1>2. IsFiniteSet(places)
  <2>1. places \in SUBSET (DOMAIN Effect)
    BY <1>1
  <2> QED BY <2>1, PlacesAreFinite, FS_Subset
<1>3. ASSUME NEW d \in SUBSET Places(size), IsFiniteSet(d), d # {}
      PROVE  \E p \in d : /\ p \in Places(size) /\ d \ {p} \in SUBSET Places(size)
                          /\ IsFiniteSet(d \ {p}) /\ Cardinality(d \ {p}) = Cardinality(d) - 1
                          /\ Net(d, n) = SymDiff(Net(d \ {p}, n), Effect[p])
  <2>1. PICK p \in d : TRUE
    BY <1>3
  <2>2. /\ p \in Places(size) /\ d \ {p} \in SUBSET Places(size)
        /\ p \notin d \ {p} /\ d = (d \ {p}) \cup {p}
    BY <2>1
  <2>3. IsFiniteSet(d \ {p}) /\ Cardinality(d \ {p}) = Cardinality(d) - 1
    BY <1>3, <2>1, FS_RemoveElement
  <2>4. Net((d \ {p}) \cup {p}, n) = SymDiff(Net(d \ {p}, n), Effect[p])
    BY <2>2, NetOfOneMore
  <2>5. Net(d, n) = SymDiff(Net(d \ {p}, n), Effect[p])
    BY <2>2, <2>4
  <2> QED BY <2>1, <2>2, <2>3, <2>5
<1>4. Cardinality({}) = 0 /\ \A d : Cardinality(d) # 0 => d # {}
  BY FS_EmptySet
<1>5. CASE Cardinality(places) \in {1, 3, 5}
  <2> DEFINE c == Cardinality(places)
  <2>1. c \in Nat /\ c % 2 = 1
    BY <1>5
  <2>2. Cardinality(Net(places, n)) % 2 = c % 2
    BY <1>2, <2>1, NetParity
  <2>3. Cardinality(Net(places, n)) # 0
    <3> HIDE DEF c
    <3> QED BY <2>1, <2>2
  <2> QED BY <1>4, <2>3
<1>6. CASE Cardinality(places) \in {2, 4}
  <2>1. places # {}
    BY <1>4, <1>6
  <2>2. PICK p \in places :
          /\ p \in Places(size) /\ places \ {p} \in SUBSET Places(size)
          /\ IsFiniteSet(places \ {p}) /\ Cardinality(places \ {p}) = Cardinality(places) - 1
          /\ Net(places, n) = SymDiff(Net(places \ {p}, n), Effect[p])
    BY <1>2, <1>3, <2>1
  <2> DEFINE d1 == places \ {p}
  <2>3. Cardinality(d1) \in {1, 3} /\ p \notin d1
    BY <1>6, <2>2
  <2>4. d1 # {}
    BY <1>4, <2>3
  <2>5. PICK q \in d1 :
          /\ q \in Places(size) /\ d1 \ {q} \in SUBSET Places(size)
          /\ IsFiniteSet(d1 \ {q}) /\ Cardinality(d1 \ {q}) = Cardinality(d1) - 1
          /\ Net(d1, n) = SymDiff(Net(d1 \ {q}, n), Effect[q])
    BY <1>3, <2>2, <2>4
  <2> DEFINE d2 == d1 \ {q}
             a  == Effect[p]
             b  == Effect[q]
  <2>6. p # q /\ p \notin d2 /\ q \notin d2
    BY <2>3
  <2>7. a \in Words /\ a \in Effects /\ b \in Words /\ b \in Effects /\ a # b
    BY <1>1, <2>2, <2>5, <2>6, EffectType, EffectsDiffer
  <2>8. Net(places, n) = SymDiff(SymDiff(Net(d2, n), b), a)
    BY <2>2, <2>5
  <2>9. CASE Cardinality(places) = 2
    <3>1. Cardinality(d2) = 0 /\ IsFiniteSet(d2)
      BY <2>2, <2>5, <2>9
    <3>2. d2 = {}
      BY <3>1, FS_EmptySet
    <3>3. Net(d2, n) = {}
      BY <1>0, <3>2, NetOfNothing
    <3> HIDE DEF a, b, d1, d2
    <3> QED BY <2>7, <2>8, <3>3 DEF SymDiff
  <2>10. CASE Cardinality(places) = 4
    <3>1. Cardinality(d2) = 2 /\ IsFiniteSet(d2) /\ d2 \in SUBSET Places(size)
      BY <2>2, <2>5, <2>10
    <3> HIDE DEF d2
    <3>2. d2 # {}
      BY <1>4, <3>1
    <3>3. PICK r \in d2 :
            /\ r \in Places(size) /\ d2 \ {r} \in SUBSET Places(size)
            /\ IsFiniteSet(d2 \ {r}) /\ Cardinality(d2 \ {r}) = Cardinality(d2) - 1
            /\ Net(d2, n) = SymDiff(Net(d2 \ {r}, n), Effect[r])
      BY <1>3, <3>1, <3>2
    <3> DEFINE d3 == d2 \ {r}
    <3>4. Cardinality(d3) = 1
      BY <3>1, <3>3
    <3>5. d3 # {}
      BY <1>4, <3>4
    <3>6. PICK s \in d3 :
            /\ s \in Places(size) /\ d3 \ {s} \in SUBSET Places(size)
            /\ IsFiniteSet(d3 \ {s}) /\ Cardinality(d3 \ {s}) = Cardinality(d3) - 1
            /\ Net(d3, n) = SymDiff(Net(d3 \ {s}, n), Effect[s])
      BY <1>3, <3>3, <3>5
    <3> DEFINE d4 == d3 \ {s}
               c  == Effect[r]
               e  == Effect[s]
    <3>7. r # s /\ p # r /\ p # s /\ q # r /\ q # s
      BY <2>6, <3>3, <3>6
    <3>8. c \in Words /\ c \in Effects /\ e \in Words /\ e \in Effects
      BY <1>1, <3>3, <3>6, EffectType
    <3>9. c # e /\ a # c /\ a # e
      BY <1>1, <2>2, <3>3, <3>6, <3>7, EffectsDiffer
    <3>10. Net(d4, n) = {}
      <4>1. Cardinality(d4) = 0 /\ IsFiniteSet(d4)
        BY <3>4, <3>6
      <4>2. d4 = {}
        BY <4>1, FS_EmptySet
      <4> QED BY <1>0, <4>2, NetOfNothing
    <3>11. Net(places, n) = SymDiff(SymDiff(SymDiff(SymDiff(Net(d4, n), e), c), b), a)
      BY <2>8, <3>3, <3>6
    <3> HIDE DEF a, b, c, e, d1, d3, d4
    <3>12. {a, b} # {c, e}
      BY <3>9
    <3>13. /\ {a, b} \in Pairs /\ Differ({a, b}) = SymDiff(a, b)
           /\ {c, e} \in Pairs /\ Differ({c, e}) = SymDiff(c, e)
      BY <2>7, <3>8, <3>9, DifferIsXor
    <3>14. SymDiff(a, b) # SymDiff(c, e)
      BY <3>12, <3>13, PairsDiffer
    <3>15. Net(places, n) = SymDiff(SymDiff(c, e), SymDiff(a, b))
      BY <3>10, <3>11 DEF SymDiff
    <3> DEFINE x == SymDiff(c, e)
               y == SymDiff(a, b)
    <3>16. x # y /\ Net(places, n) = SymDiff(x, y)
      BY <3>14, <3>15
    <3> HIDE DEF x, y
    <3> QED BY <3>16 DEF SymDiff
  <2> QED BY <1>6, <2>9, <2>10
<1> QED BY <1>5, <1>6

(* What a receiver sees of damage is what it leaves.                       *)
LEMMA DamageIsNet ==
  ASSUME NEW n \in Nat, NEW data \in [1 .. n -> Bytes], NEW places,
         compute(DamagedBytes(data, places)) = DamagedCrc(compute(data), places)
  PROVE  Net(places, n) = {}
<1> DEFINE flips == Flips(places, n)
           crc   == {i \in 0 .. 31 : <<-1, i>> \in places}
           u     == updateAll({}, flips)
<1>1. flips \in [1 .. n -> Bytes] /\ Len(data) = n
  BY FlipsType
<1>2. DamagedBytes(data, places) = [i \in 1 .. n |-> SymDiff(data[i], flips[i])]
  BY <1>1 DEF DamagedBytes, Flips
<1>3. compute([i \in 1 .. n |-> SymDiff(data[i], flips[i])]) = SymDiff(compute(data), u)
  <2> HIDE DEF flips
  <2> QED BY <1>1, CrcIsLinear
<1>4. DamagedCrc(compute(data), places) = SymDiff(compute(data), crc)
  BY DEF DamagedCrc
<1>5. Net(places, n) = SymDiff(u, crc)
  BY DEF Net
<1> HIDE DEF flips, crc, u
<1>6. SymDiff(compute(data), u) = SymDiff(compute(data), crc)
  BY <1>2, <1>3, <1>4
<1>7. ASSUME NEW z, SymDiff(z, u) = SymDiff(z, crc) PROVE u = crc
  <2>1. ASSUME NEW i PROVE (i \in u) <=> (i \in crc)
    <3>1. /\ (i \in SymDiff(z, u)) <=> ~((i \in z) <=> (i \in u))
          /\ (i \in SymDiff(z, crc)) <=> ~((i \in z) <=> (i \in crc))
      BY DEF SymDiff
    <3>2. (i \in SymDiff(z, u)) <=> (i \in SymDiff(z, crc))
      BY <1>7
    <3> QED BY ONLY <3>1, <3>2
  <2> QED BY <2>1
<1>8. u = crc
  BY <1>6, <1>7
<1> QED BY <1>5, <1>8 DEF SymDiff
-----------------------------------------------------------------------------
(* update() of a wider value feeds two or four bytes.                      *)
LEMMA LittleEndianType ==
  ASSUME NEW word
  PROVE  /\ LittleEndian(word, 2) \in [1 .. 2 -> Bytes]
         /\ LittleEndian(word, 4) \in [1 .. 4 -> Bytes]
<1>1. ASSUME NEW bytes \in Nat
      PROVE  LittleEndian(word, bytes) \in [1 .. bytes -> Bytes]
  BY DEF LittleEndian, Bytes
<1>2. 2 \in Nat /\ 4 \in Nat
  OBVIOUS
<1> QED BY <1>1, <1>2, Zenon

(* Two runs of bytes, one after the other, are a run of bytes.             *)
LEMMA Joined ==
  ASSUME NEW m \in Nat, NEW k \in Nat, NEW s \in [1 .. m -> Bytes], NEW t \in [1 .. k -> Bytes]
  PROVE  s \o t \in [1 .. m + k -> Bytes]
<1> DEFINE st == s \o t
<1>1. s \in Seq(Bytes) /\ t \in Seq(Bytes) /\ Len(s) = m /\ Len(t) = k
  OBVIOUS
<1>2. st \in Seq(Bytes) /\ Len(st) = m + k
  BY <1>1
<1> HIDE DEF st
<1>3. st \in [1 .. m + k -> Bytes]
  BY <1>2
<1> QED BY <1>3 DEF st

(* The CRC of a telegram covers its payload and thirteen bytes more.       *)
LEMMA CoveredType ==
  ASSUME NEW size \in Nat, NEW payload \in [1 .. size -> Bytes], NEW status \in Bytes,
         NEW address, NEW consecutive_number
  PROVE  Covered(address, payload, status, consecutive_number) \in [1 .. size + 13 -> Bytes]
<1> DEFINE s1 == payload \o <<status>>
           s2 == s1 \o LittleEndian(consecutive_number, 4)
           s3 == s2 \o LittleEndian(address.source, 2)
           s4 == s3 \o LittleEndian(address.destination, 2)
           s5 == s4 \o LittleEndian(address.parameter_signature, 4)
<1>0. Covered(address, payload, status, consecutive_number) = s5
  BY DEF Covered
<1>1. s1 \in [1 .. size + 1 -> Bytes]
  <2>1. <<status>> \in [1 .. 1 -> Bytes]
    OBVIOUS
  <2> QED BY <2>1, Joined
<1> HIDE DEF s1
<1>2. s2 \in [1 .. (size + 1) + 4 -> Bytes]
  <2>1. size + 1 \in Nat /\ LittleEndian(consecutive_number, 4) \in [1 .. 4 -> Bytes]
    BY LittleEndianType
  <2> QED BY <1>1, <2>1, Joined
<1> HIDE DEF s2
<1>3. s3 \in [1 .. ((size + 1) + 4) + 2 -> Bytes]
  <2>1. (size + 1) + 4 \in Nat /\ LittleEndian(address.source, 2) \in [1 .. 2 -> Bytes]
    BY LittleEndianType
  <2> QED BY <1>2, <2>1, Joined
<1> HIDE DEF s3
<1>4. s4 \in [1 .. (((size + 1) + 4) + 2) + 2 -> Bytes]
  <2>1. /\ ((size + 1) + 4) + 2 \in Nat
        /\ LittleEndian(address.destination, 2) \in [1 .. 2 -> Bytes]
    BY LittleEndianType
  <2> QED BY <1>3, <2>1, Joined
<1> HIDE DEF s4
<1>5. s5 \in [1 .. ((((size + 1) + 4) + 2) + 2) + 4 -> Bytes]
  <2>1. /\ (((size + 1) + 4) + 2) + 2 \in Nat
        /\ LittleEndian(address.parameter_signature, 4) \in [1 .. 4 -> Bytes]
    BY LittleEndianType
  <2> QED BY <1>4, <2>1, Joined
<1>6. ((((size + 1) + 4) + 2) + 2) + 4 = size + 13
  OBVIOUS
<1> HIDE DEF s5
<1> QED BY <1>0, <1>5, <1>6

(* REQ-SAF-002 and "HD=6" of crc32.hpp: whatever a telegram holds, when    *)
(* one to five bits of its payload, status, consecutive number or CRC are  *)
(* flipped, the CRC that the receiver computes is not the one it received. *)
THEOREM DamageIsDetected ==
  \A size \in 0 .. kMaxPayloadBytes : \A payload \in [1 .. size -> Bytes], status \in Bytes :
    \A address, consecutive_number : \A places \in SUBSET Places(size) :
      LET data == Covered(address, payload, status, consecutive_number) IN
      Cardinality(places) \in 1 .. 5
        => compute(DamagedBytes(data, places)) # DamagedCrc(compute(data), places)
<1> SUFFICES ASSUME NEW size \in 0 .. kMaxPayloadBytes,
                    NEW payload \in [1 .. size -> Bytes], NEW status \in Bytes,
                    NEW address, NEW consecutive_number,
                    NEW places \in SUBSET Places(size), Cardinality(places) \in 1 .. 5,
                    NEW data, data = Covered(address, payload, status, consecutive_number),
                    compute(DamagedBytes(data, places)) = DamagedCrc(compute(data), places)
             PROVE  FALSE
  OBVIOUS
<1>1. size \in Nat /\ size + 13 \in Nat
  BY DEF kMaxPayloadBytes
<1>2. data \in [1 .. size + 13 -> Bytes]
  BY <1>1, CoveredType
<1>3. Net(places, size + 13) = {}
  BY <1>1, <1>2, DamageIsNet
<1> QED BY <1>3, NetIsNotNothing
=============================================================================
