-------------------------- MODULE LatencyHistogram ---------------------------
(***************************************************************************)
(* rt::LatencyHistogram of src/rt/latency_histogram.cpp, as a value and    *)
(* the operations on it.  A quantile is a number of thousandths, exact     *)
(* where the code multiplies doubles; the mean is left out.                *)
(***************************************************************************)
EXTENDS Integers, FiniteSetsExt

CONSTANTS
  SubBucketBits,  \* kSubBucketBits, 5 in the code
  Octaves,        \* kOctaves, 58 in the code
  MaxClock,       \* bound on the clock, and so on every sample
  Quantiles       \* the quantiles asked of a histogram, in thousandths

ASSUME HistogramAssumption ==
  SubBucketBits \in Nat \ {0} /\ Octaves \in Nat \ {0}

(* 1 << n, for the shifts there are.                                       *)
Pow2[n \in 0 .. SubBucketBits + Octaves + 1] == IF n = 0 THEN 1 ELSE 2 * Pow2[n - 1]

kSubBucketCount == Pow2[SubBucketBits]
kLinearLimit    == 2 * kSubBucketCount
kBucketCount    == kLinearLimit + Octaves * kSubBucketCount

(* The values below this fit the buckets: 2^64 in the code, where no       *)
(* sample reaches 2^63.                                                    *)
Limit == Pow2[SubBucketBits + Octaves + 1]

ASSUME SampleAssumption == MaxClock \in 0 .. Limit - 1 /\ Quantiles \subseteq Nat

HistogramType ==
  [buckets: [0 .. kBucketCount - 1 -> Nat], count: Nat, max: Nat, min: 0 .. Limit]

(* A new histogram, and what reset() leaves.  Limit stands for INT64_MAX.  *)
Empty ==
  [buckets |-> [i \in 0 .. kBucketCount - 1 |-> 0], count |-> 0, max |-> 0, min |-> Limit]

(* 63 - countl_zero(value).                                                *)
Exponent(value) ==
  CHOOSE e \in 0 .. SubBucketBits + Octaves : Pow2[e] <= value /\ value < Pow2[e + 1]

bucketIndexFor(value) ==
  IF value < kLinearLimit THEN value
  ELSE LET shift == Exponent(value) - SubBucketBits
           sub   == (value \div Pow2[shift]) % kSubBucketCount
       IN kLinearLimit + (shift - 1) * kSubBucketCount + sub

M_lowerBound(index) ==
  IF index < kLinearLimit THEN index
  ELSE LET offset == index - kLinearLimit
           shift  == offset \div kSubBucketCount + 1
       IN (kSubBucketCount + (offset % kSubBucketCount)) * Pow2[shift]

bucketUpperBound(index) ==
  IF index < kLinearLimit THEN index
  ELSE LET offset == index - kLinearLimit
           shift  == offset \div kSubBucketCount + 1
           lower  == (kSubBucketCount + (offset % kSubBucketCount)) * Pow2[shift]
       IN lower + Pow2[shift] - 1

recordMany(h, value, count) ==
  LET clamped == Max({value, 0}) IN
  IF count = 0 THEN h
  ELSE [h EXCEPT !.buckets[bucketIndexFor(clamped)] = @ + count,
                 !.count = @ + count,
                 !.max = Max({@, clamped}),
                 !.min = Min({@, clamped})]

record(h, value) == recordMany(h, value, 1)

merge(h, other) ==
  IF other.count = 0 THEN h
  ELSE [buckets |-> [i \in 0 .. kBucketCount - 1 |-> h.buckets[i] + other.buckets[i]],
        count   |-> h.count + other.count,
        max     |-> Max({h.max, other.max}),
        min     |-> Min({h.min, other.min})]

minimum(h) == IF h.count = 0 THEN 0 ELSE h.min

(* The rank looked for: ceil(q * count), between the first and the last.   *)
Target(quantile, count) ==
  LET q == Max({0, Min({quantile, 1000})}) IN
  Max({1, Min({count, (q * count + 999) \div 1000})})

(* The running total over f, from 0 to n.                                  *)
Totals(f, n) ==
  LET seen[i \in 0 .. n] == (IF i = 0 THEN 0 ELSE seen[i - 1]) + f[i] IN seen

percentile(h, quantile) ==
  LET seen    == Totals(h.buckets, kBucketCount - 1)
      reached == {i \in 0 .. kBucketCount - 1 : seen[i] >= Target(quantile, h.count)}
  IN IF h.count = 0 THEN 0
     ELSE IF reached = {} THEN h.max
     ELSE Min({bucketUpperBound(Min(reached)), h.max})
-----------------------------------------------------------------------------
(* The value with the given rank among the samples, from the smallest.     *)
Ranked(counts, rank) ==
  LET seen == Totals(counts, MaxClock) IN
  CHOOSE v \in 0 .. MaxClock : seen[v] >= rank /\ (v = 0 \/ seen[v - 1] < rank)

(* The least rank that is at least q thousandths of all.                   *)
RankOf(q, count) ==
  CHOOSE r \in 1 .. count : 1000 * r >= q * count /\ (r = 1 \/ 1000 * (r - 1) < q * count)

(* The histogram h, given these samples, has them all, and its percentiles *)
(* are not below the true ones, nor above them by more than one part in    *)
(* kSubBucketCount, nor above the largest sample.  A quantile beyond 1 is  *)
(* taken for 1.                                                            *)
Describes(h, counts) ==
  LET given == {v \in 0 .. MaxClock : counts[v] > 0} IN
  /\ h.count = Totals(counts, MaxClock)[MaxClock]
  /\ given # {} =>
       /\ minimum(h) = Min(given) /\ h.max = Max(given)
       /\ \A q \in Quantiles :
            LET true_q   == Ranked(counts, RankOf(Min({q, 1000}), h.count))
                reported == percentile(h, q)
            IN /\ true_q <= reported /\ reported <= h.max
               /\ (reported - true_q) * kSubBucketCount <= true_q
=============================================================================
