-------------------------------- MODULE Hist --------------------------------
(***************************************************************************)
(* The log2 histogram from which the programs print their percentiles:     *)
(* hft::Hist and, without the extremes, LatencyHist of the receivers,      *)
(* which is the same code.  Operators on histograms as values, and what a  *)
(* percentile tells of the samples.                                        *)
(***************************************************************************)
EXTENDS Integers, Sequences, FiniteSets, FiniteSetsExt, Functions

CONSTANTS
  kBuckets,  \* kBuckets, 64 in the code
  Largest,   \* the largest value (~0ull)
  Samples,   \* the values a sample may have
  MaxCount   \* samples in a histogram (bounds the model)

ASSUME HistAssumption ==
  /\ kBuckets \in Nat \ {0} /\ MaxCount \in Nat
  /\ Largest \in Nat /\ Samples \subseteq 0 .. Largest

Buckets_ == 0 .. kBuckets - 1

(* p as it is passed, in thousandths: p50, p99, p999                       *)
Percents == {500, 990, 999}

NewHist == [count |-> 0, sum |-> 0, min |-> Largest, max |-> 0,
            buckets |-> [b \in Buckets_ |-> 0]]

(* How often a value can be halved before it is at most 1.                 *)
Halvings ==
  LET h[v \in 0 .. Largest] == IF v <= 1 THEN 0 ELSE 1 + h[v \div 2]
  IN h

(* Mutant: the bucket that the comment of Hist names, [2^(i-1), 2^i).      *)
BucketOfComment(v) ==
  LET i == IF v = 0 THEN 0 ELSE Halvings[v] + 1
  IN IF i < kBuckets THEN i ELSE kBuckets - 1

(* bucket: what does not fit goes to the last one.                         *)
Bucket(v) == IF Halvings[v] < kBuckets THEN Halvings[v] ELSE kBuckets - 1

(* 1ull << b *)
Shifted ==
  LET s[b \in Buckets_] == IF b = 0 THEN 1 ELSE 2 * s[b - 1]
  IN s

(* bucket_ns, bucket_us *)
BucketValue(b) == IF b = 0 THEN 0 ELSE Shifted[b]

(* add_ns, add_us *)
Add(h, v) ==
  [count |-> h.count + 1,
   sum |-> h.sum + v,
   min |-> IF v < h.min THEN v ELSE h.min,
   max |-> IF v > h.max THEN v ELSE h.max,
   buckets |-> [h.buckets EXCEPT ![Bucket(v)] = @ + 1]]

(* acc: the samples in the buckets up to this one.                         *)
UpTo(h) ==
  LET acc[b \in Buckets_] == IF b = 0 THEN h.buckets[0] ELSE acc[b - 1] + h.buckets[b]
  IN acc

(* percentile_ns, percentile_us: the first bucket up to which there are    *)
(* more than target samples.                                               *)
Percentile(h, p) ==
  LET target == ((h.count - 1) * p) \div 1000
      acc == UpTo(h)
  IN IF h.count = 0 THEN 0
     ELSE BucketValue(Min({b \in Buckets_ : acc[b] > target} \cup {kBuckets - 1}))

Filled(samples) ==
  LET h[n \in 0 .. Len(samples)] == IF n = 0 THEN NewHist ELSE Add(h[n - 1], samples[n])
  IN h[Len(samples)]
-----------------------------------------------------------------------------
(* The sample of this rank, counting from 0 in ascending order.            *)
Ranked(samples, k) ==
  CHOOSE v \in Range(samples) :
    /\ Cardinality({j \in DOMAIN samples : samples[j] < v}) <= k
    /\ Cardinality({j \in DOMAIN samples : samples[j] <= v}) > k

(* A printed percentile is the true one rounded down to a power of two     *)
(* (0 for less than 2): never above it, and more than half of it unless it *)
(* is beyond the last bucket.  Percentiles come in order.                  *)
Brackets(samples) ==
  LET h == Filled(samples)
  IN IF samples = << >>
     THEN \A p \in Percents : Percentile(h, p) = 0
     ELSE /\ \A p \in Percents :
               LET v == Ranked(samples, ((Len(samples) - 1) * p) \div 1000)
                   printed == Percentile(h, p)
               IN /\ printed <= v /\ h.min <= v /\ v <= h.max
                  /\ IF v < 2 THEN printed = 0
                     ELSE v < 2 * printed \/ printed = BucketValue(kBuckets - 1)
          /\ \A p, q \in Percents : p <= q => Percentile(h, p) <= Percentile(h, q)

(* Whether that is so of every histogram with n samples.                   *)
BracketsAll == [n \in 0 .. MaxCount |-> \A samples \in [1 .. n -> Samples] : Brackets(samples)]
=============================================================================
