----------------------------- MODULE Statistics -----------------------------
(***************************************************************************)
(* The statistical definitions of the forecast, as each engine computes     *)
(* them.  A distribution is a function from values to the number of         *)
(* simulations that ended there; sorting it and looking at a rank is        *)
(* Ranked.  Percentiles are functions whose domain is the set of the        *)
(* percentiles that are present.                                            *)
(***************************************************************************)
EXTENDS Integers, FiniteSets, Functions

CONSTANT MaxBuckets  \* HISTOGRAM_MAX_BUCKETS

ASSUME BucketAssumption == MaxBuckets \in Nat \ {0}

Published == {50, 70, 90}

Total(d) == FoldFunction(+, 0, d)

AtMost(d, v) == FoldFunctionOnSet(+, 0, d, {x \in DOMAIN d : x <= v})

\* The value at a 1-based rank of the sorted distribution.
Ranked(d, rank) ==
  CHOOSE v \in DOMAIN d : AtMost(d, v) >= rank /\ AtMost(d, v - 1) < rank

(************************ percentiles, in Python ***************************)
WeeksRank(p, totalCount) == (p * totalCount + 99) \div 100

\* Faulty variant: the rank counts the completed simulations only.
weeks_percentiles_completed(d, totalCount) ==
  [p \in IF Total(d) = 0 THEN {} ELSE Published |-> Ranked(d, WeeksRank(p, Total(d)))]

\* Faulty variant: a simulation without a hit counts as one of the first week.
weeks_percentiles_unfiltered(d, totalCount) ==
  [p \in Published |->
     Ranked([d EXCEPT ![1] = @ + totalCount - Total(d)], WeeksRank(p, totalCount))]

weeks_percentiles(d, totalCount) ==
  [p \in {q \in Published : Total(d) >= WeeksRank(q, totalCount)} |->
     Ranked(d, WeeksRank(p, totalCount))]

\* Faulty variant: the quantile of durations, not of survival.
items_percentiles_upside_down(d) ==
  [p \in IF Total(d) = 0 THEN {} ELSE Published |->
     Ranked(d, (p * (Total(d) - 1)) \div 100 + 1)]

items_percentiles(d) ==
  [p \in IF Total(d) = 0 THEN {} ELSE Published |->
     Ranked(d, ((100 - p) * (Total(d) - 1)) \div 100 + 1)]

(********************** percentiles, in TypeScript *************************)
\* Faulty variant: the rank is rounded down.
FloorDiv(a, b) == a \div b

CeilDiv(a, b) == -((-a) \div b)

discreteWeeksPercentiles(d, totalCount) ==
  [p \in {q \in Published : ~(Total(d) < CeilDiv(q * totalCount, 100))} |->
     Ranked(d, CeilDiv(p * totalCount, 100))]

(****************************** risk score *********************************)
\* Faulty variant: the ratio is truncated.
RoundDown(numerator, denominator) == (numerator * 10000) \div denominator

\* A positive ratio in ten-thousandths, rounded half up.
RoundHalfUp(numerator, denominator) ==
  LET scaled == numerator * 10000
  IN (scaled \div denominator)
     + (IF 2 * (scaled % denominator) >= denominator THEN 1 ELSE 0)

HasRiskScore(percentiles) ==
  {50, 90} \subseteq DOMAIN percentiles /\ percentiles[50] > 0

RiskScore(mode, percentiles) ==
  LET spread == IF mode = "weeks_to_items"
                THEN percentiles[50] - percentiles[90]
                ELSE percentiles[90] - percentiles[50]
  IN RoundHalfUp(IF spread > 0 THEN spread ELSE 0, percentiles[50])

(******************************* histogram *********************************)
Observed(d) == {v \in DOMAIN d : d[v] > 0}

Lowest(d)  == CHOOSE v \in Observed(d) : \A w \in Observed(d) : v <= w
Highest(d) == CHOOSE v \in Observed(d) : \A w \in Observed(d) : v >= w

\* Faulty variant: the extent is counted without its last value.
WidthWithoutLast(lowest, highest) ==
  -((-(highest - lowest)) \div MaxBuckets)

Width(lowest, highest) == (highest - lowest) \div MaxBuckets + 1

BucketOf(v, lowest, width) == (v - lowest) \div width

LeftOf(index, lowest, width) == lowest + index * width

RightOf(index, lowest, highest, width) ==
  LET last == LeftOf(index, lowest, width) + width - 1
  IN IF last < highest THEN last ELSE highest

Representative(index, lowest, highest, width) ==
  (LeftOf(index, lowest, width) + RightOf(index, lowest, highest, width)) \div 2

\* The buckets, in the order of their keys: the values themselves, or the
\* indices of the intervals when there are too many values.
build_histogram(d) ==
  IF Cardinality(Observed(d)) <= MaxBuckets
  THEN [v \in Observed(d) |-> [x |-> v, count |-> d[v]]]
  ELSE LET low   == Lowest(d)
           high  == Highest(d)
           width == Width(low, high)
           members(index) == {v \in Observed(d) : BucketOf(v, low, width) = index}
       IN [index \in {BucketOf(v, low, width) : v \in Observed(d)} |->
            [x     |-> Representative(index, low, high, width),
             count |-> FoldFunctionOnSet(+, 0, d, members(index))]]
=============================================================================
