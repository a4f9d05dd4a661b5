------------------------------- MODULE Scoring -------------------------------
(* The composite deal score (pkg/scorer/scorer.go), the percentile baseline  *)
(* it compares a price with (the SQL function recompute_baseline), and the   *)
(* watch filters (pkg/types/types.go).  Amounts are whole numbers; a price   *)
(* factor is the fraction [n, d], so that nothing is rounded before the total*)
(* is.  Weights are in hundredths.                                           *)
EXTENDS Integers, Sequences, SequencesExt

DefaultWeights == [price |-> 40, seller |-> 20, condition |-> 15, quantity |-> 10, quality |-> 10, time |-> 5]

(* lerp of val between (lo, from) and (hi, to); hi = lo gives from.          *)
lerp(val, lo, hi, from, to) ==
  IF hi = lo THEN [n |-> from, d |-> 1]
  ELSE [n |-> from * (hi - lo) + (val - lo) * (to - from), d |-> hi - lo]

(* Variant: the cheapest quarter is interpolated the wrong way round.        *)
priceScoreOpen(p, b) ==
  CASE p < b.p10 -> [n |-> 100, d |-> 1]
    [] p >= b.p10 /\ p < b.p25 -> lerp(p, b.p10, b.p25, 70, 100)
    [] p >= b.p25 /\ p < b.p50 -> lerp(p, b.p25, b.p50, 70, 30)
    [] p >= b.p50 /\ p < b.p75 -> lerp(p, b.p50, b.p75, 30, 10)
    [] p >= b.p75 /\ p < b.p90 -> lerp(p, b.p75, b.p90, 10, 0)
    [] OTHER -> [n |-> 0, d |-> 1]

(* Piecewise linear between the percentiles, cheaper is better.              *)
priceScore(p, b) ==
  IF p <= b.p10 THEN [n |-> 100, d |-> 1]
  ELSE IF p <= b.p25 THEN lerp(p, b.p10, b.p25, 100, 70)
  ELSE IF p <= b.p50 THEN lerp(p, b.p25, b.p50, 70, 30)
  ELSE IF p <= b.p75 THEN lerp(p, b.p50, b.p75, 30, 10)
  ELSE IF p <= b.p90 THEN lerp(p, b.p75, b.p90, 10, 0)
  ELSE [n |-> 0, d |-> 1]

(* The score of the highest step that v reaches; steps are <<bound, score>>, *)
(* highest bound first.                                                      *)
Ladder(v, steps, default) ==
  LET reached == SelectSeq(steps, LAMBDA s : v >= s[1])
  IN  IF reached = <<>> THEN default ELSE Head(reached)[2]

(* Feedback percentage is in tenths.                                         *)
sellerScore(d) ==
  LET fb == Ladder(d.feedback, <<<<5000, 100>>, <<500, 70>>, <<100, 40>>>>, 10)
      pct == Ladder(d.feedbackPct, <<<<995, 100>>, <<980, 80>>, <<950, 50>>>>, 0)
      s == (fb + pct) \div 2
  IN  IF ~d.topRated THEN s ELSE IF s + 20 > 100 THEN 100 ELSE s + 20

conditionScore(c) ==
  CASE c = "new" -> 100 [] c = "like_new" -> 90 [] c = "used_working" -> 70 [] c = "for_parts" -> 10
    [] OTHER -> 40

quantityScore(q) ==
  IF q <= 1 THEN 50 ELSE Ladder(q, <<<<16, 90>>, <<8, 80>>, <<4, 70>>>>, 60)

(* No caller fills the description length, so that part is never earned.     *)
qualityScore(d) == (IF d.hasImages THEN 40 ELSE 0) + (IF d.hasSpecifics THEN 30 ELSE 0)

timeScore(d) == IF d.endingSoon THEN 100 ELSE IF d.isNew THEN 80 ELSE 30

(* Rounded half up, as math.Round does above zero, then clamped.             *)
Clamp(t) == IF t > 100 THEN 100 ELSE IF t < 0 THEN 0 ELSE t

RoundTotal(n, d) == Clamp((2 * n + d) \div (2 * d))

NoBaseline == [samples |-> 0]

(* The weighted factors that do not depend on the baseline.                  *)
OtherFactors(d) ==
  LET w == DefaultWeights IN
  w.seller * sellerScore(d) + w.condition * conditionScore(d.condition) + w.quantity * quantityScore(d.quantity)
    + w.quality * qualityScore(d) + w.time * timeScore(d)

(* Without a baseline of enough samples the price factor is neutral.         *)
Score(unitPrice, others, b, minBaselineSamples) ==
  LET price == IF b # NoBaseline /\ b.samples >= minBaselineSamples
               THEN priceScore(unitPrice, b) ELSE [n |-> 50, d |-> 1]
  IN  RoundTotal(DefaultWeights.price * price.n + others * price.d, 100 * price.d)

(* UnitPrice: shipping included, per piece of a lot.                         *)
UnitPrice(l) == IF l.quantity > 1 THEN (l.price + l.shipping) \div l.quantity ELSE l.price + l.shipping

-----------------------------------------------------------------------------
(* percentile_cont(f/100) of a sorted sequence of prices: interpolated       *)
(* between the two neighbours.                                               *)
percentile_cont(f, prices) ==
  LET pos == f * (Len(prices) - 1)
      i == pos \div 100
      next == IF i + 2 <= Len(prices) THEN prices[i + 2] ELSE prices[i + 1]
  IN  prices[i + 1] + ((pos % 100) * (next - prices[i + 1])) \div 100

(* The prices of the samples in ascending order: the k-th is the least one   *)
(* that k samples do not exceed.                                             *)
Ascending(price) ==
  LET notAbove(x) == {i \in DOMAIN price : price[i] <= x}
  IN  [k \in 1..Cardinality(DOMAIN price) |->
         Min({x \in Range(price) : Cardinality(notAbove(x)) >= k})]

(* The row of price_baselines for a product, given the price of each sample: *)
(* unchanged below minSamples.                                               *)
recompute_baseline(price, old, minSamples) ==
  LET s == Ascending(price) IN
  IF Len(s) < minSamples THEN old
  ELSE [samples |-> Len(s), p10 |-> percentile_cont(10, s), p25 |-> percentile_cont(25, s),
        p50 |-> percentile_cont(50, s), p75 |-> percentile_cont(75, s), p90 |-> percentile_cont(90, s)]

-----------------------------------------------------------------------------
(* Watch filters.  An absent bound is NoBound; attribute values are [n |-> number] *)
(* or [s |-> string], and attribute filters are partial functions.           *)
NoBound == -1

matchPrice(f, l) ==
  /\ f.priceMax # NoBound => UnitPrice(l) <= f.priceMax
  /\ f.priceMin # NoBound => UnitPrice(l) >= f.priceMin

matchSeller(f, l) ==
  /\ f.minFeedback # NoBound => l.feedback >= f.minFeedback
  /\ f.minFeedbackPct # NoBound => l.feedbackPct >= f.minFeedbackPct
  /\ f.topRatedOnly => l.topRated

matchCondition(f, l) == f.conditions = {} \/ l.condition \in f.conditions

(* Equality wins over membership, which wins over the range; a range never   *)
(* rejects a value that is not a number.                                     *)
matchAttribute(v, a) ==
  CASE a.op = "eq" -> v = a.value
    [] a.op = "in" -> v \in a.values
    [] OTHER -> DOMAIN v = {"n"} => /\ a.min # NoBound => v.n >= a.min
                                    /\ a.max # NoBound => v.n <= a.max

matchAttributes(f, l) ==
  \A k \in DOMAIN f.attributes : k \in DOMAIN l.attrs /\ matchAttribute(l.attrs[k], f.attributes[k])

Match(f, l) == matchPrice(f, l) /\ matchSeller(f, l) /\ matchCondition(f, l) /\ matchAttributes(f, l)

=============================================================================
