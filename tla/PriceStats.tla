----------------------------- MODULE PriceStats -----------------------------
(***************************************************************************)
(* How one price is made of many (lib/stats.ts aggregatePrices): outliers  *)
(* are taken out of the sampled prices by one of several methods, and what *)
(* is left is averaged, weighted by liquidity or not.                      *)
(*                                                                         *)
(* A sample set is a function from the pools sampled to their prices, so   *)
(* equal prices of two pools stay two samples.  Prices are naturals in     *)
(* some fine unit; medians, means and deviations are kept multiplied by    *)
(* their denominators, so nothing is rounded.  Peirce's criterion, an      *)
(* iteration over floating-point exponentials, is left out.                *)
(***************************************************************************)
EXTENDS Integers, FiniteSets, FiniteSetsExt, Functions

Magnitude(x) == IF x < 0 THEN -x ELSE x

Total(f) == FoldFunction(LAMBDA x, y : x + y, 0, f)

Count(prices) == Cardinality(DOMAIN prices)

(* The k-th smallest of the values, counting from 1.                       *)
Nth(values, k) ==
    CHOOSE v \in Range(values) :
        /\ Cardinality({i \in DOMAIN values : values[i] < v}) < k
        /\ Cardinality({i \in DOMAIN values : values[i] <= v}) >= k

(* Twice the median: the two middle values, which are one if there is one. *)
Median2(values) ==
    Nth(values, (Count(values) + 1) \div 2) + Nth(values, Count(values) \div 2 + 1)

-----------------------------------------------------------------------------
(* Robust: the median and the median absolute deviation.                   *)

(* Twice each value's distance from the median.                            *)
Deviation2(prices) ==
    LET med2 == Median2(prices) IN [i \in DOMAIN prices |-> Magnitude(2 * prices[i] - med2)]

Mad4(prices) == Median2(Deviation2(prices))

(* A fault: the cutoff is ten times too wide.                              *)
isMadOutlierWide(dev2, mad4) == mad4 > 0 /\ 6745 * 2 * dev2 > 350000 * mad4

(* 0.6745 |x - median| / MAD > 3.5; no value is an outlier if the MAD is 0.  *)
isMadOutlier(dev2, mad4) == mad4 > 0 /\ 6745 * 2 * dev2 > 35000 * mad4

removeOutliersMAD(prices) ==
    IF Count(prices) < 3 THEN DOMAIN prices
    ELSE LET dev2 == Deviation2(prices)
             mad4 == Mad4(prices)
         IN  {i \in DOMAIN prices : ~isMadOutlier(dev2[i], mad4)}

-----------------------------------------------------------------------------
(* Chauvenet, go-ooo's: no further than dMax standard deviations.          *)

(* A fault: the variance of a population, not of a sample.                 *)
SpreadsPopulation(n) == n

(* What the squared deviations are divided by.                             *)
Spreads(n) == IF n = 1 THEN 1 ELSE n - 1

(* n times each value's distance from the mean, squared.                   *)
SquaredN(prices) ==
    LET n   == Count(prices)
        sum == Total(prices)
    IN  [i \in DOMAIN prices |-> (n * prices[i] - sum) * (n * prices[i] - sum)]

removeOutliersChauvenet(prices, dMax) ==
    LET squared  == SquaredN(prices)
        variance == Total(squared)
    IN  {i \in DOMAIN prices :
            variance > 0 => dMax * dMax * variance > squared[i] * Spreads(Count(prices))}

-----------------------------------------------------------------------------
(* Tukey's fences: within one and a half interquartile ranges.             *)

(* Four times the q-th quartile, interpolated between neighbours.          *)
Quartile4(prices, q) ==
    LET pos  == (Count(prices) - 1) * q
        base == pos \div 4 + 1
        rest == pos % 4
        low  == Nth(prices, base)
    IN  IF base < Count(prices) THEN 4 * low + rest * (Nth(prices, base + 1) - low) ELSE 4 * low

removeOutliersIQD(prices) ==
    LET q1  == Quartile4(prices, 1)
        q3  == Quartile4(prices, 3)
        iqr == q3 - q1
    IN  {i \in DOMAIN prices :
            /\ 2 * 4 * prices[i] <= 2 * q3 + 3 * iqr
            /\ 2 * 4 * prices[i] >= 2 * q1 - 3 * iqr}

-----------------------------------------------------------------------------
(* The pipeline.                                                           *)

Methods == {"mad", "chauvenet", "iqd", "none"}

Survivors(prices, method, dMax) ==
    CASE method = "mad"         -> removeOutliersMAD(prices)
      [] method = "chauvenet"   -> removeOutliersChauvenet(prices, dMax)
      [] method = "iqd"         -> removeOutliersIQD(prices)
      [] method = "none"        -> DOMAIN prices

(* The mean of the survivors as a fraction, by liquidity if there is any.  *)
weightedMean(prices, liquidity, kept) ==
    LET weight == Total([i \in kept |-> liquidity[i]])
    IN  IF weight > 0
        THEN [num |-> Total([i \in kept |-> prices[i] * liquidity[i]]), den |-> weight]
        ELSE [num |-> Total([i \in kept |-> prices[i]]), den |-> Max({Cardinality(kept), 1})]

aggregatePrices(prices, liquidity, method, dMax) ==
    LET kept == Survivors(prices, method, dMax)
    IN  [kept |-> kept, price |-> weightedMean(prices, liquidity, kept)]

-----------------------------------------------------------------------------
(* What the robust method is chosen for (lib/stats.ts:184-195): while more *)
(* than half of the samples are sound, whatever the others say moves the   *)
(* price out of the range of the sound ones by no more than the cutoff     *)
(* times that range.  It needs a deviation to measure by: if at least half *)
(* of the samples are equal nothing is rejected.                           *)
MinorityIsContained(prices, liquidity, sound) ==
    LET honest == {prices[i] : i \in sound}
        spread == 35000 * (Max(honest) - Min(honest))
        r      == aggregatePrices(prices, liquidity, "mad", 1).price
    IN  (Count(prices) >= 3 /\ 2 * Cardinality(sound) > Count(prices) /\ Mad4(prices) > 0) =>
            /\ 6745 * (r.num - Max(honest) * r.den) <= spread * r.den
            /\ 6745 * (Min(honest) * r.den - r.num) <= spread * r.den
=============================================================================
