----------------------------- MODULE MCVerdict -----------------------------
(* Thresholds a source may have, and facts around each of them.            *)
EXTENDS FenceChecklist

(* A source with tuned floors, and the defaults of a source without.       *)
Tuned == [minLiquidityUsd |-> 1000, hardMinLiquidityUsd |-> 500, minTxCount |-> 5,
          minTurnoverPercent |-> 10, minAge |-> 1, maxDeviationPercent |-> 5,
          minDecimals |-> 0, maxDecimals |-> 36, autoVerifyPercent |-> 85, maxUnseen |-> 0]
Default == [Tuned EXCEPT !.minLiquidityUsd = 0, !.minTxCount = 0, !.minTurnoverPercent = 0]

Pool(r, v, n, h, a) ==
    [reserveUsd |-> r, volumeUsd |-> v, txCount |-> n, hooked |-> h, subgraphAbsent |-> a]
Coin(l, d, age, cg, dex) ==
    [listed |-> l, decimals |-> d, deployed |-> age, priceCg |-> cg, priceDex |-> dex]

(* Below the hard floor; below and at the floor, with too few trades; a    *)
(* phantom; and a deep pool with no volume known and a claim against it.   *)
Pools == {Pool(499, 60, 5, FALSE, FALSE), Pool(999, 90, 4, FALSE, FALSE),
          Pool(1000, 100, 4, FALSE, FALSE),
          Pool(20000, 1, 5, FALSE, FALSE), Pool(20000, 0, 5, TRUE, FALSE)}

(* Listed and otherwise unknown; too young and off its reference price;    *)
(* unlisted at the edge of the tolerance; with decimals out of the band.   *)
Coins == {Coin(TRUE, 18, 0, 0, 100), Coin(TRUE, 18, 2, 100, 94),
          Coin(FALSE, 18, 1, 100, 105), Coin(TRUE, 77, 1, 100, 100)}

Sources == {[firstParty |-> FALSE, reserveTrusted |-> FALSE],
            [firstParty |-> TRUE, reserveTrusted |-> FALSE],
            [firstParty |-> FALSE, reserveTrusted |-> TRUE]}

Findings == [confirmed0 : {FALSE}, confirmed1 : {TRUE}, canonical0 : Match,
             canonical1 : {"match"}, factory : {"unknown"}, scam : BOOLEAN,
             rival : BOOLEAN, sibling : BOOLEAN]
=============================================================================
