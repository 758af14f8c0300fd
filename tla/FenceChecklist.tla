--------------------------- MODULE FenceChecklist ---------------------------
(***************************************************************************)
(* The fence checklist a reviewer sees (lib/fences.ts): a second copy of   *)
(* the engine's predicates, kept in step by hand.  Only the phantom gate   *)
(* is shared code.  A row is what the page scores (its outcome and weight) *)
(* and whether it shows as a hard failure (HARD, BELOW HARD FLOOR).        *)
(***************************************************************************)
EXTENDS Verdict

Row(ok, weight) == [ok |-> ok, weight |-> weight, rejects |-> FALSE]
Rejecting(row, holds) == IF holds THEN [row EXCEPT !.rejects = TRUE] ELSE row

ShownCanonical(match) == Row(CASE match = "match" -> "pass"
                               [] match = "other" -> "fail"
                               [] OTHER -> "skip", 3)

ShownAge(token, t) ==
    IF token.deployed > 0 THEN Row(Gate(t - token.deployed >= Config.minAge), 1)
    ELSE Row("skip", 0)

ShownDecimals(token) ==
    LET sane == token.decimals \in Config.minDecimals..Config.maxDecimals
    IN  Rejecting(Row(Gate(sane), 1), ~sane)

(* How far the DEX price may be from the reference, either way.            *)
ShownPrice(token) ==
    LET slack == Config.maxDeviationPercent * token.priceCg
    IN  IF token.priceCg > 0 /\ token.priceDex > 0
        THEN Row(Gate(/\ token.priceDex * 100 <= token.priceCg * 100 + slack
                      /\ token.priceDex * 100 + slack >= token.priceCg * 100), 2)
        ELSE Row("skip", 0)

(* The rows, given the reserve the liquidity row is credited with.         *)
RowsWith(e, t, reserve) ==
    LET m == e.market
        identified == /\ e.token0.listed \/ e.checks.confirmed0
                      /\ e.token1.listed \/ e.checks.confirmed1
    IN
    [identified |-> Row(Gate(identified), 3),
     canonical0 |-> ShownCanonical(Canonical0(e)),
     canonical1 |-> ShownCanonical(Canonical1(e)),
     factory    |-> [ShownCanonical(e.checks.factory) EXCEPT !.weight = 2],
     seen       |-> IF e.seen = 0 THEN Row("skip", 0)
                    ELSE Rejecting(Row(Gate(t - e.seen <= Config.maxUnseen), 0),
                                   t - e.seen > Config.maxUnseen),
     liquidity  |-> Rejecting(Row(Gate(reserve >= Config.minLiquidityUsd), 2),
                              /\ ~e.source.firstParty
                              /\ m.reserveUsd < Config.hardMinLiquidityUsd),
     txCount    |-> Row(Gate(m.txCount >= Config.minTxCount), 1),
     turnover   |-> IF m.reserveUsd > 0 /\ m.volumeUsd > 0
                    THEN Row(Gate(m.volumeUsd * 100
                                    >= Config.minTurnoverPercent * m.reserveUsd), 1)
                    ELSE Row("skip", 0),
     age0       |-> ShownAge(e.token0, t),
     age1       |-> ShownAge(e.token1, t),
     decimals0  |-> ShownDecimals(e.token0),
     decimals1  |-> ShownDecimals(e.token1),
     price0     |-> ShownPrice(e.token0),
     price1     |-> ShownPrice(e.token1)]

(* A fault the copy once had: reserveTrusted added to the verdict alone.   *)
DeriveFencesUntrusting(e, t) ==
    RowsWith(e, t, IF ~e.source.firstParty /\ IsPhantomLiquidity(e.market)
                   THEN 0 ELSE e.market.reserveUsd)

(* A fault: the withheld reserve is in the verdict alone.                  *)
DeriveFencesCrediting(e, t) == RowsWith(e, t, e.market.reserveUsd)

DeriveFences(e, t) ==
    RowsWith(e, t, IF PhantomLiquidityApplies(e) THEN 0 ELSE e.market.reserveUsd)

-----------------------------------------------------------------------------

ShownWeight(rows, Outcomes) ==
    LET worth(key) == IF rows[key].ok \in Outcomes THEN rows[key].weight ELSE 0
    IN    worth("identified") + worth("canonical0") + worth("canonical1")
        + worth("factory") + worth("seen") + worth("liquidity") + worth("txCount")
        + worth("turnover") + worth("age0") + worth("age1") + worth("decimals0")
        + worth("decimals1") + worth("price0") + worth("price1")

(* The confidence the page works out, passed weight over scored weight, is *)
(* the one the engine decided by (fenceConfidence, computeConfidence).     *)
MirrorAgrees ==
    LET rows == DeriveFences(pair, now)
        f    == Fences(pair, now)
    IN  /\ ShownWeight(rows, {"pass"}) = Weigh(f, Earned)
        /\ ShownWeight(rows, {"pass", "fail"}) = Weigh(f, Counted)

(* What the page shows as decisive: a failing row chipped HARD, the chip    *)
(* BELOW HARD FLOOR, and the scored rows of its line "Held on".            *)
HardFailures(rows) == {key \in DOMAIN rows : rows[key].rejects}

HeldOn(rows) == {key \in DOMAIN rows : rows[key].ok = "fail" /\ rows[key].weight > 0}

(* The page shows why: a hard failure on it means the engine rejects ("a   *)
(* failure auto-rejects", fences.ts), going unseen even when the pair also *)
(* lost an impostor conflict; and where the engine rejects, the page shows *)
(* a hard failure or is held on both identity and liquidity, so no pair is *)
(* binned for a reserve that the reviewer sees pass.                       *)
RejectionsShown ==
    LET rows    == DeriveFences(pair, now)
        verdict == VerdictOf(pair, now)
    IN  /\ "seen" \in HardFailures(rows) => verdict = "AutoRejected"
        /\ HardFailures(rows) # {} => verdict \in {"AutoRejected", "NotCurrentlyUsable"}
        /\ verdict = "AutoRejected" =>
              HardFailures(rows) # {} \/ {"identified", "liquidity"} \subseteq HeldOn(rows)

=============================================================================
