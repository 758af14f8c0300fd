------------------------------ MODULE Verdict ------------------------------
(***************************************************************************)
(* The verdict engine (lib/verdict.ts, lib/phantomLiquidity.ts,            *)
(* lib/unseen.ts): the fences, the confidence they add up to, and the      *)
(* ordered rules of evaluatePair, over the facts one pair has.             *)
(*                                                                         *)
(* The facts of a pair change as in the running system: an ingest          *)
(* overwrites what the market source reports, the identity, canonical,     *)
(* factory and scam passes overwrite what they looked up, other pairs come *)
(* and go, and time passes.  Time is counted in days.  Amounts are small   *)
(* integers, ratios are cross-multiplied, an address is what its           *)
(* comparison with the canonical one gives.                                *)
(***************************************************************************)
EXTENDS PairStatus, Integers

CONSTANTS
    Config,         \* the thresholds: VerdictConfig
    Market,         \* what an ingest may report of the pool
    TokenFacts,     \* what it may report of a token
    Source,         \* the pool's source: [firstParty, reserveTrusted]
    Checks,         \* what the passes and the other pairs may add
    MaxNow          \* bound of the clock

ConfigType == [minLiquidityUsd : Nat, hardMinLiquidityUsd : Nat, minTxCount : Nat,
               minTurnoverPercent : Nat, minAge : Nat, maxDeviationPercent : Nat,
               minDecimals : Nat, maxDecimals : Nat, autoVerifyPercent : Nat,
               maxUnseen : Nat]
MarketType == [reserveUsd : Nat, volumeUsd : Nat, txCount : Nat,
               hooked : BOOLEAN, subgraphAbsent : BOOLEAN]
TokenType  == [listed : BOOLEAN, decimals : Nat, deployed : Nat,
               priceCg : Nat, priceDex : Nat]
SourceType == [firstParty : BOOLEAN, reserveTrusted : BOOLEAN]

(* An address against the canonical one: equal, different, or unknown.     *)
Match == {"match", "other", "unknown"}

(* canonical0 and canonical1 are the cached lookups for the coin ids, scam *)
(* is the flag of either token.  Among the pairs of the same canonical     *)
(* key, sibling says that one on another source is verified, and rival     *)
(* that one on the same source has other token contracts.                  *)
ChecksType == [confirmed0 : BOOLEAN, confirmed1 : BOOLEAN,
               canonical0 : Match, canonical1 : Match, factory : Match,
               scam : BOOLEAN, rival : BOOLEAN, sibling : BOOLEAN]

ASSUME ConfigAssumption == Config \in ConfigType
ASSUME FactsAssumption  ==
    /\ Market \subseteq MarketType /\ TokenFacts \subseteq TokenType
    /\ Source \subseteq SourceType /\ Checks \subseteq ChecksType
ASSUME MaxNowAssumption == MaxNow \in Nat \ {0}

VARIABLES now, pair

facts == <<now, pair>>

(* What evaluatePair is given: the pair's row and its VerdictContext.      *)
(* seen is Pair.lastChecked, 0 when no ingest ever stamped it.             *)
Facts == [market : MarketType, token0 : TokenType, token1 : TokenType,
          source : SourceType, checks : ChecksType, seen : Nat]

FactsOK == now \in 1..MaxNow /\ pair \in Facts

-----------------------------------------------------------------------------
(* buildVerdictContext: what needs the tokens' coin ids.                   *)

Keyed(e) == e.token0.listed /\ e.token1.listed

Canonical0(e) == IF e.token0.listed THEN e.checks.canonical0 ELSE "unknown"
Canonical1(e) == IF e.token1.listed THEN e.checks.canonical1 ELSE "unknown"

HasVerifiedSibling(e) == Keyed(e) /\ e.checks.sibling

(* Both canonical addresses are known, and this pair's are not those two.  *)
ImpostorLoser(e) ==
    /\ Keyed(e) /\ e.checks.rival
    /\ Canonical0(e) # "unknown" /\ Canonical1(e) # "unknown"
    /\ "other" \in {Canonical0(e), Canonical1(e)}

-----------------------------------------------------------------------------
(* The fences.  One that lacks its data is skipped: it weighs nothing.     *)

Fence == {"pass", "fail", "skip"}

Gate(holds) == IF holds THEN "pass" ELSE "fail"

Identified(token, confirmed) == token.listed \/ confirmed

BothTokensIdentified(e) ==
    Gate(/\ Identified(e.token0, e.checks.confirmed0)
         /\ Identified(e.token1, e.checks.confirmed1))

MeetsTurnover(m) ==
    IF m.reserveUsd = 0 \/ m.volumeUsd = 0 THEN "skip"
    ELSE Gate(m.volumeUsd * 100 >= Config.minTurnoverPercent * m.reserveUsd)

MeetsAge(token, t) ==
    IF token.deployed = 0 THEN "skip" ELSE Gate(t >= token.deployed + Config.minAge)

DecimalsLookSane(token) ==
    Gate(token.decimals >= Config.minDecimals /\ token.decimals <= Config.maxDecimals)

Distance(a, b) == IF a > b THEN a - b ELSE b - a

CgPriceWithinTolerance(token) ==
    IF token.priceCg = 0 \/ token.priceDex = 0 THEN "skip"
    ELSE Gate(Distance(token.priceDex, token.priceCg) * 100
                  <= Config.maxDeviationPercent * token.priceCg)

MatchesCanonical(match) ==
    CASE match = "match"   -> "pass"
      [] match = "other"   -> "fail"
      [] match = "unknown" -> "skip"

(* Deep-looking, and under 0.01% of it traded in a day.                    *)
IsPhantomLiquidity(m) ==
    /\ m.reserveUsd > 0 /\ m.reserveUsd >= Config.minLiquidityUsd
    /\ m.volumeUsd * 10000 < m.reserveUsd

PhantomLiquidityApplies(e) ==
    ~e.source.firstParty /\ ~e.source.reserveTrusted /\ IsPhantomLiquidity(e.market)

(* A fault: the phantom's reserve is not withheld.                         *)
EffectiveReserveReported(e) == e.market.reserveUsd

EffectiveReserve(e) == IF PhantomLiquidityApplies(e) THEN 0 ELSE e.market.reserveUsd

Fences(e, t) ==
    [identified |-> BothTokensIdentified(e),
     liquidity  |-> Gate(EffectiveReserve(e) >= Config.minLiquidityUsd),
     txCount    |-> Gate(e.market.txCount >= Config.minTxCount),
     turnover   |-> MeetsTurnover(e.market),
     age0       |-> MeetsAge(e.token0, t),
     age1       |-> MeetsAge(e.token1, t),
     decimals0  |-> DecimalsLookSane(e.token0),
     decimals1  |-> DecimalsLookSane(e.token1),
     price0     |-> CgPriceWithinTolerance(e.token0),
     price1     |-> CgPriceWithinTolerance(e.token1),
     canon0     |-> MatchesCanonical(Canonical0(e)),
     canon1     |-> MatchesCanonical(Canonical1(e)),
     factory    |-> MatchesCanonical(e.checks.factory)]

Ok(fence)        == fence # "fail"
Counted(f, w)    == IF f = "skip" THEN 0 ELSE w

Earned(f, w)     == IF f = "pass" THEN w ELSE 0

(* FENCE_WEIGHTS, summed by what each fence is worth.                      *)
Weigh(f, Worth(_, _)) ==
    Worth(f.identified, 3) + Worth(f.canon0, 3) + Worth(f.canon1, 3)
    + Worth(f.factory, 2) + Worth(f.liquidity, 2)
    + Worth(f.price0, 2) + Worth(f.price1, 2)
    + Worth(f.txCount, 1) + Worth(f.turnover, 1)
    + Worth(f.age0, 1) + Worth(f.age1, 1)
    + Worth(f.decimals0, 1) + Worth(f.decimals1, 1)

(* A fault: the band is compared the wrong way round.                      *)
FenceConfidentBelow(f) ==
    Weigh(f, Earned) * 100 <= Config.autoVerifyPercent * Weigh(f, Counted)

(* computeConfidence against the auto-verify band; identified is never     *)
(* skipped, so the total is never 0.                                       *)
FenceConfident(f) ==
    Weigh(f, Earned) * 100 >= Config.autoVerifyPercent * Weigh(f, Counted)

-----------------------------------------------------------------------------
(* evaluatePair.                                                           *)

UnseenTooLong(e, t) == e.seen > 0 /\ t > e.seen + Config.maxUnseen

CoreGatesPass(f)      == Ok(f.liquidity) /\ Ok(f.txCount) /\ Ok(f.age0) /\ Ok(f.age1)
CanonicalConfirmed(f) == f.canon0 = "pass" /\ f.canon1 = "pass"

Result(verdict, reason) == [verdict |-> verdict, reason |-> reason]

(* The rules, in order; the first that applies decides.                    *)
EvaluatePair(e, t) ==
    LET f == Fences(e, t)
        c == e.checks
        confident == ~c.scam /\ FenceConfident(f)
    IN
    IF UnseenTooLong(e, t)
        THEN Result("AutoRejected", "unseenTooLong") ELSE
    IF ImpostorLoser(e)
        THEN Result("NotCurrentlyUsable", "intraChainImpostorLoser") ELSE
    IF ~e.source.firstParty /\ e.market.reserveUsd < Config.hardMinLiquidityUsd
        THEN Result("AutoRejected", "liquidityBelowHardFloor") ELSE
    IF ~Ok(f.decimals0) \/ ~Ok(f.decimals1)
        THEN Result("AutoRejected", "decimalsBogus") ELSE
    IF ~Ok(f.identified) /\ ~e.source.firstParty /\ EffectiveReserve(e) < Config.minLiquidityUsd
        THEN Result("AutoRejected", "unidentifiedThinPool") ELSE
    IF ~Ok(f.identified)
        THEN Result("NeedsReview", "notIdentified") ELSE
    IF c.scam
        THEN Result("NeedsReview", "scamFlagged") ELSE
    IF e.market.hooked
        THEN Result("NeedsReview", "hookedPool") ELSE
    IF e.market.subgraphAbsent
        THEN Result("NeedsReview", "subgraphAbsent") ELSE
    IF ~Ok(f.factory)
        THEN Result("NeedsReview", "factoryMismatch") ELSE
    IF ~Ok(f.canon0) \/ ~Ok(f.canon1)
        THEN Result("NeedsReview", "canonicalImpostor") ELSE
    IF HasVerifiedSibling(e) /\ Ok(f.liquidity)
        THEN Result("AutoVerified", "siblingVouched") ELSE
    IF ~Ok(f.price0) \/ ~Ok(f.price1)
        THEN Result("NeedsReview", "priceDeviation") ELSE
    IF PhantomLiquidityApplies(e)
        THEN Result("NeedsReview", "phantomLiquidity") ELSE
    IF confident /\ CoreGatesPass(f)
        THEN Result("AutoVerified", "highConfidence") ELSE
    IF confident /\ CanonicalConfirmed(f)
        THEN Result("AutoVerified", "canonicalConfirmed")
        ELSE Result("NeedsReview", "belowAutoVerifyBar")

VerdictOf(e, t) == EvaluatePair(e, t).verdict

-----------------------------------------------------------------------------
(* How the facts of a pair change.                                         *)

FactsInit ==
    /\ now = 1
    /\ pair \in [market : Market, token0 : TokenFacts, token1 : TokenFacts,
                 source : Source, checks : Checks, seen : {0, 1}]

(* upsertToken, upsertPair: everything the source reports is overwritten,  *)
(* except that a token's deployment date only ever moves back.             *)
Reported(old, new) ==
    [new EXCEPT !.deployed = CASE new.deployed = 0 -> old.deployed
                               [] old.deployed = 0 -> new.deployed
                               [] OTHER -> IF old.deployed < new.deployed
                                           THEN old.deployed ELSE new.deployed]

Refreshed(m, new0, new1) ==
    /\ pair' = [pair EXCEPT !.market = m, !.seen = now,
                            !.token0 = Reported(pair.token0, new0),
                            !.token1 = Reported(pair.token1, new1)]
    /\ UNCHANGED now

(* The identity, canonical, factory and scam passes, and the other pairs   *)
(* of the same key: one finding at a time.                                 *)
Finding(c) ==
    /\ \E item \in DOMAIN c : c = [pair.checks EXCEPT ![item] = c[item]]
    /\ pair' = [pair EXCEPT !.checks = c]
    /\ UNCHANGED now

Tick ==
    /\ now < MaxNow
    /\ now' = now + 1
    /\ UNCHANGED pair

FactsNext ==
    \/ \E m \in Market, new0, new1 \in TokenFacts : Refreshed(m, new0, new1)
    \/ \E c \in Checks : Finding(c)
    \/ Tick

FactsSpec == FactsInit /\ [][FactsNext]_facts

-----------------------------------------------------------------------------
(* What the runner relies on: module PairStatus's ladder.                  *)

(* The class of a pair's evidence: its verdict with no scam flag, without  *)
(* and with a verified sibling.                                            *)
With(e, scam, sibling) ==
    [e EXCEPT !.checks = [@ EXCEPT !.scam = scam, !.sibling = sibling]]

ClassOf(e, t) ==
    LET alone   == VerdictOf(With(e, FALSE, FALSE), t)
        vouched == VerdictOf(With(e, FALSE, TRUE), t)
    IN  CASE alone = "NotCurrentlyUsable" -> "loser"
          [] alone = "AutoRejected"       -> "reject"
          [] alone = "AutoVerified"       -> "clean"
          [] alone = "NeedsReview" /\ vouched = "AutoVerified" -> "vouch"
          [] alone = "NeedsReview" /\ vouched # "AutoVerified" -> "hold"

(* The engine is the ladder the runner is modelled with: a scam flag and a *)
(* verified sibling decide nothing but what Adjudicate says they decide.   *)
LadderIsTheEngine ==
    VerdictOf(pair, now) =
        Adjudicate(ClassOf(pair, now), pair.checks.scam, pair.checks.sibling)

-----------------------------------------------------------------------------
(* Better evidence.                                                        *)

Strength == [fail |-> 0, skip |-> 1, pass |-> 2]

(* f's evidence is nowhere weaker than e's.                                *)
NoWorse(e, te, f, tf) ==
    /\ LET a == Fences(e, te)
           b == Fences(f, tf)
       IN  \A fence \in DOMAIN a : Strength[b[fence]] >= Strength[a[fence]]
    /\ f.checks.scam  => e.checks.scam
    /\ ImpostorLoser(f) => ImpostorLoser(e)
    /\ HasVerifiedSibling(e) => HasVerifiedSibling(f)
    /\ f.market.hooked  => e.market.hooked
    /\ f.market.subgraphAbsent => e.market.subgraphAbsent
    /\ UnseenTooLong(f, tf) => UnseenTooLong(e, te)
    /\ PhantomLiquidityApplies(f) => PhantomLiquidityApplies(e)
    /\ f.market.reserveUsd >= e.market.reserveUsd
    /\ f.source = e.source

Rank == [NotCurrentlyUsable |-> 0, AutoRejected |-> 0, NeedsReview |-> 1, AutoVerified |-> 2]

(* No pass, ingest or day that leaves a pair's evidence nowhere weaker     *)
(* makes its verdict worse, although fences that are skipped leave the     *)
(* confidence ratio and some rules short-circuit the others.               *)
EvidenceHelps ==
    [][NoWorse(pair, now, pair', now')
           => Rank[VerdictOf(pair', now')] >= Rank[VerdictOf(pair, now)]]_facts

(* With a liquidity floor, a phantom pool is not auto-verified, not even   *)
(* when a verified sibling vouches for it (verdict.ts steps 4 and 5b).     *)
PhantomHeld ==
    Config.minLiquidityUsd > 0 /\ PhantomLiquidityApplies(pair)
        => VerdictOf(pair, now) # "AutoVerified"

(* What step 5b of evaluatePair says: never auto-verify a dead or fake     *)
(* pool.  Under a floor of 0 the code does.                                *)
PhantomNeverVerified ==
    PhantomLiquidityApplies(pair) => VerdictOf(pair, now) # "AutoVerified"

=============================================================================
