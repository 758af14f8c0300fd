--------------------------- MODULE VerdictProofs ---------------------------
(***************************************************************************)
(* Theorems about the verdict: the engine (FenceChecklist, Verdict), for   *)
(* any thresholds and any facts, and the runner that applies it            *)
(* (VerdictRunner), for any pairs, tokens and runners.                     *)
(***************************************************************************)
EXTENDS FenceChecklist, VerdictRunner, TLAPS

(* The engine. *)

LEMMA InitTyped == FactsInit => FactsOK
BY FactsAssumption, MaxNowAssumption DEF FactsInit, FactsOK, Facts

LEMMA ReportedTyped ==
    ASSUME NEW old \in TokenType, NEW new \in TokenType
    PROVE  Reported(old, new) \in TokenType
BY DEF Reported, TokenType

LEMMA NextTyped == FactsOK /\ [FactsNext]_facts => FactsOK'
<1> SUFFICES ASSUME FactsOK, [FactsNext]_facts
             PROVE  FactsOK'
  OBVIOUS
<1> USE FactsAssumption, MaxNowAssumption
<1>1. ASSUME NEW m \in Market, NEW new0 \in TokenFacts, NEW new1 \in TokenFacts,
             Refreshed(m, new0, new1)
      PROVE  FactsOK'
  <2>1. /\ Reported(pair.token0, new0) \in TokenType
        /\ Reported(pair.token1, new1) \in TokenType
    BY ReportedTyped DEF FactsOK, Facts
  <2>2. m \in MarketType /\ now \in Nat
    BY DEF FactsOK
  <2>3. [pair EXCEPT !.market = m, !.seen = now,
                     !.token0 = Reported(pair.token0, new0),
                     !.token1 = Reported(pair.token1, new1)] \in Facts
    BY <2>1, <2>2 DEF FactsOK, Facts
  <2> QED
    BY <1>1, <2>3 DEF Refreshed, FactsOK
<1>2. ASSUME NEW c \in Checks, Finding(c)
      PROVE  FactsOK'
  BY <1>2 DEF Finding, FactsOK, Facts
<1>3. CASE Tick
  BY <1>3 DEF Tick, FactsOK
<1>4. CASE UNCHANGED facts
  BY <1>4 DEF FactsOK, facts
<1> QED
  BY <1>1, <1>2, <1>3, <1>4 DEF FactsNext

(* The facts of a pair keep their types (Verdict!FactsSpec).                    *)
THEOREM FactsCorrect == FactsSpec => []FactsOK
BY InitTyped, NextTyped, PTL DEF FactsSpec

-----------------------------------------------------------------------------
(* What the scam flag and the sibling leave alone.                         *)

LEMMA WithLeavesAlone ==
    ASSUME NEW e \in Facts, NEW scam \in BOOLEAN, NEW sibling \in BOOLEAN, NEW t
    PROVE  LET w == With(e, scam, sibling) IN
           /\ w.checks.scam = scam
           /\ HasVerifiedSibling(w) = (Keyed(e) /\ sibling)
           /\ ImpostorLoser(w) = ImpostorLoser(e)
           /\ Fences(w, t) = Fences(e, t)
           /\ UnseenTooLong(w, t) = UnseenTooLong(e, t)
           /\ PhantomLiquidityApplies(w) = PhantomLiquidityApplies(e)
           /\ EffectiveReserve(w) = EffectiveReserve(e)
           /\ w.source = e.source /\ w.market = e.market
<1> DEFINE w == With(e, scam, sibling)
<1>1. /\ w.market = e.market /\ w.source = e.source /\ w.seen = e.seen
      /\ w.token0 = e.token0 /\ w.token1 = e.token1
      /\ w.checks = [e.checks EXCEPT !.scam = scam, !.sibling = sibling]
  BY DEF With, Facts
<1>2. /\ w.checks.scam = scam /\ w.checks.sibling = sibling
      /\ w.checks.rival = e.checks.rival
      /\ w.checks.confirmed0 = e.checks.confirmed0
      /\ w.checks.confirmed1 = e.checks.confirmed1
      /\ w.checks.canonical0 = e.checks.canonical0
      /\ w.checks.canonical1 = e.checks.canonical1
      /\ w.checks.factory = e.checks.factory
  BY <1>1 DEF Facts, ChecksType
<1> HIDE DEF w
<1>3. /\ Keyed(w) = Keyed(e)
      /\ Canonical0(w) = Canonical0(e) /\ Canonical1(w) = Canonical1(e)
  BY <1>1, <1>2 DEF Keyed, Canonical0, Canonical1
<1>4. /\ PhantomLiquidityApplies(w) = PhantomLiquidityApplies(e)
      /\ EffectiveReserve(w) = EffectiveReserve(e)
  BY <1>1 DEF PhantomLiquidityApplies, EffectiveReserve
<1>5. Fences(w, t) = Fences(e, t)
  BY <1>1, <1>2, <1>3, <1>4 DEF Fences, BothTokensIdentified
<1>6. /\ HasVerifiedSibling(w) = (Keyed(e) /\ sibling)
      /\ ImpostorLoser(w) = ImpostorLoser(e)
      /\ UnseenTooLong(w, t) = UnseenTooLong(e, t)
  BY <1>1, <1>2, <1>3 DEF HasVerifiedSibling, ImpostorLoser, UnseenTooLong
<1> QED
  BY <1>1, <1>2, <1>4, <1>5, <1>6 DEF w

(* The rules of evaluatePair, by the verdict they give.  Only the three    *)
(* last depend on the scam flag and the sibling.                           *)
Binned(e, t) ==
    LET f == Fences(e, t) IN
    \/ UnseenTooLong(e, t)
    \/ /\ ~ImpostorLoser(e)
       /\ \/ ~e.source.firstParty /\ e.market.reserveUsd < Config.hardMinLiquidityUsd
          \/ ~Ok(f.decimals0) \/ ~Ok(f.decimals1)
          \/ /\ ~Ok(f.identified) /\ ~e.source.firstParty
             /\ EffectiveReserve(e) < Config.minLiquidityUsd

Lost(e, t) == ~UnseenTooLong(e, t) /\ ImpostorLoser(e)

Barred(e, t) ==
    LET f == Fences(e, t) IN
    \/ ~Ok(f.identified) \/ e.market.hooked \/ e.market.subgraphAbsent
    \/ ~Ok(f.factory) \/ ~Ok(f.canon0) \/ ~Ok(f.canon1)

ClearsBar(e, t) ==
    LET f == Fences(e, t) IN
    /\ Ok(f.price0) /\ Ok(f.price1) /\ ~PhantomLiquidityApplies(e)
    /\ FenceConfident(f) /\ (CoreGatesPass(f) \/ CanonicalConfirmed(f))

LEMMA Rules ==
    ASSUME NEW e \in Facts, NEW t
    PROVE  VerdictOf(e, t) =
             IF Binned(e, t) THEN "AutoRejected" ELSE
             IF Lost(e, t) THEN "NotCurrentlyUsable" ELSE
             IF Barred(e, t) \/ e.checks.scam THEN "NeedsReview" ELSE
             IF HasVerifiedSibling(e) /\ Ok(Fences(e, t).liquidity) THEN "AutoVerified" ELSE
             IF ClearsBar(e, t) THEN "AutoVerified" ELSE "NeedsReview"
BY DEF VerdictOf, EvaluatePair, Result, Binned, Lost, Barred, ClearsBar

-----------------------------------------------------------------------------
(* The ladder.                                                             *)

LEMMA Adjudicated ==
    ASSUME NEW e \in Facts, NEW t, NEW scam \in BOOLEAN, NEW sibling \in BOOLEAN
    PROVE  VerdictOf(With(e, scam, sibling), t) = Adjudicate(ClassOf(e, t), scam, sibling)
<1> DEFINE Deep == Ok(Fences(e, t).liquidity)
           Judged(s, b) == IF Binned(e, t) THEN "AutoRejected" ELSE
                           IF Lost(e, t) THEN "NotCurrentlyUsable" ELSE
                           IF Barred(e, t) \/ s THEN "NeedsReview" ELSE
                           IF (Keyed(e) /\ b) /\ Deep THEN "AutoVerified" ELSE
                           IF ClearsBar(e, t) THEN "AutoVerified" ELSE "NeedsReview"
<1>1. ASSUME NEW s \in BOOLEAN, NEW b \in BOOLEAN
      PROVE  VerdictOf(With(e, s, b), t) = Judged(s, b)
  <2> DEFINE w == With(e, s, b)
  <2>1. w \in Facts
    BY DEF With, Facts, ChecksType
  <2>2. /\ w.checks.scam = s /\ HasVerifiedSibling(w) = (Keyed(e) /\ b)
        /\ Fences(w, t) = Fences(e, t)
        /\ Binned(w, t) = Binned(e, t) /\ Lost(w, t) = Lost(e, t)
        /\ Barred(w, t) = Barred(e, t) /\ ClearsBar(w, t) = ClearsBar(e, t)
    BY WithLeavesAlone DEF Binned, Lost, Barred, ClearsBar
  <2> HIDE DEF w
  <2> QED
    BY <2>1, <2>2, Rules DEF w
<1>2. /\ VerdictOf(With(e, FALSE, FALSE), t) = Judged(FALSE, FALSE)
      /\ VerdictOf(With(e, FALSE, TRUE), t) = Judged(FALSE, TRUE)
      /\ VerdictOf(With(e, scam, sibling), t) = Judged(scam, sibling)
  BY <1>1
<1> QED
  BY <1>2 DEF ClassOf, Adjudicate

(* The engine gives the ladder's verdict for every pair it can be asked    *)
(* about, so what is proved of the runner over Adjudicate is about         *)
(* evaluatePair.                                                           *)
THEOREM Ladder == FactsSpec => []LadderIsTheEngine
<1>1. FactsOK => LadderIsTheEngine
  <2> SUFFICES ASSUME FactsOK PROVE LadderIsTheEngine
    OBVIOUS
  <2>1. pair \in Facts /\ pair.checks.scam \in BOOLEAN /\ pair.checks.sibling \in BOOLEAN
    BY DEF FactsOK, Facts, ChecksType
  <2>2. With(pair, pair.checks.scam, pair.checks.sibling) = pair
    BY <2>1 DEF With, Facts, ChecksType
  <2> QED
    BY <2>1, <2>2, Adjudicated DEF LadderIsTheEngine
<1> QED
  BY <1>1, FactsCorrect, PTL

(* With a liquidity floor above 0 no phantom pool is auto-verified: not by *)
(* its score, not by its canonical addresses, not by a sibling.            *)
THEOREM PhantomsHeld == FactsSpec => []PhantomHeld
<1>1. FactsOK => PhantomHeld
  <2> SUFFICES ASSUME FactsOK, Config.minLiquidityUsd > 0, PhantomLiquidityApplies(pair)
               PROVE  VerdictOf(pair, now) # "AutoVerified"
    BY DEF PhantomHeld
  <2>1. ~ClearsBar(pair, now)
    BY DEF ClearsBar
  <2>2. ~Ok(Fences(pair, now).liquidity)
    BY ConfigAssumption DEF ConfigType, Fences, EffectiveReserve, Gate, Ok
  <2> QED
    BY <2>1, <2>2, Rules DEF FactsOK
<1> QED
  BY <1>1, FactsCorrect, PTL

-----------------------------------------------------------------------------
(* The checklist on the page.                                              *)

(* Each row's outcome is the fence's, or what the fence would say of it.   *)
LEMMA RowsAreFences ==
    ASSUME FactsOK
    PROVE  LET r == DeriveFences(pair, now)
               f == Fences(pair, now)
           IN  /\ r.identified.ok = f.identified /\ r.factory.ok = f.factory
               /\ r.canonical0.ok = f.canon0 /\ r.canonical1.ok = f.canon1
               /\ r.liquidity.ok = f.liquidity /\ r.txCount.ok = f.txCount
               /\ r.turnover.ok = f.turnover
               /\ r.age0.ok = f.age0 /\ r.age1.ok = f.age1
               /\ r.decimals0.ok = f.decimals0 /\ r.decimals1.ok = f.decimals1
               /\ r.price0.ok = f.price0 /\ r.price1.ok = f.price1
<1> DEFINE r == DeriveFences(pair, now)
           f == Fences(pair, now)
<1> USE ConfigAssumption, MaxNowAssumption
<1>1. /\ r.identified.ok = f.identified /\ r.factory.ok = f.factory
      /\ r.canonical0.ok = f.canon0 /\ r.canonical1.ok = f.canon1
  BY DEF DeriveFences, RowsWith, Fences, ShownCanonical, MatchesCanonical, Row,
         BothTokensIdentified, Identified, FactsOK, Facts, ChecksType, Match,
         Canonical0, Canonical1
<1>2. r.liquidity.ok = f.liquidity /\ r.txCount.ok = f.txCount
  BY DEF DeriveFences, RowsWith, Fences, EffectiveReserve, Rejecting, Row
<1>3. r.turnover.ok = f.turnover
  <2>1. (pair.market.reserveUsd > 0 /\ pair.market.volumeUsd > 0)
          <=> ~(pair.market.reserveUsd = 0 \/ pair.market.volumeUsd = 0)
    BY DEF FactsOK, Facts, MarketType
  <2>2. f.turnover = MeetsTurnover(pair.market)
    BY DEF Fences
  <2> QED
    BY <2>1, <2>2, Zenon DEF DeriveFences, RowsWith, MeetsTurnover, Row
<1>4. ASSUME NEW token \in TokenType
      PROVE  /\ ShownAge(token, now).ok = MeetsAge(token, now)
             /\ ShownDecimals(token).ok = DecimalsLookSane(token)
             /\ ShownPrice(token).ok = CgPriceWithinTolerance(token)
  <2>1. ShownAge(token, now).ok = MeetsAge(token, now)
    BY DEF ShownAge, MeetsAge, Row, Gate, FactsOK, TokenType, ConfigType
  <2>2. ShownDecimals(token).ok = DecimalsLookSane(token)
    BY DEF ShownDecimals, DecimalsLookSane, Rejecting, Row, Gate, TokenType, ConfigType
  <2>3. ShownPrice(token).ok = CgPriceWithinTolerance(token)
    <3> DEFINE slack == Config.maxDeviationPercent * token.priceCg
    <3>1. slack \in Nat /\ token.priceCg \in Nat /\ token.priceDex \in Nat
      BY DEF ConfigType, TokenType
    <3> HIDE DEF slack
    <3>2. (Distance(token.priceDex, token.priceCg) * 100 <= slack)
            <=> /\ token.priceDex * 100 <= token.priceCg * 100 + slack
                /\ token.priceDex * 100 + slack >= token.priceCg * 100
      BY <3>1 DEF Distance
    <3>3. CASE token.priceCg = 0 \/ token.priceDex = 0
      <4>1. ~(token.priceCg > 0 /\ token.priceDex > 0)
        BY <3>3, <3>1
      <4> QED
        BY <3>3, <4>1, Zenon DEF ShownPrice, CgPriceWithinTolerance, Row
    <3>4. CASE token.priceCg # 0 /\ token.priceDex # 0
      <4>0. token.priceCg > 0 /\ token.priceDex > 0
        BY <3>4, <3>1
      <4>1. CgPriceWithinTolerance(token)
              = Gate(Distance(token.priceDex, token.priceCg) * 100 <= slack)
        BY <3>4 DEF CgPriceWithinTolerance, slack
      <4>2. ShownPrice(token).ok
              = Gate(/\ token.priceDex * 100 <= token.priceCg * 100 + slack
                     /\ token.priceDex * 100 + slack >= token.priceCg * 100)
        BY <4>0, Zenon DEF ShownPrice, Row, slack
      <4> QED
        BY <4>1, <4>2, <3>2 DEF Gate
    <3> QED
      BY <3>3, <3>4
  <2> QED
    BY <2>1, <2>2, <2>3
<1>5. /\ r.age0.ok = f.age0 /\ r.age1.ok = f.age1
      /\ r.decimals0.ok = f.decimals0 /\ r.decimals1.ok = f.decimals1
      /\ r.price0.ok = f.price0 /\ r.price1.ok = f.price1
  <2>1. pair.token0 \in TokenType /\ pair.token1 \in TokenType
    BY DEF FactsOK, Facts
  <2> QED
    BY <2>1, <1>4 DEF DeriveFences, RowsWith, Fences
<1> QED
  BY <1>1, <1>2, <1>3, <1>5

LEMMA RowWeights ==
    LET r == DeriveFences(pair, now)
    IN  /\ r.identified.weight = 3 /\ r.factory.weight = 2 /\ r.seen.weight = 0
        /\ r.canonical0.weight = 3 /\ r.canonical1.weight = 3
        /\ r.liquidity.weight = 2 /\ r.txCount.weight = 1
        /\ r.turnover.ok # "skip" => r.turnover.weight = 1
        /\ r.age0.ok # "skip" => r.age0.weight = 1
        /\ r.age1.ok # "skip" => r.age1.weight = 1
        /\ r.decimals0.weight = 1 /\ r.decimals1.weight = 1
        /\ r.price0.ok # "skip" => r.price0.weight = 2
        /\ r.price1.ok # "skip" => r.price1.weight = 2
<1> DEFINE r == DeriveFences(pair, now)
<1>1. /\ r.identified.weight = 3 /\ r.factory.weight = 2 /\ r.seen.weight = 0
      /\ r.canonical0.weight = 3 /\ r.canonical1.weight = 3
      /\ r.liquidity.weight = 2 /\ r.txCount.weight = 1
  BY DEF DeriveFences, RowsWith, ShownCanonical, Rejecting, Row
<1>2. r.turnover.ok # "skip" => r.turnover.weight = 1
  BY Zenon DEF DeriveFences, RowsWith, Row
<1>3. ASSUME NEW token
      PROVE  /\ ShownAge(token, now).ok # "skip" => ShownAge(token, now).weight = 1
             /\ ShownDecimals(token).weight = 1
             /\ ShownPrice(token).ok # "skip" => ShownPrice(token).weight = 2
  <2>1. ShownDecimals(token).weight = 1
    BY DEF ShownDecimals, Rejecting, Row
  <2>2. ShownAge(token, now).ok # "skip" => ShownAge(token, now).weight = 1
    BY Zenon DEF ShownAge, Row
  <2>3. ShownPrice(token).ok # "skip" => ShownPrice(token).weight = 2
    BY Zenon DEF ShownPrice, Row
  <2> QED
    BY <2>1, <2>2, <2>3
<1> QED
  BY <1>1, <1>2, <1>3 DEF DeriveFences, RowsWith

LEMMA FencesTyped ==
    ASSUME FactsOK
    PROVE  \A fence \in DOMAIN Fences(pair, now) : Fences(pair, now)[fence] \in Fence
BY DEF Fences, Fence, Gate, BothTokensIdentified, MeetsTurnover, MeetsAge,
       DecimalsLookSane, CgPriceWithinTolerance, MatchesCanonical, Canonical0,
       Canonical1, FactsOK, Facts, ChecksType, Match

(* The confidence on the page is the engine's, for any thresholds and any  *)
(* facts.                                                                  *)
THEOREM Mirrored == FactsSpec => []MirrorAgrees
<1>1. FactsOK => MirrorAgrees
  <2> SUFFICES ASSUME FactsOK PROVE MirrorAgrees
    OBVIOUS
  <2> DEFINE rows == DeriveFences(pair, now)
             f    == Fences(pair, now)
  <2> DEFINE scored(key) == IF rows[key].ok \in {"pass", "fail"} THEN rows[key].weight ELSE 0
             passed(key) == IF rows[key].ok \in {"pass"} THEN rows[key].weight ELSE 0
  <2>2. /\ f.identified \in Fence /\ f.factory \in Fence /\ f.liquidity \in Fence
        /\ f.canon0 \in Fence /\ f.canon1 \in Fence /\ f.txCount \in Fence
        /\ f.turnover \in Fence /\ f.age0 \in Fence /\ f.age1 \in Fence
        /\ f.decimals0 \in Fence /\ f.decimals1 \in Fence
        /\ f.price0 \in Fence /\ f.price1 \in Fence
    BY FencesTyped DEF Fences
  <2>r. /\ rows["identified"].ok = f.identified /\ (f.identified # "skip" => rows["identified"].weight = 3)
        /\ rows["canonical0"].ok = f.canon0 /\ (f.canon0 # "skip" => rows["canonical0"].weight = 3)
        /\ rows["canonical1"].ok = f.canon1 /\ (f.canon1 # "skip" => rows["canonical1"].weight = 3)
        /\ rows["factory"].ok = f.factory /\ (f.factory # "skip" => rows["factory"].weight = 2)
        /\ rows["liquidity"].ok = f.liquidity /\ (f.liquidity # "skip" => rows["liquidity"].weight = 2)
        /\ rows["txCount"].ok = f.txCount /\ (f.txCount # "skip" => rows["txCount"].weight = 1)
        /\ rows["turnover"].ok = f.turnover /\ (f.turnover # "skip" => rows["turnover"].weight = 1)
        /\ rows["age0"].ok = f.age0 /\ (f.age0 # "skip" => rows["age0"].weight = 1)
        /\ rows["age1"].ok = f.age1 /\ (f.age1 # "skip" => rows["age1"].weight = 1)
        /\ rows["decimals0"].ok = f.decimals0 /\ (f.decimals0 # "skip" => rows["decimals0"].weight = 1)
        /\ rows["decimals1"].ok = f.decimals1 /\ (f.decimals1 # "skip" => rows["decimals1"].weight = 1)
        /\ rows["price0"].ok = f.price0 /\ (f.price0 # "skip" => rows["price0"].weight = 2)
        /\ rows["price1"].ok = f.price1 /\ (f.price1 # "skip" => rows["price1"].weight = 2)
    BY RowsAreFences, RowWeights
  <2>3. /\ passed("identified") = Earned(f.identified, 3)
        /\ passed("canonical0") = Earned(f.canon0, 3)
        /\ passed("canonical1") = Earned(f.canon1, 3)
        /\ passed("factory") = Earned(f.factory, 2)
        /\ passed("liquidity") = Earned(f.liquidity, 2)
        /\ passed("txCount") = Earned(f.txCount, 1)
        /\ passed("turnover") = Earned(f.turnover, 1)
        /\ passed("age0") = Earned(f.age0, 1)
        /\ passed("age1") = Earned(f.age1, 1)
        /\ passed("decimals0") = Earned(f.decimals0, 1)
        /\ passed("decimals1") = Earned(f.decimals1, 1)
        /\ passed("price0") = Earned(f.price0, 2)
        /\ passed("price1") = Earned(f.price1, 2)
    <3> HIDE DEF rows, f
    <3> QED
      BY <2>2, <2>r DEF Earned, Fence
  <2>4. /\ scored("identified") = Counted(f.identified, 3)
        /\ scored("canonical0") = Counted(f.canon0, 3)
        /\ scored("canonical1") = Counted(f.canon1, 3)
        /\ scored("factory") = Counted(f.factory, 2)
        /\ scored("liquidity") = Counted(f.liquidity, 2)
        /\ scored("txCount") = Counted(f.txCount, 1)
        /\ scored("turnover") = Counted(f.turnover, 1)
        /\ scored("age0") = Counted(f.age0, 1)
        /\ scored("age1") = Counted(f.age1, 1)
        /\ scored("decimals0") = Counted(f.decimals0, 1)
        /\ scored("decimals1") = Counted(f.decimals1, 1)
        /\ scored("price0") = Counted(f.price0, 2)
        /\ scored("price1") = Counted(f.price1, 2)
    <3> HIDE DEF rows, f
    <3> QED
      BY <2>2, <2>r DEF Counted, Fence
  <2>5. scored("seen") = 0 /\ passed("seen") = 0
    BY RowWeights
  <2>6. \A fence \in Fence, w \in Nat : Earned(fence, w) \in Nat /\ Counted(fence, w) \in Nat
    BY DEF Earned, Counted
  <2> HIDE DEF f
  <2>7. ShownWeight(rows, {"pass"}) = Weigh(f, Earned)
    <3> HIDE DEF passed
    <3>1. ShownWeight(rows, {"pass"})
            = passed("identified") + passed("canonical0") + passed("canonical1")
              + passed("factory") + passed("seen") + passed("liquidity") + passed("txCount")
              + passed("turnover") + passed("age0") + passed("age1") + passed("decimals0")
              + passed("decimals1") + passed("price0") + passed("price1")
      BY Zenon DEF ShownWeight, passed
    <3> HIDE DEF rows
    <3>2. Weigh(f, Earned)
            = Earned(f.identified, 3) + Earned(f.canon0, 3) + Earned(f.canon1, 3)
              + Earned(f.factory, 2) + Earned(f.liquidity, 2) + Earned(f.price0, 2)
              + Earned(f.price1, 2) + Earned(f.txCount, 1) + Earned(f.turnover, 1)
              + Earned(f.age0, 1) + Earned(f.age1, 1) + Earned(f.decimals0, 1) + Earned(f.decimals1, 1)
      BY Zenon DEF Weigh
    <3>3. /\ Earned(f.identified, 3) \in Nat
          /\ Earned(f.canon0, 3) \in Nat
          /\ Earned(f.canon1, 3) \in Nat
          /\ Earned(f.factory, 2) \in Nat
          /\ Earned(f.liquidity, 2) \in Nat
          /\ Earned(f.price0, 2) \in Nat
          /\ Earned(f.price1, 2) \in Nat
          /\ Earned(f.txCount, 1) \in Nat
          /\ Earned(f.turnover, 1) \in Nat
          /\ Earned(f.age0, 1) \in Nat
          /\ Earned(f.age1, 1) \in Nat
          /\ Earned(f.decimals0, 1) \in Nat
          /\ Earned(f.decimals1, 1) \in Nat
      BY <2>2, <2>6
    <3> QED
      BY <3>1, <3>2, <3>3, <2>3, <2>5
  <2>8. ShownWeight(rows, {"pass", "fail"}) = Weigh(f, Counted)
    <3> HIDE DEF scored
    <3>1. ShownWeight(rows, {"pass", "fail"})
            = scored("identified") + scored("canonical0") + scored("canonical1")
              + scored("factory") + scored("seen") + scored("liquidity") + scored("txCount")
              + scored("turnover") + scored("age0") + scored("age1") + scored("decimals0")
              + scored("decimals1") + scored("price0") + scored("price1")
      BY Zenon DEF ShownWeight, scored
    <3> HIDE DEF rows
    <3>2. Weigh(f, Counted)
            = Counted(f.identified, 3) + Counted(f.canon0, 3) + Counted(f.canon1, 3)
              + Counted(f.factory, 2) + Counted(f.liquidity, 2) + Counted(f.price0, 2)
              + Counted(f.price1, 2) + Counted(f.txCount, 1) + Counted(f.turnover, 1)
              + Counted(f.age0, 1) + Counted(f.age1, 1) + Counted(f.decimals0, 1) + Counted(f.decimals1, 1)
      BY Zenon DEF Weigh
    <3>3. /\ Counted(f.identified, 3) \in Nat
          /\ Counted(f.canon0, 3) \in Nat
          /\ Counted(f.canon1, 3) \in Nat
          /\ Counted(f.factory, 2) \in Nat
          /\ Counted(f.liquidity, 2) \in Nat
          /\ Counted(f.price0, 2) \in Nat
          /\ Counted(f.price1, 2) \in Nat
          /\ Counted(f.txCount, 1) \in Nat
          /\ Counted(f.turnover, 1) \in Nat
          /\ Counted(f.age0, 1) \in Nat
          /\ Counted(f.age1, 1) \in Nat
          /\ Counted(f.decimals0, 1) \in Nat
          /\ Counted(f.decimals1, 1) \in Nat
      BY <2>2, <2>6
    <3> QED
      BY <3>1, <3>2, <3>3, <2>4, <2>5
  <2> QED
    BY <2>7, <2>8 DEF MirrorAgrees, f
<1> QED
  BY <1>1, FactsCorrect, PTL

(* The page shows why: a hard failure on it means the engine rejects, and  *)
(* where the engine rejects there is one, or the pair is held on identity  *)
(* and liquidity (fences.ts beside the ladder of verdict.ts).              *)
THEOREM Announced == FactsSpec => []RejectionsShown
<1>1. FactsOK => RejectionsShown
  <2> SUFFICES ASSUME FactsOK PROVE RejectionsShown
    OBVIOUS
  <2> DEFINE rows == DeriveFences(pair, now)
             verdict == VerdictOf(pair, now)
             f == Fences(pair, now)
  <2>1. /\ verdict = "AutoRejected" <=> Binned(pair, now)
        /\ Lost(pair, now) => verdict = "NotCurrentlyUsable"
    BY Rules DEF FactsOK, Lost, Binned
  <2>3. rows.seen.rejects <=> UnseenTooLong(pair, now)
    <3>1. pair.seen \in Nat /\ now \in Nat /\ Config.maxUnseen \in Nat
      BY ConfigAssumption, MaxNowAssumption DEF FactsOK, Facts, ConfigType
    <3>2. rows.seen = IF pair.seen = 0 THEN Row("skip", 0)
                      ELSE Rejecting(Row(Gate(now - pair.seen <= Config.maxUnseen), 0),
                                     now - pair.seen > Config.maxUnseen)
      BY DEF DeriveFences, RowsWith
    <3>3. rows.seen.rejects <=> pair.seen # 0 /\ now - pair.seen > Config.maxUnseen
      <4> HIDE DEF rows
      <4> QED
        BY <3>2 DEF Rejecting, Row
    <3> QED
      BY <3>1, <3>3 DEF UnseenTooLong
  <2>4. rows.liquidity.rejects
          <=> ~pair.source.firstParty /\ pair.market.reserveUsd < Config.hardMinLiquidityUsd
    BY DEF DeriveFences, RowsWith, Rejecting, Row
  <2>5. /\ rows.decimals0.rejects <=> ~Ok(f.decimals0)
        /\ rows.decimals1.rejects <=> ~Ok(f.decimals1)
    <3>1. ASSUME NEW token \in TokenType
          PROVE  ShownDecimals(token).rejects <=> ~Ok(DecimalsLookSane(token))
      <4>1. /\ token.decimals \in Nat
            /\ Config.minDecimals \in Nat /\ Config.maxDecimals \in Nat
        BY ConfigAssumption DEF TokenType, ConfigType
      <4>2. ShownDecimals(token).rejects
              <=> token.decimals \notin Config.minDecimals..Config.maxDecimals
        BY DEF ShownDecimals, Rejecting, Row
      <4> QED
        BY <4>1, <4>2 DEF DecimalsLookSane, Gate, Ok
    <3> QED
      BY <3>1 DEF DeriveFences, RowsWith, Fences, FactsOK, Facts
  <2>6. /\ ~rows.identified.rejects /\ ~rows.canonical0.rejects /\ ~rows.canonical1.rejects
        /\ ~rows.factory.rejects /\ ~rows.txCount.rejects /\ ~rows.turnover.rejects
        /\ ~rows.age0.rejects /\ ~rows.age1.rejects
        /\ ~rows.price0.rejects /\ ~rows.price1.rejects
    <3>1. ~rows.turnover.rejects
      BY Zenon DEF DeriveFences, RowsWith, Row
    <3>2. ASSUME NEW token
          PROVE  ~ShownAge(token, now).rejects /\ ~ShownPrice(token).rejects
      BY Zenon DEF ShownAge, ShownPrice, Row
    <3>3. /\ ~rows.identified.rejects /\ ~rows.canonical0.rejects /\ ~rows.canonical1.rejects
          /\ ~rows.factory.rejects /\ ~rows.txCount.rejects
      BY DEF DeriveFences, RowsWith, ShownCanonical, Row
    <3> QED
      BY <3>1, <3>2, <3>3 DEF DeriveFences, RowsWith
  <2>7. DOMAIN rows = {"identified", "canonical0", "canonical1", "factory", "seen",
                       "liquidity", "txCount", "turnover", "age0", "age1", "decimals0",
                       "decimals1", "price0", "price1"}
    BY DEF DeriveFences, RowsWith
  <2>8. /\ ~Ok(f.identified) => "identified" \in HeldOn(rows)
        /\ EffectiveReserve(pair) < Config.minLiquidityUsd => "liquidity" \in HeldOn(rows)
    <3>1. EffectiveReserve(pair) \in Nat /\ Config.minLiquidityUsd \in Nat
      BY ConfigAssumption DEF EffectiveReserve, FactsOK, Facts, MarketType, ConfigType
    <3>2. /\ rows.identified.ok = "fail" <=> ~Ok(f.identified)
          /\ rows.liquidity.ok = "fail" <=> EffectiveReserve(pair) < Config.minLiquidityUsd
      BY <3>1, RowsAreFences DEF Ok, Fences, Gate
    <3>3. rows.identified.weight = 3 /\ rows.liquidity.weight = 2
      BY DEF DeriveFences, RowsWith, Rejecting, Row
    <3> HIDE DEF rows, f
    <3> QED
      BY <2>7, <3>2, <3>3 DEF HeldOn, rows
  <2>9. HardFailures(rows) # {}
          <=> \/ rows.seen.rejects \/ rows.liquidity.rejects
              \/ rows.decimals0.rejects \/ rows.decimals1.rejects
    <3> HIDE DEF rows
    <3> QED
      BY <2>6, <2>7 DEF HardFailures
  <2>10. "seen" \in HardFailures(rows) => UnseenTooLong(pair, now)
    BY <2>3 DEF HardFailures
  <2>11. Binned(pair, now) =>
           HardFailures(rows) # {} \/ {"identified", "liquidity"} \subseteq HeldOn(rows)
    <3> HIDE DEF rows, f
    <3> QED
      BY <2>3, <2>4, <2>5, <2>8, <2>9, Zenon DEF Binned, f
  <2>12. HardFailures(rows) # {} => Binned(pair, now) \/ Lost(pair, now)
    <3> HIDE DEF rows, f
    <3> QED
      BY <2>3, <2>4, <2>5, <2>9, Zenon DEF Binned, Lost, f
  <2>13. UnseenTooLong(pair, now) => Binned(pair, now)
    BY Zenon DEF Binned
  <2> HIDE DEF rows, verdict
  <2> QED
    BY <2>1, <2>10, <2>11, <2>12, <2>13 DEF RejectionsShown, rows, verdict
<1> QED
  BY <1>1, FactsCorrect, PTL

-----------------------------------------------------------------------------
(* Better evidence.                                                        *)

FenceSet == [identified : {"pass", "fail"}, liquidity : Fence, txCount : Fence,
             turnover : Fence, age0 : Fence, age1 : Fence, decimals0 : Fence,
             decimals1 : Fence, price0 : Fence, price1 : Fence, canon0 : Fence,
             canon1 : Fence, factory : Fence]

LEMMA FencesInSet == ASSUME NEW e \in Facts, NEW t PROVE Fences(e, t) \in FenceSet
<1>1. /\ BothTokensIdentified(e) \in {"pass", "fail"}
      /\ MatchesCanonical(Canonical0(e)) \in Fence /\ MatchesCanonical(Canonical1(e)) \in Fence
      /\ MatchesCanonical(e.checks.factory) \in Fence
  BY DEF BothTokensIdentified, MatchesCanonical, Canonical0, Canonical1, Gate, Fence, Facts,
         ChecksType, Match
<1>2. MeetsTurnover(e.market) \in Fence
  BY Zenon DEF MeetsTurnover, Gate, Fence
<1>3. ASSUME NEW token
      PROVE  /\ MeetsAge(token, t) \in Fence /\ DecimalsLookSane(token) \in Fence
             /\ CgPriceWithinTolerance(token) \in Fence
  BY Zenon DEF MeetsAge, DecimalsLookSane, CgPriceWithinTolerance, Gate, Fence
<1>4. \A holds : Gate(holds) \in Fence
  BY Zenon DEF Gate, Fence
<1> QED
  BY <1>1, <1>2, <1>3, <1>4 DEF Fences, FenceSet

(* Earning no less and missing no more of the weight keeps the ratio.      *)
LEMMA Ratio ==
    ASSUME NEW p \in Nat, NEW e \in Nat, NEW m \in Nat, NEW e2 \in Nat, NEW m2 \in Nat,
           e + m > 0, e2 >= e, m2 <= m, e * 100 >= p * (e + m)
    PROVE  e2 * 100 >= p * (e2 + m2)
<1>1. p <= 100
  <2> SUFFICES ASSUME p > 100 PROVE FALSE
    OBVIOUS
  <2>1. p * (e + m) >= 101 * (e + m)
    OBVIOUS
  <2> QED
    BY <2>1
<1>2. p * m <= (100 - p) * e
  OBVIOUS
<1>3. (100 - p) * e <= (100 - p) * e2
  BY <1>1
<1>4. p * m2 <= p * m
  OBVIOUS
<1> QED
  BY <1>2, <1>3, <1>4

Missed(f, w) == IF f = "fail" THEN w ELSE 0

LEMMA Confidence ==
    ASSUME NEW f \in FenceSet, NEW g \in FenceSet, FenceConfident(f),
           \A fence \in DOMAIN f : Strength[g[fence]] >= Strength[f[fence]]
    PROVE  FenceConfident(g)
<1>1. ASSUME NEW h \in FenceSet
      PROVE  /\ Weigh(h, Earned) \in Nat /\ Weigh(h, Missed) \in Nat
             /\ Weigh(h, Counted) = Weigh(h, Earned) + Weigh(h, Missed)
             /\ Weigh(h, Counted) > 0
  <2>1. \A o \in Fence, w \in Nat :
            /\ Earned(o, w) \in Nat /\ Missed(o, w) \in Nat
            /\ Counted(o, w) = Earned(o, w) + Missed(o, w)
    BY DEF Fence, Earned, Missed, Counted
  <2>2. Counted(h.identified, 3) = 3
    BY DEF FenceSet, Counted
  <2>3. Weigh(h, Earned)
          = Earned(h.identified, 3) + Earned(h.canon0, 3) + Earned(h.canon1, 3)
            + Earned(h.factory, 2) + Earned(h.liquidity, 2) + Earned(h.price0, 2)
            + Earned(h.price1, 2) + Earned(h.txCount, 1) + Earned(h.turnover, 1)
            + Earned(h.age0, 1) + Earned(h.age1, 1) + Earned(h.decimals0, 1) + Earned(h.decimals1, 1)
    BY Zenon DEF Weigh
  <2>4. Weigh(h, Missed)
          = Missed(h.identified, 3) + Missed(h.canon0, 3) + Missed(h.canon1, 3)
            + Missed(h.factory, 2) + Missed(h.liquidity, 2) + Missed(h.price0, 2)
            + Missed(h.price1, 2) + Missed(h.txCount, 1) + Missed(h.turnover, 1)
            + Missed(h.age0, 1) + Missed(h.age1, 1) + Missed(h.decimals0, 1) + Missed(h.decimals1, 1)
    BY Zenon DEF Weigh
  <2>5. Weigh(h, Counted)
          = Counted(h.identified, 3) + Counted(h.canon0, 3) + Counted(h.canon1, 3)
            + Counted(h.factory, 2) + Counted(h.liquidity, 2) + Counted(h.price0, 2)
            + Counted(h.price1, 2) + Counted(h.txCount, 1) + Counted(h.turnover, 1)
            + Counted(h.age0, 1) + Counted(h.age1, 1) + Counted(h.decimals0, 1) + Counted(h.decimals1, 1)
    BY Zenon DEF Weigh
  <2>6. /\ h.identified \in Fence
        /\ h.canon0 \in Fence
        /\ h.canon1 \in Fence
        /\ h.factory \in Fence
        /\ h.liquidity \in Fence
        /\ h.price0 \in Fence
        /\ h.price1 \in Fence
        /\ h.txCount \in Fence
        /\ h.turnover \in Fence
        /\ h.age0 \in Fence
        /\ h.age1 \in Fence
        /\ h.decimals0 \in Fence
        /\ h.decimals1 \in Fence
    BY DEF FenceSet, Fence
  <2>7. /\ Earned(h.identified, 3) \in Nat /\ Missed(h.identified, 3) \in Nat
        /\ Counted(h.identified, 3) = Earned(h.identified, 3) + Missed(h.identified, 3)
        /\ Earned(h.canon0, 3) \in Nat /\ Missed(h.canon0, 3) \in Nat
        /\ Counted(h.canon0, 3) = Earned(h.canon0, 3) + Missed(h.canon0, 3)
        /\ Earned(h.canon1, 3) \in Nat /\ Missed(h.canon1, 3) \in Nat
        /\ Counted(h.canon1, 3) = Earned(h.canon1, 3) + Missed(h.canon1, 3)
        /\ Earned(h.factory, 2) \in Nat /\ Missed(h.factory, 2) \in Nat
        /\ Counted(h.factory, 2) = Earned(h.factory, 2) + Missed(h.factory, 2)
        /\ Earned(h.liquidity, 2) \in Nat /\ Missed(h.liquidity, 2) \in Nat
        /\ Counted(h.liquidity, 2) = Earned(h.liquidity, 2) + Missed(h.liquidity, 2)
        /\ Earned(h.price0, 2) \in Nat /\ Missed(h.price0, 2) \in Nat
        /\ Counted(h.price0, 2) = Earned(h.price0, 2) + Missed(h.price0, 2)
        /\ Earned(h.price1, 2) \in Nat /\ Missed(h.price1, 2) \in Nat
        /\ Counted(h.price1, 2) = Earned(h.price1, 2) + Missed(h.price1, 2)
        /\ Earned(h.txCount, 1) \in Nat /\ Missed(h.txCount, 1) \in Nat
        /\ Counted(h.txCount, 1) = Earned(h.txCount, 1) + Missed(h.txCount, 1)
        /\ Earned(h.turnover, 1) \in Nat /\ Missed(h.turnover, 1) \in Nat
        /\ Counted(h.turnover, 1) = Earned(h.turnover, 1) + Missed(h.turnover, 1)
        /\ Earned(h.age0, 1) \in Nat /\ Missed(h.age0, 1) \in Nat
        /\ Counted(h.age0, 1) = Earned(h.age0, 1) + Missed(h.age0, 1)
        /\ Earned(h.age1, 1) \in Nat /\ Missed(h.age1, 1) \in Nat
        /\ Counted(h.age1, 1) = Earned(h.age1, 1) + Missed(h.age1, 1)
        /\ Earned(h.decimals0, 1) \in Nat /\ Missed(h.decimals0, 1) \in Nat
        /\ Counted(h.decimals0, 1) = Earned(h.decimals0, 1) + Missed(h.decimals0, 1)
        /\ Earned(h.decimals1, 1) \in Nat /\ Missed(h.decimals1, 1) \in Nat
        /\ Counted(h.decimals1, 1) = Earned(h.decimals1, 1) + Missed(h.decimals1, 1)
    BY <2>1, <2>6
  <2> QED
    BY <2>2, <2>3, <2>4, <2>5, <2>7
<1>2. Weigh(g, Earned) >= Weigh(f, Earned) /\ Weigh(g, Missed) <= Weigh(f, Missed)
  <2>1. ASSUME NEW o \in Fence, NEW b \in Fence, Strength[b] >= Strength[o], NEW w \in Nat
        PROVE  Earned(b, w) >= Earned(o, w) /\ Missed(b, w) <= Missed(o, w)
    BY <2>1 DEF Fence, Earned, Missed, Strength
  <2>2. ASSUME NEW key \in DOMAIN f, f[key] \in Fence, g[key] \in Fence, NEW w \in Nat
        PROVE  /\ Earned(g[key], w) >= Earned(f[key], w)
               /\ Missed(g[key], w) <= Missed(f[key], w)
    BY <2>1, <2>2
  <2>3. /\ Earned(g.identified, 3) >= Earned(f.identified, 3) /\ Missed(g.identified, 3) <= Missed(f.identified, 3)
        /\ Earned(g.canon0, 3) >= Earned(f.canon0, 3) /\ Missed(g.canon0, 3) <= Missed(f.canon0, 3)
        /\ Earned(g.canon1, 3) >= Earned(f.canon1, 3) /\ Missed(g.canon1, 3) <= Missed(f.canon1, 3)
        /\ Earned(g.factory, 2) >= Earned(f.factory, 2) /\ Missed(g.factory, 2) <= Missed(f.factory, 2)
        /\ Earned(g.liquidity, 2) >= Earned(f.liquidity, 2) /\ Missed(g.liquidity, 2) <= Missed(f.liquidity, 2)
        /\ Earned(g.price0, 2) >= Earned(f.price0, 2) /\ Missed(g.price0, 2) <= Missed(f.price0, 2)
        /\ Earned(g.price1, 2) >= Earned(f.price1, 2) /\ Missed(g.price1, 2) <= Missed(f.price1, 2)
        /\ Earned(g.txCount, 1) >= Earned(f.txCount, 1) /\ Missed(g.txCount, 1) <= Missed(f.txCount, 1)
        /\ Earned(g.turnover, 1) >= Earned(f.turnover, 1) /\ Missed(g.turnover, 1) <= Missed(f.turnover, 1)
        /\ Earned(g.age0, 1) >= Earned(f.age0, 1) /\ Missed(g.age0, 1) <= Missed(f.age0, 1)
        /\ Earned(g.age1, 1) >= Earned(f.age1, 1) /\ Missed(g.age1, 1) <= Missed(f.age1, 1)
        /\ Earned(g.decimals0, 1) >= Earned(f.decimals0, 1) /\ Missed(g.decimals0, 1) <= Missed(f.decimals0, 1)
        /\ Earned(g.decimals1, 1) >= Earned(f.decimals1, 1) /\ Missed(g.decimals1, 1) <= Missed(f.decimals1, 1)
    BY <2>2 DEF FenceSet, Fence
  <2>4. /\ Earned(g.identified, 3) \in Nat /\ Earned(f.identified, 3) \in Nat /\ Missed(g.identified, 3) \in Nat /\ Missed(f.identified, 3) \in Nat
        /\ Earned(g.canon0, 3) \in Nat /\ Earned(f.canon0, 3) \in Nat /\ Missed(g.canon0, 3) \in Nat /\ Missed(f.canon0, 3) \in Nat
        /\ Earned(g.canon1, 3) \in Nat /\ Earned(f.canon1, 3) \in Nat /\ Missed(g.canon1, 3) \in Nat /\ Missed(f.canon1, 3) \in Nat
        /\ Earned(g.factory, 2) \in Nat /\ Earned(f.factory, 2) \in Nat /\ Missed(g.factory, 2) \in Nat /\ Missed(f.factory, 2) \in Nat
        /\ Earned(g.liquidity, 2) \in Nat /\ Earned(f.liquidity, 2) \in Nat /\ Missed(g.liquidity, 2) \in Nat /\ Missed(f.liquidity, 2) \in Nat
        /\ Earned(g.price0, 2) \in Nat /\ Earned(f.price0, 2) \in Nat /\ Missed(g.price0, 2) \in Nat /\ Missed(f.price0, 2) \in Nat
        /\ Earned(g.price1, 2) \in Nat /\ Earned(f.price1, 2) \in Nat /\ Missed(g.price1, 2) \in Nat /\ Missed(f.price1, 2) \in Nat
        /\ Earned(g.txCount, 1) \in Nat /\ Earned(f.txCount, 1) \in Nat /\ Missed(g.txCount, 1) \in Nat /\ Missed(f.txCount, 1) \in Nat
        /\ Earned(g.turnover, 1) \in Nat /\ Earned(f.turnover, 1) \in Nat /\ Missed(g.turnover, 1) \in Nat /\ Missed(f.turnover, 1) \in Nat
        /\ Earned(g.age0, 1) \in Nat /\ Earned(f.age0, 1) \in Nat /\ Missed(g.age0, 1) \in Nat /\ Missed(f.age0, 1) \in Nat
        /\ Earned(g.age1, 1) \in Nat /\ Earned(f.age1, 1) \in Nat /\ Missed(g.age1, 1) \in Nat /\ Missed(f.age1, 1) \in Nat
        /\ Earned(g.decimals0, 1) \in Nat /\ Earned(f.decimals0, 1) \in Nat /\ Missed(g.decimals0, 1) \in Nat /\ Missed(f.decimals0, 1) \in Nat
        /\ Earned(g.decimals1, 1) \in Nat /\ Earned(f.decimals1, 1) \in Nat /\ Missed(g.decimals1, 1) \in Nat /\ Missed(f.decimals1, 1) \in Nat
    BY DEF Earned, Missed
  <2>5. Weigh(g, Earned)
          = Earned(g.identified, 3) + Earned(g.canon0, 3) + Earned(g.canon1, 3)
            + Earned(g.factory, 2) + Earned(g.liquidity, 2) + Earned(g.price0, 2)
            + Earned(g.price1, 2) + Earned(g.txCount, 1) + Earned(g.turnover, 1)
            + Earned(g.age0, 1) + Earned(g.age1, 1) + Earned(g.decimals0, 1) + Earned(g.decimals1, 1)
    BY Zenon DEF Weigh
  <2>6. Weigh(g, Missed)
          = Missed(g.identified, 3) + Missed(g.canon0, 3) + Missed(g.canon1, 3)
            + Missed(g.factory, 2) + Missed(g.liquidity, 2) + Missed(g.price0, 2)
            + Missed(g.price1, 2) + Missed(g.txCount, 1) + Missed(g.turnover, 1)
            + Missed(g.age0, 1) + Missed(g.age1, 1) + Missed(g.decimals0, 1) + Missed(g.decimals1, 1)
    BY Zenon DEF Weigh
  <2>7. Weigh(f, Earned)
          = Earned(f.identified, 3) + Earned(f.canon0, 3) + Earned(f.canon1, 3)
            + Earned(f.factory, 2) + Earned(f.liquidity, 2) + Earned(f.price0, 2)
            + Earned(f.price1, 2) + Earned(f.txCount, 1) + Earned(f.turnover, 1)
            + Earned(f.age0, 1) + Earned(f.age1, 1) + Earned(f.decimals0, 1) + Earned(f.decimals1, 1)
    BY Zenon DEF Weigh
  <2>8. Weigh(f, Missed)
          = Missed(f.identified, 3) + Missed(f.canon0, 3) + Missed(f.canon1, 3)
            + Missed(f.factory, 2) + Missed(f.liquidity, 2) + Missed(f.price0, 2)
            + Missed(f.price1, 2) + Missed(f.txCount, 1) + Missed(f.turnover, 1)
            + Missed(f.age0, 1) + Missed(f.age1, 1) + Missed(f.decimals0, 1) + Missed(f.decimals1, 1)
    BY Zenon DEF Weigh
  <2> QED
    BY <2>3, <2>4, <2>5, <2>6, <2>7, <2>8
<1>3. Config.autoVerifyPercent \in Nat
  BY ConfigAssumption DEF ConfigType
<1>4. Weigh(f, Earned) * 100
          >= Config.autoVerifyPercent * (Weigh(f, Earned) + Weigh(f, Missed))
  BY <1>1 DEF FenceConfident
<1>5. Weigh(g, Earned) * 100
          >= Config.autoVerifyPercent * (Weigh(g, Earned) + Weigh(g, Missed))
  <2>1. Weigh(f, Earned) + Weigh(f, Missed) > 0
    BY <1>1
  <2> QED
    BY <2>1, <1>1, <1>2, <1>3, <1>4, Ratio
<1> QED
  BY <1>1, <1>5 DEF FenceConfident

LEMMA BetterEvidence ==
    ASSUME NEW e \in Facts, NEW f \in Facts, NEW te, NEW tf, NoWorse(e, te, f, tf)
    PROVE  Rank[VerdictOf(f, tf)] >= Rank[VerdictOf(e, te)]
<1> DEFINE a == Fences(e, te)
           b == Fences(f, tf)
<1>1. a \in FenceSet /\ b \in FenceSet
  BY FencesInSet
<1>2. \A fence \in DOMAIN a : Strength[b[fence]] >= Strength[a[fence]]
  BY DEF NoWorse
<1>3. \A fence \in DOMAIN a :
         /\ Ok(a[fence]) => Ok(b[fence])
         /\ a[fence] = "pass" => b[fence] = "pass"
  <2>1. ASSUME NEW o \in Fence, NEW n \in Fence, Strength[n] >= Strength[o]
        PROVE  (Ok(o) => Ok(n)) /\ (o = "pass" => n = "pass")
    BY <2>1 DEF Fence, Strength, Ok
  <2>2. \A fence \in DOMAIN a : a[fence] \in Fence /\ b[fence] \in Fence
    BY <1>1 DEF FenceSet, Fence
  <2> HIDE DEF a, b
  <2> QED
    BY <2>1, <2>2, <1>2
<1>4. DOMAIN a = {"identified", "liquidity", "txCount", "turnover", "age0", "age1",
                  "decimals0", "decimals1", "price0", "price1", "canon0", "canon1", "factory"}
  BY DEF Fences
<1>5. FenceConfident(a) => FenceConfident(b)
  BY <1>1, <1>2, Confidence
<1>6. EffectiveReserve(f) >= Config.minLiquidityUsd
        <=> Ok(b.liquidity)
  BY DEF Fences, Gate, Ok
<1>7. EffectiveReserve(e) >= Config.minLiquidityUsd
        <=> Ok(a.liquidity)
  BY DEF Fences, Gate, Ok
<1>8. /\ EffectiveReserve(e) \in Nat /\ EffectiveReserve(f) \in Nat
      /\ e.market.reserveUsd \in Nat /\ f.market.reserveUsd \in Nat
      /\ Config.minLiquidityUsd \in Nat /\ Config.hardMinLiquidityUsd \in Nat
  BY ConfigAssumption DEF EffectiveReserve, Facts, MarketType, ConfigType
<1>9. /\ f.checks.scam  => e.checks.scam
      /\ ImpostorLoser(f) => ImpostorLoser(e)
      /\ HasVerifiedSibling(e) => HasVerifiedSibling(f)
      /\ f.market.hooked  => e.market.hooked
      /\ f.market.subgraphAbsent => e.market.subgraphAbsent
      /\ UnseenTooLong(f, tf) => UnseenTooLong(e, te)
      /\ PhantomLiquidityApplies(f) => PhantomLiquidityApplies(e)
      /\ f.market.reserveUsd >= e.market.reserveUsd
      /\ f.source = e.source
  BY DEF NoWorse
<1> HIDE DEF a, b
<1>10. /\ Ok(a.identified) => Ok(b.identified)
       /\ Ok(a.liquidity) => Ok(b.liquidity)
       /\ Ok(a.txCount) => Ok(b.txCount)
       /\ Ok(a.age0) => Ok(b.age0)
       /\ Ok(a.age1) => Ok(b.age1)
       /\ Ok(a.decimals0) => Ok(b.decimals0)
       /\ Ok(a.decimals1) => Ok(b.decimals1)
       /\ Ok(a.price0) => Ok(b.price0)
       /\ Ok(a.price1) => Ok(b.price1)
       /\ Ok(a.canon0) => Ok(b.canon0)
       /\ Ok(a.canon1) => Ok(b.canon1)
       /\ Ok(a.factory) => Ok(b.factory)
       /\ a.canon0 = "pass" => b.canon0 = "pass"
       /\ a.canon1 = "pass" => b.canon1 = "pass"
  BY <1>3, <1>4
<1>11. Binned(f, tf) \/ Lost(f, tf) => Binned(e, te) \/ Lost(e, te)
  BY <1>6, <1>7, <1>8, <1>9, <1>10 DEF Binned, Lost, a, b
<1>12. Barred(f, tf) => Barred(e, te)
  BY <1>9, <1>10 DEF Barred, a, b
<1>13. ClearsBar(e, te) => ClearsBar(f, tf)
  BY <1>5, <1>9, <1>10 DEF ClearsBar, CoreGatesPass, CanonicalConfirmed, a, b
<1>14. HasVerifiedSibling(e) /\ Ok(Fences(e, te).liquidity)
           => HasVerifiedSibling(f) /\ Ok(Fences(f, tf).liquidity)
  BY <1>9, <1>10 DEF a, b
<1> QED
  BY <1>9, <1>11, <1>12, <1>13, <1>14, Rules DEF Rank

(* Better evidence never makes a verdict worse, for any thresholds.        *)
THEOREM EvidenceHelpsAlways == FactsSpec => EvidenceHelps
<1>1. FactsOK /\ [FactsNext]_facts
        => [NoWorse(pair, now, pair', now')
              => Rank[VerdictOf(pair', now')] >= Rank[VerdictOf(pair, now)]]_facts
  <2> SUFFICES ASSUME FactsOK, [FactsNext]_facts, NoWorse(pair, now, pair', now')
               PROVE  Rank[VerdictOf(pair', now')] >= Rank[VerdictOf(pair, now)]
    OBVIOUS
  <2>1. FactsOK'
    BY NextTyped
  <2> QED
    BY <2>1, BetterEvidence DEF FactsOK
<1> QED
  BY <1>1, FactsCorrect, PTL DEF FactsSpec, EvidenceHelps


---------------------------------------------------------------------------
(* The runner. *)

(* The status vocabulary: what each verdict and each decision can be.      *)
LEMMA VerdictsAreStatuses == Verdicts \subseteq Status
BY DEF Verdicts, Status

(* evaluatePair returns one of its four verdicts.                          *)
LEMMA AdjudicateType ==
    ASSUME NEW class \in EvidenceClass, NEW scam \in BOOLEAN, NEW sibling \in BOOLEAN
    PROVE  Adjudicate(class, scam, sibling) \in Verdicts
BY DEF Adjudicate, Verdicts, EvidenceClass

(* The rest records of an idle runner and a form not in use are well typed. *)
LEMMA RestTypes ==
    /\ Idle \in Task /\ Down \in Task
    /\ Empty \in Hand
    /\ NoForm \in Form
<1>1. (CHOOSE p \in Pair : TRUE) \in Pair
  BY PairAssumption
<1>2. QED
  BY <1>1 DEF Idle, Down, Task, Empty, Hand, NoForm, Form, EvidenceClass, Verdicts, Status

(* The initial rows are well typed.                                        *)
LEMMA InitType == Init => TypeOK
BY RestTypes, EvidenceAssumption DEF Init, TypeOK, Status, Method

(* No step takes a variable out of its type.                               *)
LEMMA TypeStep == TypeOK /\ [Next]_vars => TypeOK'
<1> SUFFICES ASSUME TypeOK, [Next]_vars PROVE TypeOK'
  OBVIOUS
<1> USE DEF TypeOK
<1>1. ASSUME NEW r \in Runner, NEW p \in Pair, NEW e \in Evidence, Ingest(r, p, e)
      PROVE  TypeOK'
  <2>1. task' \in [Runner -> Task] /\ UNCHANGED hand
    BY <1>1 DEF Ingest, Begin, Task
  <2>2. evidence' \in [Pair -> EvidenceClass]
    BY <1>1, EvidenceAssumption DEF Ingest
  <2>3. QED
    BY <1>1, <2>1, <2>2 DEF Ingest, tokenVars, ghostVars
<1>2. ASSUME NEW r \in Runner, NEW pairs \in SUBSET Pair, Rescan(r, pairs)
      PROVE  TypeOK'
  <2>1. task' \in [Runner -> Task] /\ UNCHANGED hand
    BY <1>2 DEF Rescan, Begin, Task
  <2>2. QED
    BY <1>2, <2>1 DEF Rescan, pairVars, tokenVars, ghostVars
<1>3. ASSUME NEW r \in Runner, NEW t \in Token, NEW flagged \in BOOLEAN,
             ScamCheck(r, t, flagged)
      PROVE  TypeOK'
  <2>1. task' \in [Runner -> Task] /\ UNCHANGED hand
    BY <1>3 DEF ScamCheck, Begin, Task, PairsOf, runnerVars
  <2>2. scamFlagged' \in [Token -> BOOLEAN]
    BY <1>3 DEF ScamCheck
  <2>3. QED
    BY <1>3, <2>1, <2>2 DEF ScamCheck, pairVars, ghostVars
<1>4. ASSUME NEW r \in Runner, NEW t \in Token, RescoreScam(r, t)
      PROVE  TypeOK'
  <2>1. task' \in [Runner -> Task] /\ UNCHANGED hand
    BY <1>4 DEF RescoreScam, Begin, Task, PairsOf
  <2>2. scamFlagged' \in [Token -> BOOLEAN]
    BY <1>4 DEF RescoreScam
  <2>3. QED
    BY <1>4, <2>1, <2>2 DEF RescoreScam, pairVars, ghostVars
<1>5. ASSUME NEW r \in Runner, Revalidate(r)
      PROVE  TypeOK'
  <2>1. task' \in [Runner -> Task] /\ UNCHANGED hand
    BY <1>5 DEF Revalidate, Begin, Task
  <2>2. QED
    BY <1>5, <2>1 DEF Revalidate, pairVars, tokenVars, ghostVars
<1>6. ASSUME NEW r \in Runner, NEW p \in Pair, SkipManual(r, p)
      PROVE  TypeOK'
  <2>1. task' \in [Runner -> Task]
    BY <1>6 DEF SkipManual, Unlist, Task
  <2>2. QED
    BY <1>6, <2>1 DEF SkipManual, pairVars, tokenVars, ghostVars
<1>7. ASSUME NEW r \in Runner, NEW p \in Pair, ReadPair(r, p)
      PROVE  TypeOK'
  <2>1. task' \in [Runner -> Task]
    BY <1>7 DEF ReadPair, Unlist, Task
  <2>2. hand' \in [Runner -> Hand]
    BY <1>7, RestTypes DEF ReadPair, Hand
  <2>3. QED
    BY <1>7, <2>1, <2>2 DEF ReadPair, pairVars, tokenVars, ghostVars
<1>8. ASSUME NEW r \in Runner, Judge(r)
      PROVE  TypeOK'
  <2> DEFINE sib == \E q \in Siblings(hand[r].pair) : status[q] \in Verified
             v   == Adjudicate(hand[r].class, hand[r].scam, sib)
  <2>1. v \in Verdicts
    <3>1. sib \in BOOLEAN /\ hand[r].class \in EvidenceClass /\ hand[r].scam \in BOOLEAN
      BY DEF Hand
    <3>2. QED
      BY <3>1, AdjudicateType
  <2>2. hand' = [hand EXCEPT ![r].at = "ready", ![r].verdict = v]
    BY <1>8 DEF Judge
  <2> HIDE DEF v
  <2>3. hand' \in [Runner -> Hand]
    <3>1. hand \in [Runner -> Hand] /\ hand[r] \in Hand
      OBVIOUS
    <3>2. [hand[r] EXCEPT !.at = "ready", !.verdict = v] \in Hand
      BY <3>1, <2>1 DEF Hand
    <3>3. hand' = [hand EXCEPT ![r] = [hand[r] EXCEPT !.at = "ready", !.verdict = v]]
      BY <3>1, <2>2
    <3>4. QED
      BY <3>1, <3>2, <3>3
  <2>4. QED
    BY <1>8, <2>3 DEF Judge, pairVars, tokenVars, ghostVars
<1>9. ASSUME NEW r \in Runner, Commit(r)
      PROVE  TypeOK'
  <2>1. hand[r].pair \in Pair /\ hand[r].verdict \in Status
    BY VerdictsAreStatuses DEF Hand
  <2>2. hand' \in [Runner -> Hand]
    BY <1>9, <2>1, RestTypes DEF Commit, Hand
  <2>3. status' \in [Pair -> Status] /\ method' \in [Pair -> Method]
    BY <1>9, <2>1 DEF Commit, Method
  <2>4. keyed' \in [Pair -> BOOLEAN] /\ grounded' \in [Pair -> BOOLEAN]
    BY <1>9, <2>1 DEF Commit
  <2>5. QED
    BY <1>9, <2>2, <2>3, <2>4 DEF Commit, tokenVars
<1>10. ASSUME NEW r \in Runner, Promote(r)
       PROVE  TypeOK'
  <2>1. tokenStatus' \in [Token -> Status]
    BY <1>10 DEF Promote, Promoted, Status
  <2>2. hand' \in [Runner -> Hand]
    BY <1>10, RestTypes DEF Promote
  <2>3. QED
    BY <1>10, <2>1, <2>2 DEF Promote, pairVars, ghostVars
<1>11. ASSUME NEW r \in Runner, Finish(r)
       PROVE  TypeOK'
  <2>1. ASSUME NEW tokens PROVE Demoted(tokens) \in [Token -> Status]
    BY DEF Demoted, Status
  <2>2. tokenStatus' \in [Token -> Status]
    <3>1. \/ tokenStatus' = Demoted(task[r].tokens)
          \/ tokenStatus' = Demoted(Token)
          \/ tokenStatus' = tokenStatus
      BY <1>11 DEF Finish
    <3>2. QED
      BY <2>1, <3>1
  <2>3. task' \in [Runner -> Task]
    BY <1>11, RestTypes DEF Finish
  <2>4. QED
    BY <1>11, <2>2, <2>3 DEF Finish, pairVars, ghostVars
<1>12. ASSUME NEW pairs \in SUBSET Pair, NEW s \in Status, NEW how \in Method,
              Decide(pairs, s, how)
       PROVE  /\ status' \in [Pair -> Status] /\ method' \in [Pair -> Method]
              /\ settled' \in [Pair -> BOOLEAN] /\ grounded' \in [Pair -> BOOLEAN]
              /\ UNCHANGED <<keyed, evidence>>
  BY <1>12 DEF Decide
<1>13. ASSUME NEW pairs \in SUBSET Pair, NEW s \in Status
       PROVE  PromoteForm(pairs, s) \in Form
  BY TokensOfAssumption, RestTypes DEF PromoteForm, TokensUnder, Form
<1>14. FormStatus \subseteq Status /\ Manual \subseteq Status /\ {"Manual", "Cascade"} \subseteq Method
  BY FormStatusAssumption DEF Status, Manual, Method
<1>15. ASSUME NEW p \in Pair, NEW s \in FormStatus, SetPairStatus(p, s)
       PROVE  TypeOK'
  <2>1. form' \in Form
    BY <1>13, <1>14, <1>15 DEF SetPairStatus
  <2>2. Decide({p}, s, "Manual")
    BY <1>15 DEF SetPairStatus
  <2>3. QED
    BY <1>12, <1>14, <1>15, <2>1, <2>2 DEF SetPairStatus, tokenVars, runnerVars
<1>16. ASSUME NEW pairs \in SUBSET Pair, NEW s \in Manual, BulkDecide(pairs, s)
       PROVE  TypeOK'
  <2>1. form' \in Form
    BY <1>13, <1>14, <1>16 DEF BulkDecide
  <2>2. Decide(pairs, s, "Manual")
    BY <1>16 DEF BulkDecide
  <2>3. QED
    BY <1>12, <1>14, <1>16, <2>1, <2>2 DEF BulkDecide, tokenVars, runnerVars
<1>17. ASSUME NEW t \in Token, NEW s \in FormStatus, SetTokenStatus(t, s)
       PROVE  TypeOK'
  <2>1. form' \in Form
    BY <1>14, <1>17, RestTypes DEF SetTokenStatus, Form
  <2>2. tokenStatus' \in [Token -> Status]
    BY <1>14, <1>17 DEF SetTokenStatus
  <2>3. QED
    BY <1>17, <2>1, <2>2 DEF SetTokenStatus, pairVars, runnerVars, ghostVars
<1>18. CASE FormPromote
  <2>1. tokenStatus' \in [Token -> Status]
    BY <1>18 DEF FormPromote, Promoted, Status
  <2>2. QED
    BY <1>18, <2>1, RestTypes DEF FormPromote, pairVars, runnerVars, ghostVars
<1>19. CASE FormCascade
  <2> DEFINE pairs == UNION {PairsOf(t) : t \in form.tokens}
  <2>1. pairs \in SUBSET Pair /\ form.status \in Status
    BY DEF PairsOf, Form
  <2>2. Decide(pairs, form.status, "Cascade")
    BY <1>19 DEF FormCascade
  <2> HIDE DEF pairs
  <2>3. QED
    BY <1>12, <1>14, <1>19, <2>1, <2>2, RestTypes DEF FormCascade, tokenVars, runnerVars
<1>20. ASSUME NEW r \in Runner, RunnerCrash(r) \/ Restart(r)
       PROVE  TypeOK'
  BY <1>20, RestTypes DEF RunnerCrash, Restart, pairVars, tokenVars, ghostVars
<1>21. CASE FormCrash
  BY <1>21, RestTypes DEF FormCrash, pairVars, tokenVars, runnerVars, ghostVars
<1>22. CASE UNCHANGED vars
  BY <1>22 DEF vars, pairVars, tokenVars, runnerVars, ghostVars
<1>23. QED
  BY <1>1, <1>2, <1>3, <1>4, <1>5, <1>6, <1>7, <1>8, <1>9, <1>10, <1>11,
     <1>15, <1>16, <1>17, <1>18, <1>19, <1>20, <1>21, <1>22
     DEF Next, Step, Crash, OperatorStep, RunnerStep, Progress

(* Every variable keeps its type.                                          *)
THEOREM TypeCorrect == Spec => []TypeOK
<1>1. Init => TypeOK
  BY InitType
<1>2. QED
  BY <1>1, TypeStep, PTL DEF Spec

-----------------------------------------------------------------------------
(* Rule R6.  A decision stands because no verdict run can pick the pair up *)
(* while it is Manual; that it is at rest has to be part of the invariant. *)
SettledInv == \A p \in Pair : settled[p] => status[p] \in Manual /\ AtRest(p)

(* The two writes of a status: what they do to SettledInv.                 *)
LEMMA SettledDecide ==
    ASSUME TypeOK, SettledInv, NEW pairs \in SUBSET Pair, NEW s, NEW how,
           Decide(pairs, s, how), UNCHANGED hand
    PROVE  SettledInv'
BY DEF SettledInv, Decide, AtRest, InFlight, TypeOK

LEMMA SettledStep == TypeOK /\ SettledInv /\ [Next]_vars => SettledInv'
<1> SUFFICES ASSUME TypeOK, SettledInv, [Next]_vars PROVE SettledInv'
  OBVIOUS
<1>0. ASSUME UNCHANGED <<settled, status, hand>> PROVE SettledInv'
  BY <1>0 DEF SettledInv, AtRest, InFlight
<1>1. ASSUME NEW r \in Runner, NEW p \in Pair, ReadPair(r, p) PROVE SettledInv'
  <2>1. ~settled[p]
    BY <1>1 DEF ReadPair, Todo, SettledInv
  <2>2. /\ UNCHANGED <<settled, status>>
        /\ hand'[r].pair = p
        /\ \A q \in Runner \ {r} : hand'[q] = hand[q]
    BY <1>1 DEF ReadPair, pairVars, ghostVars, TypeOK, Empty
  <2>3. QED
    BY <2>1, <2>2 DEF SettledInv, AtRest, InFlight
<1>2. ASSUME NEW r \in Runner, Judge(r) PROVE SettledInv'
  <2>1. /\ UNCHANGED <<settled, status>>
        /\ hand'[r].pair = hand[r].pair
        /\ hand[r].at = "read"
        /\ \A q \in Runner \ {r} : hand'[q] = hand[q]
    BY <1>2 DEF Judge, pairVars, ghostVars, TypeOK, Hand
  <2>2. QED
    BY <2>1 DEF SettledInv, AtRest, InFlight
<1>3. ASSUME NEW r \in Runner, Commit(r) PROVE SettledInv'
  <2> DEFINE p == hand[r].pair
  <2>1. p \in Pair /\ InFlight(r, p)
    BY <1>3 DEF Commit, InFlight, TypeOK, Hand
  <2>2. ~settled[p]
    BY <2>1 DEF SettledInv, AtRest
  <2>3. /\ UNCHANGED settled
        /\ \A q \in Pair \ {p} : status'[q] = status[q]
        /\ hand'[r].at \in {"none", "promote"}
        /\ \A q \in Runner \ {r} : hand'[q] = hand[q]
    BY <1>3 DEF Commit, TypeOK, Empty
  <2>4. QED
    BY <2>2, <2>3 DEF SettledInv, AtRest, InFlight
<1>4. ASSUME NEW r \in Runner, UNCHANGED <<settled, status>>,
             hand' = [hand EXCEPT ![r] = Empty]
      PROVE  SettledInv'
  BY <1>4 DEF SettledInv, AtRest, InFlight, TypeOK, Empty
<1>5. ASSUME NEW r \in Runner, Promote(r) \/ RunnerCrash(r) PROVE SettledInv'
  BY <1>4, <1>5 DEF Promote, RunnerCrash, pairVars, ghostVars
<1>6. ASSUME NEW p \in Pair, NEW s \in FormStatus, SetPairStatus(p, s) PROVE SettledInv'
  BY <1>6, SettledDecide DEF SetPairStatus, runnerVars
<1>7. ASSUME NEW pairs \in SUBSET Pair, NEW s \in Manual, BulkDecide(pairs, s)
      PROVE  SettledInv'
  BY <1>7, SettledDecide DEF BulkDecide, runnerVars
<1>8. CASE FormCascade
  <2>1. UNION {PairsOf(t) : t \in form.tokens} \in SUBSET Pair
    BY DEF PairsOf
  <2>2. QED
    BY <1>8, <2>1, SettledDecide DEF FormCascade, runnerVars
<1>9. ASSUME NEW r \in Runner,
             \/ \E p \in Pair, e \in Evidence : Ingest(r, p, e)
             \/ \E pairs \in SUBSET Pair : Rescan(r, pairs)
             \/ \E t \in Token, flagged \in BOOLEAN : ScamCheck(r, t, flagged)
             \/ \E t \in Token : RescoreScam(r, t)
             \/ Revalidate(r)
             \/ \E p \in Pair : SkipManual(r, p)
             \/ Finish(r)
             \/ Restart(r)
      PROVE  SettledInv'
  BY <1>0, <1>9 DEF Ingest, Rescan, ScamCheck, RescoreScam, Revalidate, SkipManual,
     Finish, Restart, Begin, pairVars, ghostVars, runnerVars
<1>10. CASE \/ \E t \in Token, s \in FormStatus : SetTokenStatus(t, s)
            \/ FormPromote
            \/ FormCrash
            \/ UNCHANGED vars
  BY <1>0, <1>10 DEF SetTokenStatus, FormPromote, FormCrash, vars, pairVars, ghostVars,
     runnerVars
<1>11. QED
  BY <1>1, <1>2, <1>3, <1>5, <1>6, <1>7, <1>8, <1>9, <1>10
     DEF Next, Step, Crash, OperatorStep, RunnerStep, Progress

(* Rule R6: a Manual decision taken while no run held the pair stands,     *)
(* whatever runs, passes and crashes follow.                               *)
THEOREM SettledDecisions == Spec => []SettledDecisionsStand
<1>1. Init => SettledInv
  BY DEF Init, SettledInv
<1>2. SettledInv => SettledDecisionsStand
  BY DEF SettledInv, SettledDecisionsStand
<1>3. QED
  BY <1>1, <1>2, SettledStep, TypeCorrect, PTL DEF Spec

-----------------------------------------------------------------------------
(* Vouching.  A verdict already reached but not yet written must be        *)
(* grounded as well, for it is written whatever has happened meanwhile.    *)
VouchInv ==
    /\ VouchingIsGrounded
    /\ \A r \in Runner : hand[r].at = "ready" /\ hand[r].verdict \in Verified =>
           hand[r].class = "clean" \/ GroundedKey(hand[r].pair)

(* Grounds are never lost: the history only grows.                         *)
LEMMA GroundsGrow ==
    ASSUME TypeOK, [Next]_vars, NEW p \in Pair, GroundedKey(p)
    PROVE  GroundedKey(p)'
<1>1. ASSUME NEW q \in Pair, grounded[q] PROVE grounded'[q]
  <2>1. ASSUME NEW r \in Runner, RunnerStep(r) PROVE grounded'[q]
    <3>1. \/ UNCHANGED grounded
          \/ Commit(r)
      BY <2>1 DEF RunnerStep, Progress, Ingest, Rescan, ScamCheck, RescoreScam, Revalidate,
         SkipManual, ReadPair, Judge, Promote, Finish, Restart, ghostVars
    <3>2. CASE Commit(r)
      BY <1>1, <3>2 DEF Commit, TypeOK
    <3>3. QED
      BY <1>1, <3>1, <3>2
  <2>2. ASSUME NEW pairs, NEW s, NEW how, Decide(pairs, s, how) PROVE grounded'[q]
    BY <1>1, <2>2 DEF Decide
  <2>3. CASE OperatorStep
    BY <1>1, <2>2, <2>3 DEF OperatorStep, SetPairStatus, BulkDecide, SetTokenStatus,
       FormPromote, FormCascade, ghostVars
  <2>4. CASE Crash \/ UNCHANGED vars
    BY <1>1, <2>4 DEF Crash, RunnerCrash, FormCrash, vars, ghostVars
  <2>5. QED
    BY <2>1, <2>3, <2>4 DEF Next, Step
<1>2. QED
  BY <1>1 DEF GroundedKey

(* A decision or a verdict that verifies a pair grounds its key.           *)
LEMMA VouchDecide ==
    ASSUME TypeOK, VouchInv, [Next]_vars, NEW pairs \in SUBSET Pair, NEW s, NEW how,
           Decide(pairs, s, how), UNCHANGED hand
    PROVE  VouchInv'
<1>1. ASSUME NEW p \in Pair, status'[p] \in Verified PROVE GroundedKey(p)'
  <2>1. CASE p \in pairs
    <3>1. grounded'[p]
      BY <1>1, <2>1 DEF Decide
    <3>2. QED
      BY <3>1 DEF GroundedKey
  <2>2. CASE p \notin pairs
    <3>1. status[p] \in Verified
      BY <1>1, <2>2 DEF Decide
    <3>2. GroundedKey(p)
      BY <3>1 DEF VouchInv, VouchingIsGrounded
    <3>3. QED
      BY <3>2, GroundsGrow
  <2>3. QED
    BY <2>1, <2>2
<1>2. ASSUME NEW r \in Runner, hand[r].at = "ready", hand[r].verdict \in Verified
      PROVE  hand[r].class = "clean" \/ GroundedKey(hand[r].pair)'
  <2>1. PICK p \in Pair : p = hand[r].pair
    BY DEF TypeOK, Hand
  <2>2. hand[r].class = "clean" \/ GroundedKey(p)
    BY <1>2, <2>1 DEF VouchInv
  <2>3. hand[r].class = "clean" \/ GroundedKey(p)'
    BY <2>2, GroundsGrow
  <2>4. QED
    BY <2>1, <2>3 DEF GroundedKey
<1>3. QED
  BY <1>1, <1>2 DEF VouchInv, VouchingIsGrounded

LEMMA VouchStep == TypeOK /\ VouchInv /\ [Next]_vars => VouchInv'
<1> SUFFICES ASSUME TypeOK, VouchInv, [Next]_vars PROVE VouchInv'
  OBVIOUS
<1> DEFINE Kept(r) == hand'[r].at = "ready" => hand'[r] = hand[r]
<1>1. ASSUME NEW r \in Runner, Kept(r), hand'[r].at = "ready", hand'[r].verdict \in Verified
      PROVE  hand'[r].class = "clean" \/ GroundedKey(hand[r].pair)'
  <2>1. PICK p \in Pair : p = hand[r].pair
    BY DEF TypeOK, Hand
  <2>2. hand[r].class = "clean" \/ GroundedKey(p)
    BY <1>1, <2>1 DEF VouchInv
  <2>3. hand[r].class = "clean" \/ GroundedKey(p)'
    BY <2>2, GroundsGrow
  <2>4. hand'[r] = hand[r]
    BY <1>1
  <2>5. QED
    BY <2>1, <2>3, <2>4 DEF GroundedKey
<1>2. ASSUME NEW p \in Pair, status'[p] = status[p], status'[p] \in Verified
      PROVE  GroundedKey(p)'
  BY <1>2, GroundsGrow DEF VouchInv, VouchingIsGrounded
<1>3. ASSUME UNCHANGED status, \A r \in Runner : Kept(r) PROVE VouchInv'
  BY <1>1, <1>2, <1>3 DEF VouchInv, VouchingIsGrounded
<1>4. ASSUME NEW r \in Runner, NEW p \in Pair, ReadPair(r, p) PROVE VouchInv'
  <2>1. hand'[r].at = "read" /\ \A q \in Runner \ {r} : hand'[q] = hand[q]
    BY <1>4 DEF ReadPair, TypeOK, Empty
  <2>2. UNCHANGED status
    BY <1>4 DEF ReadPair, pairVars
  <2>3. QED
    BY <1>3, <2>1, <2>2
<1>5. ASSUME NEW r \in Runner, Judge(r) PROVE VouchInv'
  <2>0. PICK p \in Pair : p = hand[r].pair
    BY DEF TypeOK, Hand
  <2> DEFINE sib == \E q \in Siblings(p) : status[q] \in Verified
             v   == Adjudicate(hand[r].class, hand[r].scam, sib)
  <2>1. hand[r].class \in EvidenceClass /\ hand[r].scam \in BOOLEAN
    BY DEF TypeOK, Hand
  <2>2. ASSUME v \in Verified PROVE hand[r].class = "clean" \/ sib
    BY <2>1, <2>2 DEF Adjudicate, Verified, EvidenceClass
  <2>3. ASSUME sib PROVE GroundedKey(p)
    <3>1. PICK q \in Pair : KeyOf[q] = KeyOf[p] /\ status[q] \in Verified
      BY <2>3 DEF Siblings
    <3>2. GroundedKey(q)
      BY <3>1 DEF VouchInv, VouchingIsGrounded
    <3>3. QED
      BY <3>1, <3>2 DEF GroundedKey
  <2> HIDE DEF sib
  <2>4. /\ hand' = [hand EXCEPT ![r].at = "ready", ![r].verdict = v]
        /\ UNCHANGED <<status, grounded>>
    BY <1>5, <2>0 DEF Judge, pairVars, ghostVars, sib
  <2> HIDE DEF v
  <2>5. /\ hand'[r].pair = p /\ hand'[r].class = hand[r].class /\ hand'[r].verdict = v
        /\ \A q \in Runner \ {r} : hand'[q] = hand[q]
    BY <2>0, <2>4 DEF TypeOK, Hand
  <2>6. v \in Verified => hand'[r].class = "clean" \/ GroundedKey(p)'
    BY <2>2, <2>3, <2>5, GroundsGrow
  <2>7. ASSUME hand'[r].verdict \in Verified
        PROVE  hand'[r].class = "clean" \/ GroundedKey(hand[r].pair)'
    BY <2>5, <2>6, <2>7 DEF GroundedKey
  <2>8. ASSUME NEW q \in Runner, hand'[q].at = "ready", hand'[q].verdict \in Verified
        PROVE  hand'[q].class = "clean" \/ GroundedKey(hand[q].pair)'
    <3>1. CASE q = r
      BY <2>7, <2>8, <3>1
    <3>2. CASE q # r
      BY <1>1, <2>5, <2>8, <3>2
    <3>3. QED
      BY <3>1, <3>2
  <2>9. \A q \in Pair : status'[q] \in Verified => GroundedKey(q)'
    BY <1>2, <2>4
  <2>10. QED
    BY <2>8, <2>9 DEF VouchInv, VouchingIsGrounded
<1>6. ASSUME NEW r \in Runner, Commit(r) PROVE VouchInv'
  <2>1. PICK p \in Pair : p = hand[r].pair
    BY DEF TypeOK, Hand
  <2>2. /\ hand[r].at = "ready"
        /\ status'[p] = hand[r].verdict
        /\ \A q \in Pair \ {p} : status'[q] = status[q]
        /\ hand'[r].at \in {"none", "promote"}
        /\ \A q \in Runner \ {r} : hand'[q] = hand[q]
    BY <1>6, <2>1 DEF Commit, TypeOK, Empty
  <2>3. ASSUME status'[p] \in Verified PROVE GroundedKey(p)'
    <3>1. CASE hand[r].class = "clean"
      <4>1. grounded'[p]
        BY <1>6, <2>1, <2>2, <2>3, <3>1 DEF Commit, TypeOK
      <4>2. QED
        BY <4>1 DEF GroundedKey
    <3>2. CASE GroundedKey(p)
      BY <3>2, GroundsGrow
    <3>3. QED
      BY <2>1, <2>2, <2>3, <3>1, <3>2 DEF VouchInv
  <2>4. \A q \in Pair : status'[q] \in Verified => GroundedKey(q)'
    BY <1>2, <2>2, <2>3
  <2>5. \A q \in Runner : Kept(q)
    BY <2>2
  <2>6. QED
    BY <1>1, <2>4, <2>5 DEF VouchInv, VouchingIsGrounded
<1>7. ASSUME NEW r \in Runner, Promote(r) \/ RunnerCrash(r) PROVE VouchInv'
  <2>1. UNCHANGED status /\ hand' = [hand EXCEPT ![r] = Empty]
    BY <1>7 DEF Promote, RunnerCrash, pairVars
  <2>2. \A q \in Runner : Kept(q)
    BY <2>1 DEF TypeOK, Empty
  <2>3. QED
    BY <1>3, <2>1, <2>2
<1>8. ASSUME NEW p \in Pair, NEW s \in FormStatus, SetPairStatus(p, s) PROVE VouchInv'
  BY <1>8, VouchDecide DEF SetPairStatus, runnerVars
<1>9. ASSUME NEW pairs \in SUBSET Pair, NEW s \in Manual, BulkDecide(pairs, s)
      PROVE  VouchInv'
  BY <1>9, VouchDecide DEF BulkDecide, runnerVars
<1>10. CASE FormCascade
  <2>1. UNION {PairsOf(t) : t \in form.tokens} \in SUBSET Pair
    BY DEF PairsOf
  <2>2. QED
    BY <1>10, <2>1, VouchDecide DEF FormCascade, runnerVars
<1>11. ASSUME NEW r \in Runner,
              \/ \E p \in Pair, e \in Evidence : Ingest(r, p, e)
              \/ \E pairs \in SUBSET Pair : Rescan(r, pairs)
              \/ \E t \in Token, flagged \in BOOLEAN : ScamCheck(r, t, flagged)
              \/ \E t \in Token : RescoreScam(r, t)
              \/ Revalidate(r)
              \/ \E p \in Pair : SkipManual(r, p)
              \/ Finish(r)
              \/ Restart(r)
       PROVE  VouchInv'
  <2>1. UNCHANGED <<status, hand>>
    BY <1>11 DEF Ingest, Rescan, ScamCheck, RescoreScam, Revalidate, SkipManual,
       Finish, Restart, Begin, pairVars, runnerVars
  <2>2. QED
    BY <1>3, <2>1
<1>12. CASE \/ \E t \in Token, s \in FormStatus : SetTokenStatus(t, s)
            \/ FormPromote
            \/ FormCrash
            \/ UNCHANGED vars
  <2>1. UNCHANGED <<status, hand>>
    BY <1>12 DEF SetTokenStatus, FormPromote, FormCrash, vars, pairVars, runnerVars
  <2>2. QED
    BY <1>3, <2>1
<1>13. QED
  BY <1>4, <1>5, <1>6, <1>7, <1>8, <1>9, <1>10, <1>11, <1>12
     DEF Next, Step, Crash, OperatorStep, RunnerStep, Progress

(* Siblings never vouch one another into the export: some pair of the key  *)
(* was once verified on its own evidence, or by the operator.              *)
THEOREM Vouching == Spec => []VouchingIsGrounded
<1>1. Init => VouchInv
  BY DEF Init, VouchInv, VouchingIsGrounded, Empty, Verified
<1>2. VouchInv => VouchingIsGrounded
  BY DEF VouchInv
<1>3. QED
  BY <1>1, <1>2, VouchStep, TypeCorrect, PTL DEF Spec

-----------------------------------------------------------------------------
(* Scam flags, as long as no process dies between two of its writes.       *)
LEMMA FlagStep == TypeOK /\ FlaggedTokensDemoted /\ [Step]_vars => FlaggedTokensDemoted'
<1> SUFFICES ASSUME TypeOK, FlaggedTokensDemoted, [Step]_vars,
                    NEW t \in Token, scamFlagged'[t], tokenStatus'[t] = "AutoVerified"
             PROVE  BeingDemoted(t)'
  BY DEF FlaggedTokensDemoted, BeingDemoted
<1>1. ASSUME NEW r \in Runner, Free(r), BeingDemoted(t),
             \A q \in Runner \ {r} : task'[q] = task[q]
      PROVE  BeingDemoted(t)'
  BY <1>1 DEF Free, Idle, BeingDemoted
<1>2. ASSUME scamFlagged[t], tokenStatus[t] = "AutoVerified"
      PROVE  BeingDemoted(t)
  BY <1>2 DEF FlaggedTokensDemoted
<1>3. ASSUME NEW r \in Runner, NEW kind, NEW tokens, NEW pairs, Begin(r, kind, tokens, pairs)
      PROVE  /\ Free(r)
             /\ task'[r].kind = kind /\ task'[r].tokens = tokens
             /\ \A q \in Runner \ {r} : task'[q] = task[q]
  BY <1>3 DEF Begin, TypeOK
<1>4. ASSUME NEW r \in Runner, NEW kind, NEW tokens, NEW pairs, Begin(r, kind, tokens, pairs),
             UNCHANGED <<tokenStatus, scamFlagged>>
      PROVE  BeingDemoted(t)'
  BY <1>1, <1>2, <1>3, <1>4
<1>5. ASSUME NEW r \in Runner,
             \/ \E p \in Pair, e \in Evidence : Ingest(r, p, e)
             \/ \E pairs \in SUBSET Pair : Rescan(r, pairs)
             \/ Revalidate(r)
      PROVE  BeingDemoted(t)'
  BY <1>4, <1>5 DEF Ingest, Rescan, Revalidate, tokenVars
<1>6. ASSUME NEW r \in Runner, NEW u \in Token, NEW flagged \in BOOLEAN, ScamCheck(r, u, flagged)
      PROVE  BeingDemoted(t)'
  <2>1. scamFlagged' = [scamFlagged EXCEPT ![u] = flagged] /\ UNCHANGED tokenStatus
    BY <1>6 DEF ScamCheck
  <2>2. CASE flagged /\ u = t
    <3>1. Begin(r, "scam", {t}, PairsOf(t))
      BY <1>6, <2>2 DEF ScamCheck
    <3>2. QED
      BY <1>3, <3>1 DEF BeingDemoted
  <2>3. CASE u # t
    <3>1. BeingDemoted(t)
      BY <1>2, <2>1, <2>3 DEF TypeOK
    <3>2. Free(r) /\ \A q \in Runner \ {r} : task'[q] = task[q]
      BY <1>3, <1>6 DEF ScamCheck, runnerVars
    <3>3. QED
      BY <1>1, <3>1, <3>2
  <2>4. CASE ~flagged /\ u = t
    BY <2>1, <2>4 DEF TypeOK
  <2>5. QED
    BY <2>2, <2>3, <2>4
<1>7. ASSUME NEW r \in Runner, NEW u \in Token, RescoreScam(r, u)
      PROVE  BeingDemoted(t)'
  <2>1. scamFlagged' = [scamFlagged EXCEPT ![u] = ~scamFlagged[u]] /\ UNCHANGED tokenStatus
    BY <1>7 DEF RescoreScam
  <2>2. CASE u = t
    <3>1. Begin(r, "scam", {t}, PairsOf(t))
      BY <1>7, <2>2 DEF RescoreScam
    <3>2. QED
      BY <1>3, <3>1 DEF BeingDemoted
  <2>3. CASE u # t
    <3>1. BeingDemoted(t)
      BY <1>2, <2>1, <2>3 DEF TypeOK
    <3>2. Free(r) /\ \A q \in Runner \ {r} : task'[q] = task[q]
      BY <1>3, <1>7 DEF RescoreScam
    <3>3. QED
      BY <1>1, <3>1, <3>2
  <2>4. QED
    BY <2>2, <2>3
<1>8. ASSUME \A q \in Runner : task'[q].kind = task[q].kind /\ task'[q].tokens = task[q].tokens,
             UNCHANGED scamFlagged,
             tokenStatus[t] = "AutoVerified"
      PROVE  BeingDemoted(t)'
  BY <1>2, <1>8 DEF BeingDemoted
<1>9. ASSUME NEW r \in Runner, \/ \E p \in Pair : SkipManual(r, p) \/ ReadPair(r, p)
                               \/ Judge(r) \/ Commit(r)
      PROVE  BeingDemoted(t)'
  <2>1. UNCHANGED <<tokenStatus, scamFlagged>>
    BY <1>9 DEF SkipManual, ReadPair, Judge, Commit, tokenVars
  <2>2. \A q \in Runner : task'[q].kind = task[q].kind /\ task'[q].tokens = task[q].tokens
    <3>1. UNCHANGED task \/ \E p \in Pair : Unlist(r, p)
      BY <1>9 DEF SkipManual, ReadPair, Judge, Commit
    <3>2. ASSUME NEW p \in Pair, Unlist(r, p)
          PROVE  task' = [task EXCEPT ![r] = [task[r] EXCEPT !.todo = @ \ {p}]]
      BY <3>2 DEF Unlist
    <3>3. QED
      BY <3>1, <3>2 DEF TypeOK, Task
  <2>3. QED
    BY <1>8, <2>1, <2>2
<1>10. ASSUME NEW tokens, tokenStatus' = Promoted(tokens), UNCHANGED <<task, scamFlagged>>
       PROVE  BeingDemoted(t)'
  <2>1. tokenStatus[t] = "AutoVerified"
    BY <1>10 DEF Promoted, Promotable
  <2>2. QED
    BY <1>8, <1>10, <2>1
<1>11. ASSUME NEW r \in Runner, Promote(r) PROVE BeingDemoted(t)'
  BY <1>10, <1>11 DEF Promote
<1>12. CASE FormPromote
  BY <1>10, <1>12 DEF FormPromote, runnerVars
<1>13. ASSUME NEW r \in Runner, Finish(r) PROVE BeingDemoted(t)'
  <2>1. UNCHANGED scamFlagged /\ task' = [task EXCEPT ![r] = Idle]
    BY <1>13 DEF Finish
  <2>2. ASSUME NEW tokens, t \in tokens, tokenStatus' = Demoted(tokens) PROVE FALSE
    BY <2>1, <2>2 DEF Demoted
  <2>3. tokenStatus[t] = "AutoVerified"
    BY <1>13 DEF Finish, Demoted
  <2>4. PICK q \in Runner : task[q].kind = "scam" /\ t \in task[q].tokens
    BY <1>2, <2>1, <2>3 DEF BeingDemoted
  <2>5. q # r
    <3>1. ASSUME q = r PROVE tokenStatus' = Demoted(task[r].tokens)
      BY <1>13, <2>4, <3>1 DEF Finish
    <3>2. QED
      BY <2>2, <2>4, <3>1
  <2>6. QED
    BY <2>1, <2>4, <2>5 DEF BeingDemoted, TypeOK
<1>14. ASSUME NEW u \in Token, NEW s \in FormStatus, SetTokenStatus(u, s)
       PROVE  BeingDemoted(t)'
  <2>1. tokenStatus[t] = "AutoVerified"
    BY <1>14, FormStatusAssumption DEF SetTokenStatus, TypeOK
  <2>2. UNCHANGED <<task, scamFlagged>>
    BY <1>14 DEF SetTokenStatus, runnerVars
  <2>3. QED
    BY <1>8, <2>1, <2>2
<1>15. CASE \/ \E p \in Pair, s \in FormStatus : SetPairStatus(p, s)
            \/ \E pairs \in SUBSET Pair, s \in Manual : BulkDecide(pairs, s)
            \/ FormCascade
            \/ UNCHANGED vars
  BY <1>8, <1>15 DEF SetPairStatus, BulkDecide, FormCascade, vars, tokenVars, runnerVars
<1>16. ASSUME NEW r \in Runner, Restart(r) PROVE BeingDemoted(t)'
  <2>1. task[r].kind = "down" /\ \A q \in Runner \ {r} : task'[q] = task[q]
    BY <1>16 DEF Restart, Down, TypeOK
  <2>2. BeingDemoted(t)
    BY <1>2, <1>16 DEF Restart, tokenVars
  <2>3. QED
    BY <2>1, <2>2 DEF BeingDemoted
<1>17. QED
  BY <1>5, <1>6, <1>7, <1>9, <1>11, <1>12, <1>13, <1>14, <1>15, <1>16
     DEF Step, OperatorStep, RunnerStep, Progress

(* No flagged token is AutoVerified unless the check that flagged it is    *)
(* still at work, however many runners promote, check and rescore it.      *)
THEOREM FlagsDemote == NoCrashSpec => []FlaggedTokensDemoted
<1>1. Init => FlaggedTokensDemoted
  BY DEF Init, FlaggedTokensDemoted
<1>2. [Step]_vars => [Next]_vars
  BY DEF Next
<1>3. QED
  BY <1>1, <1>2, InitType, TypeStep, FlagStep, PTL DEF NoCrashSpec

-----------------------------------------------------------------------------
(* The quarantine of the pairs of a flagged token, for one runner: the     *)
(* pipeline under its lock.  With two runners it fails, for a verdict      *)
(* reached before the flag may be written after it; alone, a runner raises *)
(* a flag only when it holds no verdict, so that                           *)
(*   - a runner at rest has nothing listed and nothing in hand,            *)
(*   - what its verdict read of the flags still stands,                    *)
(*   - no verdict that knows of a flag is AutoVerified, and                *)
(*   - no form writes AutoVerified.                                        *)
LoneRunner == Runner = {Cron}

RunnerIsOrderly(r) ==
    /\ task[r].kind \in {"idle", "down"} => task[r].todo = {} /\ hand[r].at = "none"
    /\ hand[r].at \in {"read", "ready"} => (hand[r].scam <=> Flagged(hand[r].pair))
    /\ hand[r].at = "ready" /\ hand[r].scam => hand[r].verdict # "AutoVerified"

QuarantineInv ==
    /\ LoneRunner
    /\ RunnerIsOrderly(Cron)
    /\ form.status # "AutoVerified"
    /\ FlaggedPairsQuarantined

(* What is AutoVerified after a step was AutoVerified before it, unless    *)
(* the step is a verdict's own write.                                      *)
LEMMA DecideVerifiesNone ==
    ASSUME TypeOK, NEW pairs \in SUBSET Pair, NEW s, s # "AutoVerified", NEW how,
           Decide(pairs, s, how), UNCHANGED <<scamFlagged, task, hand>>,
           QuarantineInv, form'.status # "AutoVerified"
    PROVE  QuarantineInv'
<1>1. RunnerIsOrderly(Cron)'
  BY DEF QuarantineInv, RunnerIsOrderly, Flagged
<1>2. \A p \in Pair : status'[p] = "AutoVerified" => status[p] = "AutoVerified"
  BY DEF Decide
<1>3. FlaggedPairsQuarantined'
  BY <1>2 DEF QuarantineInv, FlaggedPairsQuarantined, Flagged, ToBeJudged, InFlight
<1>4. QED
  BY <1>1, <1>3 DEF QuarantineInv, LoneRunner

(* The pairs a free runner leaves unverified, and those a new flag adds:   *)
(* all of them are listed to be judged again.                              *)
LEMMA FreeMeansQuarantined ==
    ASSUME TypeOK, QuarantineInv, Free(Cron), NEW p \in Pair, Flagged(p)
    PROVE  status[p] # "AutoVerified"
<1>1. task[Cron].kind = "idle"
  BY DEF Free, Idle
<1>2. task[Cron].todo = {} /\ hand[Cron].at = "none"
  BY <1>1 DEF QuarantineInv, RunnerIsOrderly
<1>3. ~ToBeJudged(p)
  BY <1>2 DEF ToBeJudged, InFlight, QuarantineInv, LoneRunner
<1>4. QED
  BY <1>3 DEF QuarantineInv, FlaggedPairsQuarantined

(* A job taken up by the free runner, whether or not it writes a flag.     *)
LEMMA QuarantinedAtBegin ==
    ASSUME TypeOK, QuarantineInv, Free(Cron), UNCHANGED <<status, hand, form>>,
           NEW kind, kind \notin {"idle", "down"}, NEW tokens, NEW pairs,
           task' = [task EXCEPT ![Cron] = [kind |-> kind, tokens |-> tokens, todo |-> pairs]],
           \A p \in Pair : Flagged(p)' => Flagged(p) \/ p \in pairs
    PROVE  QuarantineInv'
<1>1. task[Cron].kind = "idle"
  BY DEF Free, Idle
<1>2. hand[Cron].at = "none"
  BY <1>1 DEF QuarantineInv, RunnerIsOrderly
<1>3. task'[Cron].kind = kind /\ task'[Cron].todo = pairs
  BY CronAssumption DEF TypeOK
<1>4. RunnerIsOrderly(Cron)'
  BY <1>2, <1>3 DEF RunnerIsOrderly
<1>5. ASSUME NEW p \in Pair, status'[p] = "AutoVerified", Flagged(p)'
      PROVE  ToBeJudged(p)'
  <2>1. p \in pairs
    BY <1>5, FreeMeansQuarantined
  <2>2. QED
    BY <1>3, <2>1, CronAssumption DEF ToBeJudged
<1>6. FlaggedPairsQuarantined'
  BY <1>5 DEF FlaggedPairsQuarantined
<1>7. QED
  BY <1>4, <1>6 DEF QuarantineInv, LoneRunner

LEMMA QuarantineStep == TypeOK /\ QuarantineInv /\ [Step]_vars => QuarantineInv'
<1> SUFFICES ASSUME TypeOK, QuarantineInv, [Step]_vars PROVE QuarantineInv'
  OBVIOUS
<1>0. \A r \in Runner : r = Cron
  BY DEF QuarantineInv, LoneRunner
<1>1. ASSUME \/ \E p \in Pair, e \in Evidence : Ingest(Cron, p, e)
             \/ \E pairs \in SUBSET Pair : Rescan(Cron, pairs)
             \/ Revalidate(Cron)
      PROVE  QuarantineInv'
  <2>1. PICK kind \in {"verdict", "revalidate"}, pairs \in SUBSET Pair :
            Begin(Cron, kind, {}, pairs)
    BY <1>1 DEF Ingest, Rescan, Revalidate
  <2>2. UNCHANGED <<status, scamFlagged, form>>
    BY <1>1 DEF Ingest, Rescan, Revalidate, pairVars, tokenVars
  <2>3. \A p \in Pair : Flagged(p)' => Flagged(p)
    BY <2>2 DEF Flagged
  <2>4. QED
    BY <2>1, <2>2, <2>3, QuarantinedAtBegin DEF Begin
<1>2. ASSUME NEW t \in Token, NEW flagged \in BOOLEAN, ScamCheck(Cron, t, flagged)
      PROVE  QuarantineInv'
  <2>1. /\ scamFlagged' = [scamFlagged EXCEPT ![t] = flagged]
        /\ UNCHANGED <<status, form, hand>>
        /\ Free(Cron)
    BY <1>2 DEF ScamCheck, pairVars, runnerVars, Begin
  <2>2. CASE flagged
    <3>1. Begin(Cron, "scam", {t}, PairsOf(t))
      BY <1>2, <2>2 DEF ScamCheck
    <3>2. \A p \in Pair : Flagged(p)' => Flagged(p) \/ p \in PairsOf(t)
      BY <2>1, TokensOfAssumption DEF Flagged, PairsOf, TypeOK
    <3>3. QED
      BY <2>1, <3>1, <3>2, QuarantinedAtBegin DEF Begin
  <2>3. CASE ~flagged
    <3>1. UNCHANGED task
      BY <1>2, <2>3 DEF ScamCheck, runnerVars
    <3>2. \A p \in Pair : Flagged(p)' => Flagged(p)
      BY <2>1, <2>3, TokensOfAssumption DEF Flagged, TypeOK
    <3>3. \A p \in Pair : Flagged(p)' => status'[p] # "AutoVerified"
      BY <2>1, <3>2, FreeMeansQuarantined
    <3>4. hand[Cron].at = "none"
      BY <2>1 DEF Free, Idle, QuarantineInv, RunnerIsOrderly
    <3>5. RunnerIsOrderly(Cron)'
      BY <2>1, <3>1, <3>4 DEF QuarantineInv, RunnerIsOrderly
    <3>6. FlaggedPairsQuarantined'
      BY <3>3 DEF FlaggedPairsQuarantined
    <3>7. QED
      BY <2>1, <3>5, <3>6 DEF QuarantineInv, LoneRunner
  <2>4. QED
    BY <2>2, <2>3
<1>3. ASSUME NEW t \in Token, RescoreScam(Cron, t)
      PROVE  QuarantineInv'
  <2>1. /\ scamFlagged' = [scamFlagged EXCEPT ![t] = ~scamFlagged[t]]
        /\ UNCHANGED <<status, form>>
    BY <1>3 DEF RescoreScam, pairVars
  <2>2. PICK kind \in {"scam", "verdict"} : Begin(Cron, kind, {t}, PairsOf(t))
    BY <1>3 DEF RescoreScam
  <2>3. \A p \in Pair : Flagged(p)' => Flagged(p) \/ p \in PairsOf(t)
    BY <2>1, TokensOfAssumption DEF Flagged, PairsOf, TypeOK
  <2>4. QED
    BY <2>1, <2>2, <2>3, QuarantinedAtBegin DEF Begin
<1>4. ASSUME NEW p \in Pair, Todo(Cron, p), Unlist(Cron, p)
      PROVE  /\ task[Cron].kind \notin {"idle", "down"}
             /\ task'[Cron].kind = task[Cron].kind
             /\ task'[Cron].todo = task[Cron].todo \ {p}
  <2>1. task' = [task EXCEPT ![Cron] = [task[Cron] EXCEPT !.todo = task[Cron].todo \ {p}]]
    BY <1>4 DEF Unlist
  <2>2. QED
    BY <1>4, <2>1, CronAssumption DEF TypeOK, Task, Todo, QuarantineInv, RunnerIsOrderly
<1>5. ASSUME NEW p \in Pair, SkipManual(Cron, p)
      PROVE  QuarantineInv'
  <2>1. UNCHANGED <<status, scamFlagged, hand, form>> /\ status[p] \in Manual
    BY <1>5 DEF SkipManual, pairVars, tokenVars
  <2>2. /\ task[Cron].kind \notin {"idle", "down"}
        /\ task'[Cron].kind = task[Cron].kind
        /\ task'[Cron].todo = task[Cron].todo \ {p}
    BY <1>4, <1>5 DEF SkipManual
  <2>3. RunnerIsOrderly(Cron)'
    BY <2>1, <2>2 DEF QuarantineInv, RunnerIsOrderly, Flagged
  <2>4. ASSUME NEW q \in Pair, status'[q] = "AutoVerified", Flagged(q)'
        PROVE  ToBeJudged(q)'
    <3>1. q # p /\ status[q] = "AutoVerified" /\ Flagged(q)
      BY <2>1, <2>4 DEF Manual, Flagged
    <3>2. q \in task[Cron].todo \/ (InFlight(Cron, q) /\ hand[Cron].scam)
      BY <1>0, <3>1 DEF QuarantineInv, FlaggedPairsQuarantined, ToBeJudged
    <3>3. QED
      BY <2>1, <2>2, <3>1, <3>2, CronAssumption DEF ToBeJudged, InFlight
  <2>5. QED
    BY <2>1, <2>3, <2>4 DEF QuarantineInv, LoneRunner, FlaggedPairsQuarantined
<1>6. ASSUME NEW p \in Pair, ReadPair(Cron, p)
      PROVE  QuarantineInv'
  <2>1. UNCHANGED <<status, scamFlagged, form>> /\ hand[Cron].at = "none"
    BY <1>6 DEF ReadPair, pairVars, tokenVars, Todo
  <2>2. /\ task[Cron].kind \notin {"idle", "down"}
        /\ task'[Cron].kind = task[Cron].kind
        /\ task'[Cron].todo = task[Cron].todo \ {p}
    BY <1>4, <1>6 DEF ReadPair
  <2>3. /\ hand'[Cron].at = "read" /\ hand'[Cron].pair = p
        /\ hand'[Cron].scam <=> Flagged(p)
    BY <1>6, CronAssumption DEF ReadPair, TypeOK, Empty, Flagged
  <2>4. \A q \in Pair : Flagged(q)' <=> Flagged(q)
    BY <2>1 DEF Flagged
  <2>5. RunnerIsOrderly(Cron)'
    BY <2>2, <2>3, <2>4 DEF RunnerIsOrderly
  <2>6. ASSUME NEW q \in Pair, status'[q] = "AutoVerified", Flagged(q)'
        PROVE  ToBeJudged(q)'
    <3>1. status[q] = "AutoVerified" /\ Flagged(q)
      BY <2>1, <2>4, <2>6
    <3>2. q \in task[Cron].todo
      BY <1>0, <2>1, <3>1 DEF QuarantineInv, FlaggedPairsQuarantined, ToBeJudged, InFlight
    <3>3. CASE q = p
      BY <2>3, <3>1, <3>3, CronAssumption DEF ToBeJudged, InFlight
    <3>4. CASE q # p
      BY <2>2, <3>2, <3>4, CronAssumption DEF ToBeJudged
    <3>5. QED
      BY <3>3, <3>4
  <2>7. QED
    BY <2>1, <2>5, <2>6 DEF QuarantineInv, LoneRunner, FlaggedPairsQuarantined
<1>7. ASSUME Judge(Cron)
      PROVE  QuarantineInv'
  <2> DEFINE sib == \E q \in Siblings(hand[Cron].pair) : status[q] \in Verified
             v   == Adjudicate(hand[Cron].class, hand[Cron].scam, sib)
  <2>1. hand[Cron].scam => v # "AutoVerified"
    BY DEF Adjudicate
  <2>2. hand' = [hand EXCEPT ![Cron].at = "ready", ![Cron].verdict = v]
    BY <1>7 DEF Judge
  <2> HIDE DEF v
  <2>3. /\ hand'[Cron].at = "ready" /\ hand'[Cron].verdict = v
        /\ hand'[Cron].pair = hand[Cron].pair /\ hand'[Cron].scam = hand[Cron].scam
    BY <2>2, CronAssumption DEF TypeOK, Hand
  <2>4. UNCHANGED <<status, scamFlagged, form, task>> /\ hand[Cron].at = "read"
    BY <1>7 DEF Judge, pairVars, tokenVars
  <2>5. RunnerIsOrderly(Cron)'
    BY <2>1, <2>3, <2>4 DEF QuarantineInv, RunnerIsOrderly, Flagged
  <2>6. \A q \in Pair : ToBeJudged(q) => ToBeJudged(q)'
    BY <1>0, <2>3, <2>4 DEF ToBeJudged, InFlight
  <2>7. FlaggedPairsQuarantined'
    BY <2>4, <2>6 DEF QuarantineInv, FlaggedPairsQuarantined, Flagged
  <2>8. QED
    BY <2>4, <2>5, <2>7 DEF QuarantineInv, LoneRunner
<1>8. ASSUME Commit(Cron)
      PROVE  QuarantineInv'
  <2> DEFINE p == hand[Cron].pair
  <2>1. p \in Pair /\ hand[Cron].at = "ready"
    BY <1>8, CronAssumption DEF Commit, TypeOK, Hand
  <2>2. /\ UNCHANGED <<scamFlagged, form, task>>
        /\ status' = [status EXCEPT ![p] = hand[Cron].verdict]
        /\ hand'[Cron].at \in {"none", "promote"}
    BY <1>8, CronAssumption DEF Commit, tokenVars, TypeOK, Empty
  <2>3. task[Cron].kind \notin {"idle", "down"}
    BY <2>1 DEF QuarantineInv, RunnerIsOrderly
  <2>4. RunnerIsOrderly(Cron)'
    BY <2>2, <2>3 DEF RunnerIsOrderly
  <2>5. ASSUME NEW q \in Pair, status'[q] = "AutoVerified", Flagged(q)'
        PROVE  ToBeJudged(q)'
    <3>1. Flagged(q)
      BY <2>2, <2>5 DEF Flagged
    <3>2. q # p
      <4>1. ASSUME q = p PROVE FALSE
        <5>1. hand[Cron].scam
          BY <2>1, <3>1, <4>1 DEF QuarantineInv, RunnerIsOrderly
        <5>2. hand[Cron].verdict # "AutoVerified"
          BY <2>1, <5>1 DEF QuarantineInv, RunnerIsOrderly
        <5>3. QED
          BY <2>1, <2>2, <2>5, <4>1, <5>2 DEF TypeOK
      <4>2. QED
        BY <4>1
    <3>3. status[q] = "AutoVerified"
      BY <2>2, <2>5, <3>2 DEF TypeOK
    <3>4. q \in task[Cron].todo
      BY <1>0, <3>1, <3>2, <3>3 DEF QuarantineInv, FlaggedPairsQuarantined, ToBeJudged, InFlight
    <3>5. QED
      BY <2>2, <3>4, CronAssumption DEF ToBeJudged
  <2>6. QED
    BY <2>2, <2>4, <2>5 DEF QuarantineInv, LoneRunner, FlaggedPairsQuarantined
<1>9. ASSUME Promote(Cron)
      PROVE  QuarantineInv'
  <2>1. /\ UNCHANGED <<status, scamFlagged, form, task>>
        /\ hand[Cron].at = "promote" /\ hand'[Cron].at = "none"
    BY <1>9, CronAssumption DEF Promote, pairVars, TypeOK, Empty
  <2>2. RunnerIsOrderly(Cron)'
    BY <2>1 DEF QuarantineInv, RunnerIsOrderly
  <2>3. \A q \in Pair : ToBeJudged(q) => ToBeJudged(q)'
    BY <1>0, <2>1 DEF ToBeJudged, InFlight
  <2>4. FlaggedPairsQuarantined'
    BY <2>1, <2>3 DEF QuarantineInv, FlaggedPairsQuarantined, Flagged
  <2>5. QED
    BY <2>1, <2>2, <2>4 DEF QuarantineInv, LoneRunner
<1>10. ASSUME Finish(Cron) \/ Restart(Cron)
       PROVE  QuarantineInv'
  <2>1. UNCHANGED <<status, scamFlagged, form, hand>> /\ task' = [task EXCEPT ![Cron] = Idle]
    BY <1>10 DEF Finish, Restart, pairVars, tokenVars
  <2>2. task[Cron].todo = {} /\ hand[Cron].at = "none"
    BY <1>10 DEF Finish, Restart, Down, QuarantineInv, RunnerIsOrderly
  <2>3. task'[Cron].todo = {}
    BY <2>1, CronAssumption DEF TypeOK, Idle
  <2>4. RunnerIsOrderly(Cron)'
    BY <2>1, <2>2, <2>3 DEF RunnerIsOrderly
  <2>5. \A q \in Pair : ~ToBeJudged(q)
    BY <1>0, <2>2 DEF ToBeJudged, InFlight
  <2>6. FlaggedPairsQuarantined'
    BY <2>1, <2>5 DEF QuarantineInv, FlaggedPairsQuarantined, Flagged
  <2>7. QED
    BY <2>1, <2>4, <2>6 DEF QuarantineInv, LoneRunner
<1>11. "AutoVerified" \notin FormStatus \cup Manual
  BY FormStatusAssumption DEF Manual
<1>12. ASSUME NEW pairs \in SUBSET Pair, NEW s \in FormStatus \cup Manual,
              Decide(pairs, s, "Manual"), form' = PromoteForm(pairs, s),
              UNCHANGED <<tokenVars, runnerVars>>
       PROVE  QuarantineInv'
  <2>1. form'.status # "AutoVerified" /\ s # "AutoVerified"
    BY <1>11, <1>12 DEF PromoteForm, NoForm
  <2>2. QED
    BY <1>12, <2>1, DecideVerifiesNone DEF tokenVars, runnerVars
<1>13. ASSUME NEW p \in Pair, NEW s \in FormStatus, SetPairStatus(p, s)
       PROVE  QuarantineInv'
  BY <1>12, <1>13 DEF SetPairStatus
<1>14. ASSUME NEW pairs \in SUBSET Pair, NEW s \in Manual, BulkDecide(pairs, s)
       PROVE  QuarantineInv'
  BY <1>12, <1>14 DEF BulkDecide
<1>15. ASSUME \/ \E t \in Token, s \in FormStatus : SetTokenStatus(t, s)
              \/ FormPromote
              \/ UNCHANGED vars
       PROVE  QuarantineInv'
  <2>1. UNCHANGED <<status, scamFlagged, task, hand>>
    BY <1>15 DEF SetTokenStatus, FormPromote, vars, pairVars, tokenVars, runnerVars
  <2>2. form'.status # "AutoVerified"
    BY <1>11, <1>15 DEF SetTokenStatus, FormPromote, vars, NoForm, QuarantineInv
  <2>3. RunnerIsOrderly(Cron)' /\ FlaggedPairsQuarantined'
    BY <2>1 DEF QuarantineInv, RunnerIsOrderly, FlaggedPairsQuarantined, Flagged, ToBeJudged,
       InFlight
  <2>4. QED
    BY <2>2, <2>3 DEF QuarantineInv, LoneRunner
<1>16. ASSUME FormCascade
       PROVE  QuarantineInv'
  <2> DEFINE pairs == UNION {PairsOf(t) : t \in form.tokens}
  <2>1. pairs \in SUBSET Pair
    BY DEF PairsOf
  <2>2. /\ Decide(pairs, form.status, "Cascade")
        /\ form' = NoForm
        /\ UNCHANGED <<scamFlagged, task, hand>>
    BY <1>16 DEF FormCascade, tokenVars, runnerVars
  <2>3. form.status # "AutoVerified" /\ form'.status # "AutoVerified"
    BY <2>2 DEF QuarantineInv, NoForm
  <2> HIDE DEF pairs
  <2>4. QED
    BY <2>1, <2>2, <2>3, DecideVerifiesNone
<1>17. ASSUME RunnerStep(Cron) PROVE QuarantineInv'
  BY <1>1, <1>2, <1>3, <1>5, <1>6, <1>7, <1>8, <1>9, <1>10, <1>17 DEF RunnerStep, Progress
<1>18. QED
  BY <1>0, <1>13, <1>14, <1>15, <1>16, <1>17 DEF Step, OperatorStep

(* A pair with a scam-flagged token is AutoVerified only while the run     *)
(* that raised the flag is still to judge it: when the pipeline is the     *)
(* only process that runs verdicts, and no process dies, a flag blocks     *)
(* auto-verify outright.                                                   *)
THEOREM FlaggedQuarantined == LoneRunner /\ NoCrashSpec => []FlaggedPairsQuarantined
<1>1. LoneRunner /\ Init => QuarantineInv
  <2> SUFFICES ASSUME LoneRunner, Init PROVE QuarantineInv
    OBVIOUS
  <2>1. task[Cron].todo = {} /\ hand[Cron].at = "none" /\ hand[Cron].scam = FALSE
    BY CronAssumption DEF Init, Idle, Empty
  <2>2. \A p \in Pair : status[p] # "AutoVerified"
    BY DEF Init
  <2>3. QED
    BY <2>1, <2>2 DEF Init, QuarantineInv, RunnerIsOrderly, FlaggedPairsQuarantined, NoForm
<1>2. [Step]_vars => [Next]_vars
  BY DEF Next
<1>3. QuarantineInv => FlaggedPairsQuarantined
  BY DEF QuarantineInv
<1>4. QED
  BY <1>1, <1>2, <1>3, InitType, TypeStep, QuarantineStep, PTL DEF NoCrashSpec

===========================================================================
