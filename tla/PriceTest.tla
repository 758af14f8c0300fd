------------------------------ MODULE PriceTest ------------------------------
(***************************************************************************)
(* The price test, public and the operator's: a page resolves the verified *)
(* pools behind a query (lib/aliasResolve.ts), asks for the prices of each *)
(* source's pools, turns each price the right way up and makes one of all  *)
(* (components/PriceTest, PriceStats).                                     *)
(*                                                                         *)
(* The operator's prices are live (api/admin/getprices.ts).  The public's  *)
(* come through a cache (api/ooo/v1/prices.ts): a call reads the verified  *)
(* pools, its clock, and the cached row of the pools it may price, and if  *)
(* that is missing or too old asks the subgraph and stores the answer.     *)
(* Calls of several pages overlap, and go on after their page is gone.     *)
(*                                                                         *)
(* Only a pool's latest price is sampled, and it does not move; what moves *)
(* is the time at which it was seen.                                       *)
(***************************************************************************)
EXTENDS Publication, PriceStats

CONSTANTS
    Query,          \* pairs <<base, target>> of symbols asked for
    Rates,          \* what the pools may trade at: token1 per token0, in Units
    Unit,
    Native,         \* tokens that are the chain's own coin in a v4 pool
    SubgraphSymbol, \* the symbol the subgraph gives each token
    Hooked,         \* v4 pools with hooks
    Manipulated,    \* pools whose price is whatever someone made it
    MaxCalls,       \* bound: calls in progress at once
    CacheTtl, MaxClock,
    MaxAddresses    \* pools one public call may name

ASSUME NoneAssumption == None \notin Nat
ASSUME NativeAssumption ==
    \A p \in Pool, i \in 1..2 : TokensOf[p][i] \in Native => Family[SourceOf[p]] = "univ4"
ASSUME PricesAssumption ==
    /\ IsFiniteSet(Pool) /\ Reserve \in [Pool -> Nat]
    /\ Rates \subseteq [Pool -> Nat] /\ Unit \in Nat

VARIABLES
    clock,
    rate,   \* each pool's rate in the subgraph, 0 before its first trade
    cache,  \* PriceCache: what is stored for the pools a call asked for
    calls,  \* calls in progress to the two endpoints, a set of records
    page    \* the page open in the browser

test == <<clock, rate, cache, calls, page>>

Unasked == [at |-> "none"]
Failed  == [at |-> "done", success |-> FALSE, rows |-> {}, observed |-> None, stamp |-> None]
Answer(rows, observed, stamp) ==
    [at |-> "done", success |-> TRUE, rows |-> rows, observed |-> observed, stamp |-> stamp]

NoPage == [at |-> "closed", query |-> <<None, None>>, public |-> TRUE, usable |-> {},
           coins |-> <<>>, group |-> [s \in Source |-> Unasked]]

TestInit ==
    /\ clock = 0
    /\ rate \in Rates
    /\ cache = <<>>
    /\ calls = {}
    /\ page = NoPage

-----------------------------------------------------------------------------
(* One price.                                                              *)

Reciprocal(x) == IF x = 0 THEN 0 ELSE (Unit * Unit) \div x

(* A fault: the chain's own coin keeps the symbol it has in the subgraph.  *)
normaliseV4SymbolNot(p, i) == SubgraphSymbol[TokensOf[p][i]]

normaliseV4Symbol(p, i) ==
    LET t == TokensOf[p][i]
    IN  IF Family[SourceOf[p]] = "univ4" /\ t \in Native THEN Symbol[t] ELSE SubgraphSymbol[t]

token0Price(p) == Reciprocal(rate[p])
token1Price(p) == rate[p]

(* Families that derive the price have none of a pool that never traded.   *)
toPoolPriceRow(p) ==
    LET family == Family[SourceOf[p]]
    IN  IF \/ family = "univ4" /\ p \in Hooked
           \/ family \in {"messari", "univ3sqrt"} /\ rate[p] = 0
        THEN None ELSE p

(* A source's subgraph is asked for the prices of some of its pools; of the *)
(* Cosmos venues there is none to ask.  Rows are pools: their prices stand. *)
fetchPoolPrices(s, pools) ==
    IF ProbePasses(s) /\ Family[s] \in ModelledFamilies
    THEN [success |-> TRUE, prices |-> {toPoolPriceRow(p) : p \in pools} \ {None}]
    ELSE [success |-> FALSE, prices |-> {}]

(* The symbol of the side that is the target: of a class query, that of    *)
(* the token whose coin is in the class.                                   *)
targetSideSymbol(p) ==
    LET target == page.query[2]
        sides  == {i \in 1..2 : aliasForCgId(page.coins[TokensOf[p][i]]) = target}
    IN  IF aliasPairLabel(page.query[1], target) = None \/ sides = {} THEN target
        ELSE Symbol[TokensOf[p][Min(sides)]]

targetPrice(p) ==
    IF targetSideSymbol(p) = normaliseV4Symbol(p, 1) THEN token0Price(p) ELSE token1Price(p)

-----------------------------------------------------------------------------
(* The page.                                                               *)

(* A class query takes every pool of the keys that back it, any other the  *)
(* pools of its two symbols.                                               *)
resolvePriceTestPairs(q) ==
    LET classes == aliasPairLabel(q[1], q[2])
    IN  IF classes # None
        THEN {p \in verified : [pair |-> classes, key |-> canonicalKey(p)] \in aliasPairs}
        ELSE {p \in verified : {Symbol[TokensOf[p][1]], Symbol[TokensOf[p][2]]} = {q[1], q[2]}}

(* The sources that have a threshold, with their floors (the trades they   *)
(* ask for are left out).                                                  *)
buildThresholdMap(pools) ==
    LET sources == {s \in {SourceOf[p] : p \in pools} : floor[s] # None}
    IN  [s \in sources |-> floor[s]]

Usable(pools) ==
    LET thresholds == buildThresholdMap(pools)
    IN  {p \in pools : SourceOf[p] \in DOMAIN thresholds /\ Reserve[p] >= thresholds[SourceOf[p]]}

(* Asked again, the calls of before are aborted: their answers go nowhere. *)
Fetching(pg) ==
    [pg EXCEPT !.at = "fetching",
               !.group = [s \in Source |->
                   IF \E p \in pg.usable : SourceOf[p] = s THEN [at |-> "asked"] ELSE Unasked]]

Abandoned == {[c EXCEPT !.live = FALSE] : c \in calls}

Open(q, public) ==
    /\ page' = Fetching([NoPage EXCEPT !.query = q, !.public = public,
                                       !.usable = Usable(resolvePriceTestPairs(q)),
                                       !.coins = [t \in Token |-> CoinId(t)]])
    /\ calls' = Abandoned
    /\ UNCHANGED <<clock, rate, cache>>

Samples == UNION {page.group[s].rows : s \in {x \in Source : page.group[x].at = "done"}}

(* "Try again" without a price, or other minutes of the operator's.        *)
Reload ==
    /\ page.at = "shown"
    /\ Samples = {} \/ ~page.public
    /\ page' = Fetching(page)
    /\ calls' = Abandoned
    /\ UNCHANGED <<clock, rate, cache>>

(* A source's prices are asked for.                                        *)
Ask(s) ==
    /\ Cardinality(calls) < MaxCalls
    /\ page.group[s].at = "asked"
    /\ calls' = calls \cup
            {[at |-> IF page.public THEN "guard" ELSE "live", source |-> s, live |-> TRUE,
              asked |-> {p \in page.usable : SourceOf[p] = s}, now |-> None, cached |-> None]}
    /\ page' = [page EXCEPT !.group[s] = [at |-> "waiting"]]
    /\ UNCHANGED <<clock, rate, cache>>

(* Refused, timed out or not JSON: the group is skipped.                   *)
Lost(s) ==
    /\ page.group[s].at = "waiting"
    /\ page' = [page EXCEPT !.group[s] = Failed]
    /\ calls' = {IF c.source = s THEN [c EXCEPT !.live = FALSE] ELSE c : c \in calls}
    /\ UNCHANGED <<clock, rate, cache>>

(* All groups have answered or failed.                                     *)
Show ==
    /\ page.at = "fetching"
    /\ \A s \in Source : page.group[s].at \in {"none", "done"}
    /\ page' = [page EXCEPT !.at = "shown"]
    /\ UNCHANGED <<clock, rate, cache, calls>>

-----------------------------------------------------------------------------
(* The endpoints.                                                          *)

Goes(c, on) == calls' = (calls \ {c}) \cup {on} /\ page' = page

Reply(c, answer) ==
    /\ calls' = calls \ {c}
    /\ page' = IF c.live THEN [page EXCEPT !.group[c.source] = answer] ELSE page

(* The first pools named, and of those the verified ones.                  *)
Guard(c) ==
    /\ c.at = "guard"
    /\ \E named \in SUBSET c.asked :
         /\ Cardinality(named) = Min({MaxAddresses, Cardinality(c.asked)})
         /\ LET safe == named \cap verified
            IN  IF safe = {} THEN Reply(c, Answer({}, None, None))
                ELSE Goes(c, [c EXCEPT !.at = "lookup", !.asked = safe, !.now = clock])
    /\ UNCHANGED <<clock, rate, cache>>

FromCache(row) == Answer(row.rows, row.observed, row.fetchedAt)

Lookup(c) ==
    /\ c.at = "lookup"
    /\ LET row == IF c.asked \in DOMAIN cache THEN cache[c.asked] ELSE None
       IN  IF row # None /\ c.now - row.fetchedAt < CacheTtl
           THEN Reply(c, FromCache(row))
           ELSE Goes(c, [c EXCEPT !.at = "fetch", !.cached = row])
    /\ UNCHANGED <<clock, rate, cache>>

(* The operator is told what the subgraph says, or that it says nothing.   *)
FetchLive(c) ==
    /\ c.at = "live"
    /\ LET r == fetchPoolPrices(c.source, c.asked)
       IN  Reply(c, IF r.success THEN Answer(r.prices, clock, None) ELSE Failed)
    /\ UNCHANGED <<clock, rate, cache>>

(* The public is told what the subgraph says, or an old row does.          *)
Fetch(c) ==
    /\ c.at = "fetch"
    /\ LET r == fetchPoolPrices(c.source, c.asked)
       IN  IF r.success
           THEN Goes(c, [c EXCEPT !.at = "store",
                    !.cached = [rows |-> r.prices, observed |-> clock, fetchedAt |-> None]])
           ELSE Reply(c, IF c.cached # None THEN FromCache(c.cached) ELSE Failed)
    /\ UNCHANGED <<clock, rate, cache>>

(* A fault: what was fetched is dated when it is stored.                   *)
StampLate(c) == clock

(* What was fetched is dated before it was asked for.                      *)
Stamp(c) == c.now

(* Storing it may fail, and is not waited on.                              *)
Store(c) ==
    /\ c.at = "store"
    /\ LET row == [c.cached EXCEPT !.fetchedAt = Stamp(c)]
       IN  /\ cache' \in {cache, [asked \in DOMAIN cache \cup {c.asked} |->
                                   IF asked = c.asked THEN row ELSE cache[asked]]}
           /\ Reply(c, FromCache(row))
    /\ UNCHANGED <<clock, rate>>

Tick ==
    /\ clock < MaxClock /\ clock' = clock + 1
    /\ UNCHANGED <<rate, cache, calls, page>>

Visit == \E q \in Query, public \in BOOLEAN : Open(q, public)

(* A verified pool's own page asks for its two symbols.                    *)
VisitPair ==
    \E p \in verified, public \in BOOLEAN :
        Open(<<Symbol[TokensOf[p][1]], Symbol[TokensOf[p][2]]>>, public)

TestStep ==
    \/ Reload \/ Show \/ Tick
    \/ \E s \in Source : Ask(s) \/ Lost(s)
    \/ \E c \in calls : Guard(c) \/ Lookup(c) \/ Fetch(c) \/ Store(c) \/ FetchLive(c)

TestNext == Visit \/ VisitPair \/ TestStep

(* Checks of the sources, changes of the rows published and price tests,   *)
(* in any order.                                                           *)
PriceTestInit == Init /\ RowsInit /\ TestInit

PriceTestNext ==
    \/ Next /\ UNCHANGED <<published, test>>
    \/ Edits /\ UNCHANGED <<vars, test>>
    \/ TestNext /\ UNCHANGED <<vars, published>>

PriceTestSpec == PriceTestInit /\ [][PriceTestNext]_<<vars, published, test>>

-----------------------------------------------------------------------------
(* What the page says.                                                     *)

Shown == page.at = "shown"

Prices == [p \in Samples |-> targetPrice(p)]
Depths == [p \in Samples |-> Reserve[p]]

Stamps == {page.group[s].stamp : s \in {x \in Source : page.group[x].at = "done"}} \ {None}

(* The banner's "last refreshed": the oldest stamp of the groups.  No      *)
(* price on a public page was seen before that, however calls of several   *)
(* pages overlapped, outages sent old rows and slow calls overwrote newer  *)
(* ones (PriceData.tsx cacheFetchedAt, prices.ts:49-73).                   *)
BannerIsHonest ==
    (Shown /\ page.public) =>
        \A s \in Source :
            (page.group[s].at = "done" /\ page.group[s].rows # {}) =>
                /\ Stamps # {}
                /\ page.group[s].observed >= Min(Stamps)

(* The target's side of a pool.                                            *)
TargetSide(p) ==
    LET isTarget(t) == IF aliasPairLabel(page.query[1], page.query[2]) = None
                       THEN Symbol[t] = page.query[2]
                       ELSE aliasForCgId(CoinOf[t]) = page.query[2]
    IN  IF isTarget(TokensOf[p][1]) THEN 1 ELSE 2

(* The symbols tell the sides apart, if they differ, the subgraph spells   *)
(* the pool's coins as they are stored, and no coin id has been lost since *)
(* the pool's key was made.                                                *)
Legible(p) ==
    /\ Symbol[TokensOf[p][1]] # Symbol[TokensOf[p][2]]
    /\ \A i \in 1..2 : LET t == TokensOf[p][i] IN
        /\ t \in Native \/ SubgraphSymbol[t] = Symbol[t]
        /\ page.coins[t] = CoinOf[t]

(* Every price is target per base, whichever side the target is on, in a   *)
(* query by symbol or by class (lib/aliasGroups.ts:113-120: upside-down, a *)
(* pool would poison the class).                                           *)
RightWayUp ==
    Shown => \A p \in Samples :
        Legible(p) => Prices[p] = IF TargetSide(p) = 1 THEN token0Price(p) ELSE token1Price(p)

(* No method rejects everything: a headline is never made of no price      *)
(* ("1 ETH = 0"), whatever the strictness chosen.                          *)
SomethingIsKept ==
    (Shown /\ Samples # {}) =>
        \A method \in Methods, dMax \in 1..4 : Survivors(Prices, method, dMax) # {}

(* A minority of manipulated or illegible pools does not carry the price   *)
(* off, however deep they are and whichever venues did not answer.         *)
MinorityIsShrugged ==
    Shown =>
        LET sound == {p \in Samples \ Manipulated : Legible(p)}
        IN  sound # {} => MinorityIsContained(Prices, Depths, sound)
==============================================================================
