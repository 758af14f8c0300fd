------------------------------ MODULE Ingest ------------------------------
(***************************************************************************)
(* How pools reach the database and stay fresh: the registry of sources    *)
(* (lib/sourceConfig.ts) and its triage (lib/sourceDiscovery.ts, pages/api *)
(* /admin/sourcecandidate.ts), the adapters that read a source's pools     *)
(* (lib/gtAdapter.ts, cosmosPage.ts), the ingest (lib/ingest.ts), the      *)
(* pipeline's refresh of pools the ingest did not return (lib/pipeline.ts) *)
(* and the rule that takes a pair unseen for too long out (lib/unseen.ts). *)
(* The operator adds pairs and tokens by hand (pages/add.tsx,              *)
(* lib/manualAdd.ts), and the page goes on to their coins' other chains.   *)
(* The pipeline runs once in every window, the unit of time; the web       *)
(* process serves the operator's pages meanwhile.                          *)
(***************************************************************************)
EXTENDS Integers, FiniteSets

CONSTANTS
    Pool,
    Source,        \* numbered in the registry's order, by chain and dex
    SourceOf,      \* Pool -> Source
    PageOf,        \* Pool -> the page of its source it ranks on
    Denoms,        \* Pool -> the pair of tokens it trades
    Cosmos,        \* sources read whole from a REST API; the others are EVM
    Ingestable,    \* isIngestableSource
    Baseline,      \* sources seeded from the code
    FirstParty,    \* pools of our own tokens
    Added,         \* pools the operator adds
    Token,         \* tokens, by chain and address
    AddedTokens,   \* tokens the operator adds, on EVM chains
    TokensOf,      \* Pool -> the tokens it trades
    CommonQuote,   \* tokens the page does not look for elsewhere
    Siblings,      \* Token -> its coin's contracts on other chains, by CoinGecko
    ChainSources,  \* Token -> the sources of its chain
    Complete,      \* pools whose ids and token data the source supplies
    Sound,         \* pools that pass every other rule of the verdict
    Markets,       \* Pool -> what may be true of it (see Market)
    FormStatus,    \* the statuses the operator's forms offer
    LastPage,      \* last_page
    GtMultiMax,    \* addresses a call
    MaxUnseen,     \* maxUnseenDays
    Horizon,       \* UNSEEN_REFRESH_HORIZON_S
    MaxChanges,    \* bound: changes of a pool and decisions of the operator
    MaxFaults,     \* bound: crashes and failing calls
    MaxJobs        \* bound: jobs the operator starts

Cron == "cron"
Web == "web"
Process == {Cron, Web}
None == "none"

\* Where GeckoTerminal has the pool: among a page's top pools, by address only,
\* or no longer; whether the pricing subgraph indexes it; how deep it is.
Market == [where : {"top", "known", "gone"}, indexed : BOOLEAN, depth : {1, 2}]

ASSUME ConstantsAssumption ==
    /\ Source \subseteq Nat \ {0} /\ IsFiniteSet(Source)
    /\ SourceOf \in [Pool -> Source] /\ PageOf \in [Pool -> 1 .. LastPage]
    /\ Cosmos \subseteq Ingestable /\ Ingestable \subseteq Source
    /\ Baseline \subseteq Source /\ FirstParty \subseteq Pool /\ Added \subseteq Pool
    /\ TokensOf \in [Pool -> SUBSET Token] /\ AddedTokens \subseteq Token
    /\ CommonQuote \subseteq Token /\ Siblings \in [Token -> SUBSET Token]
    /\ ChainSources \in [Token -> SUBSET Source]
    /\ Complete \subseteq Pool /\ Sound \subseteq Pool
    /\ FormStatus \subseteq {"ManualVerified", "NotCurrentlyUsable"}
    /\ Markets \in [Pool -> SUBSET Market]
    /\ {LastPage, GtMultiMax, MaxUnseen, Horizon} \subseteq Nat \ {0}
    /\ {MaxChanges, MaxFaults, MaxJobs} \subseteq Nat
    \* A pair is taken out, and the next run asks for it, within the horizon.
    /\ MaxUnseen + 2 < Horizon

VARIABLES
    market,      \* the truth about the pools
    changes, faults, \* how many there were
    sources,     \* rows of SupportedSource
    candidates,  \* rows of CandidateDexNetwork
    promoting,   \* the source whose promotion is in flight, or 0
    cache,       \* the registry the web process remembers
    thresholds,  \* rows of Threshold, per source
    pairs,       \* rows of Pair
    job,         \* what each process is doing
    ran, jobs    \* whether the pipeline ran in this window; the operator's jobs so far

vars == <<market, changes, faults, sources, candidates, promoting, cache, thresholds,
          pairs, job, ran, jobs>>
bounded == <<changes, faults>>
registry == <<sources, candidates, promoting, cache>>

Automatic == {"AutoVerified", "NeedsReview", "AutoRejected"}
Manual == {"ManualVerified", "NotCurrentlyUsable"}
Verified == {"AutoVerified", "ManualVerified"}
Claim == {"present", "absent", "unknown"}

\* age: windows since lastChecked; seen: lastChecked is no older than the
\* pipeline's run; claim: subgraphPresent.
Row == [pool : Pool, id : Nat \ {0}, status : Automatic \cup Manual,
        age : 0 .. Horizon, seen : BOOLEAN, claim : Claim]

Idle == [kind |-> "idle", step |-> "idle", known |-> {}, cursor |-> 1, at |-> 0,
         page |-> 1, count |-> 0, queue |-> {}, todo |-> {}, claims |-> <<>>, pool |-> None,
         since |-> FALSE, from |-> {}, done |-> {},
         token |-> None, adds |-> {}, hops |-> {}, met |-> {}]

\* What the subgraph says of the pools in hand.
Claims == UNION {[S -> Claim] : S \in SUBSET Pool}

Page == Source \X (1 .. LastPage)

Job ==
    [kind : {"idle", "ingest", "first", "refresh", "revalidate", "add", "token", "thresholds"},
     step : {"idle", "next", "call", "threshold", "seed", "fetch", "store", "create",
             "select", "verify", "done"},
     known : SUBSET Source, at : Source \cup {0},
     page : 1 .. LastPage, cursor : Nat \ {0}, count : Nat,
     queue : SUBSET Pool, todo : SUBSET Pool, pool : Pool \cup {None},
     claims : Claims, since : BOOLEAN,
     from : SUBSET Source, done : SUBSET Page,
     token : Token \cup {None}, adds : SUBSET Token, hops : SUBSET Token, met : SUBSET Pool]

TypeOK ==
    /\ market \in [Pool -> Market] /\ \A p \in Pool : market[p] \in Markets[p]
    /\ changes \in 0 .. MaxChanges /\ faults \in 0 .. MaxFaults
    /\ sources \subseteq Source
    /\ candidates \in [Source -> {None, "Pending", "Enabled", "Rejected"}]
    /\ promoting \in Source \cup {0}
    /\ cache \in [state : {"cold", "loaded", "failed"}, rows : SUBSET Source]
    /\ thresholds \in [Source -> Nat]
    /\ pairs \subseteq Row
    /\ job \in [Process -> Job]
    /\ ran \in BOOLEAN /\ jobs \in 0 .. MaxJobs

Init ==
    /\ market \in [Pool -> Market] /\ \A p \in Pool : market[p] \in Markets[p]
    /\ changes = 0 /\ faults = 0
    /\ sources = Baseline
    /\ candidates = [s \in Source |-> None]
    /\ promoting = 0
    /\ cache = [state |-> "cold", rows |-> {}]
    /\ thresholds = [s \in Source |-> IF s \in Baseline THEN 1 ELSE 0]
    /\ pairs = {}
    /\ job = [r \in Process |-> Idle]
    /\ ran = FALSE /\ jobs = 0

Rows(p) == {row \in pairs : row.pool = p}

---------------------------------------------------------------------------
(* What an adapter returns. *)

\* buildCosmosPage: the deepest pool of each pair of denoms.
Deepest(S) ==
    {p \in S : p = CHOOSE q \in {x \in S : Denoms[x] = Denoms[p]} :
        \A x \in S : Denoms[x] = Denoms[p] => market[x].depth <= market[q].depth}

Listed(s) == {p \in Pool : SourceOf[p] = s /\ market[p].where = "top"}

\* A Cosmos source answers page 1 with all it has, GeckoTerminal a page.
PoolPage(s, n) ==
    IF s \in Cosmos THEN IF n = 1 THEN Deepest(Listed(s)) ELSE {}
    ELSE {p \in Listed(s) : PageOf[p] = n}

ByAddress(S) == {p \in S : market[p].where # "gone"}

\* An absence is believed when another pool of the call is
\* found; a subgraph that does not answer makes no claim.
gtCorroborate(S, silent) ==
    [p \in S |-> IF silent \/ SourceOf[p] \in Cosmos
                      \/ \A q \in S : ~market[q].indexed THEN "unknown"
                 ELSE IF market[p].indexed THEN "present" ELSE "absent"]

---------------------------------------------------------------------------
(* The verdict, as far as the ingest decides it.  Its reads and writes are *)
(* taken at once here.                                                     *)

unseenTooLong(age) == age > MaxUnseen

Judged(row) ==
    IF row.status \in Manual THEN row
    ELSE [row EXCEPT !.status =
            IF unseenTooLong(row.age) THEN "AutoRejected"
            ELSE IF row.claim = "absent" \/ row.pool \notin Sound THEN "NeedsReview"
            ELSE "AutoVerified"]

---------------------------------------------------------------------------
(* ingestOnePool and what leads to it, for every caller.  Nothing in the   *)
(* schema makes a row of Threshold, Token or Pair unique.                  *)

Step(r, step) == job' = [job EXCEPT ![r].step = step]

\* The thresholds page and ingestTokenPools see to every source before they go on.
AfterThreshold(r) == IF job[r].kind \in {"thresholds", "first", "token"} THEN "next" ELSE "fetch"

\* ensureThreshold: looks, then creates.
FindThreshold(r) ==
    /\ job[r].step = "threshold"
    /\ Step(r, IF thresholds[job[r].at] = 0 THEN "seed" ELSE AfterThreshold(r))
    /\ UNCHANGED <<thresholds, pairs>>

CreateThreshold(r) ==
    /\ job[r].step = "seed"
    /\ thresholds' = [thresholds EXCEPT ![job[r].at] = thresholds[job[r].at] + 1]
    /\ Step(r, AfterThreshold(r))
    /\ UNCHANGED pairs

\* What is complete is kept, with what the subgraph says of it; ingestTokenPools
\* asks the subgraph for one pool at a time.
Stores(r, S, silent) ==
    job' = [job EXCEPT ![r].todo = S \cap Complete, ![r].step = "store",
              ![r].claims = IF job[r].kind \in {"first", "token"}
                            THEN [p \in S \cap Complete |-> gtCorroborate({p}, silent)[p]]
                            ELSE gtCorroborate(S \cap Complete, silent)]

\* The pages of the current source that are behind a call.
Behind(j, hadData) ==
    j.done \cup {<<j.at, n>> : n \in IF hadData THEN {j.page} ELSE j.page .. LastPage}

(* A fault: the sources are counted once, by the first call. *)
AnsweredByFirstCount(j, cursor, page, done) ==
    [j EXCEPT !.cursor = cursor, !.page = page, !.count = 0, !.done = done,
              !.step = IF cursor > Cardinality(j.from) THEN "done" ELSE "call"]

\* A call of the operator's page answers with the next cursor, and with done when
\* that is past the sources it counted.
Answered(j, cursor, page, done) ==
    [j EXCEPT !.cursor = cursor, !.page = page, !.count = 0, !.done = done,
              !.step = IF cursor > j.count THEN "done" ELSE "call"]

\* After a page: the next one, or the next source when it was empty or last.
Turned(r, hadData) ==
    LET j == [job[r] EXCEPT !.todo = {}, !.claims = <<>>]
        last == ~hadData \/ j.page >= LastPage
        page == IF last THEN 1 ELSE j.page + 1
    IN job' = [job EXCEPT ![r] =
         IF r = Cron THEN [j EXCEPT !.page = page, !.step = IF last THEN "next" ELSE "threshold"]
         ELSE Answered(j, IF last THEN j.cursor + 1 ELSE j.cursor, page, Behind(j, hadData))]

Outside == changes < MaxChanges /\ changes' = changes + 1 /\ UNCHANGED faults
Fault == faults < MaxFaults /\ faults' = faults + 1 /\ UNCHANGED changes

\* The raw answer decides whether the page had data.  A call that fails, once
\* retried, answers with nothing (cgKeyedFetch).
FetchPage(r) ==
    /\ job[r].step = "fetch" /\ job[r].kind = "ingest"
    /\ LET raw == PoolPage(job[r].at, job[r].page) IN
        \/ raw = {} /\ Turned(r, FALSE) /\ UNCHANGED bounded
        \/ raw # {} /\ Stores(r, raw, FALSE) /\ UNCHANGED bounded
        \/ raw # {} /\ Fault /\ (Turned(r, FALSE) \/ Stores(r, raw, TRUE))
    /\ UNCHANGED <<thresholds, pairs>>

FetchByAddress(r) ==
    /\ job[r].step = "fetch" /\ job[r].kind # "ingest"
    /\ LET raw == ByAddress(job[r].todo) IN
        \/ Stores(r, raw, FALSE) /\ UNCHANGED bounded
        \/ raw # {} /\ Fault /\ (Stores(r, {}, FALSE) \/ Stores(r, raw, TRUE))
    /\ UNCHANGED <<thresholds, pairs>>

Fresh(r, p, row) ==
    Judged([row EXCEPT !.age = 0, !.seen = job[r].since, !.claim = job[r].claims[p]])

\* upsertPair: findFirst, then update, and the verdict; or else create.
StorePool(r, p) ==
    /\ job[r].step = "store" /\ p \in job[r].todo
    /\ \/ /\ \E row \in Rows(p) : pairs' = (pairs \ {row}) \cup {Fresh(r, p, row)}
          /\ job' = [job EXCEPT ![r].todo = job[r].todo \ {p}]
       \/ /\ Rows(p) = {}
          /\ job' = [job EXCEPT ![r].todo = job[r].todo \ {p}, ![r].pool = p, ![r].step = "create"]
          /\ UNCHANGED pairs
    /\ UNCHANGED thresholds

CreatePair(r) ==
    /\ job[r].step = "create"
    /\ LET p == job[r].pool
           new == [pool |-> p, id |-> Cardinality(Rows(p)) + 1, status |-> "NeedsReview",
                   age |-> 0, seen |-> FALSE, claim |-> "unknown"]
       IN pairs' = pairs \cup {Fresh(r, p, new)}
    /\ job' = [job EXCEPT ![r].pool = None, ![r].step = "store"]
    /\ UNCHANGED thresholds

\* pairIdsForToken.
PairsWith(t) == {row.pool : row \in {x \in pairs : t \in TokensOf[x.pool]}}

\* The /add page verifies what an added pair or token left in the database, each
\* pair once; a pair that could not be added ends it.
ToVerify(j) ==
    IF j.kind = "add" THEN DOMAIN j.claims ELSE PairsWith(j.token) \ j.met

Stored(r) ==
    /\ job[r].step = "store" /\ job[r].todo = {}
    /\ CASE job[r].kind = "ingest" -> Turned(r, TRUE)
         [] job[r].kind = "first"  -> job' = [job EXCEPT ![r].step = "select", ![r].claims = <<>>]
         [] job[r].kind \in {"add", "token"} ->
              job' = [job EXCEPT ![r] =
                IF job[r].kind = "add" /\ DOMAIN job[r].claims = {} THEN Idle
                ELSE [job[r] EXCEPT !.step = "verify", !.queue = ToVerify(job[r]),
                        !.claims = <<>>, !.token = None, !.at = 0]]
         [] OTHER -> job' = [job EXCEPT ![r].step = "next", ![r].claims = <<>>]
    /\ UNCHANGED <<thresholds, pairs>>

---------------------------------------------------------------------------
(* The pipeline: ingestAll, then revalidatePass.                           *)

(* A fault: the pipeline goes through the sources seeded from the code. *)
StartPipelineSeeded ==
    /\ ~ran /\ job[Cron] = Idle
    /\ ran' = TRUE
    /\ job' = [job EXCEPT ![Cron] = [Idle EXCEPT !.kind = "ingest", !.step = "next",
                                       !.known = Baseline, !.since = TRUE]]
    /\ UNCHANGED <<market, bounded, registry, thresholds, pairs, jobs>>

\* A new process, so a new load of the registry.
StartPipeline ==
    /\ ~ran /\ job[Cron] = Idle
    /\ ran' = TRUE
    /\ job' = [job EXCEPT ![Cron] = [Idle EXCEPT !.kind = "ingest", !.step = "next",
                                       !.known = sources, !.since = TRUE]]
    /\ UNCHANGED <<market, bounded, registry, thresholds, pairs, jobs>>

Ahead(r) == {s \in job[r].known : s > job[r].at}
First(S) == CHOOSE s \in S : \A q \in S : s <= q

NextSource ==
    /\ job[Cron].kind = "ingest" /\ job[Cron].step = "next"
    /\ LET ahead == Ahead(Cron) \cap Ingestable IN
        job' = [job EXCEPT ![Cron] =
          IF ahead # {}
          THEN [job[Cron] EXCEPT !.at = First(ahead), !.page = 1, !.step = "threshold"]
          ELSE [job[Cron] EXCEPT !.kind = "first", !.at = 0]]
    /\ UNCHANGED <<thresholds, pairs>>

(* A fault: what was taken out is asked for as long as it has a row. *)
UnseenForever ==
    {row.pool : row \in {x \in pairs : ~x.seen /\ x.status \in Verified \cup {"AutoRejected"}}}

\* refreshUnseenPass selects what the run has not seen.  Of the automatic
\* rejections it wants those of the unseen rule, the only ones here.
Unseen ==
    {row.pool : row \in {x \in pairs :
        /\ ~x.seen
        /\ \/ x.status \in Verified
           \/ x.status = "AutoRejected" /\ x.age < Horizon}}
RefreshSelection(known) ==
    {p \in Unseen : SourceOf[p] \in (known \cap Ingestable) \ Cosmos}

\* The selection is made once: from there on the mark tells nothing.
Unmarked == {[row EXCEPT !.seen = FALSE] : row \in pairs}

\* The pools a job wants of tokens: firstPartyIngestPass goes through our own, an
\* operator names one token.
WantedPools(j) ==
    IF j.kind = "first" THEN FirstParty ELSE {p \in Pool : j.token \in TokensOf[p]}

\* ingestTokenPools, for our tokens or one the operator adds: every source of the
\* chain gets its threshold, then one call for the pools a token has anywhere.
NextTokenPools(r) ==
    /\ job[r].kind \in {"first", "token"} /\ job[r].step = "next"
    /\ job' = [job EXCEPT ![r] =
         IF Ahead(r) # {} THEN [job[r] EXCEPT !.at = First(Ahead(r)), !.step = "threshold"]
         ELSE [job[r] EXCEPT !.at = 0, !.step = "fetch",
                 !.todo = {p \in WantedPools(job[r]) : SourceOf[p] \in job[r].known}]]
    /\ UNCHANGED <<thresholds, pairs>>

SelectUnseen ==
    /\ job[Cron].step = "select"
    /\ job' = [job EXCEPT ![Cron].kind = "refresh", ![Cron].step = "next",
                 ![Cron].queue = RefreshSelection(job[Cron].known)]
    /\ pairs' = Unmarked
    /\ UNCHANGED thresholds

Batches(S) ==
    {B \in SUBSET S : /\ B # {}
                      /\ Cardinality(B) <= GtMultiMax
                      /\ \A q \in S \ B : Cardinality(B) = GtMultiMax}

NextRefresh ==
    /\ job[Cron].kind = "refresh" /\ job[Cron].step = "next"
    /\ IF job[Cron].queue # {}
       THEN \E s \in {SourceOf[p] : p \in job[Cron].queue} :
              \E B \in Batches({p \in job[Cron].queue : SourceOf[p] = s}) :
                job' = [job EXCEPT ![Cron].queue = job[Cron].queue \ B, ![Cron].todo = B,
                          ![Cron].at = s, ![Cron].step = "threshold"]
       ELSE job' = [job EXCEPT ![Cron].kind = "revalidate", ![Cron].at = 0,
                      ![Cron].queue = {row.pool : row \in pairs}]
    /\ UNCHANGED <<thresholds, pairs>>

\* The verdicts of a pool's rows, together.
Revalidate ==
    /\ job[Cron].kind = "revalidate"
    /\ IF job[Cron].queue = {}
       THEN job' = [job EXCEPT ![Cron] = Idle] /\ UNCHANGED pairs
       ELSE \E p \in job[Cron].queue :
              /\ pairs' = (pairs \ Rows(p)) \cup {Judged(row) : row \in Rows(p)}
              /\ job' = [job EXCEPT ![Cron].queue = job[Cron].queue \ {p}]
    /\ UNCHANGED thresholds

---------------------------------------------------------------------------
(* The operator's pages, served by the web process.                        *)

\* The first load is remembered, one that failed too.
getSources(force) ==
    \/ (force \/ cache.state = "cold")
       /\ cache' = [state |-> "loaded", rows |-> sources] /\ UNCHANGED bounded
    \/ (force \/ cache.state = "cold")
       /\ cache' = [state |-> "failed", rows |-> {}] /\ Fault
    \/ ~force /\ cache.state # "cold" /\ UNCHANGED <<cache, changes, faults>>

\* What is stored now is as recent as the run that has yet to select.
Marking == job[Cron].kind \in {"ingest", "first"}

Starts(j) ==
    /\ job[Web] = Idle /\ jobs < MaxJobs /\ jobs' = jobs + 1
    /\ job' = [job EXCEPT ![Web] = j]
    /\ UNCHANGED <<market, sources, candidates, promoting, thresholds, pairs, ran>>

StartIngest ==
    /\ Starts([Idle EXCEPT !.kind = "ingest", !.step = "call"])
    /\ UNCHANGED <<cache, changes, faults>>

\* The source at an index of the registry, which may have grown in between.
At(S, i) == {s \in S : Cardinality({q \in S : q < s}) = i - 1}

FromStart(rows) ==
    IF job[Web].cursor = 1 /\ job[Web].page = 1 THEN rows ELSE job[Web].from

\* POST /api/admin/ingest, up to the page it ingests: a source it cannot ingest
\* is skipped, and a cursor past the last is done.
Call ==
    /\ job[Web].step = "call"
    /\ getSources(FALSE)
    /\ cache'.state = "loaded"
    /\ LET j == [job[Web] EXCEPT !.count = Cardinality(cache'.rows), !.from = FromStart(cache'.rows)]
           s == At(cache'.rows, j.cursor)
       IN job' = [job EXCEPT ![Web] =
            IF s = {} THEN [j EXCEPT !.step = "done"]
            ELSE IF s \cap Ingestable = {} THEN Answered(j, j.cursor + 1, 1, j.done)
            ELSE [j EXCEPT !.at = First(s), !.step = "threshold", !.since = Marking]]
    /\ UNCHANGED <<market, sources, candidates, promoting, thresholds, pairs, ran, jobs>>

\* The page shows done and stops.
Done ==
    /\ job[Web].step = "done"
    /\ job' = [job EXCEPT ![Web] = Idle]
    /\ UNCHANGED <<market, changes, faults, registry, thresholds, pairs, ran, jobs>>

\* The call answers 500 and the page stops.
CallFails ==
    /\ job[Web].step = "call"
    /\ getSources(FALSE)
    /\ cache'.state = "failed"
    /\ job' = [job EXCEPT ![Web] = Idle]
    /\ UNCHANGED <<market, sources, candidates, promoting, thresholds, pairs, ran, jobs>>

\* The tokens of a pair the page looks for elsewhere, when asked to.
Spidered(p) == TokensOf[p] \ CommonQuote

\* The /add page in pair mode: ingestPairByAddress, and then, if the operator
\* wants it, each of its tokens on other chains.
AddPair(p) ==
    /\ p \in Added
    /\ getSources(FALSE)
    /\ SourceOf[p] \in cache'.rows
    /\ \E hops \in {{}, Spidered(p)} :
        Starts([Idle EXCEPT !.kind = "add", !.step = "threshold", !.at = SourceOf[p],
                 !.todo = {p}, !.since = Marking, !.hops = hops])

\* A call of addtoken: the sources of the token's chain, then its pools.
TokenPools(j, t, rows) ==
    [j EXCEPT !.kind = "token", !.step = "next", !.token = t, !.since = Marking,
              !.known = rows \cap ChainSources[t]]

\* Its token mode.
AddToken(t) ==
    /\ t \in AddedTokens
    /\ getSources(FALSE)
    /\ cache'.state = "loaded"
    /\ \E hops \in {{}, {t}} : Starts(TokenPools([Idle EXCEPT !.hops = hops], t, cache'.rows))

\* enrichPair, of whose passes the verdict is what is modelled here; the page goes
\* on when it fails.
EnrichPair ==
    /\ job[Web].step = "verify"
    /\ \E p \in job[Web].queue :
        /\ job' = [job EXCEPT ![Web].queue = job[Web].queue \ {p}, ![Web].met = job[Web].met \cup {p}]
        /\ \/ pairs' = (pairs \ Rows(p)) \cup {Judged(row) : row \in Rows(p)} /\ UNCHANGED bounded
           \/ Fault /\ UNCHANGED pairs
    /\ UNCHANGED thresholds

\* tokenContractsByChain, on chains with a source.
OtherChains(t) == {x \in Siblings[t] : ChainSources[x] \cap cache.rows # {}}

\* siblingsForToken; CoinGecko may fail to answer.
DiscoverChains ==
    /\ job[Web].step = "verify" /\ job[Web].queue = {} /\ job[Web].adds = {}
    /\ \E t \in job[Web].hops :
         \E adds \in {OtherChains(t), {}} :
            /\ IF adds = OtherChains(t) THEN UNCHANGED bounded ELSE Fault
            /\ job' = [job EXCEPT ![Web].hops = job[Web].hops \ {t}, ![Web].adds = adds]
    /\ UNCHANGED <<thresholds, pairs>>

\* The spider adds what it found; a registry that failed to load answers 500.
AddSibling ==
    /\ job[Web].step = "verify" /\ job[Web].queue = {}
    /\ \E t \in job[Web].adds :
         LET j == [job[Web] EXCEPT !.adds = job[Web].adds \ {t}]
         IN job' = [job EXCEPT ![Web] =
              IF cache.state = "loaded" THEN TokenPools(j, t, cache.rows) ELSE j]
    /\ UNCHANGED <<thresholds, pairs>>

\* The page has processed all it found.
AddEnds ==
    /\ job[Web].step = "verify" /\ job[Web].queue \cup job[Web].adds \cup job[Web].hops = {}
    /\ job' = [job EXCEPT ![Web] = Idle]
    /\ UNCHANGED <<thresholds, pairs>>

\* The thresholds page creates what is missing before it shows.
OpenThresholds ==
    /\ getSources(FALSE)
    /\ cache'.state = "loaded"
    /\ Starts([Idle EXCEPT !.kind = "thresholds", !.step = "next", !.known = cache'.rows])

NextThreshold ==
    /\ job[Web].kind = "thresholds" /\ job[Web].step = "next"
    /\ job' = [job EXCEPT ![Web] =
         IF Ahead(Web) = {} THEN Idle
         ELSE [job[Web] EXCEPT !.at = First(Ahead(Web)), !.step = "threshold"]]
    /\ UNCHANGED <<thresholds, pairs>>

---------------------------------------------------------------------------
(* Discovery and triage of sources.                                        *)

\* newSourcesForNetwork: neither supported nor ever a candidate.
Discover(s) ==
    /\ s \notin sources /\ candidates[s] = None
    /\ candidates' = [candidates EXCEPT ![s] = "Pending"]
    /\ UNCHANGED <<market, changes, faults, sources, promoting, cache, thresholds, pairs, job, ran, jobs>>

Reject(s) ==
    /\ candidates[s] = "Pending"
    /\ candidates' = [candidates EXCEPT ![s] = "Rejected"]
    /\ UNCHANGED <<market, changes, faults, sources, promoting, cache, thresholds, pairs, job, ran, jobs>>

\* The source's row, then the candidate's and the web process's registry:
\* nothing can tell these two apart.
Promote(s) ==
    /\ candidates[s] = "Pending" /\ promoting = 0
    /\ sources' = sources \cup {s}
    /\ promoting' = s
    /\ UNCHANGED <<market, changes, faults, candidates, cache, thresholds, pairs, job, ran, jobs>>

FinishPromotion ==
    /\ promoting # 0
    /\ candidates' = [candidates EXCEPT ![promoting] = "Enabled"]
    /\ promoting' = 0
    /\ getSources(TRUE)
    /\ UNCHANGED <<market, sources, thresholds, pairs, job, ran, jobs>>

---------------------------------------------------------------------------
(* The outside.                                                            *)

Change ==
    /\ Outside
    /\ \E p \in Pool : \E m \in Markets[p] \ {market[p]} : market' = [market EXCEPT ![p] = m]
    /\ UNCHANGED <<registry, thresholds, pairs, job, ran, jobs>>

Decide ==
    /\ Outside
    /\ \E row \in pairs : \E s \in FormStatus \ {row.status} :
        pairs' = (pairs \ {row}) \cup {[row EXCEPT !.status = s]}
    /\ UNCHANGED <<market, registry, thresholds, job, ran, jobs>>

\* The pipeline's process dies, or a write of it fails.
CronCrash ==
    /\ Fault
    /\ job[Cron] # Idle
    /\ job' = [job EXCEPT ![Cron] = Idle]
    /\ UNCHANGED <<market, registry, thresholds, pairs, ran, jobs>>

\* The web process restarts, and with it go its registry and its requests.
WebCrash ==
    /\ Fault
    /\ <<job[Web], cache.state, promoting>> # <<Idle, "cold", 0>>
    /\ job' = [job EXCEPT ![Web] = Idle]
    /\ cache' = [state |-> "cold", rows |-> {}]
    /\ promoting' = 0
    /\ UNCHANGED <<market, sources, candidates, thresholds, pairs, ran, jobs>>

\* Runs are short against the window, so none is under way.
NextWindow ==
    /\ ran /\ \A r \in Process : job[r] = Idle
    /\ ran' = FALSE
    /\ pairs' = {[row EXCEPT !.age = IF row.age = Horizon THEN Horizon ELSE row.age + 1] :
                   row \in Unmarked}
    /\ UNCHANGED <<market, changes, faults, registry, thresholds, job, jobs>>

Work(r) ==
    /\ job[r] # Idle
    /\ UNCHANGED <<market, registry, ran, jobs>>
    /\ \/ /\ \/ FindThreshold(r) \/ CreateThreshold(r)
             \/ (\E p \in Pool : StorePool(r, p)) \/ CreatePair(r) \/ Stored(r)
             \/ NextTokenPools(r)
             \/ r = Cron /\ (NextSource \/ SelectUnseen \/ NextRefresh \/ Revalidate)
             \/ r = Web /\ (NextThreshold \/ AddSibling \/ AddEnds)
          /\ UNCHANGED bounded
       \/ FetchPage(r) \/ FetchByAddress(r)
       \/ r = Web /\ (EnrichPair \/ DiscoverChains)

Serve == Work(Web) \/ Call \/ Done \/ CallFails

Next ==
    \/ StartPipeline \/ Work(Cron)
    \/ StartIngest \/ OpenThresholds \/ (\E p \in Pool : AddPair(p))
    \/ (\E t \in Token : AddToken(t)) \/ Serve
    \/ \E s \in Source : Discover(s) \/ Reject(s) \/ Promote(s)
    \/ FinishPromotion
    \/ Change \/ Decide \/ CronCrash \/ WebCrash \/ NextWindow

Spec == Init /\ [][Next]_vars

\* The pipeline is scheduled in every window; what runs goes on; time passes.
Fairness ==
    /\ WF_vars(StartPipeline) /\ WF_vars(Work(Cron)) /\ WF_vars(Serve)
    /\ WF_vars(NextWindow)

FairSpec == Spec /\ Fairness

---------------------------------------------------------------------------
\* What the pipeline is bound to come upon: what a registered source returns, and
\* our own tokens' pools.
Offered(p) ==
    LET s == SourceOf[p] IN
    /\ s \in sources \cap Ingestable
    /\ \/ \E n \in 1 .. LastPage : p \in PoolPage(s, n)
       \/ s \notin Cosmos /\ market[p].where # "gone" /\ p \in FirstParty

\* What it can only ask for by address.
Known(p) ==
    /\ SourceOf[p] \in (sources \cap Ingestable) \ Cosmos
    /\ market[p].where # "gone"
    /\ \A row \in Rows(p) : row.status # "NotCurrentlyUsable"

Sighted(p) == \E row \in Rows(p) : row.age = 0
Current(p) == \E row \in Rows(p) : row.age = 0 /\ row.status # "AutoRejected"

\* A pool that is offered, or was seen once and stays known, is judged on fresh
\* data again and again, though it leaves the pages the ingest reads, is taken
\* out for going unseen, comes with a source promoted while ingests were running,
\* or is stored by two of them (refreshUnseenPass, and lib/unseen.ts: "comes back
\* by itself").
PoolsStayFresh ==
    \A p \in Complete :
        /\ []<>(Offered(p) => Current(p))
        /\ (<>(Sighted(p) /\ []Known(p)) => []<>Current(p))

\* A pool its source no longer returns leaves OoO pricing for good, and stops
\* costing calls (UNSEEN_REFRESH_HORIZON_S), but for the operator's own
\* decisions.
Returned(p) ==
    IF SourceOf[p] \in Cosmos THEN p \in PoolPage(SourceOf[p], 1)
    ELSE market[p].where # "gone"
LeftAlone(p) ==
    /\ p \notin RefreshSelection(Source)
    /\ \A row \in Rows(p) : row.status \in Automatic => row.status = "AutoRejected"
TheGoneAreLeft ==
    \A p \in Complete :
        <>[](~Returned(p) /\ (\A row \in Rows(p) : row.status # "ManualVerified")
               => LeftAlone(p))

\* An operator's ingest that says done has read every page of every source the
\* registry held when it began, though its cursor is an index into a registry
\* that a promotion may shift (pages/api/admin/ingest.ts).
IngestIsComplete ==
    job[Web].step = "done" =>
        \A s \in job[Web].from \cap Ingestable, n \in 1 .. LastPage : <<s, n>> \in job[Web].done

\* "Idempotent; creates once per source" (lib/ingest.ts:197).  Two ingests of a
\* new source, or one and the thresholds page, break it.
OneThresholdPerSource == \A s \in Source : thresholds[s] <= 1

\* "the verdict keeps it out of the export" (lib/ingest.ts:171): once a page has
\* shown that the subgraph does not index a pool.  A call that asks for that
\* pool alone proves nothing, and takes the claim back.
PhantomsStayOut ==
    [][\A row \in pairs, new \in pairs' :
         /\ row.pool = new.pool /\ row.claim = "absent"
         /\ new.status = "AutoVerified"
         => market[row.pool].indexed]_vars
===========================================================================
