------------------------------ MODULE Passes ------------------------------
(***************************************************************************)
(* The verification passes: what the outside world says of a token or a    *)
(* pool is fetched by one pass per kind of fact, stored on the row, and    *)
(* reaches the pair's verdict when a verdict run reads it.  The cron       *)
(* pipeline (lib/pipeline.ts, import/pipeline.ts) drives every pass in     *)
(* turn over the rows that are due; an operator's page drives one pass     *)
(* over all its rows, a batch per call.  Both run the same checks:         *)
(* lib/identityCheck.ts, canonicalCheck.ts, factoryCheck.ts, scamCheck.ts. *)
(* One unit of time is the re-check window (PIPELINE_RECHECK_DAYS).        *)
(***************************************************************************)
EXTENDS Integers, FiniteSets, Sequences

CONSTANTS
    Token, Pair,
    TokensOf,      \* Pair -> SUBSET Token
    Cron, Page,    \* the pipeline; an operator's pass page
    Worlds,        \* what may be true of a token (see World)
    Pools,         \* what may be true of a pool
    Pipeline,      \* the passes of a scheduled run, in order
    Operated,      \* passes the operator runs from a page or the command line
    ConfirmedGap,  \* CONFIRMED_RECHECK_S
    MaxGap,        \* MAX_BACKOFF_S
    CacheTtl,      \* THIRTY_DAYS_SECONDS
    MaxFloor,      \* bound: changes of the source's threshold
    MaxJobs        \* bound: jobs an operator starts in one window

Runner == {Cron, Page}
Row == Token \cup Pair
None == "none"

\* Categories of identity sources, and those that suffice on their own.
SelfSufficient == {"tokenlist", "coingecko", "coinmarketcap", "first-party"}
Category == SelfSufficient \cup {"onchain", "security-api"}
MinIndependentCategories == 2

Source == {"first-party", "coingecko", "lists", "trustwallet", "coinmarketcap", "goplus"}
CategoryOf == [s \in Source |-> CASE s \in {"lists", "trustwallet"} -> "tokenlist"
                                  [] s = "goplus" -> "security-api"
                                  [] OTHER -> s]

aggregateIdentity(categories) ==
    \/ categories \cap SelfSufficient # {}
    \/ Cardinality(categories) >= MinIndependentCategories

Answers == {"unknown", "clean", "bad"}
evaluateTokenScam(goplus, honeypot) == "bad" \in {goplus, honeypot}

\* The outside's view of a token: the sources that recognise it, whether
\* GeckoTerminal names its coin, where CoinGecko puts that coin, what the scam
\* services answer.  CoinGecko agrees with itself.
World == {w \in [knows : SUBSET Source, coin : BOOLEAN,
                 canonical : {"this", "other", "nowhere"},
                 goplus : Answers, honeypot : {"clean", "bad"}] :
            "coingecko" \in w.knows => w.canonical = "this"}
Pool == [thin : BOOLEAN, factory : {"canonical", "foreign"}]

Passes == {"ingest", "identity", "canonical", "factory", "scam", "revalidate",
           "enrich", "rescore"}
\* import/pipeline.ts; its passes are also commands of their own.
FullPipeline ==
    <<"ingest", "identity", "canonical", "factory", "scam", "revalidate", "enrich">>

ASSUME ConstantsAssumption ==
    /\ TokensOf \in [Pair -> SUBSET Token]
    /\ Worlds \subseteq World /\ Worlds # {}
    /\ Pools \subseteq Pool /\ Pools # {}
    /\ Operated \subseteq Passes /\ Pipeline \in Seq(Passes) /\ Pipeline # <<>>
    /\ Cron # Page
    /\ {ConfirmedGap, MaxGap, CacheTtl} \subseteq Nat \ {0} /\ ConfirmedGap <= MaxGap
    /\ {MaxFloor, MaxJobs} \subseteq Nat

VARIABLES
    world, pool,  \* the truth about tokens and pools
    settled,      \* sources answer and nothing changes any more
    token,        \* rows of Token, with the CanonicalAddress of the coin
    pair,         \* rows of Pair
    floor,        \* version of the thresholds: from 1 on they put a floor
    job,          \* what each runner is doing
    ran, jobs     \* the pipeline's run and the operator's jobs of this window

truth == <<world, pool, settled, floor>>
vars == <<truth, token, pair, job, ran, jobs>>

Status == {"Unverified", "NeedsReview", "AutoVerified", "AutoRejected"}
TokenRow ==
    [coin : BOOLEAN, confirmed : BOOLEAN, gap : 0 .. MaxGap, due : 0 .. MaxGap,
     cached : {"unknown", "this", "other", "nowhere"}, cacheAge : 0 .. CacheTtl,
     goplus : Answers, trusted : BOOLEAN, honeypot : Answers, flagged : BOOLEAN,
     stale : SUBSET {"canonical", "scam", "enrich"}]
PairRow == [status : Status, factory : {"unknown", "canonical", "foreign"},
            stale : BOOLEAN, judged : 0 .. MaxFloor]

Step == {"idle", "batch", "write", "judge", "commit"}
Idle == [pass |-> None, step |-> "idle", once |-> FALSE, todo |-> {}, at |-> None,
         got |-> <<>>, judge |-> {}, read |-> <<>>, since |-> {}, fresh |-> {},
         from |-> 0]

TypeOK ==
    /\ world \in [Token -> Worlds] /\ pool \in [Pair -> Pools]
    /\ settled \in BOOLEAN /\ floor \in 0 .. MaxFloor
    /\ token \in [Token -> TokenRow] /\ pair \in [Pair -> PairRow]
    /\ \A r \in Runner :
        /\ job[r].pass \in Passes \cup {None} /\ job[r].step \in Step
        /\ job[r].todo \subseteq Row /\ job[r].at \in Row \cup {None}
        /\ job[r].judge \subseteq Pair /\ job[r].since \subseteq Runner
        /\ job[r].fresh \subseteq Row /\ job[r].from \in 0 .. MaxFloor
    /\ ran \in BOOLEAN /\ jobs \in 0 .. MaxJobs

Init ==
    /\ world \in [Token -> Worlds] /\ pool \in [Pair -> Pools]
    /\ settled = FALSE /\ floor = 0
    /\ token = [t \in Token |->
         [coin |-> FALSE, confirmed |-> FALSE, gap |-> 0, due |-> 0,
          cached |-> "unknown", cacheAge |-> 0, goplus |-> "unknown",
          trusted |-> FALSE, honeypot |-> "unknown", flagged |-> FALSE,
          stale |-> {"canonical", "scam", "enrich"}]]
    /\ pair = [p \in Pair |-> [status |-> "Unverified", factory |-> "unknown",
                               judged |-> 0, stale |-> TRUE]]
    /\ job = [r \in Runner |-> Idle]
    /\ ran = FALSE /\ jobs = 0

---------------------------------------------------------------------------
(* The verdict, as far as the passes decide it. *)

Identified(row) == row.coin \/ row.confirmed
Impostor(row) == row.coin /\ row.cached = "other"

Judge(thin, foreign, S) ==
    IF \E row \in S : ~Identified(row)
    THEN IF thin THEN "AutoRejected" ELSE "NeedsReview"
    ELSE IF foreign \/ thin \/ \E row \in S : row.flagged \/ Impostor(row)
         THEN "NeedsReview" ELSE "AutoVerified"

Thin(p) == pool[p].thin /\ floor > 0
Verdict(p) == Judge(Thin(p), pair[p].factory = "foreign",
                    {token[t] : t \in TokensOf[p]})
PairsOf(t) == {p \in Pair : t \in TokensOf[p]}

---------------------------------------------------------------------------
(* What a pass selects.  The pipeline leaves what was checked within the   *)
(* window; a page takes every row not stamped since its job began.         *)

Due(r, x, stale) == IF r = Cron THEN stale ELSE x \notin job[r].fresh
InPair(t, statuses) == \E p \in PairsOf(t) : pair[p].status \in statuses

\* In review, or at or above the floor.
IdentityRelevant(t) == \E p \in PairsOf(t) : pair[p].status = "NeedsReview" \/ ~Thin(p)

identityCheckWhere(r) ==
    {t \in Token : /\ ~token[t].coin /\ t \notin job[r].fresh
                   /\ r = Cron => token[t].due = 0
                   /\ IdentityRelevant(t)}
canonicalCheckWhere(r) ==
    {t \in Token : token[t].coin /\ Due(r, t, "canonical" \in token[t].stale)}
factoryCheckWhere(r) ==
    {p \in Pair : pair[p].factory = "unknown" /\ Due(r, p, pair[p].stale)}
(* A fault: a token GoPlus knows is not asked about again. *)
scamCheckWhereOnce(r) ==
    {t \in Token : /\ token[t].goplus = "unknown"
                   /\ Due(r, t, "scam" \in token[t].stale) /\ InPair(t, {"AutoVerified"})}
scamCheckWhere(r) ==
    {t \in Token : Due(r, t, "scam" \in token[t].stale) /\ InPair(t, {"AutoVerified"})}
reviewEnrichWhere(r) ==
    {t \in Token : Due(r, t, "enrich" \in token[t].stale) /\ InPair(t, {"NeedsReview"})}
tokensToRescore == {t \in Token : {token[t].goplus, token[t].honeypot} # {"unknown"}}

Selected(r) ==
    CASE job[r].pass = "identity"  -> identityCheckWhere(r)
      [] job[r].pass = "canonical" -> canonicalCheckWhere(r)
      [] job[r].pass = "factory"   -> factoryCheckWhere(r)
      [] job[r].pass = "scam"      -> scamCheckWhere(r)
      [] job[r].pass = "enrich"    -> reviewEnrichWhere(r)
      [] job[r].pass = "rescore"   -> tokensToRescore
      [] OTHER -> {p \in Pair : p \notin job[r].fresh}

---------------------------------------------------------------------------
(* A job: batches of rows until none is selected.  What a row is stamped   *)
(* with is read before its checks: by the pipeline once a pass, by a page  *)
(* once a row.  A stamp counts for a job that had begun by then.           *)

Running == {r \in Runner : job[r].step # "idle"}

Begun(r, pass) ==
    [q \in Runner |->
        IF q = r THEN [Idle EXCEPT !.pass = pass, !.step = "batch",
                         !.from = IF pass = "revalidate" THEN floor ELSE 0,
                         !.since = IF r = Cron THEN Running \cup {r} ELSE {}]
        ELSE [job[q] EXCEPT !.since = job[q].since \ {r}]]

Stamped(js, r, x, passes) ==
    [q \in Runner |->
        IF \/ js[q].pass \notin passes
           \/ q = Cron /\ js[q].pass # "identity" THEN js[q]
        ELSE IF q \in js[r].since THEN [js[q] EXCEPT !.fresh = js[q].fresh \cup {x}]
        ELSE [js[q] EXCEPT !.fresh = js[q].fresh \ {x}]]

StartPipeline ==
    /\ ~ran /\ job[Cron] = Idle
    /\ ran' = TRUE
    /\ job' = Begun(Cron, Head(Pipeline))
    /\ UNCHANGED <<truth, token, pair, jobs>>

StartPage ==
    /\ job[Page] = Idle /\ jobs < MaxJobs
    /\ jobs' = jobs + 1
    /\ \E pass \in Operated : job' = Begun(Page, pass)
    /\ UNCHANGED <<truth, token, pair, ran>>

\* Passes that go once through what was there when they began.
OneRound(r) == \/ job[r].pass \in {"ingest", "rescore"}
               \/ r = Cron /\ job[r].pass = "revalidate"
Exhausted(r) == Selected(r) = {} \/ (OneRound(r) /\ job[r].once)

Batch(r) ==
    /\ job[r].step = "batch" /\ job[r].todo = {}
    /\ ~Exhausted(r)
    /\ job' = [job EXCEPT ![r].todo = Selected(r), ![r].once = OneRound(r)]
    /\ UNCHANGED <<truth, token, pair, ran, jobs>>

NextPass(pass) == {Pipeline[i + 1] : i \in {j \in 1 .. Len(Pipeline) - 1 : Pipeline[j] = pass}}

Finish(r) ==
    /\ job[r].step = "batch" /\ job[r].todo = {}
    /\ Exhausted(r)
    /\ IF r = Page \/ NextPass(job[r].pass) = {}
       THEN job' = [job EXCEPT ![r] = Idle]
       ELSE \E pass \in NextPass(job[r].pass) : job' = Begun(r, pass)
    /\ UNCHANGED <<truth, token, pair, ran, jobs>>

\* The process dies, or the operator closes the page.
Crash(r) ==
    /\ ~settled /\ job[r] # Idle
    /\ job' = [job EXCEPT ![r] = Idle]
    /\ UNCHANGED <<truth, token, pair, ran, jobs>>

---------------------------------------------------------------------------
(* A row's visit: its clock and its facts are read and the source is asked *)
(* (Ask), the answers are written and stamped (Write), and the verdicts    *)
(* that may change are run, each of them read (Read) and written (Commit). *)

Taken(r, x) ==
    [job EXCEPT ![r].todo = job[r].todo \ {x}, ![r].at = x,
                ![r].since = IF r = Page THEN Running ELSE job[r].since]

\* A source that has not settled may fail.
Answer(truthful, failed) == IF settled THEN {truthful} ELSE {truthful, failed}

\* What each identity source may say of a token: its category, or nothing.  Our
\* own tokens are a table in the code.  A list is fetched once by a process, and
\* a pipeline run is a process of its own.  GoPlus's stored answer stands.
Signal(t, s) == {CategoryOf[k] : k \in world[t].knows \cap {s}}
firstPartyIdentity(t)           == {Signal(t, "first-party")}
coingeckoReverseIdentity(t)     == Answer(Signal(t, "coingecko"), {})
tokenListMembership(t)          == Answer(Signal(t, "lists"), {})
trustWalletIdentity(t)          == Answer(Signal(t, "trustwallet"), {})
coinmarketcapReverseIdentity(t) == Answer(Signal(t, "coinmarketcap"), {})
deriveGoplusIdentity(t) ==
    IF token[t].goplus = "unknown" THEN Answer(Signal(t, "goplus"), {})
    ELSE {IF token[t].trusted THEN {CategoryOf["goplus"]} ELSE {}}

resolveTokenIdentity(t) ==
    {UNION {first, cg, list, trust, cmc, gp} :
        first \in firstPartyIdentity(t), cg \in coingeckoReverseIdentity(t),
        list \in tokenListMembership(t), trust \in trustWalletIdentity(t),
        cmc \in coinmarketcapReverseIdentity(t), gp \in deriveGoplusIdentity(t)}

nextGap(prev, confirmed) ==
    IF confirmed THEN ConfirmedGap
    ELSE LET doubled == IF prev.confirmed THEN 1 ELSE 2 * prev.gap
         IN IF doubled > MaxGap THEN MaxGap ELSE IF doubled < 1 THEN 1 ELSE doubled

\* fetchCanonicalContract: from the cache while it is fresh.
Canonical(t) ==
    IF token[t].cached # "unknown" /\ token[t].cacheAge < CacheTtl
    THEN {[cached |-> token[t].cached, age |-> token[t].cacheAge]}
    ELSE {[cached |-> c, age |-> 0] : c \in Answer(world[t].canonical, "unknown")}

ScamAnswers(t) == {[goplus |-> g, honeypot |-> h, trusted |-> "goplus" \in world[t].knows] :
                     g \in Answer(world[t].goplus, "unknown"),
                     h \in Answer(world[t].honeypot, "unknown")}

Visits(r, pass, x) == job[r].pass = pass /\ job[r].step = "batch" /\ x \in job[r].todo
Asked(r, x, answers) ==
    \E a \in answers : job' = [Taken(r, x) EXCEPT ![r].got = a, ![r].step = "write"]
At(r, pass, x) == job[r].pass = pass /\ job[r].step = "write" /\ x = job[r].at
\* Back to the batch, unless verdicts are to run.
Onward(js, r, judge) ==
    IF judge # {}
    THEN [js EXCEPT ![r].got = <<>>, ![r].read = <<>>, ![r].at = None,
                       ![r].judge = judge, ![r].step = "judge"]
    ELSE [js EXCEPT ![r].got = <<>>, ![r].read = <<>>, ![r].at = None,
                       ![r].judge = {}, ![r].step = "batch",
                       ![r].since = IF r = Page THEN {} ELSE js[r].since]
Wrote(r, x, passes, judge) == job' = Onward(Stamped(job, r, x, passes), r, judge)
Skipped(r, x) == job' = Onward(Taken(r, x), r, {})

AskIdentity(r, t) ==
    /\ Visits(r, "identity", t)
    /\ ~token[t].coin
    /\ Asked(r, t, {[confirmed |-> aggregateIdentity(k), listed |-> "coingecko" \in k,
                     gap |-> nextGap(token[t], aggregateIdentity(k))] : k \in resolveTokenIdentity(t)})
    /\ UNCHANGED token

\* Listed since it was selected: stamped all the same.
SkipIdentity(r, t) ==
    /\ Visits(r, "identity", t)
    /\ token[t].coin
    /\ token' = [token EXCEPT ![t].gap = token[t].due]
    /\ job' = Onward(Stamped(Taken(r, t), r, t, {"identity"}), r, {})

WriteIdentity(r, t) ==
    /\ At(r, "identity", t)
    /\ LET got == job[r].got IN
        /\ token' = [token EXCEPT ![t].confirmed = got.confirmed, ![t].gap = got.gap,
                       ![t].due = got.gap, ![t].coin = token[t].coin \/ got.listed]
        /\ Wrote(r, t, {"identity"}, IF got.confirmed THEN PairsOf(t) ELSE {})

AskCanonical(r, t) ==
    /\ Visits(r, "canonical", t)
    /\ token[t].coin
    /\ Asked(r, t, Canonical(t))
    /\ UNCHANGED token

\* The coin went since it was selected: not stamped, and not selected again.
SkipCanonical(r, t) ==
    /\ Visits(r, "canonical", t)
    /\ ~token[t].coin
    /\ Skipped(r, t)
    /\ UNCHANGED token

(* A fault: a token CoinGecko did not answer for keeps its old stamp. *)
WriteCanonicalUnstamped(r, t) ==
    /\ At(r, "canonical", t)
    /\ LET got == job[r].got IN
        IF got.cached = "unknown"
        THEN /\ UNCHANGED token
             /\ job' = Onward(job, r, {})
        ELSE /\ token' = [token EXCEPT ![t].stale = token[t].stale \ {"canonical"},
                            ![t].cached = got.cached, ![t].cacheAge = got.age]
             /\ Wrote(r, t, {"canonical"},
                      IF got.cached \in {"this", "other"} THEN PairsOf(t) ELSE {})

WriteCanonical(r, t) ==
    /\ At(r, "canonical", t)
    /\ LET got == job[r].got IN
        /\ token' = [token EXCEPT ![t].stale = token[t].stale \ {"canonical"},
               ![t].cached = IF got.cached = "unknown" THEN token[t].cached ELSE got.cached,
               ![t].cacheAge = IF got.cached = "unknown" THEN token[t].cacheAge ELSE got.age]
        /\ Wrote(r, t, {"canonical"}, IF got.cached \in {"this", "other"} THEN PairsOf(t) ELSE {})

\* Only answers that came are kept, and the flag is theirs alone.
ScamCheck(r, t, stamps) ==
    LET got == job[r].got
        flag == evaluateTokenScam(got.goplus, got.honeypot)
        stamped == [token[t] EXCEPT !.stale = token[t].stale \ stamps]
    IN IF got.goplus = "unknown" /\ got.honeypot = "unknown"
       THEN /\ token' = [token EXCEPT ![t] = stamped]
            /\ Wrote(r, t, stamps, {})
       ELSE /\ token' = [token EXCEPT ![t] =
                 [stamped EXCEPT
                   !.goplus = IF got.goplus = "unknown" THEN stamped.goplus ELSE got.goplus,
                   !.trusted = IF got.goplus = "unknown" THEN stamped.trusted ELSE got.trusted,
                   !.honeypot = IF got.honeypot = "unknown" THEN stamped.honeypot
                                ELSE got.honeypot,
                   !.flagged = flag]]
            /\ Wrote(r, t, stamps, IF flag THEN PairsOf(t) ELSE {})

AskScam(r, t) ==
    /\ Visits(r, "scam", t) \/ Visits(r, "enrich", t)
    /\ Asked(r, t, ScamAnswers(t))
    /\ UNCHANGED token

WriteScam(r, t) == At(r, "scam", t) /\ ScamCheck(r, t, {"scam"})
\* runSecurityScanForToken: the scam check, then its own stamp.
WriteScan(r, t) == At(r, "enrich", t) /\ ScamCheck(r, t, {"scam", "enrich"})

AskRescore(r, t) ==
    /\ Visits(r, "rescore", t)
    /\ LET flag == evaluateTokenScam(token[t].goplus, token[t].honeypot) IN
        IF flag = token[t].flagged THEN Skipped(r, t)
        ELSE Asked(r, t, {[flagged |-> flag]})
    /\ UNCHANGED token

WriteRescore(r, t) ==
    /\ At(r, "rescore", t)
    /\ token' = [token EXCEPT ![t].flagged = job[r].got.flagged]
    /\ Wrote(r, t, {"rescore"}, PairsOf(t))

AskFactory(r, p) ==
    /\ Visits(r, "factory", p)
    /\ Asked(r, p, {[factory |-> f] : f \in Answer(pool[p].factory, "unknown")})
    /\ UNCHANGED pair

\* What was read is written, an unread factory too.
WriteFactory(r, p) ==
    /\ At(r, "factory", p)
    /\ pair' = [pair EXCEPT ![p].factory = job[r].got.factory, ![p].stale = FALSE]
    /\ Wrote(r, p, {"factory"}, IF job[r].got.factory = "unknown" THEN {} ELSE {p})

AskIngest(r, p) ==
    /\ Visits(r, "ingest", p)
    /\ \/ Asked(r, p, {[coins |-> {t \in TokensOf[p] : world[t].coin}]})
       \/ ~settled /\ Skipped(r, p)

\* GeckoTerminal's coin id replaces the row's, a blank one too.
WriteIngest(r, p) ==
    /\ At(r, "ingest", p)
    /\ token' = [t \in Token |->
                   IF t \in TokensOf[p] THEN [token[t] EXCEPT !.coin = t \in job[r].got.coins]
                   ELSE token[t]]
    /\ Wrote(r, p, {"ingest"}, {p})

Revalidate(r, p) ==
    /\ Visits(r, "revalidate", p)
    /\ job' = Onward(Taken(r, p), r, {p})

\* runVerdictForPair.
Read(r) ==
    /\ job[r].step = "judge"
    /\ \E p \in job[r].judge :
        job' = [job EXCEPT ![r].at = p, ![r].judge = job[r].judge \ {p},
                  ![r].read = [status |-> Verdict(p), floor |-> floor], ![r].step = "commit"]

(* A fault: the verdict is stamped with the time it is written. *)
CommitStampedLate(r) ==
    /\ job[r].step = "commit"
    /\ pair' = [pair EXCEPT ![job[r].at].status = job[r].read.status,
                            ![job[r].at].judged = job[r].read.floor]
    /\ job' = Onward(Stamped([job EXCEPT ![r].since = Running], r, job[r].at, {"revalidate"}),
                     r, job[r].judge)

Commit(r) ==
    /\ job[r].step = "commit"
    /\ pair' = [pair EXCEPT ![job[r].at].status = job[r].read.status,
                            ![job[r].at].judged = job[r].read.floor]
    /\ job' = Onward(Stamped(job, r, job[r].at, {"revalidate"}), r, job[r].judge)

IdentityPass(r)  == \E t \in Token : AskIdentity(r, t) \/ SkipIdentity(r, t) \/ WriteIdentity(r, t)
CanonicalPass(r) == \E t \in Token : AskCanonical(r, t) \/ SkipCanonical(r, t) \/ WriteCanonical(r, t)
ScamPass(r)      == \E t \in Token : AskScam(r, t) \/ WriteScam(r, t)
EnrichPass(r)    == \E t \in Token : WriteScan(r, t)
RescorePass(r)   == \E t \in Token : AskRescore(r, t) \/ WriteRescore(r, t)
FactoryPass(r)   == \E p \in Pair : AskFactory(r, p) \/ WriteFactory(r, p)

CheckTokens(r) ==
    \/ IdentityPass(r) \/ CanonicalPass(r) \/ ScamPass(r) \/ EnrichPass(r) \/ RescorePass(r)
    \/ \E p \in Pair : WriteIngest(r, p)
Look(r) == (\E p \in Pair : AskIngest(r, p) \/ Revalidate(r, p)) \/ Read(r)

Work(r) ==
    \/ Batch(r) \/ Finish(r)
    \/ /\ \/ CheckTokens(r) /\ UNCHANGED pair
          \/ FactoryPass(r) /\ UNCHANGED token
          \/ Look(r) /\ UNCHANGED <<token, pair>>
          \/ Commit(r) /\ UNCHANGED token
       /\ UNCHANGED <<truth, ran, jobs>>

---------------------------------------------------------------------------
(* The outside. *)

\* Tokens are listed, delisted and found out until things settle.
Change ==
    /\ ~settled
    /\ \E t \in Token, w \in Worlds : world' = [world EXCEPT ![t] = w]
    /\ UNCHANGED <<pool, settled, floor, token, pair, job, ran, jobs>>

SetThreshold ==
    /\ ~settled /\ floor < MaxFloor
    /\ floor' = floor + 1
    /\ UNCHANGED <<world, pool, settled, token, pair, job, ran, jobs>>

Settle ==
    /\ ~settled /\ settled' = TRUE
    /\ UNCHANGED <<world, pool, floor, token, pair, job, ran, jobs>>

\* A window passes.  A pass is short against it, so none is running.
NextWindow ==
    /\ ran /\ \A r \in Runner : job[r] = Idle
    /\ ran' = FALSE /\ jobs' = 0
    /\ token' = [t \in Token |->
         [token[t] EXCEPT !.due = IF token[t].due = 0 THEN 0 ELSE token[t].due - 1,
            !.cacheAge = IF token[t].cacheAge = CacheTtl THEN CacheTtl ELSE token[t].cacheAge + 1,
            !.stale = {"canonical", "scam", "enrich"}]]
    /\ pair' = [p \in Pair |-> [pair[p] EXCEPT !.stale = TRUE]]
    /\ UNCHANGED <<truth, job>>

Next ==
    \/ StartPipeline \/ StartPage
    \/ \E r \in Runner : Work(r) \/ Crash(r)
    \/ Change \/ SetThreshold \/ Settle \/ NextWindow

Spec == Init /\ [][Next]_vars

\* The pipeline is scheduled in every window and runs to its end; a started
\* page goes on; time passes.
Fairness ==
    /\ WF_vars(StartPipeline) /\ WF_vars(NextWindow)
    /\ \A r \in Runner : WF_vars(Work(r))

FairSpec == Spec /\ Fairness

---------------------------------------------------------------------------
\* Every job ends, though a drain loop runs until nothing is selected and the
\* other runner stamps, unstamps and re-selects rows meanwhile
\* (drainBatches, and the loops of the pass pages).
PassesEnd == \A r \in Runner : job[r] # Idle ~> job[r] = Idle

\* Once sources answer and nothing changes, the verified pairs end up exactly
\* those that deserve it, whatever was missed, failed or written over before.
Deserves(p) ==
    /\ ~Thin(p) /\ pool[p].factory = "canonical"
    /\ \A t \in TokensOf[p] :
        /\ world[t].coin \/ aggregateIdentity({CategoryOf[s] : s \in world[t].knows})
        /\ ~evaluateTokenScam(world[t].goplus, world[t].honeypot)
        /\ ~(world[t].coin /\ world[t].canonical = "other")
TruthPrevails ==
    <>[]settled => <>[](\A p \in Pair : pair[p].status = "AutoVerified" <=> Deserves(p))

\* When an operator's revalidation ends, no pair stands on thresholds older
\* than those in force when it began, though verdicts that were being run at
\* that moment are written, and stamp their pairs, in between
\* (pages/api/admin/revalidate.ts, verdictAt in runVerdictForPair).
RevalidationIsComplete ==
    [][job[Page].pass = "revalidate" /\ Finish(Page)
         => \A p \in Pair : pair[p].judged >= job[Page].from]_vars

\* The stored flag is what the rule says of the stored answers, so a re-score
\* from the cache agrees with the live check (evaluateTokenScam).
LiveAndRescoreAgree ==
    \A t \in Token : token[t].flagged = evaluateTokenScam(token[t].goplus, token[t].honeypot)
===========================================================================
