--------------------------- MODULE IngestProofs ---------------------------
(***************************************************************************)
(* Theorems about the ingest, for any sources, pools and pages and any     *)
(* number of jobs, changes and faults.                                     *)
(***************************************************************************)
EXTENDS Ingest, FiniteSetTheorems, TLAPS

(* A finite set of naturals that has a member has a least one.              *)
LEMMA SomeLeast ==
    ASSUME NEW S \in SUBSET Nat, IsFiniteSet(S), S # {}
    PROVE  \E i \in S : \A j \in S : i <= j
<1> DEFINE Below(i) == {k \in S : k < i}
           T == {Below(i) : i \in S}
           R == StrictSubsetOrdering(S)
           Parts == SUBSET S
<1>1. IsWellFoundedOn(R, Parts)
  BY FS_FiniteSubsetsOfFinite, FS_StrictSubsetOrderingWellFounded
<1>2. T \subseteq Parts /\ T # {}
  <2>1. \A i \in S : Below(i) \in Parts
    OBVIOUS
  <2>2. PICK i \in S : TRUE
    OBVIOUS
  <2> HIDE DEF Below, Parts
  <2>3. Below(i) \in T
    OBVIOUS
  <2> QED BY <2>1, <2>3
<1>3. \E x \in T : \A y \in T : ~ (<<y, x>> \in R)
  <2> HIDE DEF R, T, Parts
  <2> QED BY <1>1, <1>2, WFMin, Zenon
<1>4. PICK i \in S : \A t \in T : ~ (<<t, Below(i)>> \in R)
  <2> HIDE DEF R
  <2> QED BY <1>3
<1>5. ASSUME NEW j \in S, ~(i <= j) PROVE FALSE
  <2>1. Below(j) \subseteq Below(i) /\ j \in Below(i) /\ j \notin Below(j)
    <3> HIDE DEF T, R, Parts
    <3>1. i \in Nat /\ j \in Nat /\ j < i /\ \A k \in S : k \in Nat
      BY <1>5
    <3>2. \A k \in S : k < j => k < i
      BY <3>1
    <3>3. ~(j < j)
      BY <3>1
    <3> QED BY <3>1, <3>2, <3>3, Zenon
  <2>2. Below(j) \in SUBSET S /\ Below(i) \in SUBSET S /\ Below(j) # Below(i)
    BY <2>1
  <2>3. Below(j) \in T
    OBVIOUS
  <2> HIDE DEF Below, T
  <2>4. <<Below(j), Below(i)>> \in R
    BY <2>1, <2>2 DEF StrictSubsetOrdering
  <2> QED BY <2>3, <2>4, <1>4
<1> QED BY <1>5

(* A finite set of rows stays finite when each is edited.                  *)
LEMMA ImageFinite ==
    ASSUME NEW S, IsFiniteSet(S), NEW T, NEW f \in [S -> T]
    PROVE  IsFiniteSet({f[x] : x \in S})
<1>1. f \in Surjection(S, {f[x] : x \in S})
  BY DEF Surjection
<1> QED
  BY <1>1, FS_Surjection

---------------------------------------------------------------------------
(* Types.                                                                  *)

\* A job that stores has a claim for what it stores, and one that is after a
\* threshold or a page has a source.
Handy(j) ==
    /\ j.step \in {"store", "create"} => j.todo \subseteq DOMAIN j.claims
    /\ j.step = "create" => j.pool \in DOMAIN j.claims
    /\ \/ j.step \in {"threshold", "seed"}
       \/ j.kind = "ingest" /\ j.step \in {"fetch", "store", "create"}
       => j.at \in Source

TypeInv ==
    /\ TypeOK
    /\ IsFiniteSet(pairs)
    /\ \A r \in Process : Handy(job[r])

JobOK(j) == j \in Job /\ Handy(j)

LEMMA Constants ==
    /\ Source \subseteq Nat \ {0} /\ IsFiniteSet(Source)
    /\ SourceOf \in [Pool -> Source]
    /\ LastPage \in Nat \ {0} /\ Horizon \in Nat \ {0}
    /\ MaxChanges \in Nat /\ MaxFaults \in Nat /\ MaxJobs \in Nat
BY ConstantsAssumption

LEMMA NoClaims == <<>> \in Claims /\ DOMAIN <<>> = {}
<1>1. <<>> \in [{} -> Claim] /\ DOMAIN <<>> = {}
  OBVIOUS
<1> QED
  BY <1>1 DEF Claims

LEMMA IdleOK == JobOK(Idle)
BY NoClaims, Constants DEF JobOK, Job, Handy, Idle
\* What a step of a job leaves well typed.
JobsOK == job \in [Process -> Job] /\ \A r \in Process : Handy(job[r])
RowsOK == pairs \subseteq Row /\ IsFiniteSet(pairs) /\ thresholds \in [Source -> Nat]

LEMMA Replaced ==
    ASSUME JobsOK, NEW r \in Process, NEW j, JobOK(j), job' = [job EXCEPT ![r] = j]
    PROVE  JobsOK'
<1>1. job' \in [Process -> Job]
  BY DEF JobsOK, JobOK
<1>2. \A q \in Process : Handy(job'[q])
  <2> TAKE q \in Process
  <2>1. job'[q] = IF q = r THEN j ELSE job[q]
    BY DEF JobsOK
  <2> QED
    BY <2>1 DEF JobsOK, JobOK
<1> QED
  BY <1>1, <1>2 DEF JobsOK

\* The least of a set of sources is one of them.
LEMMA FirstIs ==
    ASSUME NEW S \in SUBSET Source, S # {}
    PROVE  First(S) \in S /\ \A q \in S : First(S) <= q
<1>1. S \in SUBSET Nat /\ IsFiniteSet(S)
  BY Constants, FS_Subset
<1>2. \E s \in S : \A q \in S : s <= q
  BY <1>1, SomeLeast
<1> QED
  BY <1>2 DEF First

LEMMA ClaimsTyped ==
    ASSUME NEW S \in SUBSET Pool, NEW silent
    PROVE  gtCorroborate(S, silent) \in [S -> Claim]
BY DEF gtCorroborate, Claim

(* What is stored is complete, and has a claim. *)
LEMMA StoresOK ==
    ASSUME JobsOK, NEW r \in Process, NEW S \in SUBSET Pool, NEW silent,
           job[r].kind = "ingest" => job[r].at \in Source, Stores(r, S, silent)
    PROVE  JobsOK'
<1> DEFINE todo == S \cap Complete
           claims == IF job[r].kind \in {"first", "token"}
                     THEN [p \in todo |-> gtCorroborate({p}, silent)[p]]
                     ELSE gtCorroborate(todo, silent)
           j == [job[r] EXCEPT !.todo = todo, !.step = "store", !.claims = claims]
<1>1. job[r] \in Job
  BY DEF JobsOK
<1>2. todo \in SUBSET Pool
  OBVIOUS
<1>3. claims \in [todo -> Claim]
  <2>1. \A p \in todo : gtCorroborate({p}, silent) \in [{p} -> Claim]
    BY <1>2, ClaimsTyped
  <2>2. \A p \in todo : gtCorroborate({p}, silent)[p] \in Claim
    BY <2>1
  <2>3. gtCorroborate(todo, silent) \in [todo -> Claim]
    BY <1>2, ClaimsTyped
  <2> QED
    BY <2>2, <2>3
<1>4. job' = [job EXCEPT ![r] = j]
  BY <1>1 DEF Stores, Job, JobsOK
<1> HIDE DEF todo, claims
<1>5. claims \in Claims /\ DOMAIN claims = todo
  BY <1>2, <1>3 DEF Claims
<1>6. JobOK(j)
  BY <1>1, <1>2, <1>5 DEF JobOK, Job, Handy
<1> HIDE DEF j
<1> QED
  BY <1>4, <1>6, Replaced
(* The pages behind a call stay pages of sources. *)
LEMMA TurnedOK ==
    ASSUME JobsOK, NEW r \in Process, NEW hadData, job[r].at \in Source, Turned(r, hadData)
    PROVE  JobsOK'
<1> DEFINE k == [job[r] EXCEPT !.todo = {}, !.claims = <<>>]
           last == ~hadData \/ k.page >= LastPage
           page == IF last THEN 1 ELSE k.page + 1
           cron == [k EXCEPT !.page = page, !.step = IF last THEN "next" ELSE "threshold"]
           cursor == IF last THEN k.cursor + 1 ELSE k.cursor
           web == Answered(k, cursor, page, Behind(k, hadData))
<1>1. job[r] \in Job
  BY DEF JobsOK
<1>2. k \in Job /\ k.at \in Source /\ DOMAIN k.claims = {} /\ k.todo = {}
  BY <1>1, NoClaims DEF Job
<1>3. job' = [job EXCEPT ![r] = IF r = Cron THEN cron ELSE web]
  BY DEF Turned
<1> HIDE DEF k
<1>4. page \in 1 .. LastPage /\ cursor \in Nat \ {0}
  <2>1. k.page \in 1 .. LastPage /\ k.cursor \in Nat \ {0}
    BY <1>2 DEF Job
  <2> QED
    BY <2>1, Constants
<1> HIDE DEF page, cursor
<1>5. JobOK(cron)
  BY <1>2, <1>4 DEF JobOK, Job, Handy
<1>6. Behind(k, hadData) \in SUBSET Page
  <2> DEFINE N == IF hadData THEN {k.page} ELSE k.page .. LastPage
  <2>1. k.page \in 1 .. LastPage /\ k.done \in SUBSET Page
    BY <1>2 DEF Job
  <2>2. N \in SUBSET (1 .. LastPage)
    BY <2>1, Constants
  <2>3. Behind(k, hadData) = k.done \cup {<<k.at, n>> : n \in N}
    BY DEF Behind
  <2> HIDE DEF N
  <2>4. \A n \in N : <<k.at, n>> \in Page
    BY <1>2, <2>2 DEF Page
  <2> QED
    BY <2>1, <2>3, <2>4
<1>7. JobOK(web)
  <2> DEFINE done == Behind(k, hadData)
  <2> HIDE DEF done
  <2>1. /\ Answered(k, cursor, page, done) \in Job
        /\ Answered(k, cursor, page, done).step \in {"call", "done"}
    <3>1. done \in SUBSET Page
      BY <1>6 DEF done
    <3> DEFINE base == [k EXCEPT !.cursor = cursor, !.page = page, !.count = 0, !.done = done]
    <3>2. base \in Job
      <4>1. [k EXCEPT !.cursor = cursor, !.page = page, !.count = 0] \in Job
        BY <1>2, <1>4, 0 \in Nat DEF Job
      <4> QED
        BY <1>2, <3>1, <4>1 DEF Job
    <3>3. PICK step \in {"done", "call"} :
            Answered(k, cursor, page, done) = [base EXCEPT !.step = step]
      BY <1>2 DEF Answered, Job
    <3> HIDE DEF base
    <3> QED
      BY <3>2, <3>3 DEF Job
  <2>2. Handy(Answered(k, cursor, page, done))
    BY <2>1 DEF Handy
  <2> QED
    BY <2>1, <2>2 DEF JobOK, done
<1> HIDE DEF cron, web
<1> QED
  BY <1>3, <1>5, <1>7, Replaced

LEMMA ThresholdsOK ==
    ASSUME JobsOK, RowsOK, NEW r \in Process, FindThreshold(r) \/ CreateThreshold(r)
    PROVE  JobsOK' /\ RowsOK'
<1>1. job[r] \in Job /\ job[r].at \in Source /\ Handy(job[r])
  BY DEF JobsOK, Handy, FindThreshold, CreateThreshold
<1>2. AfterThreshold(r) \in {"next", "fetch"}
  BY DEF AfterThreshold
<1>3. PICK step \in {"seed", "next", "fetch"} : Step(r, step)
  BY <1>2 DEF FindThreshold, CreateThreshold
<1> DEFINE j == [job[r] EXCEPT !.step = step]
<1>4. JobOK(j)
  BY <1>1, <1>3 DEF JobOK, Job, Handy
<1>5. job' = [job EXCEPT ![r] = j]
  BY <1>1, <1>3 DEF Step, Job, JobsOK
<1> HIDE DEF j
<1>6. JobsOK'
  BY <1>4, <1>5, Replaced
<1>7. RowsOK'
  BY <1>1 DEF RowsOK, FindThreshold, CreateThreshold
<1> QED
  BY <1>6, <1>7

LEMMA PagesAreOfPools ==
    /\ \A s, n : PoolPage(s, n) \in SUBSET Pool
    /\ \A S \in SUBSET Pool : ByAddress(S) \in SUBSET Pool
BY DEF PoolPage, Deepest, Listed, ByAddress

LEMMA FetchesOK ==
    ASSUME JobsOK, RowsOK, NEW r \in Process, FetchPage(r) \/ FetchByAddress(r)
    PROVE  JobsOK' /\ RowsOK'
<1>1. RowsOK'
  BY DEF RowsOK, FetchPage, FetchByAddress
<1>2. job[r] \in Job /\ (job[r].kind = "ingest" => job[r].at \in Source)
  BY DEF JobsOK, Handy, FetchPage, FetchByAddress
<1>3. CASE FetchPage(r)
  <2>1. PICK raw \in SUBSET Pool : Turned(r, FALSE) \/ Stores(r, raw, FALSE) \/ Stores(r, raw, TRUE)
    BY <1>3, PagesAreOfPools DEF FetchPage
  <2> QED
    BY <1>1, <1>2, <1>3, <2>1, StoresOK, TurnedOK DEF FetchPage
<1>4. CASE FetchByAddress(r)
  <2>1. job[r].todo \in SUBSET Pool
    BY <1>2 DEF Job
  <2>2. PICK raw \in SUBSET Pool :
          Stores(r, {}, FALSE) \/ Stores(r, raw, FALSE) \/ Stores(r, raw, TRUE)
    BY <1>4, <2>1, PagesAreOfPools DEF FetchByAddress
  <2>3. {} \in SUBSET Pool
    OBVIOUS
  <2> QED
    BY <1>1, <1>2, <2>2, <2>3, StoresOK
<1> QED
  BY <1>3, <1>4
LEMMA JudgedTyped ==
    ASSUME NEW row \in Row
    PROVE  Judged(row) \in Row
<1>1. \A s \in Automatic : [row EXCEPT !.status = s] \in Row
  BY Constants DEF Row
<1>2. {"AutoRejected", "NeedsReview", "AutoVerified"} \subseteq Automatic
  BY DEF Automatic
<1> QED
  BY <1>1, <1>2 DEF Judged

LEMMA FreshTyped ==
    ASSUME JobsOK, NEW r \in Process, NEW p \in DOMAIN job[r].claims, NEW row \in Row
    PROVE  Fresh(r, p, row) \in Row
<1>1. job[r].claims \in Claims /\ job[r].since \in BOOLEAN
  BY DEF JobsOK, Job
<1>2. job[r].claims[p] \in Claim
  BY <1>1 DEF Claims
<1>3. 0 \in 0 .. Horizon
  BY Constants
<1>4. [row EXCEPT !.age = 0, !.seen = job[r].since, !.claim = job[r].claims[p]] \in Row
  BY <1>1, <1>2, <1>3 DEF Row
<1> QED
  BY <1>4, JudgedTyped DEF Fresh

LEMMA StorePoolOK ==
    ASSUME JobsOK, RowsOK, NEW r \in Process, NEW p \in Pool, StorePool(r, p)
    PROVE  JobsOK' /\ RowsOK'
<1>1. job[r] \in Job /\ Handy(job[r]) /\ p \in job[r].todo /\ job[r].step = "store"
  BY DEF JobsOK, StorePool
<1>2. p \in DOMAIN job[r].claims
  BY <1>1 DEF Handy
<1>3. CASE /\ \E row \in Rows(p) : pairs' = (pairs \ {row}) \cup {Fresh(r, p, row)}
           /\ job' = [job EXCEPT ![r].todo = job[r].todo \ {p}]
  <2> DEFINE j == [job[r] EXCEPT !.todo = job[r].todo \ {p}]
  <2>1. PICK row \in Rows(p) : pairs' = (pairs \ {row}) \cup {Fresh(r, p, row)}
    BY <1>3
  <2>2. row \in Row
    BY <2>1 DEF Rows, RowsOK
  <2>3. Fresh(r, p, row) \in Row
    BY <1>2, <2>2, FreshTyped
  <2>4. IsFiniteSet(pairs')
    BY <2>1, FS_RemoveElement, FS_AddElement DEF RowsOK
  <2>5. JobOK(j)
    BY <1>1 DEF JobOK, Job, Handy
  <2>6. job' = [job EXCEPT ![r] = j]
    BY <1>1, <1>3 DEF JobsOK, Job
  <2> HIDE DEF j
  <2>7. JobsOK'
    BY <2>5, <2>6, Replaced
  <2> QED
    BY <2>1, <2>3, <2>4, <2>7 DEF RowsOK, StorePool
<1>4. CASE /\ job' = [job EXCEPT ![r].todo = job[r].todo \ {p}, ![r].pool = p,
                                 ![r].step = "create"]
           /\ UNCHANGED pairs
  <2> DEFINE j == [job[r] EXCEPT !.todo = job[r].todo \ {p}, !.pool = p, !.step = "create"]
  <2>1. JobOK(j)
    BY <1>1, <1>2 DEF JobOK, Job, Handy
  <2>2. job' = [job EXCEPT ![r] = j]
    BY <1>1, <1>4 DEF JobsOK, Job
  <2> HIDE DEF j
  <2>3. JobsOK'
    BY <2>1, <2>2, Replaced
  <2> QED
    BY <1>4, <2>3 DEF RowsOK, StorePool
<1> QED
  BY <1>3, <1>4 DEF StorePool

LEMMA CreatePairOK ==
    ASSUME JobsOK, RowsOK, NEW r \in Process, CreatePair(r)
    PROVE  JobsOK' /\ RowsOK'
<1> DEFINE p == job[r].pool
           new == [pool |-> p, id |-> Cardinality(Rows(p)) + 1, status |-> "NeedsReview",
                   age |-> 0, seen |-> FALSE, claim |-> "unknown"]
           j == [job[r] EXCEPT !.pool = None, !.step = "store"]
<1>1. job[r] \in Job /\ Handy(job[r]) /\ job[r].step = "create"
  BY DEF JobsOK, CreatePair
<1>2. p \in DOMAIN job[r].claims /\ p \in Pool
  <2>1. p \in DOMAIN job[r].claims
    BY <1>1 DEF Handy
  <2> QED
    BY <1>1, <2>1 DEF Job, Claims
<1>3. Cardinality(Rows(p)) + 1 \in Nat \ {0}
  <2>1. IsFiniteSet(Rows(p))
    BY FS_Subset DEF Rows, RowsOK
  <2> QED
    BY <2>1, FS_CardinalityType
<1>4. new \in Row
  <2>1. 0 \in 0 .. Horizon
    BY Constants
  <2> QED
    BY <1>2, <1>3, <2>1, Constants DEF Row, Automatic, Claim
<1>5. Fresh(r, p, new) \in Row /\ pairs' = pairs \cup {Fresh(r, p, new)}
  <2> HIDE DEF new
  <2>1. Fresh(r, p, new) \in Row
    BY <1>2, <1>4, FreshTyped
  <2>2. pairs' = pairs \cup {Fresh(r, p, new)}
    BY DEF CreatePair, new
  <2> QED
    BY <2>1, <2>2
<1>6. RowsOK'
  <2> HIDE DEF new
  <2>1. IsFiniteSet(pairs')
    BY <1>5, FS_AddElement DEF RowsOK
  <2> QED
    BY <1>5, <2>1 DEF RowsOK, CreatePair
<1>7. JobOK(j)
  BY <1>1 DEF JobOK, Job, Handy
<1>8. job' = [job EXCEPT ![r] = j]
  BY <1>1 DEF JobsOK, Job, CreatePair
<1> HIDE DEF j
<1> QED
  BY <1>6, <1>7, <1>8, Replaced
(* The verdicts of a pool's rows are written together. *)
LEMMA JudgedRowsOK ==
    ASSUME RowsOK, NEW p, pairs' = (pairs \ Rows(p)) \cup {Judged(row) : row \in Rows(p)}
    PROVE  pairs' \subseteq Row /\ IsFiniteSet(pairs')
<1> DEFINE f == [row \in Rows(p) |-> Judged(row)]
<1>1. Rows(p) \subseteq pairs /\ Rows(p) \subseteq Row /\ IsFiniteSet(Rows(p))
  BY FS_Subset DEF Rows, RowsOK
<1>2. \A row \in Rows(p) : Judged(row) \in Row
  BY <1>1, JudgedTyped
<1>3. f \in [Rows(p) -> Row] /\ {f[row] : row \in Rows(p)} = {Judged(row) : row \in Rows(p)}
  BY <1>2
<1> HIDE DEF f
<1>4. IsFiniteSet({Judged(row) : row \in Rows(p)})
  BY <1>1, <1>3, ImageFinite
<1>5. IsFiniteSet(pairs \ Rows(p))
  BY FS_Difference DEF RowsOK
<1>6. IsFiniteSet(pairs')
  BY <1>4, <1>5, FS_Union
<1> QED
  BY <1>2, <1>6 DEF RowsOK

\* The marks and ages of the rows.
LEMMA UnmarkedTyped ==
    ASSUME RowsOK
    PROVE  Unmarked \subseteq Row /\ IsFiniteSet(Unmarked)
<1> DEFINE f == [row \in pairs |-> [row EXCEPT !.seen = FALSE]]
<1>1. \A row \in pairs : [row EXCEPT !.seen = FALSE] \in Row
  BY DEF RowsOK, Row
<1>2. f \in [pairs -> Row] /\ {f[row] : row \in pairs} = Unmarked
  BY <1>1 DEF Unmarked
<1> HIDE DEF f
<1>3. IsFiniteSet(Unmarked)
  BY <1>2, ImageFinite DEF RowsOK
<1> QED
  BY <1>2, <1>3

LEMMA PoolsOfRows ==
    ASSUME RowsOK
    PROVE  /\ {row.pool : row \in pairs} \in SUBSET Pool
           /\ Unseen \in SUBSET Pool
           /\ \A t : PairsWith(t) \in SUBSET Pool
<1>1. \A row \in pairs : row.pool \in Pool
  BY DEF RowsOK, Row
<1> QED
  BY <1>1 DEF Unseen, PairsWith

LEMMA AheadTyped ==
    ASSUME JobsOK, NEW r \in Process
    PROVE  Ahead(r) \in SUBSET Source
BY DEF Ahead, JobsOK, Job

LEMMA StoredOK ==
    ASSUME JobsOK, RowsOK, NEW r \in Process, Stored(r)
    PROVE  JobsOK' /\ RowsOK'
<1>1. job[r] \in Job /\ Handy(job[r]) /\ job[r].step = "store"
  BY DEF JobsOK, Stored
<1>2. RowsOK'
  BY DEF Stored, RowsOK
<1>3. CASE job[r].kind = "ingest"
  <2>1. Turned(r, TRUE) /\ job[r].at \in Source
    BY <1>1, <1>3 DEF Stored, Handy
  <2> QED
    BY <1>2, <2>1, TurnedOK
<1>4. CASE job[r].kind = "first"
  <2> DEFINE j == [job[r] EXCEPT !.step = "select", !.claims = <<>>]
  <2>1. JobOK(j)
    BY <1>1, <1>4, NoClaims DEF JobOK, Job, Handy
  <2>2. job' = [job EXCEPT ![r] = j]
    BY <1>1, <1>4 DEF JobsOK, Job, Stored
  <2> HIDE DEF j
  <2> QED
    BY <1>2, <2>1, <2>2, Replaced
<1>5. CASE job[r].kind \in {"add", "token"}
  <2> DEFINE j == [job[r] EXCEPT !.step = "verify", !.queue = ToVerify(job[r]),
                     !.claims = <<>>, !.token = None, !.at = 0]
  <2>1. ToVerify(job[r]) \in SUBSET Pool
    <3>1. DOMAIN job[r].claims \in SUBSET Pool
      BY <1>1 DEF Job, Claims
    <3>2. PairsWith(job[r].token) \in SUBSET Pool
      BY PoolsOfRows
    <3> QED
      BY <3>1, <3>2 DEF ToVerify
  <2>2. JobOK(j)
    BY <1>1, <1>5, <2>1, NoClaims DEF JobOK, Job, Handy
  <2>3. \/ job' = [job EXCEPT ![r] = Idle]
        \/ job' = [job EXCEPT ![r] = j]
    BY <1>5 DEF Stored
  <2> HIDE DEF j
  <2> QED
    BY <1>2, <2>2, <2>3, IdleOK, Replaced
<1>6. CASE job[r].kind \notin {"ingest", "first", "add", "token"}
  <2> DEFINE j == [job[r] EXCEPT !.step = "next", !.claims = <<>>]
  <2>1. JobOK(j)
    BY <1>1, <1>6, NoClaims DEF JobOK, Job, Handy
  <2>2. job' = [job EXCEPT ![r] = j]
    BY <1>1, <1>6 DEF JobsOK, Job, Stored
  <2> HIDE DEF j
  <2> QED
    BY <1>2, <2>1, <2>2, Replaced
<1> QED
  BY <1>3, <1>4, <1>5, <1>6

LEMMA NextTokenPoolsOK ==
    ASSUME JobsOK, RowsOK, NEW r \in Process, NextTokenPools(r)
    PROVE  JobsOK' /\ RowsOK'
<1> DEFINE ahead == [job[r] EXCEPT !.at = First(Ahead(r)), !.step = "threshold"]
           pools == {p \in WantedPools(job[r]) : SourceOf[p] \in job[r].known}
           fetch == [job[r] EXCEPT !.at = 0, !.step = "fetch", !.todo = pools]
<1>1. job[r] \in Job /\ job[r].kind # "ingest"
  BY DEF JobsOK, NextTokenPools
<1>2. RowsOK'
  BY DEF NextTokenPools, RowsOK
<1>3. job' = [job EXCEPT ![r] = IF Ahead(r) # {} THEN ahead ELSE fetch]
  BY DEF NextTokenPools
<1>4. Ahead(r) # {} => JobOK(ahead)
  <2>1. Ahead(r) # {} => First(Ahead(r)) \in Source
    BY AheadTyped, FirstIs
  <2> QED
    BY <1>1, <2>1 DEF JobOK, Job, Handy
<1>5. JobOK(fetch)
  <2>1. pools \in SUBSET Pool
    BY ConstantsAssumption DEF WantedPools
  <2> HIDE DEF pools
  <2>2. fetch \in Job
    BY <1>1, <2>1 DEF Job
  <2>3. fetch.step = "fetch" /\ fetch.kind # "ingest"
    BY <1>1 DEF Job
  <2> QED
    BY <2>2, <2>3 DEF JobOK, Handy
<1> HIDE DEF ahead, fetch
<1> QED
  BY <1>2, <1>3, <1>4, <1>5, Replaced
(* The pipeline's own steps. *)
LEMMA NextSourceOK ==
    ASSUME JobsOK, RowsOK, NextSource
    PROVE  JobsOK' /\ RowsOK'
<1> DEFINE S == Ahead(Cron) \cap Ingestable
           source == [job[Cron] EXCEPT !.at = First(S), !.page = 1, !.step = "threshold"]
           first == [job[Cron] EXCEPT !.kind = "first", !.at = 0]
<1>1. job[Cron] \in Job /\ Cron \in Process
  BY DEF JobsOK, Process
<1>2. job[Cron].step = "next" /\ RowsOK'
  BY DEF NextSource, RowsOK
<1>3. job' = [job EXCEPT ![Cron] = IF S # {} THEN source ELSE first]
  BY DEF NextSource
<1>4. S # {} => JobOK(source)
  <2>1. S # {} => First(S) \in Source
    BY AheadTyped, FirstIs, <1>1
  <2>2. 1 \in 1 .. LastPage
    BY Constants
  <2> HIDE DEF S
  <2> QED
    BY <1>1, <2>1, <2>2 DEF JobOK, Job, Handy
<1>5. JobOK(first)
  BY <1>1, <1>2 DEF JobOK, Job, Handy
<1> HIDE DEF source, first
<1> QED
  BY <1>1, <1>2, <1>3, <1>4, <1>5, Replaced

LEMMA SelectUnseenOK ==
    ASSUME JobsOK, RowsOK, SelectUnseen
    PROVE  JobsOK' /\ RowsOK'
<1> DEFINE queue == RefreshSelection(job[Cron].known)
           j == [job[Cron] EXCEPT !.kind = "refresh", !.step = "next", !.queue = queue]
<1>1. job[Cron] \in Job /\ Cron \in Process
  BY DEF JobsOK, Process
<1>2. RowsOK'
  BY UnmarkedTyped DEF SelectUnseen, RowsOK
<1>3. queue \in SUBSET Pool
  BY PoolsOfRows DEF RefreshSelection
<1>4. job' = [job EXCEPT ![Cron] = j]
  BY <1>1 DEF SelectUnseen, JobsOK, Job
<1> HIDE DEF queue
<1>5. j \in Job
  BY <1>1, <1>3 DEF Job
<1>6. j.step = "next" /\ j.kind = "refresh"
  BY <1>1 DEF Job
<1>7. JobOK(j)
  BY <1>5, <1>6 DEF JobOK, Handy
<1> HIDE DEF j
<1> QED
  BY <1>1, <1>2, <1>4, <1>7, Replaced

LEMMA NextRefreshOK ==
    ASSUME JobsOK, RowsOK, NextRefresh
    PROVE  JobsOK' /\ RowsOK'
<1>1. job[Cron] \in Job /\ Cron \in Process
  BY DEF JobsOK, Process
<1>2. job[Cron].kind = "refresh" /\ job[Cron].step = "next" /\ RowsOK'
  BY DEF NextRefresh, RowsOK
<1>3. CASE job[Cron].queue # {}
  <2>1. PICK s \in {SourceOf[p] : p \in job[Cron].queue} :
          \E B \in Batches({p \in job[Cron].queue : SourceOf[p] = s}) :
            job' = [job EXCEPT ![Cron].queue = job[Cron].queue \ B, ![Cron].todo = B,
                      ![Cron].at = s, ![Cron].step = "threshold"]
    BY <1>3 DEF NextRefresh
  <2>2. PICK B \in Batches({p \in job[Cron].queue : SourceOf[p] = s}) :
            job' = [job EXCEPT ![Cron].queue = job[Cron].queue \ B, ![Cron].todo = B,
                      ![Cron].at = s, ![Cron].step = "threshold"]
    BY <2>1
  <2> DEFINE j == [job[Cron] EXCEPT !.queue = job[Cron].queue \ B, !.todo = B,
                     !.at = s, !.step = "threshold"]
  <2>3. job[Cron].queue \in SUBSET Pool
    BY <1>1 DEF Job
  <2>4. s \in Source /\ B \in SUBSET Pool
    BY <2>1, <2>2, <2>3, Constants DEF Batches
  <2>5. job[Cron].queue \ B \in SUBSET Pool /\ s \in Source \cup {0}
    BY <2>3, <2>4
  <2>6. j \in Job
    BY <1>1, <2>4, <2>5 DEF Job
  <2>7. j.step = "threshold" /\ j.at = s
    BY <1>1 DEF Job
  <2>8. JobOK(j)
    <3> HIDE DEF j
    <3> QED BY <2>4, <2>6, <2>7 DEF JobOK, Handy
  <2>9. job' = [job EXCEPT ![Cron] = j]
    BY <1>1, <2>2 DEF JobsOK, Job
  <2> HIDE DEF j
  <2> QED
    BY <1>1, <1>2, <2>8, <2>9, Replaced
<1>4. CASE job[Cron].queue = {}
  <2> DEFINE queue == {row.pool : row \in pairs}
             j == [job[Cron] EXCEPT !.kind = "revalidate", !.at = 0, !.queue = queue]
  <2>1. queue \in SUBSET Pool
    BY PoolsOfRows
  <2>2. job' = [job EXCEPT ![Cron] = j]
    BY <1>1, <1>4 DEF NextRefresh, JobsOK, Job
  <2> HIDE DEF queue
  <2>3. JobOK(j)
    BY <1>1, <1>2, <2>1 DEF JobOK, Job, Handy
  <2> HIDE DEF j
  <2> QED
    BY <1>1, <1>2, <2>2, <2>3, Replaced
<1> QED
  BY <1>3, <1>4

\* A job that only takes its queue further.
LEMMA QueueOK ==
    ASSUME NEW j \in Job, Handy(j), NEW Q \in SUBSET Pool, NEW M \in SUBSET Pool
    PROVE  /\ JobOK([j EXCEPT !.queue = Q])
           /\ JobOK([j EXCEPT !.queue = Q, !.met = M])
<1> DEFINE k == [j EXCEPT !.queue = Q]
           m == [j EXCEPT !.queue = Q, !.met = M]
<1>1. k \in Job /\ m \in Job
  BY DEF Job
<1>2. \A x \in {k, m} : /\ x.step = j.step /\ x.kind = j.kind /\ x.at = j.at
                         /\ x.todo = j.todo /\ x.claims = j.claims /\ x.pool = j.pool
  BY DEF Job
<1> HIDE DEF k, m
<1>3. Handy(k) /\ Handy(m)
  BY <1>2 DEF Handy
<1>4. JobOK(k) /\ JobOK(m)
  BY <1>1, <1>3 DEF JobOK
<1> QED
  BY <1>4 DEF k, m

LEMMA RevalidateOK ==
    ASSUME JobsOK, RowsOK, Revalidate
    PROVE  JobsOK' /\ RowsOK'
<1>1. job[Cron] \in Job /\ Cron \in Process /\ Handy(job[Cron])
  BY DEF JobsOK, Process
<1>2. CASE job[Cron].queue = {}
  BY <1>1, <1>2, IdleOK, Replaced DEF Revalidate, RowsOK
<1>3. CASE job[Cron].queue # {}
  <2>1. PICK p \in job[Cron].queue :
          /\ pairs' = (pairs \ Rows(p)) \cup {Judged(row) : row \in Rows(p)}
          /\ job' = [job EXCEPT ![Cron].queue = job[Cron].queue \ {p}]
    BY <1>3 DEF Revalidate
  <2>2. RowsOK'
    BY <2>1, JudgedRowsOK DEF RowsOK, Revalidate
  <2> DEFINE j == [job[Cron] EXCEPT !.queue = job[Cron].queue \ {p}]
  <2>3. job[Cron].queue \ {p} \in SUBSET Pool /\ {} \in SUBSET Pool
    BY <1>1 DEF Job
  <2>4. JobOK(j)
    BY <1>1, <2>3, QueueOK
  <2>5. job' = [job EXCEPT ![Cron] = j]
    BY <1>1, <2>1 DEF JobsOK, Job
  <2> HIDE DEF j
  <2> QED
    BY <1>1, <2>2, <2>4, <2>5, Replaced
<1> QED
  BY <1>2, <1>3

(* The steps of the operator's pages. *)
LEMMA NextThresholdOK ==
    ASSUME JobsOK, RowsOK, NextThreshold
    PROVE  JobsOK' /\ RowsOK'
<1> DEFINE j == [job[Web] EXCEPT !.at = First(Ahead(Web)), !.step = "threshold"]
<1>1. job[Web] \in Job /\ Web \in Process
  BY DEF JobsOK, Process
<1>2. job[Web].kind = "thresholds" /\ RowsOK'
  BY DEF NextThreshold, RowsOK
<1>3. job' = [job EXCEPT ![Web] = IF Ahead(Web) = {} THEN Idle ELSE j]
  BY DEF NextThreshold
<1>4. Ahead(Web) # {} => JobOK(j)
  <2>1. Ahead(Web) # {} => First(Ahead(Web)) \in Source
    BY <1>1, AheadTyped, FirstIs
  <2> QED
    BY <1>1, <1>2, <2>1 DEF JobOK, Job, Handy
<1> HIDE DEF j
<1> QED
  BY <1>1, <1>2, <1>3, <1>4, IdleOK, Replaced

LEMMA EnrichPairOK ==
    ASSUME JobsOK, RowsOK, EnrichPair
    PROVE  JobsOK' /\ RowsOK'
<1>1. job[Web] \in Job /\ Web \in Process /\ Handy(job[Web])
  BY DEF JobsOK, Process
<1>2. PICK p \in job[Web].queue :
        /\ job' = [job EXCEPT ![Web].queue = job[Web].queue \ {p},
                     ![Web].met = job[Web].met \cup {p}]
        /\ \/ pairs' = (pairs \ Rows(p)) \cup {Judged(row) : row \in Rows(p)}
           \/ UNCHANGED pairs
  BY DEF EnrichPair
<1>3. RowsOK'
  BY <1>2, JudgedRowsOK DEF RowsOK, EnrichPair
<1> DEFINE j == [job[Web] EXCEPT !.queue = job[Web].queue \ {p}, !.met = job[Web].met \cup {p}]
<1>4. job[Web].queue \ {p} \in SUBSET Pool /\ job[Web].met \cup {p} \in SUBSET Pool
  BY <1>1, <1>2 DEF Job
<1>5. JobOK(j)
  BY <1>1, <1>4, QueueOK
<1>6. job' = [job EXCEPT ![Web] = j]
  BY <1>1, <1>2 DEF JobsOK, Job
<1> HIDE DEF j
<1> QED
  BY <1>1, <1>3, <1>5, <1>6, Replaced

LEMMA DiscoverChainsOK ==
    ASSUME JobsOK, RowsOK, DiscoverChains
    PROVE  JobsOK' /\ RowsOK'
<1>1. job[Web] \in Job /\ Web \in Process /\ Handy(job[Web])
  BY DEF JobsOK, Process
<1>0. PICK t \in job[Web].hops : \E adds \in {OtherChains(t), {}} :
        job' = [job EXCEPT ![Web].hops = job[Web].hops \ {t}, ![Web].adds = adds]
  BY DEF DiscoverChains
<1>2. PICK adds \in {OtherChains(t), {}} :
        job' = [job EXCEPT ![Web].hops = job[Web].hops \ {t}, ![Web].adds = adds]
  BY <1>0
<1>3. RowsOK'
  BY DEF DiscoverChains, RowsOK
<1> DEFINE j == [job[Web] EXCEPT !.hops = job[Web].hops \ {t}, !.adds = adds]
<1>4. job[Web].hops \in SUBSET Token /\ adds \in SUBSET Token
  <2>1. t \in Token /\ job[Web].hops \in SUBSET Token
    BY <1>1, <1>2 DEF Job
  <2> QED
    BY <1>2, <2>1, ConstantsAssumption DEF OtherChains
<1>5. JobOK(j)
  <2>1. j \in Job
    BY <1>1, <1>4 DEF Job
  <2>2. j.step = "verify"
    BY <1>1 DEF Job, DiscoverChains
  <2>3. j.kind = job[Web].kind /\ j.at = job[Web].at
    BY <1>1 DEF Job
  <2> QED
    BY <2>1, <2>2, <2>3 DEF JobOK, Handy
<1>6. job' = [job EXCEPT ![Web] = j]
  BY <1>1, <1>2 DEF JobsOK, Job
<1> HIDE DEF j
<1> QED
  BY <1>1, <1>3, <1>5, <1>6, Replaced

LEMMA TokenPoolsOK ==
    ASSUME NEW j \in Job, NEW t \in Token, NEW S \in SUBSET Source
    PROVE  JobOK(TokenPools(j, t, S))
<1>1. Marking \in BOOLEAN
  BY DEF Marking
<1>2. S \cap ChainSources[t] \in SUBSET Source
  OBVIOUS
<1> DEFINE marking == Marking
           known == S \cap ChainSources[t]
<1> HIDE DEF marking, known
<1>3. TokenPools(j, t, S) = [j EXCEPT !.kind = "token", !.step = "next", !.token = t,
                               !.since = marking, !.known = known]
  BY DEF TokenPools, marking, known
<1>4. marking \in BOOLEAN /\ known \in SUBSET Source
  BY <1>1, <1>2 DEF marking, known
<1> DEFINE k == [j EXCEPT !.kind = "token", !.step = "next", !.token = t,
                  !.since = marking, !.known = known]
<1>5. k \in Job
  BY <1>4 DEF Job
<1>6. k.step = "next" /\ k.kind = "token"
  BY DEF Job
<1> HIDE DEF k
<1>7. JobOK(k)
  BY <1>5, <1>6 DEF JobOK, Handy
<1> QED
  BY <1>3, <1>7 DEF k

LEMMA AddSiblingOK ==
    ASSUME JobsOK, RowsOK, cache.rows \subseteq Source, AddSibling
    PROVE  JobsOK' /\ RowsOK'
<1>1. job[Web] \in Job /\ Web \in Process /\ Handy(job[Web]) /\ job[Web].step = "verify"
  BY DEF JobsOK, Process, AddSibling
<1>2. PICK t \in job[Web].adds :
        LET j == [job[Web] EXCEPT !.adds = job[Web].adds \ {t}]
        IN job' = [job EXCEPT ![Web] =
             IF cache.state = "loaded" THEN TokenPools(j, t, cache.rows) ELSE j]
  BY DEF AddSibling
<1>3. RowsOK'
  BY DEF AddSibling, RowsOK
<1> DEFINE j == [job[Web] EXCEPT !.adds = job[Web].adds \ {t}]
<1>4. t \in Token /\ JobOK(j)
  BY <1>1, <1>2 DEF JobOK, Job, Handy
<1>5. job' = [job EXCEPT ![Web] =
                IF cache.state = "loaded" THEN TokenPools(j, t, cache.rows) ELSE j]
  BY <1>2
<1> HIDE DEF j
<1>6. JobOK(TokenPools(j, t, cache.rows))
  BY <1>4, TokenPoolsOK DEF JobOK
<1> QED
  BY <1>1, <1>3, <1>4, <1>5, <1>6, Replaced
LEMMA WorkOK ==
    ASSUME JobsOK, RowsOK, cache.rows \subseteq Source, NEW r \in Process, Work(r)
    PROVE  JobsOK' /\ RowsOK'
<1>1. CASE FindThreshold(r) \/ CreateThreshold(r)
  BY <1>1, ThresholdsOK
<1>2. CASE \E p \in Pool : StorePool(r, p)
  BY <1>2, StorePoolOK
<1>3. CASE CreatePair(r)
  BY <1>3, CreatePairOK
<1>4. CASE Stored(r)
  BY <1>4, StoredOK
<1>5. CASE NextTokenPools(r)
  BY <1>5, NextTokenPoolsOK
<1>6. CASE NextSource \/ SelectUnseen \/ NextRefresh \/ Revalidate
  BY <1>6, NextSourceOK, SelectUnseenOK, NextRefreshOK, RevalidateOK
<1>7. CASE NextThreshold \/ AddSibling \/ EnrichPair \/ DiscoverChains
  BY <1>7, NextThresholdOK, AddSiblingOK, EnrichPairOK, DiscoverChainsOK
<1>8. CASE AddEnds
  <2>1. RowsOK' /\ job' = [job EXCEPT ![Web] = Idle] /\ Web \in Process
    BY <1>8 DEF AddEnds, RowsOK, Process
  <2> QED
    BY <2>1, IdleOK, Replaced
<1>9. CASE FetchPage(r) \/ FetchByAddress(r)
  BY <1>9, FetchesOK
<1> QED
  BY <1>1, <1>2, <1>3, <1>4, <1>5, <1>6, <1>7, <1>8, <1>9 DEF Work

\* The rest of the type invariant.
BoundsOK == changes \in 0 .. MaxChanges /\ faults \in 0 .. MaxFaults
RegistryOK ==
    /\ sources \subseteq Source
    /\ candidates \in [Source -> {None, "Pending", "Enabled", "Rejected"}]
    /\ promoting \in Source \cup {0}
    /\ cache \in [state : {"cold", "loaded", "failed"}, rows : SUBSET Source]
MarketOK == market \in [Pool -> Market] /\ \A p \in Pool : market[p] \in Markets[p]
RunsOK == ran \in BOOLEAN /\ jobs \in 0 .. MaxJobs

LEMMA TypeParts == TypeInv <=> /\ MarketOK /\ BoundsOK /\ RegistryOK /\ RowsOK
                               /\ JobsOK /\ RunsOK
BY DEF TypeInv, TypeOK, MarketOK, BoundsOK, RegistryOK, RowsOK, JobsOK, RunsOK

LEMMA Counted ==
    ASSUME BoundsOK
    PROVE  /\ Fault => BoundsOK'
           /\ Outside => BoundsOK'
           /\ UNCHANGED bounded => BoundsOK'
<1> USE Constants DEF BoundsOK
<1>1. Fault => BoundsOK'
  BY DEF Fault
<1>2. Outside => BoundsOK'
  BY DEF Outside
<1>3. UNCHANGED bounded => BoundsOK'
  BY DEF bounded
<1> QED
  BY <1>1, <1>2, <1>3

LEMMA LoadOK ==
    ASSUME RegistryOK, BoundsOK, NEW force \in BOOLEAN, getSources(force)
    PROVE  /\ cache' \in [state : {"cold", "loaded", "failed"}, rows : SUBSET Source]
           /\ BoundsOK'
<1>1. BoundsOK'
  <2>1. Fault \/ UNCHANGED bounded
    BY DEF getSources, bounded
  <2> QED
    BY <2>1, Counted
<1>2. cache' \in [state : {"cold", "loaded", "failed"}, rows : SUBSET Source]
  BY DEF getSources, RegistryOK
<1> QED
  BY <1>1, <1>2

(* A call reads the registry once and takes the source at its cursor. *)
LEMMA CallOK ==
    ASSUME JobsOK, cache'.rows \subseteq Source, Call
    PROVE  JobsOK'
<1> DEFINE j == [job[Web] EXCEPT !.count = Cardinality(cache'.rows),
                                 !.from = FromStart(cache'.rows)]
           s == At(cache'.rows, j.cursor)
           done == [j EXCEPT !.step = "done"]
           skip == Answered(j, j.cursor + 1, 1, j.done)
           page == [j EXCEPT !.at = First(s), !.step = "threshold", !.since = Marking]
<1>1. job[Web] \in Job /\ Web \in Process
  BY DEF JobsOK, Process
<1>2. j \in Job
  <2>1. IsFiniteSet(cache'.rows)
    BY Constants, FS_Subset
  <2>2. Cardinality(cache'.rows) \in Nat
    BY <2>1, FS_CardinalityType
  <2>3. FromStart(cache'.rows) \in SUBSET Source
    BY <1>1 DEF FromStart, Job
  <2> QED
    BY <1>1, <2>2, <2>3 DEF Job
<1>3. job' = [job EXCEPT ![Web] =
                IF s = {} THEN done ELSE IF s \cap Ingestable = {} THEN skip ELSE page]
  BY DEF Call
<1>4. s \in SUBSET Source
  BY DEF At
<1> HIDE DEF j, s
<1>5. JobOK(done)
  <2>1. done \in Job /\ done.step = "done"
    BY <1>2 DEF Job
  <2> QED
    BY <2>1 DEF JobOK, Handy
<1>6. JobOK(skip)
  <2>1. j.cursor + 1 \in Nat \ {0} /\ 1 \in 1 .. LastPage /\ 0 \in Nat /\ j.done \in SUBSET Page
    BY <1>2, Constants DEF Job
  <2>2. PICK step \in {"done", "call"} : skip =
          [j EXCEPT !.cursor = j.cursor + 1, !.page = 1, !.count = 0, !.done = j.done,
                    !.step = step]
    BY DEF Answered
  <2> DEFINE k == [j EXCEPT !.cursor = j.cursor + 1, !.page = 1, !.count = 0,
                            !.done = j.done, !.step = step]
  <2>3. k \in Job
    BY <1>2, <2>1 DEF Job
  <2>4. k.step = step
    BY <1>2 DEF Job
  <2> HIDE DEF k
  <2>5. JobOK(k)
    BY <2>3, <2>4 DEF JobOK, Handy
  <2> QED
    BY <2>2, <2>5 DEF k
<1>7. s # {} => JobOK(page)
  <2>1. s # {} => First(s) \in Source
    BY <1>4, FirstIs
  <2>2. Marking \in BOOLEAN
    BY DEF Marking
  <2> DEFINE marking == Marking
             k == [j EXCEPT !.at = First(s), !.step = "threshold", !.since = marking]
  <2>3. page = k /\ marking \in BOOLEAN
    BY <2>2
  <2> HIDE DEF marking
  <2>4. s # {} => k \in Job
    BY <1>2, <2>1, <2>3 DEF Job
  <2>5. k.step = "threshold" /\ k.at = First(s)
    BY <1>2 DEF Job
  <2> HIDE DEF k
  <2>6. s # {} => JobOK(k)
    BY <2>1, <2>4, <2>5 DEF JobOK, Handy
  <2> QED
    BY <2>3, <2>6
<1> HIDE DEF done, skip, page
<1> QED
  BY <1>1, <1>3, <1>5, <1>6, <1>7, Replaced
\* What the operator starts.
LEMMA StartsOK ==
    ASSUME JobsOK, RowsOK, RunsOK, NEW j, JobOK(j), Starts(j)
    PROVE  JobsOK' /\ RowsOK' /\ RunsOK'
<1>1. job' = [job EXCEPT ![Web] = j] /\ Web \in Process
  BY DEF Starts, Process
<1>2. JobsOK'
  BY <1>1, Replaced
<1>3. RowsOK' /\ RunsOK'
  BY Constants DEF Starts, RowsOK, RunsOK
<1> QED
  BY <1>2, <1>3

LEMMA StartingJobs ==
    /\ JobOK([Idle EXCEPT !.kind = "ingest", !.step = "call"])
    /\ \A S \in SUBSET Source :
         /\ JobOK([Idle EXCEPT !.kind = "ingest", !.step = "next", !.known = S, !.since = TRUE])
         /\ JobOK([Idle EXCEPT !.kind = "thresholds", !.step = "next", !.known = S])
<1>1. Idle \in Job
  BY IdleOK DEF JobOK
<1> DEFINE call == [Idle EXCEPT !.kind = "ingest", !.step = "call"]
           run(S) == [Idle EXCEPT !.kind = "ingest", !.step = "next", !.known = S, !.since = TRUE]
           page(S) == [Idle EXCEPT !.kind = "thresholds", !.step = "next", !.known = S]
<1>2. call \in Job /\ call.step = "call"
  BY <1>1 DEF Job
<1>3. ASSUME NEW S \in SUBSET Source
      PROVE  /\ run(S) \in Job /\ run(S).step = "next"
             /\ page(S) \in Job /\ page(S).step = "next"
  BY <1>1 DEF Job
<1> HIDE DEF call, run, page
<1>4. JobOK(call) /\ \A S \in SUBSET Source : JobOK(run(S)) /\ JobOK(page(S))
  BY <1>2, <1>3 DEF JobOK, Handy
<1> QED
  BY <1>4 DEF call, run, page

LEMMA AddPairOK ==
    ASSUME TypeInv, NEW p \in Pool, AddPair(p)
    PROVE  JobsOK' /\ RowsOK' /\ RunsOK'
<1>1. PICK hops \in {{}, Spidered(p)} :
        Starts([Idle EXCEPT !.kind = "add", !.step = "threshold", !.at = SourceOf[p],
                 !.todo = {p}, !.since = Marking, !.hops = hops])
  BY DEF AddPair
<1> DEFINE marking == Marking
           source == SourceOf[p]
           j == [Idle EXCEPT !.kind = "add", !.step = "threshold", !.at = source,
                   !.todo = {p}, !.since = marking, !.hops = hops]
<1>2. marking \in BOOLEAN /\ source \in Source /\ hops \in SUBSET Token
  BY ConstantsAssumption DEF Marking, Spidered
<1>3. Starts(j)
  BY <1>1
<1> HIDE DEF marking, source
<1>4. Idle \in Job
  BY IdleOK DEF JobOK
<1>5. j \in Job
  BY <1>2, <1>4 DEF Job
<1>6. j.step = "threshold" /\ j.at = source
  BY <1>4 DEF Job
<1> HIDE DEF j
<1>7. JobOK(j)
  BY <1>2, <1>5, <1>6 DEF JobOK, Handy
<1> QED
  BY <1>3, <1>7, StartsOK, TypeParts

LEMMA AddTokenOK ==
    ASSUME TypeInv, cache'.rows \subseteq Source, NEW t \in Token, AddToken(t)
    PROVE  JobsOK' /\ RowsOK' /\ RunsOK'
<1>1. PICK hops \in {{}, {t}} : Starts(TokenPools([Idle EXCEPT !.hops = hops], t, cache'.rows))
  BY DEF AddToken
<1>2. [Idle EXCEPT !.hops = hops] \in Job
  BY IdleOK DEF JobOK, Job
<1>3. JobOK(TokenPools([Idle EXCEPT !.hops = hops], t, cache'.rows))
  BY <1>2, TokenPoolsOK
<1> QED
  BY <1>1, <1>3, StartsOK, TypeParts

\* An operator's decision, and a window that passes.
LEMMA DecideOK ==
    ASSUME RowsOK, Decide
    PROVE  RowsOK'
<1>1. PICK row \in pairs : \E s \in FormStatus \ {row.status} :
        pairs' = (pairs \ {row}) \cup {[row EXCEPT !.status = s]}
  BY DEF Decide
<1>2. PICK s \in FormStatus \ {row.status} :
        pairs' = (pairs \ {row}) \cup {[row EXCEPT !.status = s]}
  BY <1>1
<1>3. s \in Manual /\ row \in Row
  BY <1>2, ConstantsAssumption DEF Manual, RowsOK
<1>4. [row EXCEPT !.status = s] \in Row
  BY <1>3 DEF Row
<1>5. IsFiniteSet(pairs')
  BY <1>2, FS_RemoveElement, FS_AddElement DEF RowsOK
<1> QED
  BY <1>2, <1>4, <1>5 DEF RowsOK, Decide

LEMMA NextWindowOK ==
    ASSUME RowsOK, NextWindow
    PROVE  RowsOK'
<1> DEFINE older(row) == IF row.age = Horizon THEN Horizon ELSE row.age + 1
           f == [row \in Unmarked |-> [row EXCEPT !.age = older(row)]]
<1>1. Unmarked \subseteq Row /\ IsFiniteSet(Unmarked)
  BY UnmarkedTyped
<1>2. ASSUME NEW row \in Unmarked
      PROVE  [row EXCEPT !.age = older(row)] \in Row
  <2>1. row \in Row /\ row.age \in 0 .. Horizon
    BY <1>1 DEF Row
  <2>2. older(row) \in 0 .. Horizon
    BY <2>1, Constants
  <2> HIDE DEF older
  <2> QED
    BY <2>1, <2>2 DEF Row
<1>3. pairs' = {[row EXCEPT !.age = older(row)] : row \in Unmarked}
  BY DEF NextWindow
<1> HIDE DEF older
<1>4. f \in [Unmarked -> Row] /\ pairs' = {f[row] : row \in Unmarked}
  BY <1>2, <1>3
<1> HIDE DEF f
<1>5. IsFiniteSet(pairs')
  BY <1>1, <1>4, ImageFinite
<1> QED
  BY <1>2, <1>3, <1>5 DEF RowsOK, NextWindow

LEMMA InitTyped == Init => TypeInv
<1> SUFFICES ASSUME Init PROVE TypeInv
  OBVIOUS
<1>1. RowsOK
  <2>1. IsFiniteSet(pairs)
    BY FS_EmptySet DEF Init
  <2> QED
    BY <2>1 DEF Init, RowsOK
<1>2. JobsOK
  BY IdleOK DEF Init, JobsOK, JobOK
<1>3. BoundsOK /\ RunsOK
  <2>1. 0 \in 0 .. MaxChanges /\ 0 \in 0 .. MaxFaults /\ 0 \in 0 .. MaxJobs
    BY Constants
  <2>2. ran \in BOOLEAN
    BY DEF Init
  <2> QED
    BY <2>1, <2>2 DEF Init, BoundsOK, RunsOK
<1>4. MarketOK /\ RegistryOK
  <2>1. Baseline \subseteq Source
    BY ConstantsAssumption
  <2> QED
    BY <2>1 DEF Init, MarketOK, RegistryOK
<1> QED
  BY <1>1, <1>2, <1>3, <1>4, TypeParts

LEMMA TypeStep == TypeInv /\ [Next]_vars => TypeInv'
<1> SUFFICES ASSUME TypeInv, [Next]_vars PROVE TypeInv'
  OBVIOUS
<1>a. MarketOK /\ BoundsOK /\ RegistryOK /\ RowsOK /\ JobsOK /\ RunsOK
  BY TypeParts
<1>b. MarketOK' /\ BoundsOK' /\ RegistryOK' /\ RowsOK' /\ JobsOK' /\ RunsOK' => TypeInv'
  BY DEF TypeInv, TypeOK, MarketOK, BoundsOK, RegistryOK, RowsOK, JobsOK, RunsOK
<1> USE <1>a, <1>b
<1>0. cache.rows \subseteq Source
  BY DEF RegistryOK
<1>1. CASE StartPipeline
  <2>1. JobOK([Idle EXCEPT !.kind = "ingest", !.step = "next", !.known = sources, !.since = TRUE])
    BY StartingJobs DEF RegistryOK
  <2>2. Cron \in Process
    BY DEF Process
  <2>3. JobsOK'
    BY <1>1, <2>1, <2>2, Replaced DEF StartPipeline
  <2> QED
    BY <1>1, <2>3 DEF StartPipeline, MarketOK, BoundsOK, RegistryOK, RowsOK, RunsOK,
                      bounded, registry
<1>2. ASSUME NEW r \in Process, Work(r)
      PROVE  TypeInv'
  <2>1. JobsOK' /\ RowsOK'
    BY <1>0, <1>2, WorkOK
  <2>2. UNCHANGED bounded \/ Fault
    BY <1>2 DEF Work, FetchPage, FetchByAddress, EnrichPair, DiscoverChains
  <2>3. BoundsOK'
    BY <2>2, Counted
  <2> QED
    BY <1>2, <2>1, <2>3 DEF Work, MarketOK, RegistryOK, RunsOK, registry
<1>3. CASE StartIngest
  <2>1. Starts([Idle EXCEPT !.kind = "ingest", !.step = "call"])
    BY <1>3 DEF StartIngest
  <2>2. JobsOK' /\ RowsOK' /\ RunsOK'
    BY <2>1, StartingJobs, StartsOK
  <2> QED
    BY <1>3, <2>2 DEF StartIngest, Starts, MarketOK, BoundsOK, RegistryOK
<1>4. CASE OpenThresholds \/ (\E p \in Pool : AddPair(p)) \/ (\E t \in Token : AddToken(t))
  <2>1. getSources(FALSE)
    BY <1>4 DEF OpenThresholds, AddPair, AddToken
  <2>2. /\ cache' \in [state : {"cold", "loaded", "failed"}, rows : SUBSET Source]
        /\ BoundsOK'
    BY <2>1, LoadOK
  <2>3. cache'.rows \in SUBSET Source
    BY <2>2
  <2>4. CASE OpenThresholds
    <3>1. Starts([Idle EXCEPT !.kind = "thresholds", !.step = "next", !.known = cache'.rows])
      BY <2>4 DEF OpenThresholds
    <3>2. JobsOK' /\ RowsOK' /\ RunsOK'
      BY <2>3, <3>1, StartingJobs, StartsOK
    <3> QED
      BY <2>2, <2>4, <3>2 DEF OpenThresholds, Starts, MarketOK, RegistryOK
  <2>5. ASSUME NEW p \in Pool, AddPair(p) PROVE TypeInv'
    <3>1. JobsOK' /\ RowsOK' /\ RunsOK'
      BY <2>5, AddPairOK
    <3> QED
      BY <2>2, <2>5, <3>1 DEF AddPair, Starts, MarketOK, RegistryOK
  <2>6. ASSUME NEW t \in Token, AddToken(t) PROVE TypeInv'
    <3>1. JobsOK' /\ RowsOK' /\ RunsOK'
      BY <2>3, <2>6, AddTokenOK
    <3> QED
      BY <2>2, <2>6, <3>1 DEF AddToken, Starts, MarketOK, RegistryOK
  <2> QED
    BY <1>4, <2>4, <2>5, <2>6
<1>5. CASE Call
  <2>1. getSources(FALSE)
    BY <1>5 DEF Call
  <2>2. /\ cache' \in [state : {"cold", "loaded", "failed"}, rows : SUBSET Source]
        /\ BoundsOK'
    BY <2>1, LoadOK
  <2>3. JobsOK'
    BY <1>5, <2>2, CallOK
  <2> QED
    BY <1>5, <2>2, <2>3 DEF Call, MarketOK, RegistryOK, RowsOK, RunsOK
<1>6. CASE Done \/ CallFails \/ CronCrash \/ WebCrash
  <2>1. PICK r \in Process : job' = [job EXCEPT ![r] = Idle]
    BY <1>6 DEF Done, CallFails, CronCrash, WebCrash, Process
  <2>2. JobsOK'
    BY <2>1, IdleOK, Replaced
  <2>3. RowsOK' /\ RunsOK' /\ MarketOK'
    BY <1>6 DEF Done, CallFails, CronCrash, WebCrash, RowsOK, RunsOK, MarketOK
  <2>4. BoundsOK' /\ RegistryOK'
    <3>1. CASE Done
      BY <3>1 DEF Done, BoundsOK, RegistryOK, registry
    <3>2. CASE CallFails
      BY <3>2, LoadOK DEF CallFails, RegistryOK
    <3>3. CASE CronCrash
      BY <3>3, Counted DEF CronCrash, RegistryOK, registry
    <3>4. CASE WebCrash
      BY <3>4, Counted DEF WebCrash, RegistryOK
    <3> QED
      BY <1>6, <3>1, <3>2, <3>3, <3>4
  <2> QED
    BY <2>2, <2>3, <2>4
<1>7. CASE \E s \in Source : Discover(s) \/ Reject(s) \/ Promote(s)
  BY <1>7 DEF Discover, Reject, Promote, MarketOK, BoundsOK, RegistryOK, RowsOK, JobsOK, RunsOK
<1>8. CASE FinishPromotion
  <2>1. /\ cache' \in [state : {"cold", "loaded", "failed"}, rows : SUBSET Source]
        /\ BoundsOK'
    BY <1>8, LoadOK DEF FinishPromotion
  <2> QED
    BY <1>8, <2>1 DEF FinishPromotion, MarketOK, RegistryOK, RowsOK, JobsOK, RunsOK
<1>9. CASE Change
  <2>1. PICK p \in Pool : \E m \in Markets[p] \ {market[p]} : market' = [market EXCEPT ![p] = m]
    BY <1>9 DEF Change
  <2>2. MarketOK'
    BY <2>1, ConstantsAssumption DEF MarketOK
  <2> QED
    BY <1>9, <2>2, Counted DEF Change, RegistryOK, RowsOK, JobsOK, RunsOK, registry
<1>10. CASE Decide
  <2>1. RowsOK'
    BY <1>10, DecideOK
  <2> QED
    BY <1>10, <2>1, Counted DEF Decide, MarketOK, RegistryOK, JobsOK, RunsOK, registry
<1>11. CASE NextWindow
  <2>1. RowsOK'
    BY <1>11, NextWindowOK
  <2> QED
    BY <1>11, <2>1 DEF NextWindow, MarketOK, BoundsOK, RegistryOK, JobsOK, RunsOK, registry
<1>12. CASE UNCHANGED vars
  BY <1>12 DEF vars, MarketOK, BoundsOK, RegistryOK, RowsOK, JobsOK, RunsOK
<1>13. Cron \in Process /\ Web \in Process
  BY DEF Process
<1> QED
  BY <1>1, <1>2, <1>3, <1>4, <1>5, <1>6, <1>7, <1>8, <1>9, <1>10, <1>11, <1>12, <1>13
     DEF Next, Serve

(* Every variable of Ingest keeps its type, and the rows stay finitely     *)
(* many, through any interleaving of the pipeline and the operator.        *)
THEOREM TypeCorrect == Spec => []TypeOK
<1>1. TypeInv => TypeOK
  BY DEF TypeInv
<1> QED
  BY <1>1, InitTyped, TypeStep, PTL DEF Spec
---------------------------------------------------------------------------
(* The cursor of the operator's ingest.                                    *)

\* A source's place in a registry, which the cursor counts.
Before(S, s) == {q \in S : q < s}
Rank(S, s) == Cardinality(Before(S, s)) + 1

LEMMA RankType ==
    ASSUME NEW S \in SUBSET Source, NEW s \in Source
    PROVE  /\ IsFiniteSet(S) /\ Cardinality(S) \in Nat
           /\ IsFiniteSet(Before(S, s)) /\ Cardinality(Before(S, s)) \in Nat
           /\ Rank(S, s) \in Nat \ {0}
<1>1. IsFiniteSet(S)
  BY Constants, FS_Subset
<1>2. IsFiniteSet(Before(S, s))
  BY <1>1, FS_Subset DEF Before
<1>3. Cardinality(S) \in Nat /\ Cardinality(Before(S, s)) \in Nat
  BY <1>1, <1>2, FS_CardinalityType
<1>4. Rank(S, s) \in Nat \ {0}
  BY <1>3 DEF Rank
<1> QED
  BY <1>1, <1>2, <1>3, <1>4

\* A registry that grows only moves a source further.
LEMMA RankGrows ==
    ASSUME NEW T \in SUBSET Source, NEW S \in SUBSET T, NEW s \in Source
    PROVE  Rank(S, s) <= Rank(T, s)
<1>1. S \in SUBSET Source
  OBVIOUS
<1>2. Before(S, s) \in SUBSET Before(T, s)
  BY DEF Before
<1>3. IsFiniteSet(Before(T, s))
  BY RankType
<1>4. Cardinality(Before(S, s)) <= Cardinality(Before(T, s))
  BY <1>2, <1>3, FS_Subset
<1>5. Cardinality(Before(S, s)) \in Nat /\ Cardinality(Before(T, s)) \in Nat
  BY <1>1, RankType
<1> QED
  BY <1>4, <1>5 DEF Rank

\* Sources come in the order of their places.
LEMMA RankOrders ==
    ASSUME NEW S \in SUBSET Source, NEW s \in S, NEW t \in S, s < t
    PROVE  Rank(S, s) < Rank(S, t)
<1> DEFINE B == Before(S, s)
<1>1. s \in Nat /\ t \in Nat /\ S \subseteq Nat
  BY Constants
<1>2. s \notin B /\ B \cup {s} \in SUBSET Before(S, t)
  <2>1. \A q \in S : q < s => q < t
    BY <1>1
  <2>2. ~(s < s)
    BY <1>1
  <2> QED
    BY <2>1, <2>2 DEF Before
<1>3. /\ IsFiniteSet(B) /\ Cardinality(B) \in Nat
      /\ IsFiniteSet(Before(S, t)) /\ Cardinality(Before(S, t)) \in Nat
  BY RankType
<1>4. Rank(S, s) = Cardinality(B) + 1 /\ Rank(S, t) = Cardinality(Before(S, t)) + 1
  BY DEF Rank
<1> HIDE DEF B
<1>5. Cardinality(B \cup {s}) = Cardinality(B) + 1
  BY <1>2, <1>3, FS_AddElement
<1>6. Cardinality(B \cup {s}) <= Cardinality(Before(S, t))
  BY <1>2, <1>3, FS_Subset
<1> QED
  BY <1>3, <1>4, <1>5, <1>6

LEMMA RankReflects ==
    ASSUME NEW S \in SUBSET Source, NEW s \in S, NEW t \in S, Rank(S, s) <= Rank(S, t)
    PROVE  s <= t
<1>1. s \in Nat /\ t \in Nat /\ Rank(S, s) \in Nat /\ Rank(S, t) \in Nat
  BY Constants, RankType
<1>2. t < s => Rank(S, t) < Rank(S, s)
  BY RankOrders
<1> QED
  BY <1>1, <1>2

\* No place is past the number of sources, and the last is the greatest.
LEMMA RankBound ==
    ASSUME NEW S \in SUBSET Source, NEW s \in S
    PROVE  /\ Rank(S, s) <= Cardinality(S)
           /\ Cardinality(S) <= Rank(S, s) => \A q \in S : q <= s
<1> DEFINE B == Before(S, s)
<1>1. s \in Nat /\ S \subseteq Nat
  BY Constants
<1>2. s \notin B /\ B \cup {s} \in SUBSET S
  BY <1>1 DEF Before
<1>3. IsFiniteSet(B) /\ Cardinality(B) \in Nat /\ IsFiniteSet(S) /\ Cardinality(S) \in Nat
  BY RankType
<1>4. Rank(S, s) = Cardinality(B) + 1
  BY DEF Rank
<1>5. \A q \in B : q < s
  BY DEF Before
<1> HIDE DEF B
<1>6. Cardinality(B \cup {s}) = Cardinality(B) + 1
  BY <1>2, <1>3, FS_AddElement
<1>7. /\ Cardinality(B \cup {s}) <= Cardinality(S)
      /\ Cardinality(S) = Cardinality(B \cup {s}) => S = B \cup {s}
  BY <1>2, <1>3, FS_Subset
<1>8. ASSUME Cardinality(S) <= Rank(S, s), NEW q \in S
      PROVE  q <= s
  <2>1. Cardinality(S) = Cardinality(B \cup {s})
    BY <1>3, <1>4, <1>6, <1>7, <1>8
  <2>2. q \in B \/ q = s
    BY <1>7, <2>1
  <2> QED
    BY <1>1, <1>5, <2>2
<1> QED
  BY <1>3, <1>4, <1>6, <1>7, <1>8

LEMMA AtIsRank ==
    ASSUME NEW S \in SUBSET Source, NEW i \in Nat
    PROVE  At(S, i) = {s \in S : Rank(S, s) = i}
<1>1. ASSUME NEW s \in S
      PROVE  Cardinality({q \in S : q < s}) = i - 1 <=> Rank(S, s) = i
  <2>1. Cardinality(Before(S, s)) \in Nat
    BY RankType
  <2>2. Cardinality(Before(S, s)) = i - 1 <=> Cardinality(Before(S, s)) + 1 = i
    BY <2>1
  <2> QED
    BY <2>2 DEF Rank, Before
<1> QED
  BY <1>1 DEF At

(* A place nobody holds is past all: otherwise the sources before the      *)
(* least beyond it would be i at least, and have i - 1 places.             *)
LEMMA NoGap ==
    ASSUME NEW S \in SUBSET Source, NEW i \in Nat \ {0}, At(S, i) = {}
    PROVE  \A s \in S : Rank(S, s) < i
<1> DEFINE Far == {s \in S : i <= Rank(S, s)}
<1>1. S \subseteq Nat /\ \A s \in S : Rank(S, s) \in Nat /\ Rank(S, s) # i
  BY Constants, RankType, AtIsRank
<1> SUFFICES ASSUME Far # {} PROVE FALSE
  BY <1>1
<1>2. Far \in SUBSET Source
  OBVIOUS
<1>3. PICK s \in Far : \A q \in Far : s <= q
  BY <1>2, FirstIs
<1> DEFINE B == Before(S, s)
<1>4. s \in S /\ s \in Nat /\ Rank(S, s) \in Nat /\ i < Rank(S, s)
  BY <1>1, <1>3
<1>5. IsFiniteSet(B) /\ Cardinality(B) \in Nat /\ Rank(S, s) = Cardinality(B) + 1
  BY <1>4, RankType DEF Rank
<1>6. \A q \in B : q \in S /\ q \in Nat /\ q < s /\ Rank(S, q) \in Nat \ {0}
  BY <1>1, RankType DEF Before
<1>7. \A q \in B : q \notin Far
  BY <1>3, <1>4, <1>6
<1>8. \A q \in B : Rank(S, q) \in 1 .. (i - 1)
  BY <1>6, <1>7
<1> DEFINE f == [q \in B |-> Rank(S, q)]
<1>9. \A q, t \in B : Rank(S, q) = Rank(S, t) => q = t
  <2> TAKE q, t \in B
  <2> HAVE Rank(S, q) = Rank(S, t)
  <2>1. q <= t /\ t <= q
    BY <1>6, RankReflects
  <2> QED
    BY <1>6, <2>1
<1> HIDE DEF B
<1>10. f \in Injection(B, 1 .. (i - 1))
  <2>1. f \in [B -> 1 .. (i - 1)] /\ \A q \in B : f[q] = Rank(S, q)
    BY <1>8
  <2> HIDE DEF f
  <2>2. \A q, t \in B : f[q] = f[t] => q = t
    BY <1>9, <2>1
  <2> QED
    BY <2>1, <2>2 DEF Injection, IsInjective
<1>11. IsFiniteSet(1 .. (i - 1)) /\ Cardinality(1 .. (i - 1)) = i - 1
  BY FS_Interval
<1>12. Cardinality(B) <= i - 1
  BY <1>10, <1>11, FS_Injection
<1> QED
  BY <1>4, <1>5, <1>12
\* All of a source's pages are behind; those before the cursor's page are.
Whole(j, s) == \A n \in 1 .. LastPage : <<s, n>> \in j.done
Begun(j, s) == \A n \in 1 .. LastPage : n < j.page => <<s, n>> \in j.done

\* Between two calls: what the cursor has passed in S is behind.
Between(j, S) ==
    \A s \in j.from \cap Ingestable :
        /\ Rank(S, s) < j.cursor => Whole(j, s)
        /\ Rank(S, s) = j.cursor => Begun(j, s)

\* In a call: it works at no place before the cursor, what comes before is
\* behind, and a call that will answer done works at the last source.
Within(j, S) ==
    /\ j.at \in S
    /\ j.cursor <= Rank(S, j.at) /\ j.cursor <= j.count
    /\ \A s \in j.from \cap Ingestable :
         /\ s < j.at => Whole(j, s)
         /\ s = j.at => Begun(j, s)
    /\ j.cursor = j.count => \A s \in j.from : s <= j.at

Finished(j) == \A s \in j.from \cap Ingestable : Whole(j, s)

\* The registry may grow, be forgotten or fail to load in between: S is one the
\* job has seen, which any later one contains.
Tracked(j, db, registered) ==
    \E S \in SUBSET db :
        /\ j.from \subseteq S
        /\ registered.state = "loaded" => S \subseteq registered.rows
        /\ IF j.step = "call" THEN Between(j, S) ELSE Within(j, S)

InCall == {"threshold", "seed", "fetch", "store", "create"}

Reading(j, db, registered) ==
    /\ j.step \in {"call", "done"} => j.kind = "ingest"
    /\ j.kind = "ingest" =>
         /\ j.step \in InCall \cup {"call", "done"}
         /\ j.step = "done" => Finished(j)
         /\ j.step # "done" => Tracked(j, db, registered)

ReadInv == cache.rows \subseteq sources /\ Reading(job[Web], sources, cache)

LEMMA BetweenGrows ==
    ASSUME NEW j \in Job, NEW T \in SUBSET Source, NEW S \in SUBSET T,
           j.from \subseteq S, Between(j, S)
    PROVE  Between(j, T)
<1> SUFFICES ASSUME NEW s \in j.from \cap Ingestable
             PROVE  /\ Rank(T, s) < j.cursor => Whole(j, s)
                    /\ Rank(T, s) = j.cursor => Begun(j, s)
  BY DEF Between
<1>1. s \in S /\ s \in Source /\ S \in SUBSET Source /\ j.cursor \in Nat
  BY DEF Job
<1>2. Rank(S, s) \in Nat /\ Rank(T, s) \in Nat /\ Rank(S, s) <= Rank(T, s)
  BY <1>1, RankType, RankGrows
<1>3. /\ Rank(S, s) < j.cursor => Whole(j, s)
      /\ Rank(S, s) = j.cursor => Begun(j, s)
  BY DEF Between
<1>4. Whole(j, s) => Begun(j, s)
  BY DEF Whole, Begun
<1> QED
  BY <1>1, <1>2, <1>3, <1>4

\* The registry changes under a job in one of two ways.
LEMMA TrackedGrows ==
    ASSUME NEW j, NEW db, NEW db2, db \subseteq db2, NEW old, NEW new,
           new = old \/ (new.state = "loaded" => new.rows = db2), Reading(j, db, old)
    PROVE  Reading(j, db2, new)
<1>1. SUFFICES ASSUME j.kind = "ingest", j.step # "done"
               PROVE  Tracked(j, db2, new)
  BY DEF Reading
<1>2. PICK S \in SUBSET db :
        /\ j.from \subseteq S
        /\ old.state = "loaded" => S \subseteq old.rows
        /\ IF j.step = "call" THEN Between(j, S) ELSE Within(j, S)
  BY <1>1 DEF Reading, Tracked
<1>3. S \in SUBSET db2 /\ (new.state = "loaded" => S \subseteq new.rows)
  BY <1>2
<1> QED
  BY <1>2, <1>3 DEF Tracked

\* A step of a call that does not end it.
LEMMA SameCall ==
    ASSUME NEW j, NEW k, NEW db, NEW registered, Reading(j, db, registered),
           j.kind = "ingest", j.step \in InCall, k.step \in InCall,
           k.kind = j.kind, k.at = j.at, k.page = j.page, k.cursor = j.cursor,
           k.count = j.count, k.from = j.from, k.done = j.done
    PROVE  Reading(k, db, registered)
<1>1. PICK S \in SUBSET db :
        /\ j.from \subseteq S
        /\ registered.state = "loaded" => S \subseteq registered.rows
        /\ Within(j, S)
  BY DEF Reading, Tracked, InCall
<1>2. Within(k, S)
  BY <1>1 DEF Within, Whole, Begun
<1>3. Tracked(k, db, registered)
  BY <1>1, <1>2 DEF Tracked, InCall
<1> QED
  BY <1>3 DEF Reading, InCall

\* A job of another kind reads nothing.
LEMMA OtherKind ==
    ASSUME NEW j, NEW db, NEW registered, j.kind # "ingest", j.step \notin {"call", "done"}
    PROVE  Reading(j, db, registered)
BY DEF Reading

(* A page that ends a call. *)
LEMMA TurnedReads ==
    ASSUME NEW db \in SUBSET Source, NEW registered, JobsOK, NEW hadData \in BOOLEAN,
           Reading(job[Web], db, registered),
           job[Web].kind = "ingest", job[Web].step \in InCall, Turned(Web, hadData)
    PROVE  Reading(job'[Web], db, registered)
<1> DEFINE k == [job[Web] EXCEPT !.todo = {}, !.claims = <<>>]
           last == ~hadData \/ k.page >= LastPage
           page == IF last THEN 1 ELSE k.page + 1
           cursor == IF last THEN k.cursor + 1 ELSE k.cursor
           done == Behind(k, hadData)
           j == Answered(k, cursor, page, done)
<1>1. job[Web] \in Job /\ Web \in Process /\ Cron # Web
  BY DEF JobsOK, Process, Cron, Web
<1>2. k \in Job /\ k.kind = "ingest" /\ k.step \in InCall
  BY <1>1, NoClaims DEF Job
<1>3. Reading(k, db, registered)
  <2>1. /\ k.at = job[Web].at /\ k.page = job[Web].page /\ k.cursor = job[Web].cursor
        /\ k.count = job[Web].count /\ k.from = job[Web].from /\ k.done = job[Web].done
        /\ k.kind = job[Web].kind
    BY <1>1 DEF Job
  <2> HIDE DEF k
  <2> QED
    BY <1>2, <2>1, SameCall
<1>4. job'[Web] = j
  BY <1>1 DEF Turned, JobsOK
<1> HIDE DEF k
<1>5. PICK S \in SUBSET db :
        /\ k.from \subseteq S
        /\ registered.state = "loaded" => S \subseteq registered.rows
        /\ Within(k, S)
  BY <1>2, <1>3 DEF Reading, Tracked, InCall
<1>6. /\ k.page \in 1 .. LastPage /\ k.page \in Nat /\ LastPage \in Nat
      /\ k.cursor \in Nat /\ k.count \in Nat
      /\ k.from \subseteq S /\ S \subseteq Source /\ k.at \in S
  BY <1>2, <1>5, Constants DEF Job, Within
<1>7. \A s \in S : s \in Nat /\ s \in Source /\ Rank(S, s) \in Nat
  BY <1>6, Constants, RankType
\* What is behind after the page.
<1>8. /\ \A s : Whole(k, s) => Whole(j, s)
      /\ k.at \in k.from \cap Ingestable => IF last THEN Whole(j, k.at) ELSE Begun(j, k.at)
      /\ last => \A s : Begun(j, s)
      /\ j.cursor = cursor /\ j.page = page /\ j.from = k.from /\ j.kind = "ingest"
      /\ j.step = IF cursor > k.count THEN "done" ELSE "call"
  <2>1. /\ j.cursor = cursor /\ j.page = page /\ j.from = k.from /\ j.kind = "ingest"
        /\ j.done = done /\ j.step = IF cursor > k.count THEN "done" ELSE "call"
    <3> HIDE DEF last, page, cursor, done
    <3> QED
      BY <1>2 DEF Answered, Job
  <2> HIDE DEF j
  <2>2. k.done \subseteq done
    BY DEF Behind
  <2>3. \A s : Whole(k, s) => Whole(j, s)
    BY <2>1, <2>2 DEF Whole
  <2>4. ASSUME last PROVE \A s : Begun(j, s)
    <3>1. j.page = 1
      BY <2>1, <2>4
    <3> QED
      BY <3>1 DEF Begun
  <2>5. ASSUME k.at \in k.from \cap Ingestable
        PROVE  IF last THEN Whole(j, k.at) ELSE Begun(j, k.at)
    <3>1. \A n \in 1 .. LastPage : n < k.page => <<k.at, n>> \in done
      BY <1>5, <2>2, <2>5 DEF Within, Begun
    <3>2. <<k.at, k.page>> \in done
      BY <1>6 DEF Behind
    <3>3. ~hadData => \A n \in k.page .. LastPage : <<k.at, n>> \in done
      BY DEF Behind
    <3> HIDE DEF done
    <3>4. CASE last
      <4>1. \A n \in 1 .. LastPage : n < k.page \/ n = k.page \/ (~hadData /\ n \in k.page .. LastPage)
        BY <1>6, <3>4
      <4> QED
        BY <2>1, <3>1, <3>2, <3>3, <3>4, <4>1 DEF Whole
    <3>5. CASE ~last
      <4>1. \A n \in 1 .. LastPage : n < k.page + 1 => n < k.page \/ n = k.page
        BY <1>6
      <4>2. j.page = k.page + 1
        BY <2>1, <3>5
      <4> QED
        BY <2>1, <3>1, <3>2, <3>5, <4>1, <4>2 DEF Begun
    <3> QED
      BY <3>4, <3>5
  <2> QED
    BY <2>1, <2>3, <2>4, <2>5
<1>9. \A s \in k.from \cap Ingestable : s < k.at => Whole(j, s)
  BY <1>5, <1>8 DEF Within
<1>10. \A s : Whole(j, s) => Begun(j, s)
  BY DEF Whole, Begun
<1>11. k.cursor <= Rank(S, k.at) /\ k.cursor <= k.count
  BY <1>5 DEF Within
<1> HIDE DEF j
<1>12. CASE last
  <2>1. cursor = k.cursor + 1
    BY <1>12
  <2> HIDE DEF last, page, cursor
  <2>2. ASSUME cursor > k.count PROVE Finished(j)
    <3>1. k.cursor = k.count
      BY <1>6, <1>11, <2>1, <2>2
    <3>2. \A s \in k.from : s <= k.at
      BY <1>5, <3>1 DEF Within
    <3>3. \A s \in k.from : s < k.at \/ s = k.at
      BY <1>6, <1>7, <3>2
    <3> QED
      BY <1>8, <1>9, <1>12, <3>3 DEF Finished
  <2>3. Between(j, S)
    <3> SUFFICES ASSUME NEW s \in j.from \cap Ingestable, Rank(S, s) < j.cursor
                 PROVE  Whole(j, s)
      BY <1>8, <1>12 DEF Between
    <3>1. s \in k.from \cap Ingestable /\ s \in S
      BY <1>6, <1>8
    <3>2. Rank(S, s) <= Rank(S, k.at)
      BY <1>6, <1>7, <1>8, <1>11, <2>1, <3>1
    <3>3. s <= k.at
      BY <1>6, <3>1, <3>2, RankReflects
    <3>4. s < k.at \/ s = k.at
      BY <1>6, <1>7, <3>1, <3>3
    <3> QED
      BY <1>8, <1>9, <1>12, <3>1, <3>4
  <2>4. j.step = "call" => Tracked(j, db, registered)
    BY <1>5, <1>8, <2>3 DEF Tracked
  <2> QED
    BY <1>4, <1>8, <2>2, <2>4 DEF Reading
<1>13. CASE ~last
  <2>1. cursor = k.cursor
    BY <1>13
  <2>2. j.step = "call"
    BY <1>6, <1>8, <1>11, <2>1
  <2> HIDE DEF last, page, cursor
  <2>3. Between(j, S)
    <3> SUFFICES ASSUME NEW s \in j.from \cap Ingestable
                 PROVE  /\ Rank(S, s) < j.cursor => Whole(j, s)
                        /\ Rank(S, s) = j.cursor => Begun(j, s)
      BY DEF Between
    <3>1. s \in k.from \cap Ingestable /\ s \in S /\ j.cursor = k.cursor
      BY <1>6, <1>8, <2>1
    <3>2. ASSUME Rank(S, s) < j.cursor PROVE Whole(j, s)
      <4>1. Rank(S, s) < Rank(S, k.at) /\ Rank(S, s) <= Rank(S, k.at)
        BY <1>6, <1>7, <1>11, <3>1, <3>2
      <4>2. s <= k.at
        BY <1>6, <3>1, <4>1, RankReflects
      <4>3. s # k.at
        BY <1>6, <1>7, <4>1
      <4>4. s < k.at
        BY <1>6, <1>7, <3>1, <4>2, <4>3
      <4> QED
        BY <1>9, <3>1, <4>4
    <3>3. ASSUME Rank(S, s) = j.cursor PROVE Begun(j, s)
      <4>1. Rank(S, s) <= Rank(S, k.at)
        BY <1>11, <3>1, <3>3
      <4>2. s <= k.at
        BY <1>6, <3>1, <4>1, RankReflects
      <4>3. s < k.at \/ s = k.at
        BY <1>6, <1>7, <3>1, <4>2
      <4> QED
        BY <1>8, <1>9, <1>10, <1>13, <3>1, <4>3
    <3> QED
      BY <3>2, <3>3
  <2>4. Tracked(j, db, registered)
    BY <1>5, <1>8, <2>2, <2>3 DEF Tracked
  <2> QED
    BY <1>4, <1>8, <2>2, <2>4 DEF Reading
<1> QED
  BY <1>12, <1>13
(* A call finds the source at its cursor. *)
LEMMA CallReads ==
    ASSUME TypeInv, ReadInv, cache' \in [state : {"cold", "loaded", "failed"}, rows : SUBSET Source],
           Call
    PROVE  Reading(job'[Web], sources, cache')
<1> DEFINE T == cache'.rows
           count == Cardinality(T)
           from == FromStart(T)
           j == [job[Web] EXCEPT !.count = count, !.from = from]
           s == At(T, j.cursor)
           done == [j EXCEPT !.step = "done"]
           skip == Answered(j, j.cursor + 1, 1, j.done)
           page == [j EXCEPT !.at = First(s), !.step = "threshold", !.since = Marking]
<1>1. job[Web] \in Job /\ job[Web].step = "call" /\ job[Web].kind = "ingest"
  BY DEF TypeInv, TypeOK, Process, Call, ReadInv, Reading
<1>2. PICK S \in SUBSET sources :
        /\ job[Web].from \subseteq S
        /\ cache.state = "loaded" => S \subseteq cache.rows
        /\ Between(job[Web], S)
  BY <1>1 DEF ReadInv, Reading, Tracked
<1>3. T \in SUBSET Source /\ cache'.state = "loaded" /\ T \subseteq sources /\ S \subseteq T
  BY <1>2 DEF Call, getSources, ReadInv
<1>4. count \in Nat /\ from \in SUBSET T
  <2>1. count \in Nat
    BY <1>3, Constants, FS_Subset, FS_CardinalityType
  <2>2. from \in SUBSET T
    BY <1>2, <1>3 DEF FromStart
  <2> QED
    BY <2>1, <2>2
<1>5. /\ j \in Job /\ j.cursor \in Nat \ {0} /\ j.cursor = job[Web].cursor
      /\ j.page = job[Web].page /\ j.page \in Nat \ {0}
      /\ j.done = job[Web].done /\ j.from = from /\ j.count = count /\ j.kind = "ingest"
  <2>1. from \in SUBSET Source
    BY <1>3, <1>4
  <2> HIDE DEF count, from
  <2>2. j \in Job
    BY <1>1, <1>4, <2>1 DEF Job
  <2>3. /\ j.cursor = job[Web].cursor /\ j.page = job[Web].page /\ j.done = job[Web].done
        /\ j.from = from /\ j.count = count /\ j.kind = "ingest"
    BY <1>1 DEF Job
  <2>4. j.cursor \in Nat \ {0} /\ j.page \in 1 .. LastPage
    BY <2>2 DEF Job
  <2> HIDE DEF j
  <2>5. j.page \in Nat \ {0}
    BY <2>4, Constants
  <2> QED
    BY <2>2, <2>3, <2>4, <2>5
<1>6. job'[Web] = IF s = {} THEN done ELSE IF s \cap Ingestable = {} THEN skip ELSE page
  BY <1>1 DEF Call, TypeInv, TypeOK, Process
<1>7. Between(j, T)
  <2>1. CASE job[Web].cursor = 1 /\ job[Web].page = 1
    <3>1. \A q \in T : Rank(T, q) \in Nat \ {0}
      BY <1>3, RankType
    <3>2. \A q \in T : ~(Rank(T, q) < 1)
      BY <3>1
    <3>3. \A q : Begun(j, q)
      BY <1>5, <2>1 DEF Begun
    <3> QED
      BY <1>4, <1>5, <2>1, <3>2, <3>3 DEF Between
  <2>2. CASE ~(job[Web].cursor = 1 /\ job[Web].page = 1)
    <3>1. from = job[Web].from
      BY <2>2 DEF FromStart
    <3>2. Between(job[Web], T)
      BY <1>1, <1>2, <1>3, BetweenGrows
    <3> HIDE DEF j, from
    <3> QED
      BY <1>5, <3>1, <3>2 DEF Between, Whole, Begun
  <2> QED
    BY <2>1, <2>2
<1> HIDE DEF j, from
<1>8. s = {q \in T : Rank(T, q) = j.cursor}
  BY <1>3, <1>5, AtIsRank
<1>9. \A q \in T : q \in Source /\ q \in Nat /\ Rank(T, q) \in Nat /\ Rank(T, q) <= count
  BY <1>3, Constants, RankType, RankBound
<1>10. CASE s = {}
  <2>1. \A q \in T : Rank(T, q) < j.cursor
    BY <1>3, <1>5, <1>10, NoGap
  <2>2. Finished(j)
    BY <1>4, <1>5, <1>7, <2>1 DEF Between, Finished
  <2>3. /\ done.step = "done" /\ done.kind = "ingest" /\ done.from = j.from
        /\ done.done = j.done
    BY <1>5 DEF Job
  <2>4. Finished(done)
    BY <2>2, <2>3 DEF Finished, Whole
  <2> HIDE DEF done
  <2> QED
    BY <1>6, <1>10, <2>3, <2>4 DEF Reading
<1>11. CASE s # {} /\ s \cap Ingestable = {}
  <2>1. /\ skip.cursor = j.cursor + 1 /\ skip.page = 1 /\ skip.done = j.done
        /\ skip.from = j.from /\ skip.kind = "ingest"
        /\ skip.step = IF j.cursor + 1 > j.count THEN "done" ELSE "call"
    BY <1>5 DEF Answered, Job
  <2> HIDE DEF skip
  <2>2. ASSUME NEW q \in j.from \cap Ingestable, Rank(T, q) < j.cursor + 1
        PROVE  Whole(skip, q)
    <3>1. q \in T /\ Rank(T, q) # j.cursor
      BY <1>4, <1>5, <1>8, <1>11
    <3>2. Rank(T, q) < j.cursor
      BY <1>5, <1>9, <2>2, <3>1
    <3> QED
      BY <1>7, <2>1, <3>2 DEF Between, Whole
  <2>3. \A q : Begun(skip, q)
    BY <2>1 DEF Begun
  <2>4. Between(skip, T)
    BY <2>1, <2>2, <2>3 DEF Between
  <2>5. ASSUME j.cursor + 1 > j.count PROVE Finished(skip)
    <3>1. \A q \in j.from : Rank(T, q) < j.cursor + 1
      BY <1>4, <1>5, <1>9, <2>5
    <3> QED
      BY <2>1, <2>2, <3>1 DEF Finished
  <2>6. skip.step = "call" => Tracked(skip, sources, cache')
    BY <1>3, <1>4, <1>5, <2>1, <2>4 DEF Tracked
  <2> QED
    BY <1>6, <1>11, <2>1, <2>5, <2>6 DEF Reading
<1>12. CASE s \cap Ingestable # {}
  <2> DEFINE at == First(s)
             marking == Marking
             call == [j EXCEPT !.at = at, !.step = "threshold", !.since = marking]
  <2>1. s \in SUBSET Source /\ s # {} /\ s \subseteq T
    BY <1>3, <1>8, <1>12
  <2>2. at \in s
    BY <2>1, FirstIs
  <2>3. at \in T /\ Rank(T, at) = j.cursor
    BY <1>8, <2>2
  <2>4. page = call
    OBVIOUS
  <2> HIDE DEF s, at, marking
  <2>5. /\ call.at = at /\ call.step = "threshold" /\ call.kind = "ingest"
        /\ call.cursor = j.cursor /\ call.page = j.page /\ call.count = j.count
        /\ call.done = j.done /\ call.from = j.from
    BY <1>5 DEF Job
  <2> HIDE DEF call, page, count
  <2>6. j.cursor <= Rank(T, at) /\ j.cursor <= j.count
    BY <1>5, <1>9, <2>3
  <2>7. ASSUME NEW q \in j.from \cap Ingestable
        PROVE  /\ q < at => Whole(call, q)
               /\ q = at => Begun(call, q)
    <3>1. q \in T
      BY <1>4, <1>5
    <3>2. q < at => Rank(T, q) < j.cursor
      BY <1>3, <2>3, <3>1, RankOrders
    <3>3. q = at => Rank(T, q) = j.cursor
      BY <2>3
    <3>4. /\ q < at => Whole(j, q)
          /\ q = at => Begun(j, q)
      BY <1>7, <3>2, <3>3 DEF Between
    <3> QED
      BY <2>5, <3>4 DEF Whole, Begun
  <2>8. ASSUME j.cursor = j.count PROVE \A q \in j.from : q <= at
    <3>1. Cardinality(T) <= Rank(T, at)
      BY <1>5, <1>9, <2>3, <2>8 DEF count
    <3>2. \A q \in T : q <= at
      BY <1>3, <2>3, <3>1, RankBound
    <3> QED
      BY <1>4, <1>5, <3>2
  <2>9. Within(call, T)
    BY <2>3, <2>5, <2>6, <2>7, <2>8 DEF Within
  <2>10. Tracked(call, sources, cache')
    BY <1>3, <1>4, <1>5, <2>5, <2>9 DEF Tracked
  <2>11. job'[Web] = call
    BY <1>6, <1>12, <2>1, <2>4
  <2> QED
    BY <2>5, <2>10, <2>11 DEF Reading, InCall
<1> QED
  BY <1>10, <1>11, <1>12
\* A job keeps all an ingest reads by.
Same(k, j) == /\ k.kind = j.kind /\ k.at = j.at /\ k.page = j.page /\ k.cursor = j.cursor
              /\ k.count = j.count /\ k.from = j.from /\ k.done = j.done

\* What is fetched and stored changes none of it.
LEMMA StoringSame ==
    ASSUME JobsOK,
           \/ (\E p \in Pool : StorePool(Web, p)) \/ CreatePair(Web)
           \/ \E S, silent : Stores(Web, S, silent)
    PROVE  Same(job'[Web], job[Web]) /\ job'[Web].step \in {"store", "create"}
<1>1. job[Web] \in Job /\ Web \in Process
  BY DEF JobsOK, Process
<1>2. ASSUME NEW p \in Pool, StorePool(Web, p)
      PROVE  Same(job'[Web], job[Web]) /\ job'[Web].step \in {"store", "create"}
  <2> DEFINE todo == job[Web].todo \ {p}
  <2>1. \/ job' = [job EXCEPT ![Web].todo = todo]
        \/ job' = [job EXCEPT ![Web].todo = todo, ![Web].pool = p, ![Web].step = "create"]
    BY <1>2 DEF StorePool
  <2> HIDE DEF todo
  <2>2. \/ job'[Web] = [job[Web] EXCEPT !.todo = todo]
        \/ job'[Web] = [job[Web] EXCEPT !.todo = todo, !.pool = p, !.step = "create"]
    BY <1>1, <2>1 DEF JobsOK, Job
  <2>3. job[Web].step = "store"
    BY <1>2 DEF StorePool
  <2> QED
    BY <1>1, <2>2, <2>3 DEF Same, Job
<1>3. CASE CreatePair(Web)
  <2>1. job'[Web] = [job[Web] EXCEPT !.pool = None, !.step = "store"]
    BY <1>1, <1>3 DEF CreatePair, JobsOK, Job
  <2> QED
    BY <1>1, <2>1 DEF Same, Job
<1>4. CASE \E S, silent : Stores(Web, S, silent)
  <2>1. PICK todo, claims :
          job' = [job EXCEPT ![Web].todo = todo, ![Web].step = "store", ![Web].claims = claims]
    BY <1>4 DEF Stores
  <2>2. job'[Web] = [job[Web] EXCEPT !.todo = todo, !.step = "store", !.claims = claims]
    BY <1>1, <2>1 DEF JobsOK, Job
  <2> QED
    BY <1>1, <2>2 DEF Same, Job
<1> QED
  BY <1>2, <1>3, <1>4

\* A step that starts no ingest.
Elsewhere(j) == j.kind # "ingest" /\ j.step \notin {"call", "done"}

\* What the page's other jobs do is no business of the ingest.
LEMMA ElsewhereStays ==
    ASSUME JobsOK, Work(Web), job[Web].kind # "ingest", job[Web].step \notin {"call", "done"}
    PROVE  Elsewhere(job'[Web])
<1>1. job[Web] \in Job /\ Web \in Process /\ Web # Cron
  BY DEF JobsOK, Process, Web, Cron
<1>2. Elsewhere(Idle)
  BY DEF Elsewhere, Idle
<1>3. CASE FindThreshold(Web) \/ CreateThreshold(Web)
  <2>1. AfterThreshold(Web) \in {"next", "fetch"}
    BY DEF AfterThreshold
  <2>2. PICK step \in {"seed", "next", "fetch"} : Step(Web, step)
    BY <1>3, <2>1 DEF FindThreshold, CreateThreshold
  <2>3. job'[Web] = [job[Web] EXCEPT !.step = step]
    BY <1>1, <2>2 DEF Step, JobsOK, Job
  <2> QED
    BY <1>1, <2>2, <2>3 DEF Elsewhere, Job
<1>4. CASE (\E p \in Pool : StorePool(Web, p)) \/ CreatePair(Web)
  <2>1. job'[Web].kind = job[Web].kind /\ job'[Web].step \in {"store", "create"}
    BY <1>4, StoringSame DEF Same
  <2> QED
    BY <2>1 DEF Elsewhere
<1>5. CASE Stored(Web)
  <2>1. CASE job[Web].kind = "first"
    <3>1. job'[Web].kind = "first" /\ job'[Web].step = "select"
      BY <1>1, <1>5, <2>1 DEF Stored, JobsOK, Job
    <3> QED
      BY <3>1 DEF Elsewhere
  <2>2. CASE job[Web].kind \in {"add", "token"}
    <3>1. \/ job'[Web] = Idle
          \/ job'[Web].kind = job[Web].kind /\ job'[Web].step = "verify"
      <4> DEFINE queue == ToVerify(job[Web])
                 j == [job[Web] EXCEPT !.step = "verify", !.queue = queue, !.claims = <<>>,
                        !.token = None, !.at = 0]
      <4>1. job' = [job EXCEPT ![Web] = Idle] \/ job' = [job EXCEPT ![Web] = j]
        BY <1>5, <2>2 DEF Stored
      <4> HIDE DEF queue
      <4>2. j.kind = job[Web].kind /\ j.step = "verify"
        BY <1>1 DEF Job
      <4> HIDE DEF j
      <4>3. job'[Web] = Idle \/ job'[Web] = j
        BY <1>1, <4>1 DEF JobsOK
      <4> QED
        BY <4>2, <4>3
    <3> QED
      BY <1>2, <2>2, <3>1 DEF Elsewhere
  <2>3. CASE job[Web].kind \notin {"first", "add", "token"}
    <3>1. job'[Web].kind = job[Web].kind /\ job'[Web].step = "next"
      BY <1>1, <1>5, <2>3 DEF Stored, JobsOK, Job
    <3> QED
      BY <3>1 DEF Elsewhere
  <2> QED
    BY <2>1, <2>2, <2>3
<1>6. CASE NextTokenPools(Web)
  <2>1. job'[Web].kind = job[Web].kind /\ job'[Web].step \in {"threshold", "fetch"}
    BY <1>1, <1>6 DEF NextTokenPools, JobsOK, Job
  <2> QED
    BY <2>1 DEF Elsewhere
<1>7. CASE NextThreshold
  <2>1. \/ job'[Web] = Idle
        \/ job'[Web].kind = job[Web].kind /\ job'[Web].step = "threshold"
    BY <1>1, <1>7 DEF NextThreshold, JobsOK, Job
  <2> QED
    BY <1>2, <2>1 DEF Elsewhere
<1>8. CASE AddSibling
  <2>1. PICK t \in job[Web].adds :
          LET j == [job[Web] EXCEPT !.adds = job[Web].adds \ {t}]
          IN job' = [job EXCEPT ![Web] =
               IF cache.state = "loaded" THEN TokenPools(j, t, cache.rows) ELSE j]
    BY <1>8 DEF AddSibling
  <2> DEFINE j == [job[Web] EXCEPT !.adds = job[Web].adds \ {t}]
  <2>2. j \in Job /\ j.kind = job[Web].kind /\ j.step = job[Web].step
    BY <1>1 DEF Job
  <2>3. job'[Web] = IF cache.state = "loaded" THEN TokenPools(j, t, cache.rows) ELSE j
    BY <1>1, <2>1 DEF JobsOK
  <2> HIDE DEF j
  <2>4. TokenPools(j, t, cache.rows).kind = "token" /\ TokenPools(j, t, cache.rows).step = "next"
    BY <2>2 DEF TokenPools, Job
  <2> QED
    BY <2>2, <2>3, <2>4 DEF Elsewhere
<1>9. CASE AddEnds
  <2>1. job'[Web] = Idle
    BY <1>1, <1>9 DEF AddEnds, JobsOK
  <2> QED
    BY <1>2, <2>1
<1>10. CASE FetchPage(Web) \/ FetchByAddress(Web)
  <2>1. \E S, silent : Stores(Web, S, silent)
    BY <1>10 DEF FetchPage, FetchByAddress
  <2>2. job'[Web].kind = job[Web].kind /\ job'[Web].step \in {"store", "create"}
    BY <2>1, StoringSame DEF Same
  <2> QED
    BY <2>2 DEF Elsewhere
<1>11. CASE EnrichPair \/ DiscoverChains
  <2>1. job'[Web].kind = job[Web].kind /\ job'[Web].step = job[Web].step
    <3>1. CASE EnrichPair
      <4>1. PICK queue, met : job' = [job EXCEPT ![Web].queue = queue, ![Web].met = met]
        BY <3>1 DEF EnrichPair
      <4> QED
        BY <1>1, <4>1 DEF JobsOK, Job
    <3>2. CASE DiscoverChains
      <4>1. PICK hops, adds : job' = [job EXCEPT ![Web].hops = hops, ![Web].adds = adds]
        BY <3>2 DEF DiscoverChains
      <4> QED
        BY <1>1, <4>1 DEF JobsOK, Job
    <3> QED
      BY <1>11, <3>1, <3>2
  <2> QED
    BY <2>1 DEF Elsewhere
<1> QED
  BY <1>1, <1>3, <1>4, <1>5, <1>6, <1>7, <1>8, <1>9, <1>10, <1>11 DEF Work

\* The fields a call keeps until its page is done.
LEMMA InCallReads ==
    ASSUME JobsOK, NEW db, NEW registered, Reading(job[Web], db, registered),
           job[Web].kind = "ingest", job[Web].step \in InCall,
           \/ FindThreshold(Web) \/ CreateThreshold(Web)
           \/ (\E p \in Pool : StorePool(Web, p)) \/ CreatePair(Web)
           \/ \E S, silent : Stores(Web, S, silent)
    PROVE  Reading(job'[Web], db, registered)
<1>1. job[Web] \in Job /\ Web \in Process
  BY DEF JobsOK, Process
<1>2. CASE FindThreshold(Web) \/ CreateThreshold(Web)
  <2>1. AfterThreshold(Web) = "fetch"
    BY DEF AfterThreshold
  <2>2. PICK step \in {"seed", "fetch"} : Step(Web, step)
    BY <1>2, <2>1 DEF FindThreshold, CreateThreshold
  <2>3. job'[Web] = [job[Web] EXCEPT !.step = step]
    BY <1>1, <2>2 DEF Step, JobsOK, Job
  <2>4. Same(job'[Web], job[Web]) /\ job'[Web].step \in InCall
    BY <1>1, <2>2, <2>3 DEF Same, InCall, Job
  <2> QED
    BY <2>4, SameCall DEF Same
<1>3. CASE \/ (\E p \in Pool : StorePool(Web, p)) \/ CreatePair(Web)
           \/ \E S, silent : Stores(Web, S, silent)
  <2>1. Same(job'[Web], job[Web]) /\ job'[Web].step \in InCall
    BY <1>3, StoringSame DEF InCall
  <2> QED
    BY <2>1, SameCall DEF Same
<1> QED
  BY <1>2, <1>3

LEMMA WebWorkReads ==
    ASSUME TypeInv, ReadInv, Work(Web)
    PROVE  Reading(job'[Web], sources, cache)
<1>1. JobsOK /\ Reading(job[Web], sources, cache) /\ sources \in SUBSET Source
  BY TypeParts DEF ReadInv, RegistryOK
<1>2. CASE job[Web].kind # "ingest"
  <2>1. job[Web].step \notin {"call", "done"}
    BY <1>1, <1>2 DEF Reading
  <2>2. Elsewhere(job'[Web])
    BY <1>1, <1>2, <2>1, ElsewhereStays
  <2> QED
    BY <2>2, OtherKind DEF Elsewhere
<1>3. CASE job[Web].kind = "ingest"
  <2>1. job[Web].step \in InCall \cup {"call", "done"}
    BY <1>1, <1>3 DEF Reading
  <2>2. job[Web].step # "verify" /\ Web # Cron
    BY <2>1 DEF InCall, Web, Cron
  <2>3. /\ job[Web].step \in InCall
        /\ \/ FindThreshold(Web) \/ CreateThreshold(Web)
           \/ (\E p \in Pool : StorePool(Web, p)) \/ CreatePair(Web)
           \/ \E S, silent : Stores(Web, S, silent)
           \/ \E hadData \in BOOLEAN : Turned(Web, hadData)
    <3>1. \/ FindThreshold(Web) \/ CreateThreshold(Web)
          \/ (\E p \in Pool : StorePool(Web, p)) \/ CreatePair(Web) \/ Stored(Web)
          \/ FetchPage(Web)
      BY <1>3, <2>2 DEF Work, NextTokenPools, NextThreshold, AddSibling, AddEnds,
                        FetchByAddress, EnrichPair, DiscoverChains
    <3>2. CASE FindThreshold(Web) \/ CreateThreshold(Web)
      BY <3>2 DEF FindThreshold, CreateThreshold, InCall
    <3>3. CASE (\E p \in Pool : StorePool(Web, p)) \/ CreatePair(Web)
      BY <3>3 DEF StorePool, CreatePair, InCall
    <3>4. CASE Stored(Web)
      BY <1>3, <3>4 DEF Stored, InCall
    <3>5. CASE FetchPage(Web)
      BY <3>5 DEF FetchPage, InCall
    <3> QED
      BY <3>1, <3>2, <3>3, <3>4, <3>5
  <2> QED
    BY <1>1, <1>3, <2>3, InCallReads, TurnedReads
<1> QED
  BY <1>2, <1>3

\* The pipeline's steps leave the operator's job alone.
LEMMA CronWorkReads ==
    ASSUME JobsOK, Work(Cron)
    PROVE  job'[Web] = job[Web]
<1>1. Web \in Process /\ Cron \in Process /\ Web # Cron
  BY DEF Process, Web, Cron
<1>2. CASE FindThreshold(Cron) \/ CreateThreshold(Cron)
  BY <1>1, <1>2 DEF FindThreshold, CreateThreshold, Step, JobsOK
<1>3. CASE (\E p \in Pool : StorePool(Cron, p)) \/ CreatePair(Cron)
  BY <1>1, <1>3 DEF StorePool, CreatePair, JobsOK
<1>4. CASE Stored(Cron)
  BY <1>1, <1>4 DEF Stored, Turned, JobsOK
<1>5. CASE NextTokenPools(Cron)
  BY <1>1, <1>5 DEF NextTokenPools, JobsOK
<1>6. CASE NextSource \/ SelectUnseen \/ NextRefresh \/ Revalidate
  BY <1>1, <1>6 DEF NextSource, SelectUnseen, NextRefresh, Revalidate, JobsOK
<1>7. CASE FetchPage(Cron) \/ FetchByAddress(Cron)
  <2>1. (\E S, silent : Stores(Cron, S, silent)) \/ (\E hadData : Turned(Cron, hadData))
    BY <1>7 DEF FetchPage, FetchByAddress
  <2> QED
    BY <1>1, <2>1 DEF Stores, Turned, JobsOK
<1> QED
  BY <1>1, <1>2, <1>3, <1>4, <1>5, <1>6, <1>7 DEF Work
LEMMA InitReads == Init => ReadInv
<1> SUFFICES ASSUME Init PROVE ReadInv
  OBVIOUS
<1>1. job[Web] = Idle /\ cache.rows \subseteq sources
  BY DEF Init, Process
<1>2. Reading(Idle, sources, cache)
  BY OtherKind DEF Idle
<1> QED
  BY <1>1, <1>2 DEF ReadInv

\* What the operator starts reads nothing yet.
LEMMA StartsReads ==
    ASSUME JobsOK, NEW j, Starts(j), Elsewhere(j)
    PROVE  \A db, registered : Reading(job'[Web], db, registered)
<1>1. job'[Web] = j
  BY DEF Starts, JobsOK, Process
<1> QED
  BY <1>1, OtherKind DEF Elsewhere

LEMMA ReadStep == TypeInv /\ ReadInv /\ [Next]_vars => ReadInv'
<1> SUFFICES ASSUME TypeInv, ReadInv, [Next]_vars PROVE ReadInv'
  OBVIOUS
<1>a. JobsOK /\ RegistryOK /\ sources \in SUBSET Source /\ cache.rows \subseteq sources
  BY TypeParts DEF ReadInv, RegistryOK
<1>b. Reading(job[Web], sources, cache)
  BY DEF ReadInv
<1>c. Web \in Process /\ Cron \in Process /\ Web # Cron
  BY DEF Process, Web, Cron
<1>d. ASSUME cache'.rows \subseteq sources', Reading(job'[Web], sources', cache')
      PROVE  ReadInv'
  BY <1>d DEF ReadInv
<1>1. CASE StartPipeline \/ CronCrash
  <2>1. job'[Web] = job[Web] /\ UNCHANGED <<sources, cache>>
    BY <1>a, <1>c, <1>1 DEF StartPipeline, CronCrash, JobsOK, registry
  <2> QED
    BY <1>a, <1>b, <1>d, <2>1
<1>2. CASE Work(Cron)
  <2>1. job'[Web] = job[Web] /\ UNCHANGED <<sources, cache>>
    BY <1>a, <1>2, CronWorkReads DEF Work, registry
  <2> QED
    BY <1>a, <1>b, <1>d, <2>1
<1>3. CASE StartIngest
  <2> DEFINE j == [Idle EXCEPT !.kind = "ingest", !.step = "call"]
  <2>1. job'[Web] = j /\ UNCHANGED <<sources, cache>>
    BY <1>a, <1>c, <1>3 DEF StartIngest, Starts, JobsOK
  <2>2. j.kind = "ingest" /\ j.step = "call" /\ j.from = {}
    BY DEF Idle
  <2> HIDE DEF j
  <2>3. Between(j, {})
    BY <2>2 DEF Between
  <2>4. Tracked(j, sources, cache)
    BY <2>2, <2>3 DEF Tracked
  <2>5. Reading(j, sources, cache)
    BY <2>2, <2>4 DEF Reading
  <2> QED
    BY <1>a, <1>d, <2>1, <2>5
<1>4. CASE OpenThresholds \/ (\E p \in Pool : AddPair(p)) \/ (\E t \in Token : AddToken(t))
  <2>1. getSources(FALSE) /\ UNCHANGED sources
    BY <1>4 DEF OpenThresholds, AddPair, AddToken, Starts
  <2>2. cache'.rows \subseteq sources'
    BY <1>a, <2>1 DEF getSources
  <2>3. Idle \in Job
    BY IdleOK DEF JobOK
  <2>4. \E j : Starts(j) /\ Elsewhere(j)
    <3>1. CASE OpenThresholds
      <4> DEFINE known == cache'.rows
                 j == [Idle EXCEPT !.kind = "thresholds", !.step = "next", !.known = known]
      <4>1. Starts(j)
        BY <3>1 DEF OpenThresholds
      <4> HIDE DEF known
      <4>2. Elsewhere(j)
        BY <2>3 DEF Elsewhere, Job
      <4> QED
        BY <4>1, <4>2
    <3>2. ASSUME NEW p \in Pool, AddPair(p) PROVE \E j : Starts(j) /\ Elsewhere(j)
      <4> DEFINE source == SourceOf[p]
                 marking == Marking
      <4>1. PICK hops : Starts([Idle EXCEPT !.kind = "add", !.step = "threshold", !.at = source,
                          !.todo = {p}, !.since = marking, !.hops = hops])
        BY <3>2 DEF AddPair
      <4> DEFINE j == [Idle EXCEPT !.kind = "add", !.step = "threshold", !.at = source,
                         !.todo = {p}, !.since = marking, !.hops = hops]
      <4> HIDE DEF source, marking
      <4>2. Elsewhere(j)
        BY <2>3 DEF Elsewhere, Job
      <4> QED
        BY <4>1, <4>2
    <3>3. ASSUME NEW t \in Token, AddToken(t) PROVE \E j : Starts(j) /\ Elsewhere(j)
      <4>1. PICK hops : Starts(TokenPools([Idle EXCEPT !.hops = hops], t, cache'.rows))
        BY <3>3 DEF AddToken
      <4> DEFINE known == cache'.rows \cap ChainSources[t]
                 marking == Marking
                 k == [Idle EXCEPT !.hops = hops]
                 j == [k EXCEPT !.kind = "token", !.step = "next", !.token = t,
                                !.since = marking, !.known = known]
      <4>2. Starts(j)
        BY <4>1 DEF TokenPools
      <4> HIDE DEF known, marking
      <4>3. Elsewhere(j)
        BY <2>3 DEF Elsewhere, Job
      <4> QED
        BY <4>2, <4>3
    <3> QED
      BY <1>4, <3>1, <3>2, <3>3
  <2>5. Reading(job'[Web], sources', cache')
    BY <1>a, <2>4, StartsReads
  <2> QED
    BY <1>d, <2>2, <2>5
<1>5. CASE Work(Web)
  <2>1. Reading(job'[Web], sources, cache)
    BY <1>5, WebWorkReads
  <2>2. UNCHANGED <<sources, cache>>
    BY <1>5 DEF Work, registry
  <2> QED
    BY <1>a, <1>d, <2>1, <2>2
<1>6. CASE Call
  <2>1. cache' \in [state : {"cold", "loaded", "failed"}, rows : SUBSET Source]
    BY <1>6, TypeParts, LoadOK DEF Call
  <2>2. Reading(job'[Web], sources, cache')
    BY <1>6, <2>1, CallReads
  <2>3. cache'.rows \subseteq sources /\ UNCHANGED sources
    BY <1>a, <1>6 DEF Call, getSources
  <2> QED
    BY <1>d, <2>2, <2>3
<1>7. CASE Done \/ CallFails \/ WebCrash
  <2>1. job'[Web] = Idle
    BY <1>a, <1>c, <1>7 DEF Done, CallFails, WebCrash, JobsOK
  <2>2. Reading(Idle, sources', cache')
    BY OtherKind DEF Idle
  <2>3. cache'.rows \subseteq sources'
    BY <1>a, <1>7 DEF Done, CallFails, WebCrash, getSources, registry
  <2> QED
    BY <1>d, <2>1, <2>2, <2>3
<1>8. CASE \E s \in Source : Discover(s) \/ Reject(s) \/ Promote(s)
  <2>1. job'[Web] = job[Web] /\ cache' = cache /\ sources \subseteq sources'
    BY <1>8 DEF Discover, Reject, Promote
  <2>2. Reading(job[Web], sources', cache')
    BY <1>b, <2>1, TrackedGrows
  <2> QED
    BY <1>a, <1>d, <2>1, <2>2
<1>9. CASE FinishPromotion
  <2>1. job'[Web] = job[Web] /\ UNCHANGED sources /\ getSources(TRUE)
    BY <1>9 DEF FinishPromotion
  <2>2. cache'.rows \subseteq sources' /\ (cache'.state = "loaded" => cache'.rows = sources')
    BY <2>1 DEF getSources
  <2>3. Reading(job[Web], sources', cache')
    BY <1>b, <2>1, <2>2, TrackedGrows
  <2> QED
    BY <1>d, <2>1, <2>2, <2>3
<1>10. CASE Change \/ Decide \/ NextWindow \/ UNCHANGED vars
  <2>1. job'[Web] = job[Web] /\ UNCHANGED <<sources, cache>>
    BY <1>10 DEF Change, Decide, NextWindow, vars, registry
  <2> QED
    BY <1>a, <1>b, <1>d, <2>1
<1> QED
  BY <1>1, <1>2, <1>3, <1>4, <1>5, <1>6, <1>7, <1>8, <1>9, <1>10 DEF Next, Serve

(* An operator's ingest that says done has read every page of every source *)
(* the registry held when it began, although its cursor is an index into a *)
(* registry that promotions shift, crashes empty and reloads may fail      *)
(* (pages/api/admin/ingest.ts).                                            *)
THEOREM IngestComplete == Spec => []IngestIsComplete
<1>1. ReadInv => IngestIsComplete
  BY DEF ReadInv, Reading, Finished, Whole, IngestIsComplete
<1> QED
  BY <1>1, InitTyped, TypeStep, InitReads, ReadStep, PTL DEF Spec
===========================================================================
