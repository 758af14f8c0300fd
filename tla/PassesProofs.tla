---------------------------- MODULE PassesProofs ----------------------------
(***************************************************************************)
(* What an operator's revalidation is worth when it ends, for any tokens,  *)
(* pairs and passes beside it, and any failures, crashes and changes of    *)
(* the thresholds (pages/api/admin/revalidate.ts, lib/verdictRunner.ts).   *)
(***************************************************************************)
EXTENDS Passes, TLAPS

---------------------------------------------------------------------------
(* Types.  A job holds the answer its pass asks for, and the verdict read. *)

IdentityAnswer == [confirmed : BOOLEAN, listed : BOOLEAN, gap : 0 .. MaxGap]
CanonicalAnswer ==
    [cached : {"unknown", "this", "other", "nowhere"}, age : 0 .. CacheTtl]
ScamAnswer == [goplus : Answers, honeypot : Answers, trusted : BOOLEAN]
RescoreAnswer == [flagged : BOOLEAN]
FactoryAnswer == [factory : {"unknown", "canonical", "foreign"}]
IngestAnswer == [coins : SUBSET Token]
Reading == [status : Status, floor : 0 .. MaxFloor]

Got == {<<>>} \cup IdentityAnswer \cup CanonicalAnswer \cup ScamAnswer
              \cup RescoreAnswer \cup FactoryAnswer \cup IngestAnswer
Readings == {<<>>} \cup Reading

Job == [pass : Passes \cup {None}, step : Step, once : BOOLEAN, todo : SUBSET Row,
        at : Row \cup {None}, got : Got, judge : SUBSET Pair, read : Readings,
        since : SUBSET Runner, fresh : SUBSET Row, from : 0 .. MaxFloor]

\* What a job is about to write is an answer of its pass, or a verdict.
Fits(j) ==
    /\ j.step = "write" =>
        /\ j.pass = "identity" => j.got \in IdentityAnswer
        /\ j.pass = "canonical" => j.got \in CanonicalAnswer
        /\ j.pass \in {"scam", "enrich"} => j.got \in ScamAnswer
        /\ j.pass = "rescore" => j.got \in RescoreAnswer
        /\ j.pass = "factory" => j.got \in FactoryAnswer
        /\ j.pass = "ingest" => j.got \in IngestAnswer
    /\ j.step = "commit" => j.at \in Pair /\ j.read \in Reading

Rows ==
    /\ world \in [Token -> Worlds] /\ pool \in [Pair -> Pools]
    /\ settled \in BOOLEAN /\ floor \in 0 .. MaxFloor
    /\ token \in [Token -> TokenRow] /\ pair \in [Pair -> PairRow]
    /\ ran \in BOOLEAN /\ jobs \in 0 .. MaxJobs
Jobs == job \in [Runner -> Job] /\ \A r \in Runner : Fits(job[r])
TypeInv == Rows /\ Jobs

LEMMA IdleIsAJob == Idle \in Job /\ Fits(Idle)
BY ConstantsAssumption DEF Idle, Job, Fits, Got, Readings, Step, Row

---------------------------------------------------------------------------
(* How the jobs change. *)

\* A job begun is the runner's own; the other one learns that it is older.
LEMMA BegunJob ==
    ASSUME TypeInv, NEW r \in Runner, NEW pass \in Passes
    PROVE  LET js == Begun(r, pass) IN
           /\ js \in [Runner -> Job] /\ \A q \in Runner : Fits(js[q])
           /\ js[r].pass = pass /\ js[r].step = "batch" /\ js[r].fresh = {}
           /\ js[r].from = IF pass = "revalidate" THEN floor ELSE 0
           /\ \A q \in Runner \ {r} : js[q] = [job[q] EXCEPT !.since = job[q].since \ {r}]
<1> DEFINE mine == [Idle EXCEPT !.pass = pass, !.step = "batch",
                      !.from = IF pass = "revalidate" THEN floor ELSE 0,
                      !.since = IF r = Cron THEN Running \cup {r} ELSE {}]
<1>1. mine \in Job /\ Fits(mine)
  <2>1. Running \cup {r} \subseteq Runner
    BY DEF Running
  <2>2. floor \in 0 .. MaxFloor /\ 0 \in 0 .. MaxFloor
    BY ConstantsAssumption DEF TypeInv, Rows
  <2>3. "batch" \in Step
    BY DEF Step
  <2> HIDE DEF mine
  <2>4. mine = [Idle EXCEPT !.pass = pass, !.step = "batch",
                      !.from = IF pass = "revalidate" THEN floor ELSE 0,
                      !.since = IF r = Cron THEN Running \cup {r} ELSE {}]
    BY DEF mine
  <2>5. mine \in Job
    BY <2>1, <2>2, <2>3, <2>4, IdleIsAJob DEF Job
  <2>6. mine.step = "batch"
    BY <2>4, IdleIsAJob DEF Job
  <2> QED
    BY <2>5, <2>6 DEF Fits
<1>2. mine.pass = pass /\ mine.step = "batch" /\ mine.fresh = {}
      /\ mine.from = IF pass = "revalidate" THEN floor ELSE 0
  BY DEF Idle
<1>3. ASSUME NEW q \in Runner
      PROVE  LET theirs == [job[q] EXCEPT !.since = job[q].since \ {r}]
             IN theirs \in Job /\ Fits(theirs)
  BY DEF TypeInv, Jobs, Job, Fits
<1>4. Begun(r, pass) = [q \in Runner |-> IF q = r THEN mine
                          ELSE [job[q] EXCEPT !.since = job[q].since \ {r}]]
  BY DEF Begun
<1> HIDE DEF mine
<1> QED
  BY <1>1, <1>2, <1>3, <1>4

\* A stamp touches what a job counts as done, and nothing else.
LEMMA StampedJob ==
    ASSUME NEW js \in [Runner -> Job], NEW r \in Runner, NEW x \in Row, NEW passes
    PROVE  LET st == Stamped(js, r, x, passes) IN
           /\ st \in [Runner -> Job]
           /\ \A q \in Runner : \/ st[q] = js[q]
                                \/ /\ js[q].pass \in passes /\ q \in js[r].since
                                   /\ st[q] = [js[q] EXCEPT !.fresh = js[q].fresh \cup {x}]
                                \/ /\ js[q].pass \in passes /\ q \notin js[r].since
                                   /\ st[q] = [js[q] EXCEPT !.fresh = js[q].fresh \ {x}]
<1>1. ASSUME NEW q \in Runner
      PROVE  /\ js[q] \in Job
             /\ [js[q] EXCEPT !.fresh = js[q].fresh \cup {x}] \in Job
             /\ [js[q] EXCEPT !.fresh = js[q].fresh \ {x}] \in Job
  BY DEF Job
<1> QED
  BY <1>1 DEF Stamped

\* What a runner goes on with: verdicts to run, or its batch.
LEMMA OnwardJob ==
    ASSUME NEW js \in [Runner -> Job], NEW r \in Runner, NEW judge \in SUBSET Pair
    PROVE  LET on == Onward(js, r, judge) IN
           /\ on \in [Runner -> Job]
           /\ \A q \in Runner \ {r} : on[q] = js[q]
           /\ on[r].pass = js[r].pass /\ on[r].from = js[r].from /\ on[r].fresh = js[r].fresh
           /\ on[r].step \in {"judge", "batch"}
<1> DEFINE judging == [js[r] EXCEPT !.got = <<>>, !.read = <<>>, !.at = None,
                         !.judge = judge, !.step = "judge"]
           working == [js[r] EXCEPT !.got = <<>>, !.read = <<>>, !.at = None,
                         !.judge = {}, !.step = "batch",
                         !.since = IF r = Page THEN {} ELSE js[r].since]
<1>1. js[r] \in Job /\ r \in DOMAIN js
  OBVIOUS
<1>2. /\ <<>> \in Got /\ <<>> \in Readings /\ None \in Row \cup {None}
      /\ {"judge", "batch"} \subseteq Step /\ {} \subseteq Pair /\ {} \subseteq Runner
  BY DEF Got, Readings, Step
<1>3. /\ judging \in Job
      /\ judging.pass = js[r].pass /\ judging.from = js[r].from
      /\ judging.fresh = js[r].fresh /\ judging.step = "judge"
  BY <1>1, <1>2 DEF Job
<1>4. /\ working \in Job
      /\ working.pass = js[r].pass /\ working.from = js[r].from
      /\ working.fresh = js[r].fresh /\ working.step = "batch"
  BY <1>1, <1>2 DEF Job
<1>5. Onward(js, r, judge) = [js EXCEPT ![r] = IF judge # {} THEN judging ELSE working]
  BY <1>1 DEF Onward, Job
<1> HIDE DEF judging, working
<1> QED
  BY <1>1, <1>3, <1>4, <1>5

\* A row taken up: where the runner stands, and who is running.
LEMMA TakenJob ==
    ASSUME Jobs, NEW r \in Runner, NEW x \in Row
    PROVE  LET js == Taken(r, x) IN
           /\ js \in [Runner -> Job]
           /\ \A q \in Runner \ {r} : js[q] = job[q]
           /\ js[r].pass = job[r].pass /\ js[r].from = job[r].from /\ js[r].fresh = job[r].fresh
           /\ js[r].step = job[r].step /\ js[r].read = job[r].read
<1> DEFINE mine == [job[r] EXCEPT !.todo = job[r].todo \ {x}, !.at = x,
                      !.since = IF r = Page THEN Running ELSE job[r].since]
<1>1. job[r] \in Job /\ r \in DOMAIN job
  BY DEF Jobs
<1>2. Running \subseteq Runner
  BY DEF Running
<1>3. /\ mine \in Job /\ mine.pass = job[r].pass /\ mine.from = job[r].from
      /\ mine.fresh = job[r].fresh /\ mine.step = job[r].step /\ mine.read = job[r].read
  BY <1>1, <1>2 DEF Job
<1>4. Taken(r, x) = [job EXCEPT ![r] = mine]
  BY <1>1 DEF Taken, Job
<1> HIDE DEF mine
<1> QED
  BY <1>1, <1>3, <1>4 DEF Jobs

---------------------------------------------------------------------------
(* The steps of a visit, by what they do to the jobs: the runner asks, and *)
(* holds an answer of its pass; or it writes, which stamps the row; or it  *)
(* passes the row by.                                                      *)

\* A job asks: it is about to write an answer.
LEMMA AskingJob ==
    ASSUME Jobs, NEW r \in Runner, NEW x \in Row, NEW answers \in SUBSET Got,
           Asked(r, x, answers)
    PROVE  /\ job' \in [Runner -> Job]
           /\ \A q \in Runner \ {r} : job'[q] = job[q]
           /\ job'[r].pass = job[r].pass /\ job'[r].from = job[r].from
           /\ job'[r].fresh = job[r].fresh /\ job'[r].step = "write"
           /\ job'[r].got \in answers
<1> DEFINE js == Taken(r, x)
<1>1. PICK a \in answers : job' = [js EXCEPT ![r].got = a, ![r].step = "write"]
  BY DEF Asked
<1>2. /\ js \in [Runner -> Job]
      /\ \A q \in Runner \ {r} : js[q] = job[q]
      /\ js[r].pass = job[r].pass /\ js[r].from = job[r].from /\ js[r].fresh = job[r].fresh
  BY TakenJob
<1> HIDE DEF js
<1> DEFINE mine == [js[r] EXCEPT !.got = a, !.step = "write"]
<1>3. js[r] \in Job
  BY <1>2
<1>4. mine \in Job /\ mine.got = a /\ mine.step = "write" /\ mine.pass = js[r].pass
      /\ mine.from = js[r].from /\ mine.fresh = js[r].fresh
  <2>1. a \in Got /\ "write" \in Step
    BY DEF Step
  <2> QED
    BY <1>3, <2>1 DEF Job
<1>5. job' = [js EXCEPT ![r] = mine]
  BY <1>1, <1>2, <1>3 DEF Job
<1> HIDE DEF mine
<1> QED
  BY <1>2, <1>4, <1>5
\* The runner r goes on, at anything but a verdict about to be written: no job
\* changes its pass, what it began with or, if it is a revalidation, what it counts
\* as done; the other runner stays where it is.
GoesOn(r) ==
    /\ job' \in [Runner -> Job]
    /\ \A q \in Runner :
        /\ job'[q].pass = job[q].pass /\ job'[q].from = job[q].from
        /\ job[q].pass = "revalidate" => job'[q].fresh = job[q].fresh
        /\ q # r => /\ job'[q].step = job[q].step /\ job'[q].since = job[q].since
                    /\ job'[q].read = job[q].read /\ job'[q].got = job[q].got
                    /\ job'[q].at = job[q].at
    /\ job'[r].step # "commit" /\ Fits(job'[r])

LEMMA AskedGoesOn ==
    ASSUME Jobs, NEW r \in Runner, NEW x \in Row, NEW answers \in SUBSET Got,
           Asked(r, x, answers),
           /\ job[r].pass = "identity" => answers \subseteq IdentityAnswer
           /\ job[r].pass = "canonical" => answers \subseteq CanonicalAnswer
           /\ job[r].pass \in {"scam", "enrich"} => answers \subseteq ScamAnswer
           /\ job[r].pass = "rescore" => answers \subseteq RescoreAnswer
           /\ job[r].pass = "factory" => answers \subseteq FactoryAnswer
           /\ job[r].pass = "ingest" => answers \subseteq IngestAnswer
    PROVE  GoesOn(r)
<1>1. /\ job' \in [Runner -> Job]
      /\ \A q \in Runner \ {r} : job'[q] = job[q]
      /\ job'[r].pass = job[r].pass /\ job'[r].from = job[r].from
      /\ job'[r].fresh = job[r].fresh /\ job'[r].step = "write"
      /\ job'[r].got \in answers
  BY AskingJob
<1>2. Fits(job'[r])
  BY <1>1 DEF Fits
<1> QED
  BY <1>1, <1>2 DEF GoesOn

LEMMA OnwardGoesOn ==
    ASSUME Jobs, NEW r \in Runner, NEW js \in [Runner -> Job], NEW judge \in SUBSET Pair,
           \A q \in Runner :
            /\ js[q].pass = job[q].pass /\ js[q].from = job[q].from
            /\ job[q].pass = "revalidate" => js[q].fresh = job[q].fresh
            /\ q # r => /\ js[q].step = job[q].step /\ js[q].since = job[q].since
                        /\ js[q].read = job[q].read /\ js[q].got = job[q].got
                        /\ js[q].at = job[q].at,
           job' = Onward(js, r, judge)
    PROVE  GoesOn(r)
<1>1. /\ job' \in [Runner -> Job]
      /\ \A q \in Runner \ {r} : job'[q] = js[q]
      /\ job'[r].pass = js[r].pass /\ job'[r].from = js[r].from /\ job'[r].fresh = js[r].fresh
      /\ job'[r].step \in {"judge", "batch"}
  BY OnwardJob
<1>2. Fits(job'[r])
  BY <1>1 DEF Fits
<1> QED
  BY <1>1, <1>2 DEF GoesOn

LEMMA WroteGoesOn ==
    ASSUME Jobs, NEW r \in Runner, NEW x \in Row, NEW passes, "revalidate" \notin passes,
           NEW judge \in SUBSET Pair, Wrote(r, x, passes, judge)
    PROVE  GoesOn(r)
<1> DEFINE js == Stamped(job, r, x, passes)
<1>1. /\ js \in [Runner -> Job]
      /\ \A q \in Runner : \/ js[q] = job[q]
                           \/ /\ job[q].pass \in passes /\ q \in job[r].since
                              /\ js[q] = [job[q] EXCEPT !.fresh = job[q].fresh \cup {x}]
                           \/ /\ job[q].pass \in passes /\ q \notin job[r].since
                              /\ js[q] = [job[q] EXCEPT !.fresh = job[q].fresh \ {x}]
  BY StampedJob DEF Jobs
<1>2. job' = Onward(js, r, judge)
  BY DEF Wrote
<1>3. \A q \in Runner : job[q] \in Job
  BY DEF Jobs
<1> HIDE DEF js
<1>4. \A q \in Runner :
        /\ js[q].pass = job[q].pass /\ js[q].from = job[q].from
        /\ job[q].pass = "revalidate" => js[q].fresh = job[q].fresh
        /\ js[q].step = job[q].step /\ js[q].since = job[q].since
        /\ js[q].read = job[q].read /\ js[q].got = job[q].got
        /\ js[q].at = job[q].at
  BY <1>1, <1>3 DEF Job
<1> QED
  BY <1>1, <1>2, <1>4, OnwardGoesOn

\* A row passed by, for its verdicts or for nothing, and stamped or not.
LEMMA PassedBy ==
    ASSUME Jobs, NEW r \in Runner, NEW x \in Row, NEW judge \in SUBSET Pair,
           NEW passes, "revalidate" \notin passes,
           \/ job' = Onward(Taken(r, x), r, judge)
           \/ job' = Onward(Stamped(Taken(r, x), r, x, passes), r, judge)
    PROVE  GoesOn(r)
<1> DEFINE js == Taken(r, x)
           st == Stamped(js, r, x, passes)
<1>1. /\ js \in [Runner -> Job]
      /\ \A q \in Runner \ {r} : js[q] = job[q]
      /\ js[r].pass = job[r].pass /\ js[r].from = job[r].from /\ js[r].fresh = job[r].fresh
  BY TakenJob
<1>2. CASE job' = Onward(js, r, judge)
  BY <1>1, <1>2, OnwardGoesOn
<1>3. CASE job' = Onward(st, r, judge)
  <2> HIDE DEF js
  <2>1. /\ st \in [Runner -> Job]
        /\ \A q \in Runner : \/ st[q] = js[q]
                             \/ /\ js[q].pass \in passes /\ q \in js[r].since
                                /\ st[q] = [js[q] EXCEPT !.fresh = js[q].fresh \cup {x}]
                             \/ /\ js[q].pass \in passes /\ q \notin js[r].since
                                /\ st[q] = [js[q] EXCEPT !.fresh = js[q].fresh \ {x}]
    BY <1>1, StampedJob
  <2> HIDE DEF st
  <2>2. \A q \in Runner : js[q] \in Job
    BY <1>1
  <2>3. \A q \in Runner :
          /\ st[q].pass = js[q].pass /\ st[q].from = js[q].from
          /\ js[q].pass = "revalidate" => st[q].fresh = js[q].fresh
          /\ st[q].step = js[q].step /\ st[q].since = js[q].since
          /\ st[q].read = js[q].read /\ st[q].got = js[q].got
          /\ st[q].at = js[q].at
    BY <2>1, <2>2 DEF Job
  <2>4. \A q \in Runner :
          /\ st[q].pass = job[q].pass /\ st[q].from = job[q].from
          /\ job[q].pass = "revalidate" => st[q].fresh = job[q].fresh
          /\ q # r => /\ st[q].step = job[q].step /\ st[q].since = job[q].since
                      /\ st[q].read = job[q].read /\ st[q].got = job[q].got
                      /\ st[q].at = job[q].at
    BY <1>1, <2>3
  <2> QED
    BY <1>3, <2>1, <2>4, OnwardGoesOn
<1> QED
  BY <1>2, <1>3

---------------------------------------------------------------------------
(* The answers a pass may get. *)

LEMMA NextGapTyped ==
    ASSUME NEW row \in TokenRow, NEW confirmed \in BOOLEAN
    PROVE  nextGap(row, confirmed) \in 0 .. MaxGap
<1>1. row.gap \in Nat /\ MaxGap \in Nat \ {0} /\ ConfirmedGap \in 0 .. MaxGap
  BY ConstantsAssumption DEF TokenRow
<1> QED
  BY <1>1 DEF nextGap

LEMMA AnswersTyped ==
    ASSUME Rows, NEW t \in Token
    PROVE  /\ Canonical(t) \subseteq CanonicalAnswer
           /\ ScamAnswers(t) \subseteq ScamAnswer
<1>1. token[t] \in TokenRow /\ world[t] \in World
  BY ConstantsAssumption DEF Rows
<1>2. Answer(world[t].canonical, "unknown") \subseteq {"unknown", "this", "other", "nowhere"}
  BY <1>1 DEF Answer, World
<1>3. 0 \in 0 .. CacheTtl
  BY ConstantsAssumption
<1>4. Canonical(t) \subseteq CanonicalAnswer
  <2>1. token[t].cached \in {"unknown", "this", "other", "nowhere"}
        /\ token[t].cacheAge \in 0 .. CacheTtl
    BY <1>1 DEF TokenRow
  <2>2. [cached |-> token[t].cached, age |-> token[t].cacheAge] \in CanonicalAnswer
    BY <2>1 DEF CanonicalAnswer
  <2>3. \A c \in Answer(world[t].canonical, "unknown") : [cached |-> c, age |-> 0] \in CanonicalAnswer
    BY <1>2, <1>3 DEF CanonicalAnswer
  <2> QED
    BY <2>2, <2>3 DEF Canonical
<1>5. /\ Answer(world[t].goplus, "unknown") \subseteq Answers
      /\ Answer(world[t].honeypot, "unknown") \subseteq Answers
  BY <1>1 DEF Answer, World, Answers
<1>6. ScamAnswers(t) \subseteq ScamAnswer
  <2> DEFINE trusted == "goplus" \in world[t].knows
  <2>1. trusted \in BOOLEAN
    OBVIOUS
  <2> HIDE DEF trusted
  <2>2. \A g \in Answers : \A h \in Answers :
          [goplus |-> g, honeypot |-> h, trusted |-> trusted] \in ScamAnswer
    BY <2>1 DEF ScamAnswer
  <2>3. ScamAnswers(t) = {[goplus |-> g, honeypot |-> h, trusted |-> trusted] :
                            g \in Answer(world[t].goplus, "unknown"),
                            h \in Answer(world[t].honeypot, "unknown")}
    BY DEF ScamAnswers, trusted
  <2> QED
    BY <1>5, <2>2, <2>3
<1> QED
  BY <1>4, <1>6

---------------------------------------------------------------------------
(* The steps of the passes. *)

\* What a step of a pass other than a verdict leaves of the rows.
LEMMA TokenStep ==
    ASSUME TypeInv, NEW r \in Runner, CheckTokens(r)
    PROVE  token' \in [Token -> TokenRow] /\ GoesOn(r)
<1> USE DEF TypeInv
<1>1. Token \subseteq Row
  BY DEF Row
<1>2. \A t \in Token : PairsOf(t) \in SUBSET Pair
  BY DEF PairsOf
<1>3. /\ \A S : S \subseteq IdentityAnswer => S \in SUBSET Got
      /\ \A S : S \subseteq CanonicalAnswer => S \in SUBSET Got
      /\ \A S : S \subseteq ScamAnswer => S \in SUBSET Got
      /\ \A S : S \subseteq RescoreAnswer => S \in SUBSET Got
  BY DEF Got
<1>4. ASSUME NEW t \in Token, AskIdentity(r, t) PROVE token' = token /\ GoesOn(r)
  <2> DEFINE answers == {[confirmed |-> aggregateIdentity(k), listed |-> "coingecko" \in k,
                gap |-> nextGap(token[t], aggregateIdentity(k))] : k \in resolveTokenIdentity(t)}
  <2>1. answers \subseteq IdentityAnswer
    <3>1. \A k : aggregateIdentity(k) \in BOOLEAN /\ ("coingecko" \in k) \in BOOLEAN
      BY DEF aggregateIdentity
    <3>2. \A k : nextGap(token[t], aggregateIdentity(k)) \in 0 .. MaxGap
      BY <3>1, NextGapTyped DEF Rows
    <3>3. \A k : [confirmed |-> aggregateIdentity(k), listed |-> "coingecko" \in k,
                  gap |-> nextGap(token[t], aggregateIdentity(k))] \in IdentityAnswer
      BY <3>1, <3>2 DEF IdentityAnswer
    <3> QED
      BY <3>3
  <2>2. job[r].pass = "identity" /\ Asked(r, t, answers) /\ token' = token
    BY <1>4 DEF AskIdentity, Visits
  <2> HIDE DEF answers
  <2> QED
    BY <1>1, <1>3, <2>1, <2>2, AskedGoesOn
<1>5. ASSUME NEW t \in Token, SkipIdentity(r, t)
      PROVE  token' \in [Token -> TokenRow] /\ GoesOn(r)
  <2>1. token' = [token EXCEPT ![t].gap = token[t].due]
        /\ job' = Onward(Stamped(Taken(r, t), r, t, {"identity"}), r, {})
    BY <1>5 DEF SkipIdentity
  <2>2. token' \in [Token -> TokenRow]
    BY <2>1 DEF Rows, TokenRow
  <2>3. GoesOn(r)
    BY <1>1, <2>1, PassedBy
  <2> QED
    BY <2>2, <2>3
<1>6. ASSUME NEW t \in Token, WriteIdentity(r, t)
      PROVE  token' \in [Token -> TokenRow] /\ GoesOn(r)
  <2> DEFINE got == job[r].got
             judge == IF got.confirmed THEN PairsOf(t) ELSE {}
  <2>1. got \in IdentityAnswer
    BY <1>6 DEF WriteIdentity, At, Jobs, Fits
  <2>2. /\ token' = [token EXCEPT ![t].confirmed = got.confirmed, ![t].gap = got.gap,
                       ![t].due = got.gap, ![t].coin = token[t].coin \/ got.listed]
        /\ Wrote(r, t, {"identity"}, judge)
    BY <1>6 DEF WriteIdentity
  <2>3. token' \in [Token -> TokenRow]
    <3> DEFINE row == [token[t] EXCEPT !.confirmed = got.confirmed, !.gap = got.gap,
                         !.due = got.gap, !.coin = token[t].coin \/ got.listed]
    <3>1. token[t] \in TokenRow
      BY DEF Rows
    <3>2. row \in TokenRow
      BY <2>1, <3>1 DEF TokenRow, IdentityAnswer
    <3>3. token' = [token EXCEPT ![t] = row]
      BY <2>2, <3>1 DEF Rows, TokenRow
    <3> HIDE DEF row
    <3> QED
      BY <3>2, <3>3 DEF Rows
  <2>4. judge \in SUBSET Pair
    BY <1>2
  <2> HIDE DEF judge
  <2> QED
    BY <1>1, <2>2, <2>3, <2>4, WroteGoesOn
<1>7. ASSUME NEW t \in Token, AskCanonical(r, t) PROVE token' = token /\ GoesOn(r)
  <2>1. job[r].pass = "canonical" /\ Asked(r, t, Canonical(t)) /\ token' = token
    BY <1>7 DEF AskCanonical, Visits
  <2>2. Canonical(t) \subseteq CanonicalAnswer
    BY AnswersTyped
  <2> QED
    BY <1>1, <1>3, <2>1, <2>2, AskedGoesOn
<1>8. ASSUME NEW t \in Token, SkipCanonical(r, t) PROVE token' = token /\ GoesOn(r)
  <2>1. job' = Onward(Taken(r, t), r, {}) /\ token' = token
    BY <1>8 DEF SkipCanonical, Skipped
  <2> QED
    BY <1>1, <2>1, PassedBy
<1>9. ASSUME NEW t \in Token, WriteCanonical(r, t)
      PROVE  token' \in [Token -> TokenRow] /\ GoesOn(r)
  <2> DEFINE got == job[r].got
             judge == IF got.cached \in {"this", "other"} THEN PairsOf(t) ELSE {}
  <2>1. got \in CanonicalAnswer
    BY <1>9 DEF WriteCanonical, At, Jobs, Fits
  <2>2. /\ token' = [token EXCEPT ![t].stale = token[t].stale \ {"canonical"},
               ![t].cached = IF got.cached = "unknown" THEN token[t].cached ELSE got.cached,
               ![t].cacheAge = IF got.cached = "unknown" THEN token[t].cacheAge ELSE got.age]
        /\ Wrote(r, t, {"canonical"}, judge)
    BY <1>9 DEF WriteCanonical
  <2>3. token' \in [Token -> TokenRow]
    <3> DEFINE known == got.cached # "unknown"
               row == [token[t] EXCEPT !.stale = token[t].stale \ {"canonical"},
                         !.cached = IF known THEN got.cached ELSE token[t].cached,
                         !.cacheAge = IF known THEN got.age ELSE token[t].cacheAge]
    <3>1. token[t] \in TokenRow
      BY DEF Rows
    <3>2. row \in TokenRow
      BY <2>1, <3>1 DEF TokenRow, CanonicalAnswer
    <3>3. token' = [token EXCEPT ![t] = row]
      BY <2>2, <3>1 DEF Rows, TokenRow
    <3> HIDE DEF row
    <3> QED
      BY <3>2, <3>3 DEF Rows
  <2>4. judge \in SUBSET Pair
    BY <1>2
  <2> HIDE DEF judge
  <2> QED
    BY <1>1, <2>2, <2>3, <2>4, WroteGoesOn
<1>10. ASSUME NEW t \in Token, AskScam(r, t) PROVE token' = token /\ GoesOn(r)
  <2>1. job[r].pass \in {"scam", "enrich"} /\ Asked(r, t, ScamAnswers(t)) /\ token' = token
    BY <1>10 DEF AskScam, Visits
  <2>2. ScamAnswers(t) \subseteq ScamAnswer
    BY AnswersTyped
  <2> QED
    BY <1>1, <1>3, <2>1, <2>2, AskedGoesOn
<1>11. ASSUME NEW t \in Token, WriteScam(r, t) \/ WriteScan(r, t)
       PROVE  token' \in [Token -> TokenRow] /\ GoesOn(r)
  <2> DEFINE got == job[r].got
             flag == evaluateTokenScam(got.goplus, got.honeypot)
             judge == IF flag THEN PairsOf(t) ELSE {}
  <2>1. got \in ScamAnswer
    BY <1>11 DEF WriteScam, WriteScan, At, Jobs, Fits
  <2>2. PICK stamps \in {{"scam"}, {"scam", "enrich"}} : ScamCheck(r, t, stamps)
    BY <1>11 DEF WriteScam, WriteScan
  <2> DEFINE stamped == [token[t] EXCEPT !.stale = token[t].stale \ stamps]
             checked == [stamped EXCEPT
                   !.goplus = IF got.goplus = "unknown" THEN stamped.goplus ELSE got.goplus,
                   !.trusted = IF got.goplus = "unknown" THEN stamped.trusted ELSE got.trusted,
                   !.honeypot = IF got.honeypot = "unknown" THEN stamped.honeypot
                                ELSE got.honeypot,
                   !.flagged = flag]
  <2>3. flag \in BOOLEAN /\ judge \in SUBSET Pair
    BY <1>2 DEF evaluateTokenScam
  <2>4. stamped \in TokenRow
    BY DEF Rows, TokenRow
  <2>5. checked \in TokenRow
    <3> HIDE DEF stamped, flag
    <3> QED
      BY <2>1, <2>3, <2>4 DEF TokenRow, ScamAnswer
  <2>6. \/ token' = [token EXCEPT ![t] = stamped] /\ Wrote(r, t, stamps, {})
        \/ token' = [token EXCEPT ![t] = checked] /\ Wrote(r, t, stamps, judge)
    BY <2>2 DEF ScamCheck
  <2> HIDE DEF stamped, checked, judge
  <2>7. token' \in [Token -> TokenRow]
    BY <2>4, <2>5, <2>6 DEF Rows
  <2>8. "revalidate" \notin stamps
    OBVIOUS
  <2>9. GoesOn(r)
    BY <1>1, <2>3, <2>6, <2>8, WroteGoesOn
  <2> QED
    BY <2>7, <2>9
<1>12. ASSUME NEW t \in Token, AskRescore(r, t) PROVE token' = token /\ GoesOn(r)
  <2> DEFINE flag == evaluateTokenScam(token[t].goplus, token[t].honeypot)
  <2>1. CASE Skipped(r, t)
    <3>1. token' = token
      BY <1>12 DEF AskRescore
    <3> QED
      BY <1>1, <2>1, <3>1, PassedBy DEF Skipped
  <2>2. CASE Asked(r, t, {[flagged |-> flag]})
    <3>1. {[flagged |-> flag]} \subseteq RescoreAnswer
      BY DEF RescoreAnswer, evaluateTokenScam
    <3>2. token' = token /\ job[r].pass = "rescore"
      BY <1>12 DEF AskRescore, Visits
    <3> HIDE DEF flag
    <3> QED
      BY <1>1, <1>3, <2>2, <3>1, <3>2, AskedGoesOn
  <2> QED
    BY <1>12, <2>1, <2>2 DEF AskRescore
<1>13. ASSUME NEW t \in Token, WriteRescore(r, t)
       PROVE  token' \in [Token -> TokenRow] /\ GoesOn(r)
  <2>1. job[r].got \in RescoreAnswer
    BY <1>13 DEF WriteRescore, At, Jobs, Fits
  <2>2. token' = [token EXCEPT ![t].flagged = job[r].got.flagged]
        /\ Wrote(r, t, {"rescore"}, PairsOf(t))
    BY <1>13 DEF WriteRescore
  <2>3. token' \in [Token -> TokenRow]
    BY <2>1, <2>2 DEF Rows, TokenRow, RescoreAnswer
  <2> QED
    BY <1>1, <1>2, <2>2, <2>3, WroteGoesOn
<1>14. ASSUME NEW p \in Pair, WriteIngest(r, p)
       PROVE  token' \in [Token -> TokenRow] /\ GoesOn(r)
  <2>1. /\ token' = [t \in Token |->
                   IF t \in TokensOf[p] THEN [token[t] EXCEPT !.coin = t \in job[r].got.coins]
                   ELSE token[t]]
        /\ Wrote(r, p, {"ingest"}, {p})
    BY <1>14 DEF WriteIngest
  <2>2. token' \in [Token -> TokenRow]
    <3>1. ASSUME NEW t \in Token
          PROVE  [token[t] EXCEPT !.coin = t \in job[r].got.coins] \in TokenRow
      <4>1. token[t] \in TokenRow /\ (t \in job[r].got.coins) \in BOOLEAN
        BY DEF Rows
      <4> DEFINE coin == t \in job[r].got.coins
      <4> HIDE DEF coin
      <4>2. coin \in BOOLEAN => [token[t] EXCEPT !.coin = coin] \in TokenRow
        BY <4>1 DEF TokenRow
      <4> QED
        BY <4>1, <4>2 DEF coin
    <3> QED
      BY <2>1, <3>1 DEF Rows
  <2>3. p \in Row
    BY DEF Row
  <2> QED
    BY <2>1, <2>2, <2>3, WroteGoesOn
<1> QED
  BY <1>4, <1>5, <1>6, <1>7, <1>8, <1>9, <1>10, <1>11, <1>12, <1>13, <1>14
     DEF CheckTokens, IdentityPass, CanonicalPass, ScamPass, EnrichPass, RescorePass, Rows

\* The factory pass writes its own column of a pair.
LEMMA FactoryStep ==
    ASSUME TypeInv, NEW r \in Runner, FactoryPass(r)
    PROVE  /\ pair' \in [Pair -> PairRow] /\ GoesOn(r)
           /\ \A p \in Pair : pair'[p].judged = pair[p].judged
<1> USE DEF TypeInv
<1>1. Pair \subseteq Row
  BY DEF Row
<1>2. ASSUME NEW p \in Pair, AskFactory(r, p) PROVE pair' = pair /\ GoesOn(r)
  <2> DEFINE answers == {[factory |-> f] : f \in Answer(pool[p].factory, "unknown")}
  <2>1. pool[p].factory \in {"canonical", "foreign"}
    BY ConstantsAssumption DEF Rows, Pool
  <2>2. answers \subseteq FactoryAnswer
    BY <2>1 DEF FactoryAnswer, Answer
  <2>3. job[r].pass = "factory" /\ Asked(r, p, answers) /\ pair' = pair
    BY <1>2 DEF AskFactory, Visits
  <2>4. answers \in SUBSET Got
    BY <2>2 DEF Got
  <2> HIDE DEF answers
  <2> QED
    BY <1>1, <2>2, <2>3, <2>4, AskedGoesOn
<1>3. ASSUME NEW p \in Pair, WriteFactory(r, p)
      PROVE  /\ pair' \in [Pair -> PairRow] /\ GoesOn(r)
             /\ \A q \in Pair : pair'[q].judged = pair[q].judged
  <2> DEFINE got == job[r].got
             row == [pair[p] EXCEPT !.factory = got.factory, !.stale = FALSE]
  <2>1. got \in FactoryAnswer
    BY <1>3 DEF WriteFactory, At, Jobs, Fits
  <2>2. pair[p] \in PairRow
    BY DEF Rows
  <2>3. row \in PairRow /\ row.judged = pair[p].judged
    BY <2>1, <2>2 DEF PairRow, FactoryAnswer
  <2>4. pair' = [pair EXCEPT ![p] = row]
    BY <1>3, <2>2 DEF WriteFactory, Rows, PairRow
  <2> HIDE DEF row
  <2>5. /\ pair' \in [Pair -> PairRow]
        /\ \A q \in Pair : pair'[q].judged = pair[q].judged
    BY <2>3, <2>4 DEF Rows
  <2>6. GoesOn(r)
    BY <1>1, <1>3, WroteGoesOn DEF WriteFactory
  <2> QED
    BY <2>5, <2>6
<1> QED
  BY <1>2, <1>3 DEF FactoryPass, Rows

\* Looking at pools, and taking up a pair to judge it.
LEMMA LookStep ==
    ASSUME TypeInv, NEW r \in Runner, NEW p \in Pair, AskIngest(r, p) \/ Revalidate(r, p)
    PROVE  GoesOn(r)
<1> USE DEF TypeInv
<1>1. p \in Row /\ {p} \in SUBSET Pair
  BY DEF Row
<1>2. CASE Revalidate(r, p)
  <2>1. "revalidate" \notin {} /\ job' = Onward(Taken(r, p), r, {p})
    BY <1>2 DEF Revalidate
  <2> QED
    BY <1>1, <2>1, PassedBy
<1>3. CASE AskIngest(r, p)
  <2> DEFINE coins == {t \in TokensOf[p] : world[t].coin}
  <2>1. CASE Skipped(r, p)
    BY <1>1, <2>1, PassedBy DEF Skipped
  <2>2. CASE Asked(r, p, {[coins |-> coins]})
    <3>1. coins \in SUBSET Token
      BY ConstantsAssumption
    <3>2. {[coins |-> coins]} \subseteq IngestAnswer /\ {[coins |-> coins]} \in SUBSET Got
      BY <3>1 DEF IngestAnswer, Got
    <3>3. job[r].pass = "ingest"
      BY <1>3 DEF AskIngest, Visits
    <3> HIDE DEF coins
    <3> QED
      BY <1>1, <2>2, <3>2, <3>3, AskedGoesOn
  <2> QED
    BY <1>3, <2>1, <2>2 DEF AskIngest
<1> QED
  BY <1>2, <1>3

LEMMA VerdictTyped ==
    ASSUME NEW p \in Pair
    PROVE  Verdict(p) \in Status
BY DEF Verdict, Judge, Status

\* A verdict read: the pair and the thresholds as they are.
LEMMA ReadStep ==
    ASSUME TypeInv, NEW r \in Runner, Read(r)
    PROVE  /\ job' \in [Runner -> Job]
           /\ \A q \in Runner \ {r} : job'[q] = job[q]
           /\ job'[r].pass = job[r].pass /\ job'[r].from = job[r].from
           /\ job'[r].fresh = job[r].fresh /\ job'[r].since = job[r].since
           /\ job'[r].step = "commit" /\ job'[r].read \in Reading /\ job'[r].at \in Pair
           /\ job'[r].read.floor = floor
<1>1. PICK p \in job[r].judge :
        job' = [job EXCEPT ![r].at = p, ![r].judge = job[r].judge \ {p},
                  ![r].read = [status |-> Verdict(p), floor |-> floor], ![r].step = "commit"]
  BY DEF Read
<1> DEFINE reading == [status |-> Verdict(p), floor |-> floor]
           mine == [job[r] EXCEPT !.at = p, !.judge = job[r].judge \ {p},
                      !.read = reading, !.step = "commit"]
<1>2. job \in [Runner -> Job] /\ job[r] \in Job
  BY DEF TypeInv, Jobs
<1>3. p \in Pair /\ p \in Row
  BY <1>2 DEF Job, Row
<1>4. reading \in Reading /\ reading \in Readings /\ reading.floor = floor
  BY <1>3, VerdictTyped DEF Reading, Readings, TypeInv, Rows
<1> HIDE DEF reading
<1>5. "commit" \in Step
  BY DEF Step
<1>6. /\ mine \in Job /\ mine.pass = job[r].pass /\ mine.from = job[r].from
      /\ mine.fresh = job[r].fresh /\ mine.since = job[r].since
      /\ mine.step = "commit" /\ mine.read = reading /\ mine.at = p
  BY <1>2, <1>3, <1>4, <1>5 DEF Job
<1>7. job' = [job EXCEPT ![r] = mine]
  BY <1>1, <1>2 DEF Job, reading
<1> HIDE DEF mine
<1> QED
  BY <1>2, <1>3, <1>4, <1>6, <1>7

\* A verdict written: it stamps its pair for the jobs that had begun when its row
\* was taken up, and takes the stamp back from the others.
LEMMA CommitStep ==
    ASSUME TypeInv, NEW r \in Runner, Commit(r)
    PROVE  LET at == job[r].at
               read == job[r].read
           IN
           /\ job' \in [Runner -> Job]
           /\ \A q \in Runner :
               /\ job'[q].pass = job[q].pass /\ job'[q].from = job[q].from
               /\ q # r => /\ job'[q].step = job[q].step /\ job'[q].since = job[q].since
                           /\ job'[q].read = job[q].read /\ job'[q].got = job[q].got
                           /\ job'[q].at = job[q].at
           /\ job'[r].step # "commit" /\ Fits(job'[r])
           /\ job[Page].pass = "revalidate" =>
                job'[Page].fresh = IF Page \in job[r].since THEN job[Page].fresh \cup {at}
                                   ELSE job[Page].fresh \ {at}
           /\ pair' \in [Pair -> PairRow]
           /\ \A p \in Pair : pair'[p].judged = IF p = at THEN read.floor ELSE pair[p].judged
<1> DEFINE at == job[r].at
           read == job[r].read
           passes == {"revalidate"}
           js == Stamped(job, r, at, passes)
<1>1. /\ job \in [Runner -> Job] /\ job[r] \in Job
      /\ read \in Reading /\ at \in Pair /\ at \in Row
  BY DEF TypeInv, Jobs, Fits, Commit, Row
<1>2. job' = Onward(js, r, job[r].judge)
  BY DEF Commit
<1>3. pair' = [pair EXCEPT ![at].status = read.status, ![at].judged = read.floor]
  BY DEF Commit
<1>4. /\ pair' \in [Pair -> PairRow]
      /\ \A p \in Pair : pair'[p].judged = IF p = at THEN read.floor ELSE pair[p].judged
  <2> DEFINE row == [pair[at] EXCEPT !.status = read.status, !.judged = read.floor]
  <2>1. pair[at] \in PairRow
    BY <1>1 DEF TypeInv, Rows
  <2>2. row \in PairRow /\ row.judged = read.floor
    BY <1>1, <2>1 DEF PairRow, Reading
  <2>3. pair' = [pair EXCEPT ![at] = row]
    BY <1>1, <1>3, <2>1 DEF TypeInv, Rows, PairRow
  <2> HIDE DEF row
  <2> QED
    BY <1>1, <2>2, <2>3 DEF TypeInv, Rows
<1>5. /\ js \in [Runner -> Job]
      /\ \A q \in Runner : \/ js[q] = job[q]
                           \/ /\ job[q].pass \in passes /\ q \in job[r].since
                              /\ js[q] = [job[q] EXCEPT !.fresh = job[q].fresh \cup {at}]
                           \/ /\ job[q].pass \in passes /\ q \notin job[r].since
                              /\ js[q] = [job[q] EXCEPT !.fresh = job[q].fresh \ {at}]
  BY <1>1, StampedJob
<1>6. job[Page].pass = "revalidate" =>
        js[Page].fresh = IF Page \in job[r].since THEN job[Page].fresh \cup {at}
                         ELSE job[Page].fresh \ {at}
  <2>1. Page \in Runner /\ Page # Cron
    BY ConstantsAssumption DEF Runner
  <2>2. job[Page] \in Job
    BY <1>1, <2>1
  <2> QED
    BY <2>1, <2>2 DEF Stamped, Job
<1>7. \A q \in Runner : job[q] \in Job
  BY <1>1
<1> HIDE DEF js
<1>8. \A q \in Runner :
        /\ js[q].pass = job[q].pass /\ js[q].from = job[q].from
        /\ js[q].step = job[q].step /\ js[q].since = job[q].since
        /\ js[q].read = job[q].read /\ js[q].got = job[q].got
        /\ js[q].at = job[q].at
  BY <1>5, <1>7 DEF Job
<1>9. /\ job' \in [Runner -> Job]
      /\ \A q \in Runner \ {r} : job'[q] = js[q]
      /\ job'[r].pass = js[r].pass /\ job'[r].from = js[r].from /\ job'[r].fresh = js[r].fresh
      /\ job'[r].step \in {"judge", "batch"}
  <2>1. job[r].judge \in SUBSET Pair
    BY <1>1 DEF Job
  <2> QED
    BY <1>2, <1>5, <2>1, OnwardJob
<1>10. job'[Page].fresh = js[Page].fresh
  BY <1>9 DEF Runner
<1>11. Fits(job'[r])
  BY <1>9 DEF Fits
<1> QED
  BY <1>4, <1>6, <1>8, <1>9, <1>10, <1>11

---------------------------------------------------------------------------
(* The invariant. *)

\* What a revalidation counts as done stands on the thresholds it began with.
DoneIsJudged ==
    job[Page].pass = "revalidate" =>
        /\ job[Page].from <= floor
        /\ \A p \in Pair \cap job[Page].fresh : pair[p].judged >= job[Page].from

\* So will a verdict that is about to be written and counted as done, whoever
\* runs it: it was read after the revalidation began.
YoungVerdicts ==
    job[Page].pass = "revalidate" =>
        \A r \in Runner : job[r].step = "commit" /\ Page \in job[r].since
                            => job[r].read.floor >= job[Page].from

Inv == TypeInv /\ DoneIsJudged /\ YoungVerdicts

LEMMA PageRuns == Page \in Runner /\ Cron \in Runner /\ Cron # Page
BY ConstantsAssumption DEF Runner

\* A runner that goes on keeps the invariant, if the pairs keep their dates.
LEMMA GoesOnKeeps ==
    ASSUME Inv, NEW r \in Runner, GoesOn(r), UNCHANGED floor,
           \A p \in Pair : pair'[p].judged = pair[p].judged
    PROVE  Jobs' /\ DoneIsJudged' /\ YoungVerdicts'
<1>1. Jobs'
  <2>1. \A q \in Runner : Fits(job[q])
    BY DEF Inv, TypeInv, Jobs
  <2>2. ASSUME NEW q \in Runner \ {r} PROVE Fits(job'[q])
    BY <2>1, <2>2 DEF GoesOn, Fits
  <2> QED
    BY <2>2 DEF Jobs, GoesOn
<1>2. DoneIsJudged'
  BY PageRuns DEF Inv, DoneIsJudged, GoesOn
<1>3. YoungVerdicts'
  BY PageRuns DEF Inv, YoungVerdicts, GoesOn
<1> QED
  BY <1>1, <1>2, <1>3

\* A job that begins counts nothing as done, and no verdict in hand as its own.
LEMMA BegunKeeps ==
    ASSUME Inv, NEW r \in Runner, NEW pass \in Passes, job' = Begun(r, pass),
           UNCHANGED <<floor, pair>>
    PROVE  Jobs' /\ DoneIsJudged' /\ YoungVerdicts'
<1>1. /\ job' \in [Runner -> Job] /\ \A q \in Runner : Fits(job'[q])
      /\ job'[r].pass = pass /\ job'[r].step = "batch" /\ job'[r].fresh = {}
      /\ job'[r].from = IF pass = "revalidate" THEN floor ELSE 0
      /\ \A q \in Runner \ {r} : job'[q] = [job[q] EXCEPT !.since = job[q].since \ {r}]
  <2> DEFINE js == Begun(r, pass)
  <2>1. /\ js \in [Runner -> Job] /\ \A q \in Runner : Fits(js[q])
        /\ js[r].pass = pass /\ js[r].step = "batch" /\ js[r].fresh = {}
        /\ js[r].from = IF pass = "revalidate" THEN floor ELSE 0
        /\ \A q \in Runner \ {r} : js[q] = [job[q] EXCEPT !.since = job[q].since \ {r}]
    BY BegunJob DEF Inv
  <2>2. job' = js
    OBVIOUS
  <2> HIDE DEF js
  <2> QED
    BY <2>1, <2>2
<1>2. \A q \in Runner : job[q] \in Job
  BY DEF Inv, TypeInv, Jobs
<1>3. \A q \in Runner \ {r} :
        /\ job'[q].pass = job[q].pass /\ job'[q].from = job[q].from
        /\ job'[q].fresh = job[q].fresh /\ job'[q].step = job[q].step
        /\ job'[q].read = job[q].read /\ job'[q].since = job[q].since \ {r}
  BY <1>1, <1>2 DEF Job
<1>4. floor \in Nat
  BY ConstantsAssumption DEF Inv, TypeInv, Rows
<1>5. DoneIsJudged'
  <2>1. CASE r = Page
    BY <1>1, <1>4, <2>1 DEF DoneIsJudged
  <2>2. CASE r # Page
    BY <1>3, <2>2, PageRuns DEF Inv, DoneIsJudged
  <2> QED
    BY <2>1, <2>2
<1>6. YoungVerdicts'
  <2>1. CASE r = Page
    BY <1>1, <1>3, <2>1 DEF YoungVerdicts
  <2>2. CASE r # Page
    BY <1>1, <1>3, <2>2, PageRuns DEF Inv, YoungVerdicts
  <2> QED
    BY <2>1, <2>2
<1> QED
  BY <1>1, <1>5, <1>6 DEF Jobs

\* A job that ends, or dies, says nothing any more.
LEMMA EndedKeeps ==
    ASSUME Inv, NEW r \in Runner, job' = [job EXCEPT ![r] = Idle], UNCHANGED <<floor, pair>>
    PROVE  Jobs' /\ DoneIsJudged' /\ YoungVerdicts'
<1>1. job \in [Runner -> Job] /\ \A q \in Runner : Fits(job[q])
  BY DEF Inv, TypeInv, Jobs
<1>2. job' \in [Runner -> Job] /\ \A q \in Runner : Fits(job'[q])
  BY <1>1, IdleIsAJob
<1>3. job'[r] = Idle /\ \A q \in Runner \ {r} : job'[q] = job[q]
  BY <1>1
<1>4. Idle.pass = None /\ Idle.step = "idle" /\ None # "revalidate"
  BY DEF Idle, None
<1>5. DoneIsJudged'
  BY <1>3, <1>4, PageRuns DEF Inv, DoneIsJudged
<1>6. YoungVerdicts'
  BY <1>3, <1>4, PageRuns DEF Inv, YoungVerdicts
<1> QED
  BY <1>2, <1>5, <1>6 DEF Jobs

\* A verdict read is read of the thresholds in force.
LEMMA ReadKeeps ==
    ASSUME Inv, NEW r \in Runner, Read(r), UNCHANGED <<floor, pair>>
    PROVE  Jobs' /\ DoneIsJudged' /\ YoungVerdicts'
<1>1. /\ job' \in [Runner -> Job]
      /\ \A q \in Runner \ {r} : job'[q] = job[q]
      /\ job'[r].pass = job[r].pass /\ job'[r].from = job[r].from
      /\ job'[r].fresh = job[r].fresh /\ job'[r].since = job[r].since
      /\ job'[r].step = "commit" /\ job'[r].read \in Reading /\ job'[r].at \in Pair
      /\ job'[r].read.floor = floor
  BY ReadStep DEF Inv
<1>2. Jobs'
  BY <1>1 DEF Inv, TypeInv, Jobs, Fits
<1>3. DoneIsJudged'
  BY <1>1, PageRuns DEF Inv, DoneIsJudged
<1>4. YoungVerdicts'
  <2>1. job'[Page].pass = job[Page].pass /\ job'[Page].from = job[Page].from
    BY <1>1, PageRuns
  <2> QED
    BY <1>1, <2>1 DEF Inv, YoungVerdicts, DoneIsJudged
<1> QED
  BY <1>2, <1>3, <1>4

\* A verdict written that counts as done is young enough; one that does not takes
\* its pair out of what is done.
LEMMA CommitKeeps ==
    ASSUME Inv, NEW r \in Runner, Commit(r), UNCHANGED floor
    PROVE  Jobs' /\ DoneIsJudged' /\ YoungVerdicts'
<1> DEFINE at == job[r].at
           read == job[r].read
<1>1. /\ job' \in [Runner -> Job]
      /\ \A q \in Runner :
          /\ job'[q].pass = job[q].pass /\ job'[q].from = job[q].from
          /\ q # r => /\ job'[q].step = job[q].step /\ job'[q].since = job[q].since
                      /\ job'[q].read = job[q].read /\ job'[q].got = job[q].got
                      /\ job'[q].at = job[q].at
      /\ job'[r].step # "commit" /\ Fits(job'[r])
      /\ job[Page].pass = "revalidate" =>
           job'[Page].fresh = IF Page \in job[r].since THEN job[Page].fresh \cup {at}
                              ELSE job[Page].fresh \ {at}
      /\ \A p \in Pair : pair'[p].judged = IF p = at THEN read.floor ELSE pair[p].judged
  BY CommitStep DEF Inv
<1>2. \A q \in Runner : Fits(job[q])
  BY DEF Inv, TypeInv, Jobs
<1>3. job[r].step = "commit"
  BY DEF Commit
<1> HIDE DEF at, read
<1>4. \A q \in Runner \ {r} : Fits(job'[q])
  BY <1>1, <1>2 DEF Fits
<1>5. ASSUME job'[Page].pass = "revalidate", NEW p \in Pair, p \in job'[Page].fresh
      PROVE  pair'[p].judged >= job'[Page].from
  <2>1. job[Page].pass = "revalidate" /\ job'[Page].from = job[Page].from
    BY <1>1, <1>5, PageRuns
  <2>2. CASE p = at
    <3>1. Page \in job[r].since
      BY <1>1, <1>5, <2>1, <2>2
    <3>2. read.floor >= job[Page].from
      BY <1>3, <2>1, <3>1 DEF Inv, YoungVerdicts, read
    <3> QED
      BY <1>1, <2>1, <2>2, <3>2
  <2>3. CASE p # at
    BY <1>1, <1>5, <2>1, <2>3 DEF Inv, DoneIsJudged
  <2> QED
    BY <2>2, <2>3
<1>6. DoneIsJudged'
  <2>1. job'[Page].pass = "revalidate" => job'[Page].from <= floor'
    BY <1>1, PageRuns DEF Inv, DoneIsJudged
  <2> QED
    BY <1>5, <2>1 DEF DoneIsJudged
<1>7. YoungVerdicts'
  BY <1>1, PageRuns DEF Inv, YoungVerdicts
<1> QED
  BY <1>1, <1>4, <1>6, <1>7 DEF Jobs

\* A batch drawn up: rows to visit.
LEMMA BatchGoesOn ==
    ASSUME TypeInv, NEW r \in Runner, Batch(r)
    PROVE  GoesOn(r)
<1> DEFINE mine == [job[r] EXCEPT !.todo = Selected(r), !.once = OneRound(r)]
<1>1. job \in [Runner -> Job] /\ job[r] \in Job /\ job[r].step = "batch"
  BY DEF TypeInv, Jobs, Batch
<1>2. Selected(r) \in SUBSET Row
  <2>1. /\ identityCheckWhere(r) \subseteq Row /\ canonicalCheckWhere(r) \subseteq Row
        /\ scamCheckWhere(r) \subseteq Row /\ reviewEnrichWhere(r) \subseteq Row
        /\ tokensToRescore \subseteq Row /\ factoryCheckWhere(r) \subseteq Row
        /\ {p \in Pair : p \notin job[r].fresh} \subseteq Row
    BY DEF Row, identityCheckWhere, canonicalCheckWhere, scamCheckWhere, reviewEnrichWhere,
           tokensToRescore, factoryCheckWhere
  <2> QED
    BY <2>1 DEF Selected
<1>3. OneRound(r) \in BOOLEAN
  BY DEF OneRound
<1>4. /\ mine \in Job /\ mine.pass = job[r].pass /\ mine.from = job[r].from
      /\ mine.fresh = job[r].fresh /\ mine.step = "batch"
  BY <1>1, <1>2, <1>3 DEF Job
<1>5. job' = [job EXCEPT ![r] = mine]
  BY <1>1 DEF Batch, Job
<1> HIDE DEF mine
<1>6. Fits(job'[r])
  BY <1>1, <1>4, <1>5 DEF Fits
<1> QED
  BY <1>1, <1>4, <1>5, <1>6 DEF GoesOn

---------------------------------------------------------------------------
(* The specification. *)

LEMMA InitKeeps == Init => Inv
<1> SUFFICES ASSUME Init PROVE Inv
  OBVIOUS
<1>1. Jobs
  BY IdleIsAJob DEF Init, Jobs
<1>2. Idle.pass = None /\ None # "revalidate"
  BY DEF Idle, None
<1>3. DoneIsJudged /\ YoungVerdicts
  BY <1>2, PageRuns DEF Init, DoneIsJudged, YoungVerdicts
<1>4. Rows
  <2>1. 0 \in 0 .. MaxGap /\ 0 \in 0 .. CacheTtl /\ 0 \in 0 .. MaxFloor /\ 0 \in 0 .. MaxJobs
    BY ConstantsAssumption
  <2>2. token \in [Token -> TokenRow]
    BY <2>1 DEF Init, TokenRow, Answers
  <2>3. pair \in [Pair -> PairRow]
    BY <2>1 DEF Init, PairRow, Status
  <2> QED
    BY <2>1, <2>2, <2>3 DEF Init, Rows
<1> QED
  BY <1>1, <1>3, <1>4 DEF Inv, TypeInv

\* What a working runner does keeps the invariant.
LEMMA WorkKeeps ==
    ASSUME Inv, NEW r \in Runner, Work(r)
    PROVE  Inv'
<1> USE DEF Inv, TypeInv
<1>1. CASE Batch(r)
  <2>1. UNCHANGED <<world, pool, settled, floor, token, pair, ran, jobs>>
    BY <1>1 DEF Batch, truth
  <2>2. Rows'
    BY <2>1 DEF Rows
  <2> QED
    BY <1>1, <2>1, <2>2, BatchGoesOn, GoesOnKeeps
<1>2. CASE Finish(r)
  <2>1. UNCHANGED <<world, pool, settled, floor, token, pair, ran, jobs>>
    BY <1>2 DEF Finish, truth
  <2>2. Rows'
    BY <2>1 DEF Rows
  <2>3. CASE job' = [job EXCEPT ![r] = Idle]
    BY <2>1, <2>2, <2>3, EndedKeeps
  <2>4. ASSUME NEW pass \in NextPass(job[r].pass), job' = Begun(r, pass)
        PROVE  Inv'
    <3>1. pass \in Passes
      BY ConstantsAssumption DEF NextPass
    <3> QED
      BY <2>1, <2>2, <2>4, <3>1, BegunKeeps
  <2> QED
    BY <1>2, <2>3, <2>4 DEF Finish
<1>3. ASSUME UNCHANGED <<truth, ran, jobs>>, CheckTokens(r), UNCHANGED pair
      PROVE  Inv'
  <2>1. token' \in [Token -> TokenRow] /\ GoesOn(r)
    BY <1>3, TokenStep
  <2>2. Rows'
    BY <1>3, <2>1 DEF Rows, truth
  <2> QED
    BY <1>3, <2>1, <2>2, GoesOnKeeps DEF truth
<1>4. ASSUME UNCHANGED <<truth, ran, jobs>>, FactoryPass(r), UNCHANGED token
      PROVE  Inv'
  <2>1. /\ pair' \in [Pair -> PairRow] /\ GoesOn(r)
        /\ \A p \in Pair : pair'[p].judged = pair[p].judged
    BY <1>4, FactoryStep
  <2>2. Rows'
    BY <1>4, <2>1 DEF Rows, truth
  <2> QED
    BY <1>4, <2>1, <2>2, GoesOnKeeps DEF truth
<1>5. ASSUME UNCHANGED <<truth, ran, jobs>>, Look(r), UNCHANGED <<token, pair>>
      PROVE  Inv'
  <2>1. Rows' /\ UNCHANGED floor
    BY <1>5 DEF Rows, truth
  <2>2. CASE Read(r)
    BY <1>5, <2>1, <2>2, ReadKeeps
  <2>3. ASSUME NEW p \in Pair, AskIngest(r, p) \/ Revalidate(r, p)
        PROVE  Inv'
    <3>1. GoesOn(r)
      BY <2>3, LookStep
    <3> QED
      BY <1>5, <2>1, <3>1, GoesOnKeeps
  <2> QED
    BY <1>5, <2>2, <2>3 DEF Look
<1>6. ASSUME UNCHANGED <<truth, ran, jobs>>, Commit(r), UNCHANGED token
      PROVE  Inv'
  <2>1. pair' \in [Pair -> PairRow]
    BY <1>6, CommitStep
  <2>2. Rows' /\ UNCHANGED floor
    BY <1>6, <2>1 DEF Rows, truth
  <2> QED
    BY <1>6, <2>2, CommitKeeps
<1> QED
  BY <1>1, <1>2, <1>3, <1>4, <1>5, <1>6 DEF Work

\* So does everything else.
LEMMA InvStep == Inv /\ [Next]_vars => Inv'
<1> SUFFICES ASSUME Inv, [Next]_vars PROVE Inv'
  OBVIOUS
<1> USE DEF Inv, TypeInv
<1>1. CASE StartPipeline
  <2>1. UNCHANGED <<world, pool, settled, floor, token, pair, jobs>> /\ ran' = TRUE
    BY <1>1 DEF StartPipeline, truth
  <2>2. Rows'
    BY <2>1 DEF Rows
  <2>3. Head(Pipeline) \in Passes
    BY ConstantsAssumption
  <2> QED
    BY <1>1, <2>1, <2>2, <2>3, BegunKeeps, PageRuns DEF StartPipeline
<1>2. CASE StartPage
  <2>1. /\ UNCHANGED <<world, pool, settled, floor, token, pair, ran>>
        /\ jobs < MaxJobs /\ jobs' = jobs + 1
    BY <1>2 DEF StartPage, truth
  <2>2. Rows'
    BY <2>1, ConstantsAssumption DEF Rows
  <2>3. PICK pass \in Operated : job' = Begun(Page, pass)
    BY <1>2 DEF StartPage
  <2>4. pass \in Passes
    BY ConstantsAssumption
  <2> QED
    BY <2>1, <2>2, <2>3, <2>4, BegunKeeps, PageRuns
<1>3. ASSUME NEW r \in Runner, Work(r) PROVE Inv'
  BY <1>3, WorkKeeps
<1>4. ASSUME NEW r \in Runner, Crash(r) PROVE Inv'
  <2>1. UNCHANGED <<world, pool, settled, floor, token, pair, ran, jobs>>
    BY <1>4 DEF Crash, truth
  <2>2. Rows'
    BY <2>1 DEF Rows
  <2> QED
    BY <1>4, <2>1, <2>2, EndedKeeps DEF Crash
<1>5. ASSUME UNCHANGED <<job, floor>>, Rows', \A p \in Pair : pair'[p].judged = pair[p].judged
      PROVE  Inv'
  BY <1>5 DEF Jobs, DoneIsJudged, YoungVerdicts
<1>6. CASE Change
  <2>1. Rows'
    BY <1>6 DEF Change, Rows
  <2> QED
    BY <1>5, <1>6, <2>1 DEF Change
<1>7. CASE SetThreshold
  <2>1. floor \in Nat /\ floor' = floor + 1
    BY <1>7, ConstantsAssumption DEF SetThreshold, Rows
  <2>2. Rows'
    BY <1>7, ConstantsAssumption DEF SetThreshold, Rows
  <2>3. Jobs' /\ YoungVerdicts'
    BY <1>7 DEF SetThreshold, Jobs, YoungVerdicts
  <2>4. job[Page].from \in Nat
    BY PageRuns, ConstantsAssumption DEF Jobs, Job
  <2>5. DoneIsJudged'
    BY <1>7, <2>1, <2>4 DEF SetThreshold, DoneIsJudged
  <2> QED
    BY <2>2, <2>3, <2>5
<1>8. CASE Settle
  <2>1. Rows'
    BY <1>8 DEF Settle, Rows
  <2> QED
    BY <1>5, <1>8, <2>1 DEF Settle
<1>9. CASE NextWindow
  <2>1. UNCHANGED <<world, pool, settled, floor, job>>
    BY <1>9 DEF NextWindow, truth
  <2>2. token' \in [Token -> TokenRow]
    <3> DEFINE older(t) ==
          [token[t] EXCEPT !.due = IF token[t].due = 0 THEN 0 ELSE token[t].due - 1,
            !.cacheAge = IF token[t].cacheAge = CacheTtl THEN CacheTtl ELSE token[t].cacheAge + 1,
            !.stale = {"canonical", "scam", "enrich"}]
    <3>1. ASSUME NEW t \in Token PROVE older(t) \in TokenRow
      <4>1. token[t] \in TokenRow
        BY DEF Rows
      <4>2. /\ (IF token[t].due = 0 THEN 0 ELSE token[t].due - 1) \in 0 .. MaxGap
            /\ (IF token[t].cacheAge = CacheTtl THEN CacheTtl
                ELSE token[t].cacheAge + 1) \in 0 .. CacheTtl
        BY <4>1, ConstantsAssumption DEF TokenRow
      <4> QED
        BY <4>1, <4>2 DEF TokenRow
    <3>2. token' = [t \in Token |-> older(t)]
      BY <1>9 DEF NextWindow
    <3> HIDE DEF older
    <3> QED
      BY <3>1, <3>2
  <2>3. /\ pair' \in [Pair -> PairRow]
        /\ \A p \in Pair : pair'[p].judged = pair[p].judged
    <3>1. \A p \in Pair : /\ [pair[p] EXCEPT !.stale = TRUE] \in PairRow
                           /\ [pair[p] EXCEPT !.stale = TRUE].judged = pair[p].judged
      BY DEF Rows, PairRow
    <3>2. pair' = [p \in Pair |-> [pair[p] EXCEPT !.stale = TRUE]]
      BY <1>9 DEF NextWindow
    <3> QED
      BY <3>1, <3>2
  <2>4. Rows'
    <3>1. ran' = FALSE /\ jobs' = 0
      BY <1>9, Zenon DEF NextWindow
    <3>2. 0 \in 0 .. MaxJobs
      BY ConstantsAssumption
    <3> QED
      BY <2>1, <2>2, <2>3, <3>1, <3>2 DEF Rows
  <2> QED
    BY <1>5, <2>1, <2>3, <2>4
<1>10. CASE UNCHANGED vars
  <2>1. Rows' /\ UNCHANGED <<job, floor, pair>>
    BY <1>10 DEF vars, truth, Rows
  <2> QED
    BY <1>5, <2>1
<1> QED
  BY <1>1, <1>2, <1>3, <1>4, <1>6, <1>7, <1>8, <1>9, <1>10 DEF Next

\* Every variable keeps its type.  An answer about to be written is one its pass
\* asks for (Fits), which is what types the rows written.
THEOREM TypeCorrect == Spec => []TypeOK
<1>1. Inv => TypeOK
  BY DEF Inv, TypeInv, Rows, Jobs, Job, TypeOK
<1> QED
  BY <1>1, InitKeeps, InvStep, PTL DEF Spec

\* When an operator's revalidation ends, no pair stands on thresholds older than
\* those in force when it began, for any pairs, passes beside it, failures and
\* crashes (pages/api/admin/revalidate.ts, verdictAt in runVerdictForPair).
THEOREM RevalidationComplete == Spec => RevalidationIsComplete
<1>1. ASSUME Inv, job[Page].pass = "revalidate", Finish(Page)
      PROVE  \A p \in Pair : pair[p].judged >= job[Page].from
  <2>1. Selected(Page) = {}
    BY <1>1, PageRuns DEF Finish, Exhausted, OneRound
  <2>2. Selected(Page) = {p \in Pair : p \notin job[Page].fresh}
    BY <1>1 DEF Selected
  <2> QED
    BY <1>1, <2>1, <2>2 DEF Inv, DoneIsJudged
<1>2. Inv /\ [Next]_vars =>
        [job[Page].pass = "revalidate" /\ Finish(Page)
           => \A p \in Pair : pair[p].judged >= job[Page].from]_vars
  BY <1>1
<1> QED
  BY <1>2, InitKeeps, InvStep, PTL DEF Spec, RevalidationIsComplete
=============================================================================
