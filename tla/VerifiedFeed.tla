----------------------------- MODULE VerifiedFeed -----------------------------
(***************************************************************************)
(* The verified pairs of one source as go-ooo sees them.  It polls          *)
(* /api/ooo/v1/export/[chain]/[dex] with the generatedAt of its last        *)
(* download, and is told 304 when no pair was modified since: no row is     *)
(* compared, only the latest lastChecked or verdictAt of any pair           *)
(* (pairsModifiedAt), so it sees a change only if the writer dates it.      *)
(*                                                                          *)
(* The writers are the passes, which take one `now` when they start and     *)
(* date every pair with it, the admin's rescans, which date each pair when  *)
(* it is judged, and the operator's forms, which date nothing.  What the    *)
(* engine decides is left open here (VerdictRunner and Verdict have it).    *)
(*                                                                          *)
(* A time is only ever compared with what go-ooo holds: each is kept as     *)
(* "held", or as "later" than that, and a download makes them all "held".   *)
(***************************************************************************)
EXTENDS Naturals

CONSTANTS
    Pair,       \* the pairs of one source
    Pass,       \* passes that may run at once: the cron job, a script run by hand
    MaxDecisions \* bound: decisions the operator takes

ASSUME Bounds == MaxDecisions \in Nat

VARIABLES
    clock,      \* now, as all times here: "held", or "later" than go-ooo's
    pairs,      \* Pair -> status and the two times the watermark reads
    passes,     \* Pass -> its `now`, the pools to ingest, the pairs to judge
    goooo,      \* the pairs go-ooo holds, and its poll in progress
    missed,     \* changes dated too early for go-ooo to notice (see Dated)
    decisions   \* decisions taken so far

feedVars == <<clock, pairs, passes, goooo, missed, decisions>>

Times == {"held", "later"}

Statuses == {"AutoVerified", "NeedsReview", "ManualVerified", "ManualRejected"}
Verified == {"AutoVerified", "ManualVerified"}
Manual   == {"ManualVerified", "ManualRejected"}

(* What the engine may decide, as far as the export is concerned.          *)
Outcomes == {"AutoVerified", "NeedsReview"}

Exported == {p \in Pair : pairs[p].status \in Verified}

-----------------------------------------------------------------------------
(* The modified time of the source, against go-ooo's ifModifiedSince.      *)

Stamps(p) == {pairs[p].lastChecked, pairs[p].verdictAt}

(* A fault: the modified time of the verified pairs alone.                 *)
ModifiedSinceVerified == \E p \in Exported : "later" \in Stamps(p)

(* A fault: the last verdict alone.                                        *)
ModifiedSinceVerdict == \E p \in Pair : pairs[p].verdictAt = "later"

ModifiedSince == \E p \in Pair : "later" \in Stamps(p)

-----------------------------------------------------------------------------
(* The passes.                                                             *)

Idle(r) == passes[r].pools = {} /\ passes[r].judge = {}

FeedTypeOK ==
    /\ clock \in Times
    /\ pairs \in [Pair -> [status : Statuses, lastChecked : Times, verdictAt : Times]]
    /\ passes \in [Pass -> [now : Times, pools : SUBSET Pair, judge : SUBSET Pair]]
    /\ goooo \in [pc : {"idle", "rows", "answer"}, copy : SUBSET Pair, got : SUBSET Pair]
    /\ missed \subseteq {"held", "coming"}
    /\ decisions \in 0..MaxDecisions

(* Every row has been ingested and judged, and go-ooo has just downloaded. *)
FeedInit ==
    /\ clock = "held"
    /\ pairs \in [Pair -> [status : Statuses, lastChecked : {"held"}, verdictAt : {"held"}]]
    /\ passes = [r \in Pass |-> [now |-> "held", pools |-> {}, judge |-> {}]]
    /\ goooo = [pc |-> "idle", copy |-> Exported, got |-> {}]
    /\ missed = {}
    /\ decisions = 0

(* A row is written and dated: not later than what go-ooo holds, or, for   *)
(* the rows it is about to hold, after they were read but before they are  *)
(* dated (generatedAt).                                                    *)
Dated(time) ==
    missed' = missed \cup (IF time = "held" THEN {"held"} ELSE {})
                     \cup (IF goooo.pc = "answer" THEN {"coming"} ELSE {})

(* A page of pools: `now` is taken once, before the source is asked.       *)
BeginIngest(r) ==
    /\ Idle(r)
    /\ \E returned \in (SUBSET Pair) \ {{}} :
        passes' = [passes EXCEPT ![r] = [now |-> clock, pools |-> returned, judge |-> {}]]
    /\ UNCHANGED <<clock, pairs, goooo, missed, decisions>>

(* The other passes: `now` is taken once, for the pairs they judge again.  *)
BeginRejudging(r) ==
    /\ Idle(r)
    /\ \E list \in (SUBSET Pair) \ {{}} :
        passes' = [passes EXCEPT ![r] = [now |-> clock, pools |-> {}, judge |-> list]]
    /\ UNCHANGED <<clock, pairs, goooo, missed, decisions>>

(* upsertPair: the pool's data and lastChecked; the verdict comes next.    *)
UpsertPair(r, p) ==
    /\ p \in passes[r].pools /\ passes[r].judge = {}
    /\ pairs' = [pairs EXCEPT ![p].lastChecked = passes[r].now]
    /\ passes' = [passes EXCEPT ![r] =
                  [@ EXCEPT !.pools = passes[r].pools \ {p}, !.judge = {p}]]
    /\ Dated(passes[r].now)
    /\ UNCHANGED <<clock, goooo, decisions>>

(* runVerdictForPair: the verdict, the confidence and verdictAt.           *)
WriteVerdict(p, time) ==
    /\ \E verdict \in Outcomes :
        pairs' = [pairs EXCEPT ![p] = [@ EXCEPT !.status = verdict, !.verdictAt = time]]
    /\ Dated(time)

(* A pass judges with its own now; the operator's pairs are skipped.       *)
Judge(r, p) ==
    /\ p \in passes[r].judge
    /\ passes' = [passes EXCEPT ![r].judge = @ \ {p}]
    /\ IF pairs[p].status \in Manual
       THEN UNCHANGED <<pairs, missed>>
       ELSE WriteVerdict(p, passes[r].now)
    /\ UNCHANGED <<clock, goooo, decisions>>

(* The job dies: what it had left is not done.                             *)
CrashPass(r) ==
    /\ ~Idle(r)
    /\ passes' = [passes EXCEPT ![r] = [@ EXCEPT !.pools = {}, !.judge = {}]]
    /\ UNCHANGED <<clock, pairs, goooo, missed, decisions>>

-----------------------------------------------------------------------------
(* The admin's writes.                                                     *)

(* The revalidate and rescan endpoints: each pair with its own `now`.      *)
RescanPair(p) ==
    /\ pairs[p].status \notin Manual
    /\ WriteVerdict(p, clock)
    /\ UNCHANGED <<clock, passes, goooo, decisions>>

(* The pair and token forms write the status and no time the watermark reads. *)
OperatorDecides(p) ==
    /\ decisions < MaxDecisions
    /\ decisions' = decisions + 1
    /\ \E status \in Statuses \ {pairs[p].status} :
        pairs' = [pairs EXCEPT ![p].status = status]
    /\ missed' = {"held", "coming"}
    /\ UNCHANGED <<clock, passes, goooo>>

-----------------------------------------------------------------------------
(* go-ooo's polls.                                                         *)

(* The poll is authorised and was not answered with 304.                   *)
Poll ==
    /\ goooo.pc = "idle" /\ ModifiedSince
    /\ goooo' = [goooo EXCEPT !.pc = "rows"]
    /\ UNCHANGED <<clock, pairs, passes, missed, decisions>>

(* A go-ooo that has just started sends no ifModifiedSince.                *)
FirstPoll ==
    /\ goooo.pc = "idle"
    /\ goooo' = [goooo EXCEPT !.pc = "rows"]
    /\ UNCHANGED <<clock, pairs, passes, missed, decisions>>

(* buildExportV2 reads the verified rows ...                               *)
ReadRows ==
    /\ goooo.pc = "rows"
    /\ goooo' = [goooo EXCEPT !.pc = "answer", !.got = Exported]
    /\ missed' = missed \ {"coming"}
    /\ UNCHANGED <<clock, pairs, passes, decisions>>

(* ... and dates them when all its queries are done.  go-ooo keeps both:   *)
(* nothing written so far is later than that.                              *)
Answer ==
    /\ goooo.pc = "answer"
    /\ goooo' = [pc |-> "idle", copy |-> goooo.got, got |-> {}]
    /\ clock' = "held"
    /\ pairs' = [p \in Pair |-> [pairs[p] EXCEPT !.lastChecked = "held", !.verdictAt = "held"]]
    /\ passes' = [r \in Pass |-> [passes[r] EXCEPT !.now = "held"]]
    /\ missed' = IF "coming" \in missed THEN {"held"} ELSE {}
    /\ UNCHANGED decisions

(* A query throws (500), or the answer does not arrive.                    *)
Fail ==
    /\ goooo.pc # "idle"
    /\ goooo' = [goooo EXCEPT !.pc = "idle", !.got = {}]
    /\ missed' = missed \ {"coming"}
    /\ UNCHANGED <<clock, pairs, passes, decisions>>

(* The next second.                                                        *)
Tick ==
    /\ clock = "held" /\ clock' = "later"
    /\ UNCHANGED <<pairs, passes, goooo, missed, decisions>>

-----------------------------------------------------------------------------
FeedNext ==
    \/ \E r \in Pass : BeginIngest(r) \/ BeginRejudging(r) \/ CrashPass(r)
    \/ \E r \in Pass, p \in Pair : UpsertPair(r, p) \/ Judge(r, p)
    \/ \E p \in Pair : RescanPair(p) \/ OperatorDecides(p)
    \/ Poll \/ FirstPoll \/ ReadRows \/ Answer \/ Fail
    \/ Tick

FeedSpec == FeedInit /\ [][FeedNext]_feedVars

(* Time passes; every pipeline run ingests, its source returns something,  *)
(* and it does not die every time before its first write; a poll that is sent is answered now and then.        *)
Fairness ==
    /\ WF_feedVars(Tick)
    /\ \A r \in Pass :
        /\ SF_feedVars(BeginIngest(r))
        /\ SF_feedVars(\E p \in Pair : UpsertPair(r, p))
        /\ SF_feedVars(\E p \in Pair : Judge(r, p))
    /\ WF_feedVars(Poll) /\ SF_feedVars(ReadRows) /\ SF_feedVars(Answer)

FairFeedSpec == FeedSpec /\ Fairness

-----------------------------------------------------------------------------
(* What the watermark promises.                                            *)

Stale == goooo.pc = "idle" /\ goooo.copy # Exported

(* A verdict dated after what go-ooo holds, a demotion above all, is never *)
(* hidden behind a 304, for as long as no pass that began before go-ooo's  *)
(* download has written since (export.ts: over ALL pairs in scope, not     *)
(* just verified).                                                         *)
VerdictsAreSignalled == (Stale /\ "held" \notin missed) => ModifiedSince

(* pairsModifiedAt's own comment: a demotion advances the signal, or go-ooo *)
(* would keep serving the delisted pair on a stale 304.                    *)
DemotionsAreSignalled ==
    [][clock = "later" /\ Exported \ Exported' # {} => ModifiedSince']_feedVars

(* Whatever was missed, by an undated decision, an early date or the gap   *)
(* before generatedAt, later passes date the rows again: once the verified *)
(* set stops changing, go-ooo gets it.                                     *)
ExportCatchesUp ==
    <>[][UNCHANGED Exported]_feedVars => <>[](goooo.copy = Exported)

===============================================================================
