--------------------------- MODULE VerdictRunner ---------------------------
(***************************************************************************)
(* The verdict runner (lib/verdictRunner.ts), the scam checks that drive   *)
(* it (lib/scamCheck.ts), the token promotion it ends with                 *)
(* (lib/tokenStatus.ts) and the operator's forms (pages/api/admin), all    *)
(* working on the same Pair and Token rows.                                *)
(*                                                                         *)
(* A Runner is one process or request that runs verdicts: the cron         *)
(* pipeline, an admin pass page, an ingest, a rescan button.  A verdict is *)
(* four steps because the code awaits between them: read the row, look at  *)
(* the siblings, write the verdict, promote the tokens.  The operator's    *)
(* handlers are two steps: write the row, then promote or cascade.         *)
(***************************************************************************)
EXTENDS PairStatus

CONSTANTS
    Pair,
    Token,
    Runner,
    Cron,           \* the runner that is the scheduled pipeline
    KeyOf,          \* KeyOf[p]: canonical key, the pair of coins p trades
    SourceOf,       \* SourceOf[p]: the (chain, dex) p was found on
    TokensOf,       \* TokensOf[p]: the token rows of p
    Evidence,       \* the evidence classes an ingest may find
    FormStatus      \* the statuses the operator's forms offer

ASSUME PairAssumption       == Pair # {}
ASSUME CronAssumption       == Cron \in Runner
ASSUME TokensOfAssumption   == TokensOf \in [Pair -> SUBSET Token]
ASSUME EvidenceAssumption   == Evidence \subseteq EvidenceClass
ASSUME FormStatusAssumption ==
    FormStatus \subseteq {"Unverified", "ManualVerified", "Duplicate",
                          "NotCurrentlyUsable"}

VARIABLES
    (* rows of Pair *)
    status,         \* status[p]
    method,         \* verificationMethod
    keyed,          \* keyed[p]: canonicalKey is stored, siblings can find p
    evidence,       \* what the row's market data, identities and fences say
    (* rows of Token *)
    tokenStatus,
    scamFlagged,    \* isScamFlagged
    (* runners *)
    task,           \* task[r]: the kind of job, its token, the pairs still to judge
    hand,           \* hand[r]: the verdict run in hand, see Hand
    (* the operator's request in flight *)
    form,
    (* history *)
    settled,        \* decided by the operator while no run held the row
    grounded        \* verified, once, on its own evidence or by the operator

pairVars   == <<status, method, keyed, evidence>>
tokenVars  == <<tokenStatus, scamFlagged>>
runnerVars == <<task, hand>>
ghostVars  == <<settled, grounded>>
vars == <<pairVars, tokenVars, runnerVars, form, ghostVars>>

Task == [kind : {"idle", "down", "verdict", "scam", "revalidate"},
         tokens : SUBSET Token, todo : SUBSET Pair]
Idle == [kind |-> "idle", tokens |-> {}, todo |-> {}]
Down == [kind |-> "down", tokens |-> {}, todo |-> {}]

(* A verdict run between findUnique and its last write: what it read, then *)
(* what it decided.                                                        *)
Hand == [at : {"none", "read", "ready", "promote"}, pair : Pair,
         class : EvidenceClass, scam : BOOLEAN, verdict : Verdicts]
Empty == [at |-> "none", pair |-> CHOOSE p \in Pair : TRUE,
          class |-> "hold", scam |-> FALSE, verdict |-> "NeedsReview"]

Form   == [kind : {"none", "promote", "cascade"}, tokens : SUBSET Token, status : Status]
NoForm == [kind |-> "none", tokens |-> {}, status |-> "Unverified"]

TypeOK ==
    /\ status      \in [Pair -> Status]
    /\ method      \in [Pair -> Method]
    /\ keyed       \in [Pair -> BOOLEAN]
    /\ evidence    \in [Pair -> EvidenceClass]
    /\ tokenStatus \in [Token -> Status]
    /\ scamFlagged \in [Token -> BOOLEAN]
    /\ task        \in [Runner -> Task]
    /\ hand        \in [Runner -> Hand]
    /\ form        \in Form
    /\ settled     \in [Pair -> BOOLEAN]
    /\ grounded    \in [Pair -> BOOLEAN]

PairsOf(t) == {p \in Pair : t \in TokensOf[p]}

InFlight(r, p) == hand[r].at \in {"read", "ready"} /\ hand[r].pair = p

AtRest(p) == \A r \in Runner : ~InFlight(r, p)

Init ==
    /\ status      = [p \in Pair |-> "Unverified"]
    /\ method      = [p \in Pair |-> "Import"]
    /\ keyed       = [p \in Pair |-> FALSE]
    /\ evidence    \in [Pair -> Evidence]
    /\ tokenStatus = [t \in Token |-> "Unverified"]
    /\ scamFlagged = [t \in Token |-> FALSE]
    /\ task        = [r \in Runner |-> Idle]
    /\ hand        = [r \in Runner |-> Empty]
    /\ form        = NoForm
    /\ settled     = [p \in Pair |-> FALSE]
    /\ grounded    = [p \in Pair |-> FALSE]

-----------------------------------------------------------------------------
(* Jobs a runner takes up.                                                 *)

Free(r) == task[r] = Idle

Begin(r, kind, tokens, pairs) ==
    /\ Free(r)
    /\ task' = [task EXCEPT ![r] = [kind |-> kind, tokens |-> tokens, todo |-> pairs]]
    /\ UNCHANGED hand

(* ingestOnePool, and the identity, canonical and factory checks: new      *)
(* facts about a pair, then its verdict.                                   *)
Ingest(r, p, e) ==
    /\ Begin(r, "verdict", {}, {p})
    /\ evidence' = [evidence EXCEPT ![p] = e]
    /\ UNCHANGED <<status, method, keyed, tokenVars, form, ghostVars>>

(* The rescan buttons: the verdict again, on the facts as stored.          *)
Rescan(r, pairs) ==
    /\ pairs # {}
    /\ Begin(r, "verdict", {}, pairs)
    /\ UNCHANGED <<pairVars, tokenVars, form, ghostVars>>

(* runScamCheckForToken: the flag is written with what the scanners said;  *)
(* only a flagged token has its pairs judged again.                        *)
ScamCheck(r, t, flagged) ==
    /\ Free(r)
    /\ scamFlagged' = [scamFlagged EXCEPT ![t] = flagged]
    /\ \/ flagged  /\ Begin(r, "scam", {t}, PairsOf(t))
       \/ ~flagged /\ UNCHANGED runnerVars
    /\ UNCHANGED <<pairVars, tokenStatus, form, ghostVars>>

(* rescoreScamForToken, when the cached scans judged by the current rule   *)
(* disagree with the stored flag.                                          *)
RescoreScam(r, t) ==
    /\ scamFlagged' = [scamFlagged EXCEPT ![t] = ~scamFlagged[t]]
    /\ Begin(r, IF scamFlagged'[t] THEN "scam" ELSE "verdict", {t}, PairsOf(t))
    /\ UNCHANGED <<pairVars, tokenStatus, form, ghostVars>>

(* revalidatePass: every pair, then the sweep in Finish.                   *)
Revalidate(r) ==
    /\ Begin(r, "revalidate", {}, Pair)
    /\ UNCHANGED <<pairVars, tokenVars, form, ghostVars>>

-----------------------------------------------------------------------------
(* runVerdictForPair.                                                      *)

Todo(r, p) == p \in task[r].todo /\ hand[r].at = "none"

Unlist(r, p) == task' = [task EXCEPT ![r].todo = @ \ {p}]

(* findUnique, and the R6 guard: never override an operator decision.      *)
SkipManual(r, p) ==
    /\ Todo(r, p) /\ status[p] \in Manual
    /\ Unlist(r, p)
    /\ UNCHANGED <<hand, pairVars, tokenVars, form, ghostVars>>

(* A fault: R6 guards only the approvals.                                  *)
ReadRejected(r, p) ==
    /\ Todo(r, p) /\ status[p] # "ManualVerified"
    /\ Unlist(r, p)
    /\ hand' = [hand EXCEPT ![r] =
           [Empty EXCEPT !.at = "read", !.pair = p, !.class = evidence[p],
                         !.scam = \E t \in TokensOf[p] : scamFlagged[t]]]
    /\ UNCHANGED <<pairVars, tokenVars, form, ghostVars>>

ReadPair(r, p) ==
    /\ Todo(r, p) /\ status[p] \notin Manual
    /\ Unlist(r, p)
    /\ hand' = [hand EXCEPT ![r] =
           [Empty EXCEPT !.at = "read", !.pair = p, !.class = evidence[p],
                         !.scam = \E t \in TokensOf[p] : scamFlagged[t]]]
    /\ UNCHANGED <<pairVars, tokenVars, form, ghostVars>>

(* A sibling: the same key, stored, on another source.                     *)
Siblings(p) == {q \in Pair : /\ KeyOf[q] = KeyOf[p]
                             /\ SourceOf[q] # SourceOf[p]
                             /\ keyed[q]}

(* A fault: any pair of the same key on another source is taken as a vote. *)
JudgeAnySibling(r) ==
    /\ hand[r].at = "read"
    /\ hand' = [hand EXCEPT ![r].at = "ready",
                            ![r].verdict =
          Adjudicate(hand[r].class, hand[r].scam, Siblings(hand[r].pair) # {})]
    /\ UNCHANGED <<task, pairVars, tokenVars, form, ghostVars>>

(* buildVerdictContext and evaluatePair.                                   *)
Judge(r) ==
    /\ hand[r].at = "read"
    /\ hand' = [hand EXCEPT ![r].at = "ready",
                            ![r].verdict =
          Adjudicate(hand[r].class, hand[r].scam,
                     \E q \in Siblings(hand[r].pair) : status[q] \in Verified)]
    /\ UNCHANGED <<task, pairVars, tokenVars, form, ghostVars>>

(* pair.update: by id alone, whatever the row has become meanwhile.        *)
Commit(r) ==
    LET p == hand[r].pair
        v == hand[r].verdict
    IN
    /\ hand[r].at = "ready"
    /\ status'   = [status EXCEPT ![p] = v]
    /\ method'   = [method EXCEPT ![p] = "Auto"]
    /\ keyed'    = [keyed EXCEPT ![p] = TRUE]
    /\ grounded' = [grounded EXCEPT ![p] = @ \/ (v \in Verified /\ hand[r].class = "clean")]
    /\ hand' = [hand EXCEPT ![r] = IF v \in Verified
                                  THEN [Empty EXCEPT !.at = "promote", !.pair = p]
                                  ELSE Empty]
    /\ UNCHANGED <<evidence, task, tokenVars, form, settled>>

(* A fault: promotion spares the operator's statuses but not the flagged.  *)
PromotableIfFlagged(t) == tokenStatus[t] \notin Manual

(* promoteTokensToVerified.                                                *)
Promotable(t) == tokenStatus[t] \notin Manual /\ ~scamFlagged[t]

Promoted(tokens) ==
    [t \in Token |-> IF t \in tokens /\ Promotable(t) THEN "AutoVerified"
                     ELSE tokenStatus[t]]

Promote(r) ==
    /\ hand[r].at = "promote"
    /\ tokenStatus' = Promoted(TokensOf[hand[r].pair])
    /\ hand' = [hand EXCEPT ![r] = Empty]
    /\ UNCHANGED <<task, pairVars, scamFlagged, form, ghostVars>>

(* demoteScamFlaggedTokens.                                                *)
Demoted(tokens) ==
    [t \in Token |-> IF t \in tokens /\ scamFlagged[t] /\ tokenStatus[t] = "AutoVerified"
                     THEN "NeedsReview" ELSE tokenStatus[t]]

(* A fault: revalidate does not sweep the tokens.                          *)
FinishNoSweep(r) ==
    /\ task[r].kind \notin {"idle", "down"} /\ task[r].todo = {} /\ hand[r].at = "none"
    /\ task' = [task EXCEPT ![r] = Idle]
    /\ tokenStatus' = IF task[r].kind = "scam" THEN Demoted(task[r].tokens)
                      ELSE tokenStatus
    /\ UNCHANGED <<hand, pairVars, scamFlagged, form, ghostVars>>

(* The list is empty: a scam job demotes its token, revalidate sweeps.     *)
Finish(r) ==
    /\ task[r].kind \notin {"idle", "down"} /\ task[r].todo = {} /\ hand[r].at = "none"
    /\ task' = [task EXCEPT ![r] = Idle]
    /\ tokenStatus' = CASE task[r].kind = "scam"       -> Demoted(task[r].tokens)
                        [] task[r].kind = "revalidate" -> Demoted(Token)
                        [] OTHER                       -> tokenStatus
    /\ UNCHANGED <<hand, pairVars, scamFlagged, form, ghostVars>>

-----------------------------------------------------------------------------
(* The operator.                                                           *)

(* A decision written to a set of pairs, with its history.                 *)
Decide(pairs, s, how) ==
    /\ status'   = [p \in Pair |-> IF p \in pairs THEN s ELSE status[p]]
    /\ method'   = [p \in Pair |-> IF p \in pairs THEN how ELSE method[p]]
    /\ settled'  = [p \in Pair |-> IF p \in pairs THEN s \in Manual /\ AtRest(p)
                                   ELSE settled[p]]
    /\ grounded' = [p \in Pair |-> grounded[p] \/ (p \in pairs /\ s \in Verified)]
    /\ UNCHANGED <<keyed, evidence>>

TokensUnder(pairs) == UNION {TokensOf[p] : p \in pairs}

PromoteForm(pairs, s) ==
    IF s \in Verified
    THEN [kind |-> "promote", tokens |-> TokensUnder(pairs), status |-> s]
    ELSE NoForm

(* setpairstatus.                                                          *)
SetPairStatus(p, s) ==
    /\ form = NoForm
    /\ Decide({p}, s, "Manual")
    /\ form' = PromoteForm({p}, s)
    /\ UNCHANGED <<tokenVars, runnerVars>>

(* bulkpairaction, approve and reject.                                     *)
BulkDecide(pairs, s) ==
    /\ form = NoForm /\ pairs # {}
    /\ Decide(pairs, s, "Manual")
    /\ form' = PromoteForm(pairs, s)
    /\ UNCHANGED <<tokenVars, runnerVars>>

(* settokenstatus: the token row now, its pairs in a second write.         *)
SetTokenStatus(t, s) ==
    /\ form = NoForm
    /\ tokenStatus' = [tokenStatus EXCEPT ![t] = s]
    /\ form' = IF s = "ManualVerified" THEN NoForm
               ELSE [kind |-> "cascade", tokens |-> {t}, status |-> s]
    /\ UNCHANGED <<pairVars, scamFlagged, runnerVars, ghostVars>>

(* The second write of each form.                                          *)
FormPromote ==
    /\ form.kind = "promote"
    /\ tokenStatus' = Promoted(form.tokens)
    /\ form' = NoForm
    /\ UNCHANGED <<pairVars, scamFlagged, runnerVars, ghostVars>>

FormCascade ==
    /\ form.kind = "cascade"
    /\ Decide(UNION {PairsOf(t) : t \in form.tokens}, form.status, "Cascade")
    /\ form' = NoForm
    /\ UNCHANGED <<tokenVars, runnerVars>>

-----------------------------------------------------------------------------
(* A process dies between two of its writes, or one of its writes fails.   *)

RunnerCrash(r) ==
    /\ task[r] \notin {Idle, Down}
    /\ task' = [task EXCEPT ![r] = Down]
    /\ hand' = [hand EXCEPT ![r] = Empty]
    /\ UNCHANGED <<pairVars, tokenVars, form, ghostVars>>

(* Its next run, by the schedule or by hand, starts from the stored rows.  *)
Restart(r) ==
    /\ task[r] = Down
    /\ task' = [task EXCEPT ![r] = Idle]
    /\ UNCHANGED <<hand, pairVars, tokenVars, form, ghostVars>>

FormCrash ==
    /\ form # NoForm
    /\ form' = NoForm
    /\ UNCHANGED <<pairVars, tokenVars, runnerVars, ghostVars>>

Crash == FormCrash \/ \E r \in Runner : RunnerCrash(r)

-----------------------------------------------------------------------------

Progress(r) ==
    \/ \E p \in Pair : SkipManual(r, p) \/ ReadPair(r, p)
    \/ Judge(r)
    \/ Commit(r)
    \/ Promote(r)
    \/ Finish(r)

RunnerStep(r) ==
    \/ \E p \in Pair, e \in Evidence : Ingest(r, p, e)
    \/ \E pairs \in SUBSET Pair : Rescan(r, pairs)
    \/ \E t \in Token, flagged \in BOOLEAN : ScamCheck(r, t, flagged)
    \/ \E t \in Token : RescoreScam(r, t)
    \/ Revalidate(r)
    \/ Progress(r)
    \/ Restart(r)

OperatorStep ==
    \/ \E p \in Pair, s \in FormStatus : SetPairStatus(p, s)
    \/ \E pairs \in SUBSET Pair, s \in Manual : BulkDecide(pairs, s)
    \/ \E t \in Token, s \in FormStatus : SetTokenStatus(t, s)
    \/ FormPromote
    \/ FormCascade

Step == OperatorStep \/ \E r \in Runner : RunnerStep(r)
Next == Step \/ Crash

Spec        == Init /\ [][Next]_vars
NoCrashSpec == Init /\ [][Step]_vars

(* What the deployment schedules: cron goes on with the job it has, starts *)
(* again after a crash, takes up a revalidate again and again, and does    *)
(* not crash for ever.  Nothing is assumed of the other runners, which may *)
(* stop in mid-run or crash without end, or of the operator.               *)
FairSpec ==
    /\ Spec
    /\ WF_vars(Progress(Cron))
    /\ WF_vars(Restart(Cron))
    /\ SF_vars(Revalidate(Cron))
    /\ <>[][~RunnerCrash(Cron)]_vars

-----------------------------------------------------------------------------
(* Safety.                                                                 *)

(* Rule R6 (verdictRunner.ts): a Manual decision taken while no verdict    *)
(* run had the pair in hand stays until the operator changes it, however   *)
(* many ingests, rescans and passes follow and wherever they crash.        *)
SettledDecisionsStand == \A p \in Pair : settled[p] => status[p] \in Manual

(* A pair is verified only if its canonical key was, at some time, backed  *)
(* by evidence of its own: siblings vouch for each other (verdict.ts step  *)
(* 4) but a group of pairs never vouches itself into the export, even with *)
(* runs that read one another's half-finished results.                     *)
GroundedKey(p) == \E q \in Pair : KeyOf[q] = KeyOf[p] /\ grounded[q]
VouchingIsGrounded == \A p \in Pair : status[p] \in Verified => GroundedKey(p)

(* A scam-flagged token is AutoVerified only while the check that flagged  *)
(* it is still on its way to demoting it (tokenStatus.ts: a flagged token  *)
(* must never be promoted, and one verified before is demoted).            *)
BeingDemoted(t) == \E r \in Runner : task[r].kind = "scam" /\ t \in task[r].tokens
FlaggedTokensDemoted ==
    \A t \in Token : scamFlagged[t] /\ tokenStatus[t] = "AutoVerified" => BeingDemoted(t)

(* A pair with a scam-flagged token is AutoVerified only while a run that  *)
(* knows of the flag is still to judge it: a scam flag blocks auto-verify  *)
(* outright (verdict.ts step 3b).                                          *)
Flagged(p)    == \E t \in TokensOf[p] : scamFlagged[t]
ToBeJudged(p) == \E r \in Runner : \/ p \in task[r].todo
                                   \/ InFlight(r, p) /\ hand[r].scam
FlaggedPairsQuarantined ==
    \A p \in Pair : status[p] = "AutoVerified" /\ Flagged(p) => ToBeJudged(p)

(* What the code says of R6 and the run shows it does not keep: a pair in  *)
(* an operator (Manual) status is left untouched by the engine             *)
(* (verdictRunner.ts, RunVerdictOutcome.skippedManual).                    *)
ManualStatusesStand ==
    [][\A p \in Pair : status[p] \in Manual /\ status'[p] # status[p]
                         => method'[p] # "Auto"]_vars

(* Liveness: while a token stays flagged, the twice-weekly revalidate heals *)
(* what a crash or a race left behind.  Its AutoVerified status goes and    *)
(* does not come back, and so does that of every pair it is in.             *)
FlagsHeal == \A t \in Token :
    <>[]scamFlagged[t] =>
        <>[]( /\ tokenStatus[t] # "AutoVerified"
              /\ \A p \in PairsOf(t) : status[p] # "AutoVerified" )

=============================================================================
