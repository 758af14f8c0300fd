------------------------------- MODULE Anchor -------------------------------
(***************************************************************************)
(* The snapshots whose roots go on chain (lib/anchor.ts): one tree over    *)
(* the verified pairs, one over the verified tokens, each kept in memory   *)
(* with the watermark it was built at and rebuilt when the watermark moved.*)
(* The watermark is the latest date on any pair.  Most writers date what   *)
(* they write; the operator's forms and the writes to tokens do not, and a *)
(* pass dates everything it writes with the second it began.               *)
(* A root is the set of what it commits: Merkle shows that it determines it*)
(***************************************************************************)
EXTENDS Integers, FiniteSets, FiniteSetsExt, Functions

CONSTANTS
    Pair, Token,
    Pass,       \* pipeline runs and page jobs that write verdicts
    Reader,     \* calls for the snapshot under way in one process
    MaxClock    \* the seconds told apart

ASSUME AnchorAssumption == 
    IsFiniteSet(Pair) /\ Pair # {} /\ Pair \cap Token = {} /\ MaxClock \in Nat

VARIABLES
    tree,       \* which of the two trees: their memos share nothing
    clock,      \* nowSeconds
    dates,      \* the later of each pair's lastChecked and verdictAt
    verified,   \* which of the tree's items have a verified status
    passes,     \* what each pass still has to write
    memo,       \* pairCache or tokenCache
    reads       \* where each call is

vars == <<tree, clock, dates, verified, passes, memo, reads>>

Tree == {"pairs", "tokens"}
Items == IF tree = "pairs" THEN Pair ELSE Token

NoPass == [now |-> 0, todo |-> {}, tokens |-> FALSE]
None == [known |-> FALSE, key |-> 0, root |-> {}, missed |-> FALSE]
Idle == [pc |-> "idle", wm |-> 0, root |-> {}, missed |-> FALSE]

TypeOK ==
    /\ tree \in Tree /\ clock \in Nat /\ dates \in [Pair -> Nat]
    /\ verified \subseteq Pair \cup Token
    /\ passes \in [Pass -> [now : Nat, todo : SUBSET Pair, tokens : BOOLEAN]]
    /\ memo \in [known : BOOLEAN, key : Nat, root : SUBSET (Pair \cup Token), missed : BOOLEAN]
    /\ reads \in [Reader -> [pc : {"idle", "rows", "store"}, wm : Nat,
                             root : SUBSET (Pair \cup Token), missed : BOOLEAN]]

Init ==
    /\ tree \in Tree /\ clock = 0 /\ dates = [p \in Pair |-> 0] /\ verified \in SUBSET Items
    /\ passes = [r \in Pass |-> NoPass]
    /\ memo = None /\ reads = [r \in Reader |-> Idle]

---------------------------------------------------------------------------
(* The watermark and the memo.  `missed` is no state of the program: it    *)
(* remembers that, since the rows of a snapshot were read, something was   *)
(* written that no watermark above the snapshot's could show.              *)

Watermark == Max(Range(dates))

Hit == memo.known /\ memo.key = Watermark

Missing(date) ==
    /\ memo' = [memo EXCEPT !.missed = memo.missed \/ (memo.known /\ date <= memo.key)]
    /\ reads' = [r \in Reader |->
          [reads[r] EXCEPT !.missed =
              reads[r].missed \/ (reads[r].pc = "store" /\ date <= reads[r].wm)]]

Dated(p, date) == dates' = [dates EXCEPT ![p] = date] /\ Missing(date)

Undated == UNCHANGED dates /\ Missing(0)

Judged(x) == verified' \in {verified, verified \cup ({x} \cap Items), verified \ {x}}

---------------------------------------------------------------------------
(* The writers. *)

Begin(r, all) ==
    /\ passes[r] = NoPass /\ all # {}
    /\ passes' = [passes EXCEPT ![r] = [now |-> clock, todo |-> all, tokens |-> TRUE]]
    /\ UNCHANGED <<tree, clock, dates, verified, memo, reads>>

\* A verdict, written with the pass's date whatever the clock says by then.
Write(r, p) ==
    /\ p \in passes[r].todo
    /\ Judged(p) /\ Dated(p, passes[r].now)
    /\ passes' = [passes EXCEPT ![r].todo = passes[r].todo \ {p}]
    /\ UNCHANGED <<tree, clock>>

\* What the pass does to the tokens: promoted after a verdict, rescored, reset.
Retoken(r, k) ==
    /\ passes[r].tokens /\ Judged(k) /\ Undated
    /\ UNCHANGED <<tree, clock, passes>>

EndPass(r) ==
    /\ passes[r].tokens /\ passes[r].todo = {}
    /\ passes' = [passes EXCEPT ![r] = NoPass]
    /\ UNCHANGED <<tree, clock, dates, verified, memo, reads>>

CrashPass(r) ==
    /\ passes[r].todo # {}
    /\ passes' = [passes EXCEPT ![r] = NoPass]
    /\ UNCHANGED <<tree, clock, dates, verified, memo, reads>>

\* The operator looks at one pair again, or a page of an ingest is stored.
Rescan(p) ==
    /\ Judged(p) /\ Dated(p, clock)
    /\ UNCHANGED <<tree, clock, passes>>

\* The status forms: a pair's, or a token's with its pairs, and no date.
SetPairStatus(p) ==
    /\ verified' \in {verified \cup ({p} \cap Items), verified \ {p}}
    /\ Undated /\ UNCHANGED <<tree, clock, passes>>

SetTokenStatus(k) ==
    /\ verified' = verified \cup ({k} \cap Items) /\ Undated /\ UNCHANGED <<tree, clock, passes>>

Cascade(k, ps) ==
    /\ verified' \in {verified \cup (({k} \cup ps) \cap Items), verified \ ({k} \cup ps)}
    /\ Undated /\ UNCHANGED <<tree, clock, passes>>

---------------------------------------------------------------------------
(* A call for a snapshot. *)

\* A memo of this watermark is the answer, and nothing changes.
ReadWatermark(r) ==
    /\ reads[r].pc = "idle" /\ ~Hit
    /\ reads' = [reads EXCEPT ![r].pc = "rows", ![r].wm = Watermark]
    /\ UNCHANGED <<tree, clock, dates, verified, passes, memo>>

ReadRows(r) ==
    /\ reads[r].pc = "rows"
    /\ reads' = [reads EXCEPT ![r].pc = "store", ![r].root = verified]
    /\ UNCHANGED <<tree, clock, dates, verified, passes, memo>>

(* A fault: the memo is keyed on the watermark of the moment it is stored. *)
KeyLate(r) == Watermark

\* The watermark was read before the rows.
KeyOf(r) == reads[r].wm

Store(r) ==
    /\ reads[r].pc = "store"
    /\ memo' = [known |-> TRUE, key |-> KeyOf(r), root |-> reads[r].root,
               missed |-> reads[r].missed]
    /\ reads' = [reads EXCEPT ![r] = Idle]
    /\ UNCHANGED <<tree, clock, dates, verified, passes>>

\* The process starts again.
Restart ==
    /\ memo' = None /\ reads' = [r \in Reader |-> Idle]
    /\ UNCHANGED <<tree, clock, dates, verified, passes>>

---------------------------------------------------------------------------
Tick ==
    /\ clock < MaxClock /\ clock' = clock + 1
    /\ UNCHANGED <<tree, dates, verified, passes, memo, reads>>

Work(r) ==
    \/ \E all \in SUBSET Pair : Begin(r, all)
    \/ EndPass(r)

Call(r) == ReadWatermark(r) \/ ReadRows(r) \/ Store(r)

Next ==
    \/ \E r \in Pass :
        \/ Work(r) \/ CrashPass(r)
        \/ \E p \in Pair : Write(r, p)
        \/ \E k \in Token : Retoken(r, k)
    \/ \E p \in Pair : Rescan(p) \/ SetPairStatus(p)
    \/ \E k \in Token : SetTokenStatus(k) \/ \E ps \in SUBSET Pair : Cascade(k, ps)
    \/ \E r \in Reader : Call(r)
    \/ Restart \/ Tick

Spec == Init /\ [][Next]_vars

---------------------------------------------------------------------------
(* What the memo is worth. *)

\* A snapshot answered from memory is what the database holds, unless something
\* was written since that the watermark cannot show: an undated decision, or a
\* verdict dated no later than the snapshot (lib/anchor.ts:54-58, the watermark
\* is read first and the rows after it).
MemoIsHonest == Hit /\ ~memo.missed => memo.root = verified

\* lib/anchor.ts:7-10: changes "always co-occur with a pair-watermark advance".
\* They do not: a form changes a status and no date, and a pass dates its last
\* write like its first, so that a snapshot taken between the two stays.
RootIsCurrent ==
    (\A r \in Pass : passes[r] = NoPass)
        => (Hit => memo.root = verified)
=============================================================================
