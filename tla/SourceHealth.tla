----------------------------- MODULE SourceHealth -----------------------------
(***************************************************************************)
(* `yarn source-health` (lib/sourceHealth.ts): every few hours each source *)
(* is probed, up to Attempts times; a source that fails UnhealthyAfter     *)
(* recorded checks in a row is paused, that is left out of the manifest    *)
(* go-ooo reads, until a check passes.  A check in which more than half of *)
(* the sources fail is put down to our side and not recorded.              *)
(*                                                                         *)
(* The failure counts are read when the check begins and written, source   *)
(* by source, when all probes are done.  Checks do not overlap (flock).    *)
(***************************************************************************)
EXTENDS Integers, Sequences, FiniteSets, FiniteSetsExt

CONSTANTS
    Source,         \* the sources the check selects
    Order,          \* their order by chain and dex, a sequence
    Attempts,       \* probes of a source before it counts as failing
    UnhealthyAfter, \* failed checks in a row that pause a source
    MaxCrashes      \* bound: checks that die

ASSUME SourcesAssumption ==
    /\ IsFiniteSet(Source)
    /\ Order \in Seq(Source) /\ Len(Order) = Cardinality(Source)
    /\ \A s \in Source : \E i \in DOMAIN Order : Order[i] = s
ASSUME CountsAssumption ==
    Attempts \in Nat \ {0} /\ UnhealthyAfter \in Nat \ {0} /\ MaxCrashes \in Nat

VARIABLES
    failures,   \* SupportedSource.healthFailures; UnhealthyAfter stands for any more
    check,      \* the check in progress
    feed,       \* is a source's price feed up?
    network,    \* is our side up?
    torn,       \* did a check die while recording, with none recorded since?
    crashes     \* checks that died so far

vars == <<failures, check, feed, network, torn, crashes>>

Counts == 0..UnhealthyAfter

Paused == {s \in Source : failures[s] >= UnhealthyAfter}

(* What the manifest and the priceable flag advertise (HEALTHY_SOURCE_WHERE). *)
Advertised == Source \ Paused

NoCheck == [pc |-> "idle", left |-> <<>>, tries |-> 0, failing |-> {},
            prev |-> [s \in Source |-> 0]]

CheckState == [pc : {"idle", "probe", "record"}, left : Seq(Source),
               tries : 0..(Attempts - 1), failing : SUBSET Source,
               prev : [Source -> Counts]]

TypeOK ==
    /\ failures \in [Source -> Counts]
    /\ check \in CheckState
    /\ Len(check.left) <= Len(Order)
    /\ feed \in [Source -> {"up", "down"}]
    /\ network \in {"up", "down"}
    /\ torn \in BOOLEAN
    /\ crashes \in 0..MaxCrashes

(* No source has been checked yet.                                         *)
Init ==
    /\ failures = [s \in Source |-> 0]
    /\ check = NoCheck
    /\ feed \in [Source -> {"up", "down"}]
    /\ network = "up"
    /\ torn = FALSE
    /\ crashes = 0

-----------------------------------------------------------------------------
(* A fault: a paused source is not selected for the check any more.        *)
SelectedAdvertised == SelectSeq(Order, LAMBDA s : failures[s] < UnhealthyAfter)

Selected == Order

(* The sources are read, with their failure counts.                        *)
BeginCheck ==
    /\ check.pc = "idle"
    /\ check' = [NoCheck EXCEPT !.pc = "probe", !.left = Selected, !.prev = failures]
    /\ UNCHANGED <<failures, feed, network, torn, crashes>>

ProbePasses(s) == feed[s] = "up" /\ network = "up"

MayRetry == check.tries + 1 < Attempts

(* One probe of the next source.  It is tried again until it passes or the *)
(* attempts are used up.                                                   *)
Probe ==
    /\ check.pc = "probe" /\ check.left # <<>>
    /\ LET s == Head(check.left)
       IN  check' =
             IF ProbePasses(s)
             THEN [check EXCEPT !.left = Tail(check.left), !.tries = 0]
             ELSE IF MayRetry
             THEN [check EXCEPT !.tries = check.tries + 1]
             ELSE [check EXCEPT !.left = Tail(check.left), !.tries = 0,
                                !.failing = check.failing \cup {s}]
    /\ UNCHANGED <<failures, feed, network, torn, crashes>>

(* A fault: whatever failed is recorded.                                   *)
SystemicNever == FALSE

Systemic == 2 * Cardinality(check.failing) > Len(Order)

(* All probes are done: record the check, or put it down to our side.      *)
Decide ==
    /\ check.pc = "probe" /\ check.left = <<>>
    /\ check' = IF Systemic THEN NoCheck
                ELSE [check EXCEPT !.pc = "record", !.left = Selected]
    /\ UNCHANGED <<failures, feed, network, torn, crashes>>

(* A fault: a failure is marked, not counted.                              *)
CountedOnce(s) == IF s \in check.failing THEN 1 ELSE 0

Counted(s) ==
    IF s \in check.failing THEN Min({check.prev[s] + 1, UnhealthyAfter}) ELSE 0

(* One source's row.  The count comes from the read at the beginning.      *)
Record ==
    /\ check.pc = "record" /\ check.left # <<>>
    /\ LET s == Head(check.left)
       IN  failures' = [failures EXCEPT ![s] = Counted(s)]
    /\ check' = [check EXCEPT !.left = Tail(check.left)]
    /\ UNCHANGED <<feed, network, torn, crashes>>

EndCheck ==
    /\ check.pc = "record" /\ check.left = <<>>
    /\ check' = NoCheck
    /\ torn' = FALSE
    /\ UNCHANGED <<failures, feed, network, crashes>>

(* The job dies, or a write throws: the rows left keep their old counts.   *)
Crash ==
    /\ check.pc # "idle"
    /\ crashes < MaxCrashes /\ crashes' = crashes + 1
    /\ torn' = (torn \/ check.pc = "record")
    /\ check' = NoCheck
    /\ UNCHANGED <<failures, feed, network>>

-----------------------------------------------------------------------------
(* The world.                                                              *)

FeedChanges(s) ==
    /\ feed' = [feed EXCEPT ![s] = IF @ = "up" THEN "down" ELSE "up"]
    /\ UNCHANGED <<failures, check, network, torn, crashes>>

NetworkChanges ==
    /\ network' = IF network = "up" THEN "down" ELSE "up"
    /\ UNCHANGED <<failures, check, feed, torn, crashes>>

Next ==
    \/ BeginCheck \/ Probe \/ Decide \/ Record \/ EndCheck \/ Crash
    \/ NetworkChanges
    \/ \E s \in Source : FeedChanges(s)

Spec == Init /\ [][Next]_vars

(* Checks are scheduled, and a check that is not killed runs to its end.   *)
FairSpec == Spec /\ WF_vars(BeginCheck \/ Probe \/ Decide \/ Record \/ EndCheck)

-----------------------------------------------------------------------------
(* An outage on our side never empties the manifest: when a check has been *)
(* recorded to its end, at least half of the sources are advertised.       *)
MostStayAdvertised ==
    (check.pc = "idle" /\ ~torn) => 2 * Cardinality(Paused) <= Cardinality(Source)

(* Our side works, no more than half of the feeds are down, and it stays so: *)
(* feeds that take turns in being down may be counted in one check.        *)
Calm == network = "up" /\ 2 * Cardinality({s \in Source : feed[s] = "down"}) <= Cardinality(Source)

Settled == <>[]Calm /\ <>[][UNCHANGED feed]_vars

(* Once outages settle, what is down is paused and what is up is advertised *)
(* again, whatever was recorded before, and however checks that were cut   *)
(* short or put down to our side left the counts.                          *)
OutagesArePaused ==
    Settled => <>[](\A s \in Source : feed[s] = "down" => s \in Paused)

RecoveriesAreAdvertised ==
    Settled => <>[](\A s \in Source : feed[s] = "up" => s \in Advertised)
===============================================================================
