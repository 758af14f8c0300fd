------------------------- MODULE FulfilmentWatcher -------------------------
(***************************************************************************)
(* The fulfilment watcher (worker/fulfilment-watcher/index.ts) on one EVM  *)
(* network: it scans the Router's events from a stored cursor, keeps the   *)
(* history table (lib/fulfilments.ts) and enqueues a receipt for every     *)
(* fulfilment into the queue BeaconWriter drains.                          *)
(*                                                                         *)
(* A process awaits its first pass; after it setInterval starts a scan     *)
(* whether or not the last one has returned, so several scans overlap.  An *)
(* operator may run a backfill next to them.  Meanwhile the network mines  *)
(* and reorganises.                                                        *)
(***************************************************************************)
EXTENDS Integers, Sequences, FiniteSets, FiniteSetsExt

CONSTANTS
    Id,             \* request ids
    Scan,           \* scans that may be under way at once
    Backfill,       \* backfill processes
    StartBlocks,    \* what cfg.startBlock of the network may be, 0 when it is unset
    Batch,          \* cfg.batchBlocks
    Confirmations,  \* cfg.confirmations
    MaxHead,        \* bound of the chain
    MaxFaults       \* bound: RPC or database errors, crashes, reorganisations

ASSUME JobAssumption    == Scan \cap Backfill = {}
ASSUME ConfigAssumption == StartBlocks \subseteq Nat /\ Batch \in Nat \ {0}
                           /\ Confirmations \in Nat
ASSUME BoundAssumption  == MaxHead \in Nat /\ MaxFaults \in Nat

VARIABLES
    startBlock, \* cfg.startBlock, which stays
    timer,      \* the first pass is over and the interval timer is set
    blocks,     \* the canonical chain: the Router's events of each block
    final,      \* no reorganisation reaches this height or below
    cursor,     \* BeaconWatchCursor.lastBlock, 0 when there is none
    history,    \* the sides of Fulfilment rows that are filled in
    receipts,   \* ids with a receipt in the queue
    job,        \* job[j]: the scan or backfill under way
    began,      \* history: the block the cursor vouches from
    hasty,      \* history: what backfills to a named block have read
    faults

dbVars   == <<cursor, history, receipts>>
histVars == <<began, hasty>>
vars     == <<startBlock, timer, blocks, final, dbVars, job, histVars, faults>>

Event == [side : {"request", "fulfil"}, id : Id]

(* A job is a first scan when it found neither a cursor nor a start block, *)
(* and a named one when the operator gave the block to stop at.            *)
Job  == Scan \cup Backfill
Idle == [at |-> "idle", kind |-> "plain", safe |-> 0, from |-> 0, to |-> 0, found |-> {}, todo |-> {}]
JobState == [at : {"idle", "cursor", "logs", "upsert", "enqueue", "save"},
             kind : {"plain", "first", "named"}, safe : Int, from : Nat, to : Nat,
             found : SUBSET Event, todo : SUBSET Event]

TypeOK ==
    /\ startBlock \in StartBlocks /\ timer \in BOOLEAN
    /\ blocks   \in Seq(SUBSET Event) /\ Len(blocks) <= MaxHead
    /\ final    \in Nat
    /\ cursor   \in Nat
    /\ history  \subseteq Event
    /\ receipts \subseteq Id
    /\ job      \in [Job -> JobState]
    /\ began    \in Nat /\ hasty \subseteq Event
    /\ faults   \in 0..MaxFaults

EventsOf(chain, from, to) == UNION {chain[h] : h \in (from .. to) \cap DOMAIN chain}

EventsIn(from, to) == EventsOf(blocks, from, to)

Fulfilled(events) == {e.id : e \in {f \in events : f.side = "fulfil"}}

Init ==
    /\ startBlock \in StartBlocks /\ timer = FALSE
    /\ blocks = <<>> /\ final = 0
    /\ cursor = 0 /\ history = {} /\ receipts = {}
    /\ job = [j \in Job |-> Idle]
    /\ began = startBlock /\ hasty = {}
    /\ faults = 0

-----------------------------------------------------------------------------
(* scanChain.                                                              *)

Step(j, state) == job' = [job EXCEPT ![j] = state]

(* The scan, or the backfill, is over; the pass too, and with the first    *)
(* pass main goes on to the timer.                                         *)
End(j) == Step(j, Idle) /\ timer' = (timer \/ j \in Scan)

(* A fault: the confirmations are forgotten.                               *)
AtHead == Len(blocks)

Safe == Len(blocks) - Confirmations

(* The first pass, or one the timer starts: the head.                      *)
BeginScan(j) ==
    /\ j \in Scan /\ job[j].at = "idle"
    /\ timer \/ \A k \in Scan : job[k].at = "idle"
    /\ Step(j, [Idle EXCEPT !.at = "cursor", !.safe = Safe])
    /\ UNCHANGED <<startBlock, timer, blocks, final, dbVars, histVars, faults>>

(* With neither a cursor nor a start block, whatever was safe for the job. *)
FirstScan == cursor = 0 /\ startBlock = 0

NextFrom(j) == IF cursor # 0 THEN cursor + 1
               ELSE IF startBlock # 0 THEN startBlock ELSE job[j].safe

BatchEnd(from, end) == Min({end, from + Batch - 1})

(* A fault: a range of one block counts as nothing new.                    *)
SomethingNewLate(j) == NextFrom(j) \in 1 .. job[j].safe - 1

(* In a network younger than its confirmations there is nothing either:    *)
(* the RPC refuses a block below 0, and there is no event in block 0.      *)
SomethingNew(j) == NextFrom(j) \in 1 .. job[j].safe

ReadCursor(j) ==
    /\ job[j].at = "cursor"
    /\ \/ ~SomethingNew(j) /\ End(j)
       \/ /\ SomethingNew(j)
          /\ Step(j, [job[j] EXCEPT !.at = "logs", !.from = NextFrom(j),
                                    !.to = BatchEnd(NextFrom(j), job[j].safe),
                                    !.kind = IF FirstScan THEN "first" ELSE "plain"])
          /\ UNCHANGED timer
    /\ UNCHANGED <<startBlock, blocks, final, dbVars, histVars, faults>>

GetLogs(j) ==
    /\ job[j].at = "logs"
    /\ LET events == EventsIn(job[j].from, job[j].to)
       IN  /\ Step(j, [job[j] EXCEPT !.at = "upsert", !.found = events, !.todo = events])
           /\ hasty' = IF job[j].kind = "named" THEN hasty \cup events ELSE hasty
    /\ UNCHANGED <<startBlock, timer, blocks, final, dbVars, began, faults>>

(* upsertRequest and upsertFulfilment fill in their own side of the row.   *)
FillIn(e) == history' = history \cup {e}

(* Requests first, one await each.                                         *)
Upsert(j) ==
    /\ job[j].at = "upsert"
    /\ \E e \in job[j].todo :
        /\ e.side = "fulfil" => \A f \in job[j].todo : f.side = "fulfil"
        /\ FillIn(e)
        /\ Step(j, [job[j] EXCEPT !.todo = job[j].todo \ {e}])
    /\ UNCHANGED <<startBlock, timer, blocks, final, cursor, receipts, histVars, faults>>

UpsertsDone(j) ==
    /\ job[j].at = "upsert" /\ job[j].todo = {}
    /\ Step(j, [job[j] EXCEPT !.at = "enqueue"])
    /\ UNCHANGED <<startBlock, timer, blocks, final, dbVars, histVars, faults>>

EnqueueFulfilments(j) ==
    /\ j \in Scan /\ job[j].at = "enqueue"
    /\ receipts' = receipts \cup Fulfilled(job[j].found)
    /\ Step(j, [job[j] EXCEPT !.at = "save", !.found = {}])
    /\ UNCHANGED <<startBlock, timer, blocks, final, cursor, history, histVars, faults>>

(* A fault: the cursor is set to the end of what is safe, not of the batch. *)
SetCursorToSafe(j) ==
    /\ job[j].at = "save"
    /\ cursor' = job[j].safe
    /\ began' = IF job[j].kind = "first" THEN Max({began, job[j].from}) ELSE began
    /\ End(j)
    /\ UNCHANGED <<startBlock, blocks, final, history, receipts, hasty, faults>>

SetCursor(j) ==
    /\ job[j].at = "save"
    /\ cursor' = job[j].to
    /\ began' = IF job[j].kind = "first" THEN Max({began, job[j].from}) ELSE began
    /\ End(j)
    /\ UNCHANGED <<startBlock, blocks, final, history, receipts, hasty, faults>>

-----------------------------------------------------------------------------
(* backfillChain: up to what was safe when it began, or to the block the   *)
(* operator named, whatever its confirmations.                             *)

BackfillRange(j, from) == [Idle EXCEPT !.at = "logs", !.kind = job[j].kind, !.safe = job[j].safe,
                               !.from = from, !.to = BatchEnd(from, job[j].safe)]

BeginBackfill(j, from, kind, end) ==
    /\ j \in Backfill /\ job[j].at = "idle" /\ from <= end
    /\ Step(j, [Idle EXCEPT !.at = "logs", !.kind = kind, !.safe = end, !.from = from,
                            !.to = BatchEnd(from, end)])
    /\ UNCHANGED <<startBlock, timer, blocks, final, dbVars, histVars, faults>>

NextRange(j) ==
    LET from == job[j].from + Batch
    IN  Step(j, IF from > job[j].safe THEN Idle ELSE BackfillRange(j, from))

(* BACKFILL_ANCHOR decides whether the receipts are enqueued.              *)
FinishRange(j, anchor) ==
    /\ j \in Backfill /\ job[j].at = "enqueue"
    /\ receipts' = IF anchor THEN receipts \cup Fulfilled(job[j].found) ELSE receipts
    /\ NextRange(j)
    /\ UNCHANGED <<startBlock, timer, blocks, final, cursor, history, histVars, faults>>

(* A range whose getLogs fails is skipped.                                 *)
SkipRange(j) ==
    /\ j \in Backfill /\ job[j].at = "logs" /\ faults < MaxFaults
    /\ NextRange(j)
    /\ faults' = faults + 1
    /\ UNCHANGED <<startBlock, timer, blocks, final, dbVars, histVars>>

-----------------------------------------------------------------------------
(* Errors: an await throws and the scan, or the backfill, is abandoned; or *)
(* the watcher dies with all its scans.                                    *)

Throw(j) ==
    /\ job[j].at # "idle" /\ faults < MaxFaults
    /\ End(j)
    /\ faults' = faults + 1
    /\ UNCHANGED <<startBlock, blocks, final, dbVars, histVars>>

Crash ==
    /\ faults < MaxFaults
    /\ timer' = FALSE
    /\ job' = [j \in Job |-> IF j \in Scan THEN Idle ELSE job[j]]
    /\ faults' = faults + 1
    /\ UNCHANGED <<startBlock, blocks, final, dbVars, histVars>>

-----------------------------------------------------------------------------
(* The network.  A request is made once and fulfilled at most once, not    *)
(* before it is made.                                                      *)

Mine(events) ==
    /\ Len(blocks) < MaxHead
    /\ LET past == EventsIn(1, Len(blocks))
       IN  /\ events \cap past = {}
           /\ \A e \in events : [side |-> "request", id |-> e.id] \in past \cup events
    /\ blocks' = Append(blocks, events)
    /\ final' = Max({final, Len(blocks) + 1 - Confirmations})
    /\ UNCHANGED <<startBlock, timer, dbVars, job, histVars, faults>>

(* The last blocks are replaced, never more than Confirmations of them.    *)
Reorganise ==
    /\ faults < MaxFaults
    /\ \E h \in final .. Len(blocks) - 1 : blocks' = SubSeq(blocks, 1, h)
    /\ faults' = faults + 1
    /\ UNCHANGED <<startBlock, timer, final, dbVars, job, histVars>>

Watcher(j) ==
    \/ BeginScan(j) \/ ReadCursor(j) \/ GetLogs(j) \/ Upsert(j) \/ UpsertsDone(j)
    \/ EnqueueFulfilments(j) \/ SetCursor(j)

Next ==
    \/ \E j \in Job : Watcher(j) \/ SkipRange(j) \/ Throw(j)
    \/ \E j \in Backfill :
        \/ \E from \in 1 .. MaxHead :
              \/ BeginBackfill(j, from, "plain", Safe)
              \/ \E end \in 1 .. MaxHead : BeginBackfill(j, from, "named", end)
        \/ \E anchor \in BOOLEAN : FinishRange(j, anchor)
    \/ Crash
    \/ \E events \in SUBSET Event : Mine(events)
    \/ Reorganise

Spec == Init /\ [][Next]_vars

(* The interval timer and the awaits of the watcher; the chain itself and  *)
(* the operator owe nothing.                                               *)
FairSpec == Spec /\ \A j \in Scan : WF_vars(Watcher(j))

-----------------------------------------------------------------------------
(* Properties.                                                             *)

(* The cursor never runs ahead of the work: every event of a block it has  *)
(* passed is in the history and every fulfilment has its receipt, although *)
(* scans overlap, write the cursor out of order, throw and die halfway     *)
(* ("a restart resumes without rescanning or missing logs", schema.prisma, *)
(* BeaconWatchCursor).  That holds from the start block; where there is    *)
(* none, from the last place a first scan began that saved its cursor, for *)
(* two of them that overlap begin at two heights and nobody reads what     *)
(* lies between.                                                           *)
NothingMissed ==
    /\ cursor <= final
    /\ cursor # 0 => /\ EventsIn(began, cursor) \subseteq history
                     /\ Fulfilled(EventsIn(began, cursor)) \subseteq receipts

(* A receipt, or a side of a history row, stands for an event of a block   *)
(* no reorganisation takes back ("stay this far behind head"), unless a    *)
(* backfill read it on its way to a block the operator had named.          *)
NothingInvented ==
    /\ history  \subseteq EventsIn(1, final) \cup hasty
    /\ receipts \subseteq Fulfilled(EventsIn(1, final) \cup hasty)

(* Every fulfilment that stays deep enough, and is not before the place    *)
(* the cursor vouches from, gets its receipt once the errors are over,     *)
(* however overlapping scans move the cursor to and fro.                   *)
EveryFulfilmentIsReceipted ==
    \A id \in Id :
        <>[](id \in Fulfilled(EventsIn(began, Safe))) => <>(id \in receipts)

(* "anchors every OoO fulfilment" (index.ts:5), once the watcher has       *)
(* recorded one: not where no start block is set and a first scan fails or *)
(* is overtaken, for the next one begins at another safe height.           *)
HistoryHasNoHoles ==
    \A h, k \in DOMAIN blocks :
        h < k /\ k <= cursor /\ blocks[h] \cap history # {} => blocks[k] \subseteq history
=============================================================================
