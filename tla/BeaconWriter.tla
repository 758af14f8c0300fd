---------------------------- MODULE BeaconWriter ----------------------------
(***************************************************************************)
(* The beacon writer (worker/beacon-writer/index.ts): one process with one *)
(* funded key that records hashes on a beacon of the mainchain.  A         *)
(* heartbeat records the root of each published tree and files the leaves  *)
(* in the queue (lib/beaconQueue.ts); between heartbeats the drip records  *)
(* the queue's hashes one transaction at a time.  When the chain learns to *)
(* carry descriptors the writer notices (lib/beaconChainState.ts) and      *)
(* queues everything it recorded without one a second time.                *)
(*                                                                         *)
(* Every await is a step boundary: the process can throw or die there, a   *)
(* transaction it gave up on stays in the mempool, and the other writers   *)
(* of the database (verdicts, the fulfilment watcher) go on.               *)
(***************************************************************************)
EXTENDS Naturals, SequencesExt

CONSTANTS
    PairLeaf, TokenLeaf,    \* verified pairs and tokens, by what their leaf commits to
    Receipt,                \* fulfilment receipts the watcher may enqueue
    Drip,                   \* cfg.dripEnabled
    ReanchorEnabled,        \* cfg.reanchorEnabled
    MaxChurn,               \* bound: changes of the published set
    MaxFaults               \* bound: exceptions and crashes

ASSUME LeafAssumption ==
    /\ IsFiniteSet(PairLeaf) /\ IsFiniteSet(TokenLeaf)
    /\ PairLeaf \cap TokenLeaf = {}
    /\ Receipt \cap (PairLeaf \cup TokenLeaf) = {}
ASSUME ConfigAssumption == Drip \in BOOLEAN /\ ReanchorEnabled \in BOOLEAN
ASSUME BoundAssumption  == MaxChurn \in Nat /\ MaxFaults \in Nat

VARIABLES
    (* the database *)
    published,  \* published[tree]: the leaves of the verified set
    queue,      \* BeaconQueue, by id
    anchors,    \* BeaconAnchor: the roots recorded and stored
    dbLive, dbSeeded,   \* BeaconChainState
    (* the chain *)
    upgraded,   \* serves BeaconTimestampsByHash, accepts descriptors
    ledger,     \* what the beacon holds
    orphans,    \* in the mempool, no longer awaited by the writer
    (* the writer *)
    pc, live, due, snap, item, sent,
    (* history and bounds *)
    vouched,    \* hashes ever published or observed
    repeats,    \* recordings of a queued item that was recorded before
    churn, faults

dbVars     == <<published, queue, anchors, dbLive, dbSeeded>>
chainVars  == <<upgraded, ledger, orphans>>
writerVars == <<pc, live, due, snap, item, sent>>
boundVars  == <<vouched, repeats, churn, faults>>
vars == <<dbVars, chainVars, writerVars, boundVars>>

Tree       == {"pairs", "tokens"}
LeavesOf   == [pairs |-> PairLeaf, tokens |-> TokenLeaf]
LeafStream == [pairs |-> "pair-leaf", tokens |-> "token-leaf"]
FilePC     == [pairs |-> "file-pairs", tokens |-> "file-tokens"]
Stream     == {"pair-leaf", "token-leaf", "fulfilment", "reanchor"}

(* The hash of a leaf or a receipt is its singleton and a tree's root its  *)
(* set of leaves: as in buildMerkle, the root over one leaf is that leaf.  *)
Hash == (((SUBSET PairLeaf) \cup (SUBSET TokenLeaf)) \ {{}}) \cup {{r} : r \in Receipt}
LeafHash(l) == {l}
Root(S)     == S
LeafHashes(S) == {LeafHash(l) : l \in S}

Row      == [stream : Stream, hash : Hash, anchored : BOOLEAN]
Recorded == [stream : Stream \cup Tree, hash : Hash, described : BOOLEAN]
NoSnap   == [t \in Tree |-> {}]
NoTx     == [stream |-> "pairs", hash |-> {}, described |-> FALSE]

PC == {"down", "idle", "latch", "seed", "seal", "gather", "pairs", "tokens",
       "sent", "refused", "recorded", "file-pairs", "file-tokens"}

TypeOK ==
    /\ published \in [Tree -> SUBSET (PairLeaf \cup TokenLeaf)]
    /\ \A t \in Tree : published[t] \subseteq LeavesOf[t]
    /\ queue    \in Seq(Row)
    /\ anchors  \subseteq [tree : Tree, hash : Hash]
    /\ dbLive   \in BOOLEAN /\ dbSeeded \in BOOLEAN
    /\ upgraded \in BOOLEAN
    /\ ledger   \subseteq Recorded
    /\ orphans  \subseteq Recorded
    /\ pc   \in PC
    /\ live \in BOOLEAN
    /\ due  \in {"now", "later", "soon"}
    /\ snap \in [Tree -> SUBSET (PairLeaf \cup TokenLeaf)]
    /\ \A t \in Tree : snap[t] \subseteq LeavesOf[t]
    /\ item \in Nat
    /\ sent \in Recorded \cup {NoTx}
    /\ vouched \subseteq Hash
    /\ repeats \in Nat /\ churn \in 0..MaxChurn /\ faults \in 0..MaxFaults

-----------------------------------------------------------------------------
(* The queue.                                                              *)

Has(q, stream, h) == \E i \in DOMAIN q : q[i].stream = stream /\ q[i].hash = h

(* A fault: skipDuplicates is dropped.                                     *)
EnqueueAgain(stream, hashes) ==
    queue \o SetToSeq([stream : {stream}, hash : hashes, anchored : {FALSE}])

(* createMany with skipDuplicates on the unique (stream, hash).            *)
Enqueue(stream, hashes) ==
    LET new == {h \in hashes : ~Has(queue, stream, h)}
    IN  queue \o SetToSeq([stream : {stream}, hash : new, anchored : {FALSE}])

Pending == {i \in DOMAIN queue : ~queue[i].anchored}

NextPending == CHOOSE i \in Pending : \A j \in Pending : i <= j

(* seedReanchorBacklog: every anchored leaf and receipt, every stored root. *)
Seedable == {queue[i].hash : i \in {j \in DOMAIN queue :
                                    queue[j].anchored /\ queue[j].stream # "reanchor"}}
            \cup {a.hash : a \in anchors}

OnLedger(stream, h) == \E e \in ledger : e.stream = stream /\ e.hash = h

RootOf(tree, S) == IF S = {} THEN {} ELSE {Root(S)}

Init ==
    /\ published \in {f \in [Tree -> SUBSET (PairLeaf \cup TokenLeaf)] :
                        \A t \in Tree : f[t] \subseteq LeavesOf[t]}
    /\ queue = <<>> /\ anchors = {} /\ dbLive = FALSE /\ dbSeeded = FALSE
    /\ upgraded = FALSE /\ ledger = {} /\ orphans = {}
    /\ pc = "idle" /\ live = FALSE /\ due = "now"
    /\ snap = NoSnap /\ item = 0 /\ sent = NoTx
    /\ vouched = UNION {LeafHashes(published[t]) \cup RootOf(t, published[t]) : t \in Tree}
    /\ repeats = 0 /\ churn = 0 /\ faults = 0

-----------------------------------------------------------------------------
(* ensureMetadata.                                                         *)

Goto(next) == pc' = next

(* Back to the loop: the locals of heartbeat and dripOne are gone.         *)
Forget == snap' = NoSnap /\ item' = 0 /\ sent' = NoTx
Return == Goto("idle") /\ Forget

ProbeAnswers(yes) ==
    IF yes THEN dbLive' = TRUE /\ Goto("latch")
           ELSE UNCHANGED dbLive /\ Goto("gather")

EnsureMetadata ==
    /\ pc = "idle" /\ due = "now"
    /\ \/ live  /\ Goto("gather") /\ UNCHANGED <<dbLive, faults>>
       \/ ~live /\ dbLive  /\ Goto("latch") /\ UNCHANGED <<dbLive, faults>>
       \/ ~live /\ ~dbLive /\ ProbeAnswers(upgraded) /\ UNCHANGED faults
       \/ /\ ~live /\ ~dbLive /\ upgraded       \* the probe swallows an RPC error
          /\ faults < MaxFaults /\ faults' = faults + 1
          /\ ProbeAnswers(FALSE)
    /\ UNCHANGED <<published, queue, anchors, dbSeeded, chainVars, live, due,
                   snap, item, sent, vouched, repeats, churn>>

Latch ==
    /\ pc = "latch"
    /\ live' = TRUE
    /\ Goto(IF ReanchorEnabled /\ ~dbSeeded THEN "seed" ELSE "gather")
    /\ UNCHANGED <<dbVars, chainVars, due, snap, item, sent, boundVars>>

SeedReanchorBacklog ==
    /\ pc = "seed"
    /\ queue' = Enqueue("reanchor", Seedable)
    /\ Goto("seal")
    /\ UNCHANGED <<published, anchors, dbLive, dbSeeded, chainVars, live, due,
                   snap, item, sent, boundVars>>

MarkReanchorSeeded ==
    /\ pc = "seal"
    /\ dbSeeded' = TRUE
    /\ Goto("gather")
    /\ UNCHANGED <<published, queue, anchors, dbLive, chainVars, live, due,
                   snap, item, sent, boundVars>>

-----------------------------------------------------------------------------
(* heartbeat.                                                              *)

(* A fault: the snapshot is taken over every leaf, verified or not.        *)
GatherAll ==
    /\ pc = "gather"
    /\ snap' = LeavesOf
    /\ Goto("pairs")
    /\ UNCHANGED <<dbVars, chainVars, live, due, item, sent, boundVars>>

Gather ==
    /\ pc = "gather"
    /\ snap' = published
    /\ Goto("pairs")
    /\ UNCHANGED <<dbVars, chainVars, live, due, item, sent, boundVars>>

(* A fault: the next heartbeat is due when this one ends.                  *)
AfterBeatAtOnce(next) ==
    /\ Goto(next)
    /\ IF next = "idle" THEN due' = "now" /\ snap' = NoSnap ELSE UNCHANGED <<due, snap>>

(* The heartbeat is over when control is back in the loop; nextHeartbeat   *)
(* is set then, and only then.                                             *)
AfterBeat(next) ==
    /\ Goto(next)
    /\ IF next = "idle" THEN due' = "later" /\ snap' = NoSnap ELSE UNCHANGED <<due, snap>>

AfterRoot(tree) ==
    AfterBeat(IF tree = "pairs" THEN "tokens" ELSE IF Drip THEN "file-pairs" ELSE "idle")

(* recordTree, up to the broadcast.                                        *)
RecordTree(tree) ==
    /\ pc = tree
    /\ \/ snap[tree] = {} /\ AfterRoot(tree) /\ UNCHANGED sent
       \/ /\ snap[tree] # {}
          /\ sent' = [stream |-> tree, hash |-> Root(snap[tree]), described |-> live]
          /\ Goto("sent") /\ UNCHANGED <<due, snap>>
    /\ UNCHANGED <<dbVars, chainVars, live, item, boundVars>>

(* recordTree, after inclusion: the BeaconAnchor row.                      *)
StoreAnchor ==
    /\ pc = "recorded" /\ sent.stream \in Tree
    /\ anchors' = anchors \cup {[tree |-> sent.stream, hash |-> sent.hash]}
    /\ AfterRoot(sent.stream)
    /\ sent' = NoTx
    /\ UNCHANGED <<published, queue, dbLive, dbSeeded, chainVars, live, item, boundVars>>

EnqueueLeaves(tree) ==
    /\ pc = FilePC[tree]
    /\ queue' = Enqueue(LeafStream[tree], LeafHashes(snap[tree]))
    /\ AfterBeat(IF tree = "pairs" THEN "file-tokens" ELSE "idle")
    /\ UNCHANGED <<published, anchors, dbLive, dbSeeded, chainVars, live, item,
                   sent, boundVars>>

-----------------------------------------------------------------------------
(* The drip, and the clock that ends it.                                   *)

DripOne ==
    /\ pc = "idle" /\ due # "now" /\ Drip
    /\ due' = "soon"
    /\ \/ Pending = {} /\ UNCHANGED <<pc, item, sent>>
       \/ /\ Pending # {}
          /\ item' = NextPending
          /\ sent' = [stream |-> queue[item'].stream, hash |-> queue[item'].hash,
                      described |-> live]
          /\ Goto("sent")
    /\ UNCHANGED <<dbVars, chainVars, live, snap, boundVars>>

(* A fault: a transaction that failed counts as recorded.                  *)
MarkUnchecked ==
    /\ pc \in {"recorded", "refused"} /\ sent.stream \notin Tree
    /\ queue' = [queue EXCEPT ![item].anchored = TRUE]
    /\ Return
    /\ UNCHANGED <<published, anchors, dbLive, dbSeeded, chainVars, live, due, boundVars>>

MarkAnchored ==
    /\ pc = "recorded" /\ sent.stream \notin Tree
    /\ queue' = [queue EXCEPT ![item].anchored = TRUE]
    /\ Return
    /\ UNCHANGED <<published, anchors, dbLive, dbSeeded, chainVars, live, due, boundVars>>

(* Date.now() reaches nextHeartbeat, which lies an interval after the end  *)
(* of the last heartbeat: the drip has had at least one turn.              *)
IntervalElapses ==
    /\ due = "soon" \/ (due = "later" /\ ~Drip)
    /\ due' = "now"
    /\ UNCHANGED <<dbVars, chainVars, pc, live, snap, item, sent, boundVars>>

-----------------------------------------------------------------------------
(* Exceptions, caught by the loop; crashes; a restart.                     *)

GivenUp == IF pc = "sent" THEN {sent} ELSE {}

Throw ==
    /\ pc \notin {"down", "idle", "refused"} /\ faults < MaxFaults
    /\ Return
    /\ orphans' = orphans \cup GivenUp
    /\ faults' = faults + 1
    /\ UNCHANGED <<dbVars, upgraded, ledger, live, due, vouched, repeats, churn>>

(* The sequence of the awaited transaction was used up by an older one.    *)
ThrowRefused ==
    /\ pc = "refused"
    /\ Return
    /\ UNCHANGED <<dbVars, chainVars, live, due, boundVars>>

(* A fault: a restarted writer waits an interval before its heartbeat.     *)
CrashKeepsClock ==
    /\ pc # "down" /\ faults < MaxFaults
    /\ Goto("down") /\ Forget
    /\ live' = FALSE /\ due' = "later"
    /\ orphans' = orphans \cup GivenUp
    /\ faults' = faults + 1
    /\ UNCHANGED <<dbVars, upgraded, ledger, vouched, repeats, churn>>

Crash ==
    /\ pc # "down" /\ faults < MaxFaults
    /\ Goto("down") /\ Forget
    /\ live' = FALSE /\ due' = "now"
    /\ orphans' = orphans \cup GivenUp
    /\ faults' = faults + 1
    /\ UNCHANGED <<dbVars, upgraded, ledger, vouched, repeats, churn>>

Boot ==
    /\ pc = "down"
    /\ Goto("idle")
    /\ UNCHANGED <<dbVars, chainVars, live, due, snap, item, sent, boundVars>>

-----------------------------------------------------------------------------
(* The chain.  All transactions of one account that are in the mempool     *)
(* carry its current sequence: including one drops the others.  A chain    *)
(* that was not upgraded rejects a descriptor.                             *)

Include ==
    /\ pc = "sent" /\ (sent.described => upgraded)
    /\ ledger' = ledger \cup {sent}
    /\ repeats' = IF sent.stream \in Stream /\ OnLedger(sent.stream, sent.hash)
                  THEN repeats + 1 ELSE repeats
    /\ orphans' = {}
    /\ Goto("recorded")
    /\ UNCHANGED <<dbVars, upgraded, live, due, snap, item, sent, vouched, churn, faults>>

IncludeOrphan ==
    /\ \E tx \in orphans :
        /\ ledger' = ledger \cup {tx}
        /\ repeats' = IF tx.stream \in Stream /\ OnLedger(tx.stream, tx.hash)
                      THEN repeats + 1 ELSE repeats
    /\ orphans' = {}
    /\ Goto(IF pc = "sent" THEN "refused" ELSE pc)
    /\ UNCHANGED <<dbVars, upgraded, live, due, snap, item, sent, vouched, churn, faults>>

DropOrphans ==
    /\ orphans # {}
    /\ orphans' = {}
    /\ UNCHANGED <<dbVars, upgraded, ledger, writerVars, boundVars>>

Upgrade ==
    /\ ~upgraded
    /\ upgraded' = TRUE
    /\ UNCHANGED <<dbVars, ledger, orphans, writerVars, boundVars>>

-----------------------------------------------------------------------------
(* The other processes on the database.                                    *)

(* A verdict publishes a leaf or withdraws it.                             *)
Publish(tree, leaf) ==
    /\ leaf \in LeavesOf[tree] /\ churn < MaxChurn
    /\ \E now \in {published[tree] \cup {leaf}, published[tree] \ {leaf}} \ {published[tree]} :
        /\ published' = [published EXCEPT ![tree] = now]
        /\ vouched' = vouched \cup LeafHashes(now) \cup RootOf(tree, now)
    /\ churn' = churn + 1
    /\ UNCHANGED <<queue, anchors, dbLive, dbSeeded, chainVars, writerVars, repeats, faults>>

(* enqueueFulfilments.                                                     *)
ReceiptArrives(r) ==
    /\ ~Has(queue, "fulfilment", {r})
    /\ queue' = Enqueue("fulfilment", {{r}})
    /\ vouched' = vouched \cup {{r}}
    /\ UNCHANGED <<published, anchors, dbLive, dbSeeded, chainVars, writerVars,
                   repeats, churn, faults>>

Writer ==
    \/ EnsureMetadata \/ Latch \/ SeedReanchorBacklog \/ MarkReanchorSeeded \/ Gather
    \/ \E tree \in Tree : RecordTree(tree) \/ EnqueueLeaves(tree)
    \/ StoreAnchor \/ DripOne \/ MarkAnchored \/ ThrowRefused \/ Boot

Environment ==
    \/ Throw \/ Crash \/ IncludeOrphan \/ DropOrphans \/ Upgrade
    \/ \E tree \in Tree, leaf \in PairLeaf \cup TokenLeaf : Publish(tree, leaf)
    \/ \E r \in Receipt : ReceiptArrives(r)

Next == Writer \/ Include \/ IntervalElapses \/ Environment

Spec == Init /\ [][Next]_vars

FairSpec ==
    /\ Spec
    /\ WF_vars(Writer) /\ WF_vars(Include) /\ WF_vars(IntervalElapses)
-----------------------------------------------------------------------------
(* Properties.                                                             *)

(* A queue row is marked anchored only if the beacon holds its hash: a     *)
(* crash, an exception or a transaction the writer gave up on never makes  *)
(* the database claim more than the chain shows (markAnchored, and         *)
(* BeaconAnchor's "append-only mirror of on-chain state").                 *)
MirrorsTheChain ==
    /\ \A i \in DOMAIN queue :
        queue[i].anchored => OnLedger(queue[i].stream, queue[i].hash)
    /\ \A a \in anchors : OnLedger(a.tree, a.hash)

(* "Each distinct hash is anchored exactly once" (lib/beaconQueue.ts): the *)
(* drip records a queued item again only after an exception or a crash     *)
(* came between its inclusion and its mark, and once per such fault.       *)
RepeatsArePaidFor == repeats <= faults

(* The re-anchor backlog is complete: once it is marked seeded, everything *)
(* the database counts as recorded is on the ledger with its descriptor or *)
(* queued to be recorded with it, whatever was in flight when the upgrade  *)
(* was noticed and wherever the writer died in between.                    *)
Redescribed(stream, h) ==
    \/ [stream |-> stream, hash |-> h, described |-> TRUE] \in ledger
    \/ Has(queue, "reanchor", h)

BacklogIsComplete ==
    dbSeeded =>
        /\ \A i \in DOMAIN queue :
            queue[i].anchored => Redescribed(queue[i].stream, queue[i].hash)
        /\ \A a \in anchors : Redescribed(a.tree, a.hash)

(* The beacon holds only hashes the service stood behind, and forgets none. *)
Notarised == INSTANCE Notary WITH recorded <- {e.hash : e \in ledger}
NotaryHolds == Notarised!Spec

(* Everything that stays published, and every receipt, ends up marked on   *)
(* the chain once the faults are over: heartbeats do not starve the drip,  *)
(* nor the drip the heartbeats, and no item blocks the queue behind it.    *)
Marked(stream, h) ==
    \E i \in DOMAIN queue :
        queue[i].stream = stream /\ queue[i].hash = h /\ queue[i].anchored

EverythingIsNotarised ==
    /\ \A tree \in Tree : \A leaf \in LeavesOf[tree] :
        <>[](leaf \in published[tree]) => <>Marked(LeafStream[tree], LeafHash(leaf))
    /\ \A r \in Receipt : Has(queue, "fulfilment", {r}) ~> Marked("fulfilment", {r})

(* "Once metadata goes live, seed the one-time re-anchor backlog"          *)
(* (worker/beacon-writer/index.ts, ensureMetadata).                        *)
BacklogIsSeeded == ReanchorEnabled => (dbLive ~> dbSeeded)
=============================================================================
