------------------------ MODULE MCFulfilmentWatcher ------------------------
(* Instances of FulfilmentWatcher for TLC.                                 *)
EXTENDS FulfilmentWatcher

(* Without a start block the chain is one block longer, so that a block    *)
(* may lie between two first scans, and no backfill runs, which neither    *)
(* reads nor writes the cursor.  Otherwise one to the safe block begins    *)
(* whenever the operator likes, and one to the head while no scan is under *)
(* way.  A process dies only with a scan under way.                        *)
Explored ==
    /\ startBlock # 0 => Len(blocks') < MaxHead
    /\ \A j \in Backfill :
        job[j] = Idle /\ job'[j] # Idle =>
            /\ startBlock # 0 /\ hasty = {}
            /\ job'[j].kind = "named" =>
                /\ job'[j].from = Len(blocks) /\ job'[j].safe = Len(blocks)
                /\ \A k \in Scan : job[k] = Idle
    /\ timer /\ ~timer' => job' # job

MCSpec == /\ Init /\ [][Next /\ Explored]_vars
          /\ \A j \in Scan : WF_vars(Watcher(j))
=============================================================================
