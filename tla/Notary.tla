------------------------------- MODULE Notary -------------------------------
(***************************************************************************)
(* What the on-chain anchoring promises a consumer of the export: the      *)
(* beacon holds only hashes the service stood behind at some time (a       *)
(* published leaf, a published root, an observed fulfilment), one at a     *)
(* time, and never forgets one.                                            *)
(***************************************************************************)
CONSTANT Hash

VARIABLES
    vouched,    \* hashes the service has stood behind so far
    recorded    \* hashes the beacon holds

vars == <<vouched, recorded>>

Init == vouched \subseteq Hash /\ recorded = {}

Vouch == \E more \in SUBSET Hash : vouched' = vouched \cup more /\ UNCHANGED recorded

Record == \E h \in vouched : recorded' = recorded \cup {h} /\ UNCHANGED vouched

Next == Vouch \/ Record

Spec == Init /\ [][Next]_vars
=============================================================================
