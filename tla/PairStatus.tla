----------------------------- MODULE PairStatus -----------------------------
(***************************************************************************)
(* The verification statuses of pairs and tokens, and the verdict engine   *)
(* seen from outside: what class of evidence a pair has, and which status  *)
(* the engine then gives it.  Module Verdict is the engine itself; the     *)
(* runner and the export only need this ladder.                            *)
(***************************************************************************)

Status == {"Unverified", "AutoVerified", "AutoRejected", "ManualVerified",
           "ManualRejected", "NeedsReview", "Duplicate", "NotCurrentlyUsable"}

Verified == {"ManualVerified", "AutoVerified"}
Manual   == {"ManualVerified", "ManualRejected"}

Method == {"Import", "Manual", "Cascade", "Auto"}

(***************************************************************************)
(* The classes of evidence evaluatePair tells apart before it looks at the *)
(* scam flag and the siblings:                                             *)
(*   "reject"  a hard fence: AutoRejected whatever else holds              *)
(*   "loser"   lost an impostor conflict on its own (chain, dex)           *)
(*   "hold"    nothing but an operator can verify it                       *)
(*   "vouch"   deep enough, below its own bar: a verified sibling decides  *)
(*   "clean"   clears the auto-verify bar on its own                       *)
(***************************************************************************)
EvidenceClass == {"reject", "loser", "hold", "vouch", "clean"}

Verdicts == {"AutoVerified", "AutoRejected", "NeedsReview", "NotCurrentlyUsable"}

(* A fault: a vouched-for pair is not asked for its scam flag.             *)
AdjudicateVouchFirst(class, scam, sibling) ==
    CASE class = "loser"  -> "NotCurrentlyUsable"
      [] class = "reject" -> "AutoRejected"
      [] class = "clean" /\ ~scam   -> "AutoVerified"
      [] class = "vouch" /\ sibling -> "AutoVerified"
      [] OTHER            -> "NeedsReview"

Adjudicate(class, scam, sibling) ==
    CASE class = "loser"  -> "NotCurrentlyUsable"
      [] class = "reject" -> "AutoRejected"
      [] class = "clean" /\ ~scam             -> "AutoVerified"
      [] class = "vouch" /\ ~scam /\ sibling  -> "AutoVerified"
      [] OTHER            -> "NeedsReview"

=============================================================================
