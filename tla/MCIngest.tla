---- MODULE MCIngest ----
EXTENDS Ingest
CONSTANTS a, b, ours, coin, alias
Pools == {a, b}
\* Source 1 is promoted, and shifts 2, which has no ingest path, and 3 under a cursor.
Sources == [p \in Pools |-> IF p = a THEN 3 ELSE 1]
Ranks == [p \in Pools |-> 1]
\* A coin on two chains: on the second one it trades nowhere.
Tokens == [p \in Pools |-> IF p = a THEN {ours} ELSE {coin}]
Elsewhere == [t \in {ours, coin, alias} |->
  CASE t = ours -> {} [] t = coin -> {alias} [] t = alias -> {coin}]
Chains == [t \in {ours, coin, alias} |->
  CASE t = coin -> {1} [] t = alias -> {2} [] t = ours -> {3}]
Coins == [p \in Pools |-> 1]
M(where, indexed, depth) == [where |-> where, indexed |-> indexed, depth |-> depth]
Truth == [p \in Pools |->
  CASE p = a -> {M("top", TRUE, 1)}
    [] p = b -> {M(w, TRUE, 1) : w \in {"top", "known", "gone"}}]
\* Nothing changes outside while a page of the operator's works, and nothing fails
\* while it verifies or looks for a coin elsewhere; in token mode it starts to look
\* elsewhere when the rest is calm.  The pipeline starts beside the pages that add
\* and those of the thresholds, and the operator's ingest whenever it likes.
\* The thresholds page opens while a source lacks its threshold: it writes nothing else.
Spidering(j) == j.kind = "token" \/ j.step = "verify"
MCNext ==
    /\ Next
    /\ job[Web] # Idle => changes' = changes
    /\ Spidering(job[Web]) => faults' = faults
    /\ job[Web] = Idle /\ job'[Web] # Idle => promoting = 0
    /\ job[Web] = Idle /\ job'[Web].kind \in {"add", "token", "thresholds"} => job[Cron] = Idle
    /\ job[Web] = Idle /\ job'[Web].kind = "token" =>
         job'[Web].hops # {} /\ SourceOf[b] \in cache'.rows
    /\ job[Web] = Idle /\ job'[Web].kind = "thresholds" => \E s \in cache'.rows : thresholds[s] = 0
MCSpec == Init /\ [][MCNext]_vars /\ Fairness
====
