----------------------------- MODULE MCPriceTest -----------------------------
(* Three sources, one failing being an outage and two systemic, and five   *)
(* pools of dollars and ether on them: two with the dollar first, one of   *)
(* the chain's own coin, one hooked, one open to manipulation.             *)
EXTENDS PriceTest, TLC

CONSTANTS s1, s2, s3, a, b, c, d, h, weth, neth, usdc, usdt

Sources == {s1, s2, s3}
ByName  == <<s1, s2, s3>>
Pools   == {a, b, c, d, h}
Tokens  == {weth, neth, usdc, usdt}

Venues  == a :> s1 @@ b :> s1 @@ c :> s2 @@ h :> s2 @@ d :> s1
Sides   == a :> <<weth, usdc>> @@ b :> <<usdt, weth>> @@ c :> <<neth, usdc>>
           @@ h :> <<neth, usdt>> @@ d :> <<usdc, weth>>
Depth   == a :> 1 @@ b :> 8 @@ c :> 4 @@ d :> 3 @@ h :> 2
Names   == weth :> "WETH" @@ neth :> "WETH" @@ usdc :> "USDC" @@ usdt :> "USDT"
Spelt   == weth :> "WETH" @@ neth :> "ETH" @@ usdc :> "USDC" @@ usdt :> "USDT"
Coins   == weth :> "weth" @@ neth :> "l2-weth" @@ usdc :> "usd-coin" @@ usdt :> "tether"
Classes == [coin \in {"weth", "l2-weth"} |-> "ETH"] @@ [coin \in {"usd-coin", "tether"} |-> "USD"]
Schemas == s1 :> "univ2" @@ s2 :> "univ4" @@ s3 :> "messari"
Types   == [s \in Sources |-> "subgraph"]
Classed == {<<"ETH", "USD">>}

OwnFloors == {s1 :> 1 @@ s2 :> 0 @@ s3 :> None}

(* Prices in dollars, twelfths: b's and d's rates are their reciprocals.   *)
Rated(pa, pb, pc, pd) ==
    a :> pa @@ b :> Reciprocal(pb) @@ c :> pc @@ h :> 12 @@ d :> Reciprocal(pd)
Even    == Rated(16, 18, 18, 16)
Markets == {Even, Rated(16, 144, 18, 24), Rated(18, 1, 16, 24), Rated(16, 16, 0, 16)}

(* The two machines share the feeds and the network, and the manifest: the *)
(* checks run beside prices at rest, and pages beside a registry at rest.  *)
(* Time passes, and the public asks, in one market only: the others are    *)
(* there for what is made of the prices, which no clock or cache enters;   *)
(* in those a page stays on its query.                                     *)
AtRest == page = NoPage /\ calls = {} /\ clock = 0 /\ edits = 0 /\ rate = Even
Calmly == /\ check = NoCheck /\ failures = [s \in Source |-> 0] /\ crashes = 0
          /\ feed = [s \in Source |-> "up"]
          /\ floor \in Tuned /\ Pool \ verified \subseteq {b}
          /\ rate = Even => blank = {}

Session == IF rate = Even
           THEN page'.public /\ page'.query \in Classed /\ (edits > 0 => clock' = 0)
           ELSE /\ ~page'.public /\ clock' = 0
                /\ page # NoPage => page'.query = page.query

(* Our network is down, if at all, while the subgraph is asked.            *)
Asking == \E c1 \in calls : c1.at \in {"fetch", "live"}

MCInit == PriceTestInit

MCNext ==
    \/ AtRest /\ Next /\ UNCHANGED <<published, test>>
    \/ Calmly /\ network = "up" /\ TestNext /\ Session /\ UNCHANGED <<vars, published>>
    \/ network = "down" /\ (\E c1 \in calls : Fetch(c1) \/ FetchLive(c1)) /\ UNCHANGED <<vars, published>>
    \/ (Asking \/ network = "down") /\ NetworkChanges /\ UNCHANGED <<published, test>>
    \/ page # NoPage /\ cache = <<>> /\ clock = 0 /\ SetVerified(b) /\ UNCHANGED <<vars, test>>
    \/ page = NoPage /\ clock = 0 /\ check = NoCheck /\ Edits /\ UNCHANGED <<vars, test>>

MCSpec ==
    /\ MCInit /\ [][MCNext]_<<vars, published, test>>
    /\ WF_vars(BeginCheck \/ Probe \/ Decide \/ Record \/ EndCheck)
===============================================================================
