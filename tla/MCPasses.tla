---- MODULE MCPasses ----
EXTENDS Passes
CONSTANTS t1, p1
OnePool == [p \in {p1} |-> {t1}]

W(knows, coin, canonical, goplus) ==
    [knows |-> knows, coin |-> coin, canonical |-> canonical, goplus |-> goplus,
     honeypot |-> "clean"]
Listed   == W({"lists", "goplus"}, FALSE, "nowhere", "clean")
Trap     == W({"coingecko"}, FALSE, "this", "bad")
Spoof == W({"goplus"}, TRUE, "other", "clean")
ThreeWorlds == {Listed, Trap, Spoof}
TwoWorlds == {Listed, Spoof}

DeepPool == {[thin |-> FALSE, factory |-> "canonical"]}
ThinPool == {[thin |-> TRUE, factory |-> "foreign"]}

Nightly == FullPipeline \o <<"rescore">>
Checks == <<"identity", "canonical">>
====
