---- MODULE MCProviderAuth ----
EXTENDS ProviderAuth
CONSTANTS i1, i2, i3, w1, w2, a1
Instances == {i1, i2, i3}
Wallets == [i \in Instances |-> IF i = i3 THEN w2 ELSE w1]
OneAddress == [i \in Instances |-> a1]
\* The stranger behind the address has no registered wallet: it asks and is
\* refused, and so shares nothing but the limiter.  It and the steady instance's
\* sibling do not call at the same time.
AtRest(i) == req[i] = Idle /\ signed[i] = None /\ bearer[i] = None
MCInit == Init /\ w2 \notin registered
MCNext ==
    /\ Next
    /\ w2 \notin registered'
    /\ windows' # windows /\ req'[i3] # req[i3] => AtRest(i2)
    /\ req[i2] = Idle /\ req'[i2] # Idle => AtRest(i3)
MCSpec == MCInit /\ [][MCNext]_vars /\ Fairness
====
