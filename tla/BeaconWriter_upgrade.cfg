\* The upgrade, exceptions, crashes, abandoned transactions and a changing set.
SPECIFICATION FairSpec
CONSTANTS
    PairLeaf = {p1, p2}
    TokenLeaf = {}
    Receipt = {f1}
    Drip = TRUE
    ReanchorEnabled = TRUE
    MaxChurn = 1
    MaxFaults = 2
INVARIANTS MirrorsTheChain RepeatsArePaidFor BacklogIsComplete
PROPERTIES NotaryHolds EverythingIsNotarised
