\* Facts around every threshold of a source with tuned floors.
SPECIFICATION FactsSpec
CONSTANTS
    Config <- Tuned
    Market <- Pools
    TokenFacts <- Coins
    Source <- Sources
    Checks <- Findings
    MaxNow = 2
INVARIANTS LadderIsTheEngine PhantomHeld MirrorAgrees RejectionsShown
PROPERTIES EvidenceHelps
