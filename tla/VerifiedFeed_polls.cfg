\* Polls against passes, rescans, decisions, crashes and failed answers.
SPECIFICATION FairFeedSpec
CONSTANTS
    Pair = {p1, p2}
    Pass = {r1}
    MaxDecisions = 2
INVARIANTS
        VerdictsAreSignalled
PROPERTIES
    ExportCatchesUp
CHECK_DEADLOCK TRUE
