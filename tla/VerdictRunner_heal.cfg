\* Crashes and races, then the scheduled pipeline: what a scam flag must reach.
SPECIFICATION FairSpec
CONSTANTS
    p1 = p1
    p2 = p2
    t1 = t1
    r1 = r1
    r2 = r2
    k1 = k1
    s1 = s1
    s2 = s2
    Pair <- OnePair
    Token <- OneToken
    Runner = {r1, r2}
    Cron = r1
    KeyOf <- SameKey
    SourceOf <- TwoSources
    TokensOf <- SharedToken
    Evidence = {"hold", "clean"}
    FormStatus = {"Unverified", "ManualVerified"}
INVARIANTS SettledDecisionsStand
PROPERTIES FlagsHeal
