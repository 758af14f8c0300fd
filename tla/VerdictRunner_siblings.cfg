\* One runner (the pipeline under its lock) and the operator on two siblings; nothing crashes.
SPECIFICATION NoCrashSpec
CONSTANTS
    p1 = p1
    p2 = p2
    t1 = t1
    r1 = r1
    r2 = r2
    k1 = k1
    s1 = s1
    s2 = s2
    Pair <- TwoPairs
    Token <- OneToken
    Runner = {r1}
    Cron = r1
    KeyOf <- SameKey
    SourceOf <- TwoSources
    TokensOf <- SharedToken
    Evidence = {"reject", "vouch", "clean"}
    FormStatus = {"ManualVerified", "NotCurrentlyUsable"}
INVARIANTS FlaggedPairsQuarantined VouchingIsGrounded FlaggedTokensDemoted
