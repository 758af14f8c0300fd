\* Feeds and our own network going up and down under checks that may die, and price tests.
SPECIFICATION MCSpec
CONSTANTS
    s1 = s1
    s2 = s2
    s3 = s3
    a = a
    b = b
    c = c
    d = d
    h = h
    weth = weth
    neth = neth
    usdc = usdc
    usdt = usdt
    None = None
    Source <- Sources
    Order <- ByName
    Attempts = 3
    UnhealthyAfter = 2
    MaxCrashes = 2
    Pool <- Pools
    Token <- Tokens
    SourceOf <- Venues
    TokensOf <- Sides
    Reserve <- Depth
    Symbol <- Names
    CoinOf <- Coins
    AliasOf <- Classes
    Family <- Schemas
    Transport <- Types
    Floors = {0, 3}
    Tuned <- OwnFloors
    DefaultFloor = 3
    MaxEdits = 1
    Query <- Classed
    Rates <- Markets
    Unit = 12
    Native = {neth}
    SubgraphSymbol <- Spelt
    Hooked = {h}
    Manipulated = {b}
    MaxCalls = 2
    CacheTtl = 1
    MaxClock = 1
    MaxAddresses = 25
INVARIANTS
    MostStayAdvertised
    BannerIsHonest RightWayUp SomethingIsKept MinorityIsShrugged CatalogueAgreesWithFeeds
PROPERTIES
    OutagesArePaused RecoveriesAreAdvertised
CHECK_DEADLOCK FALSE
