SPECIFICATION MCSpec
CONSTANTS
 a=a
 b=b
 Pool <- Pools
 Source={1,2,3}
 SourceOf <- Sources
 PageOf <- Ranks
 Denoms <- Coins
 Cosmos={}
 Ingestable={1,3}
 Baseline={2,3}
 FirstParty={a}
 Added={b}
 ours=ours
 coin=coin
 alias=alias
 Token={ours,coin,alias}
 AddedTokens={alias}
 TokensOf <- Tokens
 CommonQuote={ours,coin}
 Siblings <- Elsewhere
 ChainSources <- Chains
 Complete={b}
 Sound={b}
 FormStatus={"ManualVerified"}
 Markets <- Truth
 LastPage=2
 GtMultiMax=2
 MaxUnseen=1
 Horizon=4
 MaxJobs=1
 MaxChanges=1
 MaxFaults=1
INVARIANTS IngestIsComplete
PROPERTIES PoolsStayFresh TheGoneAreLeft
