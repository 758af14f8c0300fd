SPECIFICATION FairSpec
CONSTANTS
 t1=t1
 p1=p1
 Token={t1}
 Pair={p1}
 Cron=Cron
 Page=Page
 TokensOf <- OnePool
 Worlds <- TwoWorlds
 Pools <- ThinPool
 Pipeline <- Checks
 Operated = {"ingest","revalidate"}
 ConfirmedGap = 1
 MaxGap = 1
 CacheTtl = 1
 MaxFloor = 1
 MaxJobs = 1
PROPERTIES RevalidationIsComplete PassesEnd
