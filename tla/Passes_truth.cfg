SPECIFICATION FairSpec
CONSTANTS
 t1=t1
 p1=p1
 Token={t1}
 Pair={p1}
 Cron=Cron
 Page=Page
 TokensOf <- OnePool
 Worlds <- ThreeWorlds
 Pools <- DeepPool
 Pipeline <- Nightly
 Operated = {}
 ConfirmedGap = 1
 MaxGap = 2
 CacheTtl = 1
 MaxFloor = 0
 MaxJobs = 0

PROPERTIES TruthPrevails
