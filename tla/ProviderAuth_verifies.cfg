SPECIFICATION MCSpec
CONSTANTS
 i1=i1
 i2=i2
 i3=i3
 Steady=i1
 w1=w1
 w2=w2
 a1=a1
 Address={a1}
 AddressOf <- OneAddress
 Instance <- Instances
 Provider = {w1,w2}
 WalletOf <- Wallets
 Nonce = {n1,n2}
 ChallengeTtl = 3
 TokenTtl = 2
 RateLimit = 1
 Window = 1
 MaxDelay = 1
 MaxFaults = 1
INVARIANTS OneTokenPerChallenge AccessLapses
PROPERTIES ProvidersGetIn
