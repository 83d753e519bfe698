SPECIFICATION MCSpec
CONSTANTS
  r1 = r1
  r2 = r2
  s1 = s1
  s2 = s2
  Wallet = alice
  Routers = {r1, r2}
  Wallets = {alice}
  OwnerOf <- MCOwnerOf
  DeviceKeys = {s1, s2, k1, k2, k3, k4}
  SeedKey <- MCSeedKey
  RegisterOrder <- TwoRouters
  IsAuthority = TRUE
  Skews = {0}
  Funds = 20000
  MaxFaults = 1
  MaxLaunches = 3
  Epochs = {0, 1}
  Configs <- Deployed
  RewardRates = {}
  StakeAmounts = {}
  UnstakeAmounts = {}
  GenesisAmounts = {}
  BurnAmounts = {}
  GiftAmounts = {}
  TickSteps = {60}
  StartTime = 1
  MaxTime = 181
  MaxKeyVersion = 2
  MaxU64 = 100000
  NoKey = NoKey
INVARIANTS
  SettledIsSettled
  SignsWithCurrentKey
  NeverOverstakes
  GenesisDrawBounded
PROPERTIES
  StoppedLoopsEnd
  NextBeatFinalizes
CHECK_DEADLOCK FALSE
