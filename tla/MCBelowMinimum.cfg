SPECIFICATION Spec
CONSTANTS
  r1 = r1
  r2 = r2
  alice = alice
  bob = bob
  Routers = {r1}
  Wallets = {alice}
  OwnerOf <- MCOwnerOf
  DeviceKeys = {k1}
  Epochs = {0}
  Configs <- Deployments
  RewardRates = {}
  StakeAmounts = {10}
  UnstakeAmounts = {10}
  GenesisAmounts = {10}
  BurnAmounts = {}
  GiftAmounts = {}
  TickSteps = {60}
  StartTime = 1
  MaxTime = 121
  MaxKeyVersion = 0
  MaxU64 = 100000
  NoKey = NoKey
PROPERTIES
  WithdrawsBelowMinimumOnlyDecommissioned
CHECK_DEADLOCK FALSE
