SPECIFICATION SettlementSpec
CONSTANTS
  r1 = r1
  r2 = r2
  alice = alice
  bob = bob
  Routers = {r1}
  Wallets = {alice}
  OwnerOf <- MCOwnerOf
  DeviceKeys = {k1}
  Epochs = {0, 1}
  Configs <- Deployments
  RewardRates = {}
  StakeAmounts = {}
  UnstakeAmounts = {10}
  GenesisAmounts = {}
  BurnAmounts = {}
  GiftAmounts = {}
  TickSteps = {60}
  StartTime = 1
  MaxTime = 361
  MaxKeyVersion = 0
  MaxU64 = 100000
  NoKey = NoKey
PROPERTIES
  EpochsSettle
  SlashesExecute
  GrantsVestFully
CHECK_DEADLOCK FALSE
