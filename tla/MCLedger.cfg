SPECIFICATION LedgerSpec
CONSTANTS
  r1 = r1
  r2 = r2
  alice = alice
  bob = bob
  Routers = {r1}
  Wallets = {alice, bob}
  OwnerOf <- MCOwnerOf
  DeviceKeys = {k1, k2}
  Epochs = {0, 1, 2}
  Configs <- AllConfigs
  RewardRates = {2}
  StakeAmounts = {10}
  UnstakeAmounts = {10}
  GenesisAmounts = {10}
  BurnAmounts = {10}
  GiftAmounts = {10}
  TickSteps = {60}
  StartTime = 1
  MaxTime = 361
  MaxKeyVersion = 1
  MaxU64 = 1300000
  NoKey = NoKey
  Totals = {0, 1, 7, 99, 1000, 9999}
  Durations = {5, 12, 13, 20, 31}
  Intervals = {1, 4, 5, 6}
  MaxAt = 40
INVARIANTS
  TypeOK
  NeverBlocked
  SupplyAccounted
  ActiveAboveThreshold
  VestingFollowsTheLine
  EpochWindowsPartitionTime
  PunctualDeviceEarnsFull
PROPERTIES
  HeartbeatsInWindow
CHECK_DEADLOCK FALSE
