SPECIFICATION EconomySpec
CONSTANTS
  r1 = r1
  r2 = r2
  alice = alice
  bob = bob
  Routers = {r1, r2}
  Wallets = {alice, bob}
  OwnerOf <- MCOwnerOf
  DeviceKeys = {k1}
  Epochs = {0, 1}
  Configs <- Deployments
  RewardRates = {}
  StakeAmounts = {10}
  UnstakeAmounts = {10}
  GenesisAmounts = {}
  BurnAmounts = {}
  GiftAmounts = {}
  TickSteps = {60}
  StartTime = 1
  MaxTime = 301
  MaxKeyVersion = 0
  MaxU64 = 100000
  NoKey = NoKey
  Totals = {}
  Durations = {}
  Intervals = {}
  MaxAt = 0
SYMMETRY Swap
INVARIANTS
  EmissionWithinBudget
  GrantMatchesEpoch
  ReleasedOnSchedule
  VaultBacksStake
  MirrorInSync
  SlashedAsFixed
PROPERTIES
  FrozenAfterFinalize
  ImplementsIssuance
  CollateralDebits
CHECK_DEADLOCK FALSE
