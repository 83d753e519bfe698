SPECIFICATION ClientsSpec
CONSTANTS
  good = good
  bad = bad
  goodDev = goodDev
  badDev = badDev
  replacement = replacement
  Owner = owner
  Routers = {good, bad}
  Wallets = {owner}
  OwnerOf <- MCOwnerOf
  DeviceKeys = {goodDev, badDev, replacement}
  Epochs = {0, 1, 2}
  Configs <- Deployed
  RewardRates = {}
  StakeAmounts = {}
  UnstakeAmounts = {}
  GenesisAmounts = {}
  BurnAmounts = {}
  GiftAmounts = {}
  TickSteps = {30}
  StartTime = 1
  MaxTime = 301
  MaxKeyVersion = 2
  MaxU64 = 2000000000
  NoKey = NoKey
  alice = alice
  bob = bob
  x = x
  y = y
  z = z
  Holders = {alice, bob}
  NoWallet = NoWallet
  Tabs = {t1, t2, t3}
  Here = t3
  MaxChallenges = 2
  Boxes = {x, y, z}
  HolderOf <- MCHolderOf
  NoBox = NoBox
  Admin = alice
  Deeds = {"stake", "claim"}
  MaxKeys = 3
  MaxFlights = 2
  MaxLost = 1
  RouterDocs = {1, 2, 3, 4, 5}
  EpochDocs = {8, 9, 10, 11}
  Lexical <- MCLexical
  Events = {1, 2, 3, 4}
  TimeOf <- MCTimeOf
  Limit = 2
  FeedSize = 2
INVARIANTS
  AssertionsHold
  SeedLeavesAClaim
  SuccessLeavesNoTrace
  OperatorFlowConclusive
  QuietPageIsCurrent
  ShownKeysAreLive
  WalksMissOnlyAtCuts
  FeedIsDurable
PROPERTIES
  SessionOutlivesReload
CHECK_DEADLOCK FALSE
