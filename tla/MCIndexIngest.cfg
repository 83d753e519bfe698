SPECIFICATION IngestSpec
CONSTANTS
  Procs = {"service", "job"}
  Passes = {}
  Kinds = {"stake", "vest", "slash", "unstake", "decommission", "penalty", "failed"}
  Histories <- Beginnings
  MaxTx = 6
  MaxStaked = 2
  MaxFaults = 1
INVARIANTS
  AppliedByOne
  BackfillRebuilds
PROPERTIES
  BackfillCatchesUp
  ImplementsDelivery
CHECK_DEADLOCK FALSE
