SPECIFICATION Spec
CONSTANTS
  Procs = {"service"}
  Passes = {1}
  Kinds = {"heartbeat"}
  Histories <- Staked
  MaxTx = 3
  MaxStaked = 1
  MaxFaults = 0
INVARIANTS
  NeverOvercounts
CHECK_DEADLOCK FALSE
