SPECIFICATION FairSpec
CONSTANTS
  Procs = {"service"}
  Passes = {1, 2}
  Kinds = {"heartbeat", "late", "finalize"}
  Histories <- Staked
  MaxTx = 4
  MaxStaked = 1
  MaxFaults = 1
PROPERTIES
  ProjectionConverges
CHECK_DEADLOCK FALSE
