SPECIFICATION Spec
CONSTANTS
  Procs = {"service"}
  Passes = {1}
  Kinds = {"heartbeat"}
  Histories <- Staked
  MaxTx = 3
  MaxStaked = 1
  MaxFaults = 1
INVARIANTS
  NoSignatureStranded
CHECK_DEADLOCK FALSE
