SPECIFICATION FairSpec
CONSTANTS
  Runs = {r1, r2}
  default = default
  other = other
  c1 = c1
  c2 = c2
  Chain <- GatedChain
  Paths = {default}
  Default = default
  Contracts = {c1}
  Required <- RequiresAll
  Absent = Absent
  Garbled = Garbled
  None = None
  Workspaces <- Unready
  MaxFiles = 100
  HandsOff = TRUE
  Crashes = FALSE
CONSTRAINT ContractsHold
INVARIANTS CompletedRanRequired 
 
