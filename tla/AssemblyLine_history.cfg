SPECIFICATION Spec
CONSTANTS
  Runs = {r1, r2, r3}
  default = default
  other = other
  c1 = c1
  c2 = c2
  Chain <- NoChain
  Paths = {default, other}
  Default = default
  Contracts = {c1, c2}
  Required <- RequiresNothing
  Absent = Absent
  Garbled = Garbled
  None = None
  Workspaces <- Conflicting
  MaxFiles = 100
  HandsOff = FALSE
  Crashes = TRUE
SYMMETRY RunSymmetry
CONSTRAINT ContractsHold
INVARIANTS HistoryVerifies PausedPolicyHolds
