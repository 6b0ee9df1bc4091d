SPECIFICATION VerifySpec
CONSTANTS
  Runs = {r1, r2}
  default = default
  other = other
  c1 = c1
  c2 = c2
  Chain <- ScoredChain
  Paths = {default}
  Default = default
  Contracts = {c1, c2}
  Required <- BothRequireAll
  Absent = Absent
  Garbled = Garbled
  None = None
  Workspaces <- ScopedOnly
  MaxFiles = 100
  HandsOff = TRUE
  Crashes = FALSE
SYMMETRY RunSymmetry
CONSTRAINT BindingsHold
INVARIANTS ReadyWasAccurate
