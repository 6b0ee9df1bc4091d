SPECIFICATION Spec
CONSTANTS
  Owners = {o1, o2}
  Workers = {w1, w2}
  Events = {e1, e2}
  Policies = {p1}
  Sources <- MCSources
  WorkPhases <- MCWorkPhases
  IncidentPhases <- MCIncidentPhases
  MaxAttempts = 2
  None = None
  MaxEpoch = 5
  MaxEvents = 2
CONSTRAINT Bounded
SYMMETRY Symmetry
INVARIANTS SourceIsNewest StaleRunIsFenced HandleIsOfItsRun CheckpointsAreEarned PhaseIsEvidenced
PROPERTIES EachPhaseHasItsRun OwnershipSpec
CHECK_DEADLOCK FALSE
