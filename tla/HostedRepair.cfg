SPECIFICATION Spec
CONSTANTS
  Workers = {w1, w2}
  Approvals = {a1}
  Repairs = {r1, r2}
  Positive = {p}
  Negative = {n}
  None = None
SYMMETRY Symmetry
INVARIANTS CompletedWasVerified HaltedIsNotVerified UnsettledWasCutOff
PROPERTIES RepairSpec
