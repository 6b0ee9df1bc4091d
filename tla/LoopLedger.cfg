SPECIFICATION Spec
CONSTANTS
  Actions = {a1, a2, a3}
  Dims = {"iterations", "tokens"}
  Iterations = "iterations"
  Amounts <- MCAmounts
  MaxUnits = 3
  p1 = p1
  p2 = p2
  Passports = {p1, p2}
  Limits <- MCLimits
  NoAction = NoAction
INVARIANTS LedgerVerifies ChargesFitWhileActive ActiveIsWithinLimits
PROPERTIES AdmittedIsAuthorized BudgetSpec
