SPECIFICATION Spec
CONSTANTS
  Callers = {c1, c2}
  People = {p, q}
  t1 = t1
  t2 = t2
  k1 = k1
  k2 = k2
  MaxEvents = 5
  x1 = x1
  x2 = x2
  Tenants = {t1, t2}
  Items = {i, j}
  Contents = {k1, k2}
  TenantOf <- MCTenantOf
  Bears <- MCBears
  Approvals = {a}
  Actions = {x1, x2}
  Grants <- EveryRole
  None = None
SYMMETRY Symmetry
CONSTRAINT Short
INVARIANTS AuditVerifies AnsweredIsKept VerifiedWasApproved TrailAccountsForTables
PROPERTIES LifeSpec
