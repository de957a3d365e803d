SPECIFICATION Spec
CONSTANTS
  c1 = c1
  c2 = c2
  Calls = {c1, c2}
  PermsTtl = 2
  TokenTtl = 1
  TenantTtl = 2
  MaxHold = 1
  RateMax = 1
  MaxChanges = 1
  MaxFailures = 1
SYMMETRY Sym
INVARIANTS TypeOK PermissionDriftBounded EntitlementDriftBounded StaleOnlyIfRaced RateHolds
CHECK_DEADLOCK FALSE
