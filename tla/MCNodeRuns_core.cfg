SPECIFICATION Spec
CONSTANTS
  r1 = r1 r2 = r2 r3 = r3 k1 = k1 k2 = k2 n1 = n1 n2 = n2
  Runs = {r1, r2, r3}
  Keys = {k1, k2}
  Names = {n1, n2}
  JobOf <- MCJobOf
  KeyOf <- MCKeyOf
  Depth = 1
  Total = 1
  Entries = {1, 2}
  MaxMishaps = 2
INVARIANTS TypeOK SandboxIsItsOwn Accounted ReportIsEarned GrantDiesWithJob
SYMMETRY Symmetry
CHECK_DEADLOCK FALSE
