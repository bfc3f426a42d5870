SPECIFICATION Spec
CONSTANTS
  t1 = t1
  t2 = t2
  a1 = a1
  b1 = b1
  b2 = b2
  r1 = r1
  r2 = r2
  r3 = r3
  Trees = {t1, t2}
  Files = {a1, b1, b2}
  Home <- TwoHomes
  Content <- SameBytes
  Mode <- TwoModes
  Requests = {r1, r2, r3}
  TreeOf <- TwoAndOne
  Sweepers = {s1}
  Retention = 1
  MaxTime = 1
  MaxCrashes = 1
  IoFails = FALSE
  Nil = Nil
INVARIANT TreesAreSafe
INVARIANT SweepIsThorough
CHECK_DEADLOCK FALSE
SYMMETRY SymmetryOfOne
