SPECIFICATION Spec
CONSTANTS
  t1 = t1
  t2 = t2
  a1 = a1
  b1 = b1
  b2 = b2
  r1 = r1
  r2 = r2
  r3 = r3
  Trees = {t1}
  Files = {a1}
  Home <- TwoHomes
  Content <- SameBytes
  Mode <- TwoModes
  Requests = {r1, r2}
  TreeOf <- AllForOne
  Sweepers = {s1, s2}
  Retention = 1
  MaxTime = 2
  MaxCrashes = 2
  IoFails = TRUE
  Nil = Nil
CHECK_DEADLOCK FALSE
INVARIANT TreesAreSafe
INVARIANT PinsAreReleased
SYMMETRY Symmetry
