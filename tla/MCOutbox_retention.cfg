SPECIFICATION Spec
CONSTANTS
  Calls = {c1, c2, c3}
  Trees = {t1, t2}
  Urls = {u1, u2}
  t1 = t1
  t2 = t2
  u1 = u1
  u2 = u2
  Outcomes = {"red"}
  TreeOf <- OneTree
  UrlOf <- OneUrl
  JournalFails = FALSE
  Evicts = TRUE
  MaxJobs = 4
  RedeliverMax = 0
  MaxCrashes = 0
INVARIANT NoFabricatedVerdict
CHECK_DEADLOCK FALSE
SYMMETRY Symmetry
