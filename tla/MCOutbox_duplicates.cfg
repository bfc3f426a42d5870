SPECIFICATION Spec
CONSTANTS
  Calls = {c1, c2, c3}
  Trees = {t1, t2}
  Urls = {u1, u2}
  t1 = t1
  t2 = t2
  u1 = u1
  u2 = u2
  Outcomes = {"green", "red", "errored"}
  TreeOf <- OneTree
  UrlOf <- OneUrl
  JournalFails = TRUE
  Evicts = FALSE
  MaxJobs = 4
  RedeliverMax = 1
  MaxCrashes = 0
INVARIANT OneSender
INVARIANT OwedIsJournaled
CHECK_DEADLOCK FALSE
SYMMETRY Symmetry
