SPECIFICATION Spec
CONSTANTS
  Calls = {c1, c2}
  Trees = {t1, t2}
  Urls = {u1, u2}
  t1 = t1
  t2 = t2
  u1 = u1
  u2 = u2
  Outcomes = {"green", "red", "errored"}
  TreeOf <- OneTree
  UrlOf <- TwoUrls
  JournalFails = FALSE
  Evicts = FALSE
  MaxJobs = 4
  RedeliverMax = 1
  MaxCrashes = 0
INVARIANT NothingLostAtRest
CHECK_DEADLOCK FALSE
