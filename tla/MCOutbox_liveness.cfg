SPECIFICATION FairSpec
CONSTANTS
  Calls = {c1, c2}
  Trees = {t1, t2}
  Urls = {u1, u2}
  t1 = t1
  t2 = t2
  u1 = u1
  u2 = u2
  Outcomes = {"green", "red", "errored"}
  TreeOf <- OneTree
  UrlOf <- OneUrl
  JournalFails = FALSE
  Evicts = FALSE
  MaxJobs = 4
  RedeliverMax = 1
  MaxCrashes = 0
INVARIANT NothingLostAtRest
PROPERTY AckLeadsToAnswer
CHECK_DEADLOCK FALSE
