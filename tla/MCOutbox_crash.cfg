SPECIFICATION Spec
CONSTANTS
  Calls = {c1, c2}
  Trees = {t1, t2}
  Urls = {u1, u2}
  t1 = t1
  t2 = t2
  u1 = u1
  u2 = u2
  Outcomes = {"green", "red", "errored"}
  TreeOf <- TwoTrees
  UrlOf <- TwoUrls
  JournalFails = FALSE
  Evicts = TRUE
  MaxJobs = 1
  RedeliverMax = 1
  MaxCrashes = 2
INVARIANT AckIsDurable
INVARIANT OneAnswer
INVARIANT PaidIsForgotten
CHECK_DEADLOCK FALSE
