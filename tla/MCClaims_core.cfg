SPECIFICATION Spec
CONSTANTS
  r1 = r1 r2 = r2 c1 = c1 c2 = c2 c3 = c3 t1 = t1 u1 = u1 u2 = u2 s1 = s1
  Replicas = {r1, r2}
  Calls = {c1, c2, c3}
  Trees = {t1}
  Urls = {u1, u2}
  Steps = {s1}
  TreeOf <- MCTreeOf
  UrlOf <- MCUrlOf
  StepsOf <- MCStepsOf
  ReplicaOf <- MCReplicaOf
  Outcomes = {"green"}
  Lease = 3
  Every = 1
  Retention = 2
  JournalFails = TRUE
  Skew <- MCSkew
  MaxMishaps = 1
  MaxTime = 3
INVARIANTS TypeOK LiveDriverKeepsItsTree DispatchIsClaimed NoAckIsForgotten SettledIsDelivered
PROPERTY KeepsTheSeam
CHECK_DEADLOCK FALSE
CONSTRAINT InOrder
