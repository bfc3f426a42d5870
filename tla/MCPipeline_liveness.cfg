CONSTANTS
  A = A
  B = B
  a1 = a1
  a2 = a2
  b1 = b1
  acme = acme
  zeta = zeta
  ghost = ghost
  Jobs <- TwoJobs
  Steps <- TwoSteps
  Tenants <- TwoTenants
  JobOf <- ByJob
  TenantOf <- ByTenant
  Needs <- SideBySide
  Tolerated <- NoSteps
  Memoized <- NoSteps
  LongSteps <- NoSteps
  Refused <- LastStep
  Cap <- CapOfOne
  Slots = 1
  Metered <- TwoTenants
  FleetFills = TRUE
  PhasesFail = TRUE
  NodeFails = FALSE
  Expiring <- JobClocks
SPECIFICATION Spec
PROPERTY EveryJobDecided
CHECK_DEADLOCK FALSE
