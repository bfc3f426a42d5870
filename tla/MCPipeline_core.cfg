CONSTANTS
  A = A
  B = B
  a1 = a1
  a2 = a2
  b1 = b1
  acme = acme
  zeta = zeta
  ghost = ghost
  Jobs <- TwoJobs
  Steps <- AllSteps
  Tenants <- TwoTenants
  JobOf <- ByJob
  TenantOf <- ByTenant
  Needs <- InARow
  Tolerated <- FirstStep
  Memoized <- FirstStep
  LongSteps <- NoSteps
  Refused <- NoSteps
  Cap <- CapOfOne
  Slots = 1
  Metered <- NoTenants
  FleetFills = FALSE
  PhasesFail = FALSE
  NodeFails = TRUE
  Expiring <- LateClocks
SPECIFICATION Spec
INVARIANTS VerdictIsEarned LaunchedByThePlan ReadyIsServed
CHECK_DEADLOCK FALSE
