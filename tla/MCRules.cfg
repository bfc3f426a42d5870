SPECIFICATION Spec
CONSTANTS
  Steps = {s1, s2, s3}
  Ghost = ghost
  MaxSteps = 3
  MaxDepth = 2
  Budget = 2
  MaxLive = 5
  Bytes = {"a", "b", "n"}
  NL = "n"
  MaxBytes = 3
  ByteSlack = 2
  MaxLines = 1
  LineSlack = 1
  MinMaskable = 2
  MaxPrinted = 7
  MaxChunk = 3
  Values <- MCValues
  Names = {"npm"}
  Caps <- MCCaps
  Cap <- MCCap
  Signers = {k1, k2}
  Tasks = {p1, p2}
  MaxNow = 1
  Ttl = 1
  Skew = 0
  MaxCalls = 4
  MaxKeys = 3
  Requests = {p1, p2}
  Upstreams = {"private", "public", "other", "elsewhere"}
  Allowed = {"private", "public", "other"}
  Granted = {"private", "public"}
  CredentialOf <- MCCredentialOf
  PerSecond = 1
  Burst = 2
  GrantLife = 1
  MaxRedirects = 1
  MaxSlots = 1
  MaxTreeDepth = 2
  MaxGlobstars = 2
  MemoJobs = {p1, p2}
  MemoCases <- MCMemoCases
  PassedTtl = 2
  FailedTtl = 1
  MemoCapacity = 2
  MaxMemoNow = 1
  MaxEntries = 3
  MaxFileBytes = 2
  MaxTotalBytes = 3
  MaxPathDepth = 3
  MaxNameBytes = 2
  MaxArchive = 7
  FqSteps <- MCFqSteps
  FqTenants <- MCFqTenants
  Weights <- MCWeights
  MaxRunning <- MCMaxRunning
  NodeTicks <- MCNodeTicks
  Window = 4
  DefaultCost = 2
  MinCost = 1
  IdleCredit = 2
  FleetSlots = 2
  Samples = 2
  CostNames = 1
  Unit = 2
  Scale = 2
  StepClock = 2
  MaxFqNow = 2
  DekLen = 2
  IdLen = 1
  SecretLen = 2
  MaxKeyName = 11
  DigestChars = 2
  KmsCallers = {"x", "y"}
  ReplicaOf <- MCReplicaOf
  MaxKmsCalls = 3
  MaxKmsFaults = 1
  ShiftBits = 3
  MaxDuration = 15
  DefaultLimit = 2
  MaxLimit = 3
  MaxLabel = 3
  MaxJobWrites = 1
  CoresPerSlot = 2
  MaxDerivedSlots = 3
  PlanCap = 2
  MaxText = 3
  MaxShard = 3
  MaxWord = 255
  PerMinute = 6
  PerHour = 36
  TimeoutCeiling = 72
  DefaultStep = 12
  MaxStep = 40
  NodeStep = 20
  MinStack = 2
  MaxMessage = 3
  MaxEcho = 2
  SummaryMax = 15
  NameCap = 1
  DetailCap = 2
  MaxSourceBytes = 2
INVARIANTS GreenIsComplete EveryPlanIsDecided CaptureIsSound PlanIsTheAuthors
INVARIANTS EvaluationIsContained RunsUnderItsClaims NamesStayHome
INVARIANTS SpentOnce KeysGovernValues ProxySpendsWithCare TreesAreTheirAddress HitIsEarned TurnsArePaid
SYMMETRY Symmetry
CHECK_DEADLOCK FALSE
