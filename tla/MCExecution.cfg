\* Ten parts that wait while they work, one per behaviour.
CONSTANTS
  MaxTime = 2
  MaxVersion = 2
  MaxExecutions = 2
  Machines = {"n1"}
  Leases = {1, 2}
  Capabilities = {"gpu"}
  Workloads = {"w1", "w2"}
  ComputeKeys = {"k1", "k2"}
  ComputeRequests <- MCComputeRequests
  Keys = {"k1"}
  Bodies = {1, 2}
  MaxSessions = 2
  MaxHeartbeats = 1
  MaxRuns = 2
  MaxRegistrations = 3
  MaxOperations = 3
  Providers = {"maps"}
  Contracts = {"t1"}
  Principals = {"ada", "bob"}
  GatewayKeys = {"k1"}
  Bindings = {1}
  GatewayRequests <- MCGatewayRequests
  SourceKeys = {"k1", "k2"}
  Contents = {1, 2}
  MaxItems = 3
  MaxPolls = 2
  MaxFailures = 1
  Owners = {"ada", "bob"}
  Packages = {"v1", "v2", "future"}
  Compatible = {"v1", "v2"}
  MaxSeeds = 2
  MaxOpens = 2
  MaxNodes = 3
  MaxDeletions = 2
  MaxActions = 2
SPECIFICATION Spec
INVARIANTS
  DoneOnce
  SeedSurvives
  DeletionIsComplete
  RecordsTellTheRuns
  JudgementIsJust
PROPERTIES
  ReceiptsAreCurrent
  CallsEnd
CHECK_DEADLOCK FALSE
