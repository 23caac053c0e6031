CONSTANTS
  RuleSet <- MCRuleSet
  Tracks = {"walker"}
  NoTrack = "untracked"
  Streams = {"cam1", "cam2"}
  StreamOf <- MCStreamOf
  Positions <- MCPositions
  StateTTL = 2
  MaxTime = 5
  MaxReloads = 1
  Events <- MCEventIds
  Tenants = {"t1", "t2"}
  Clients = {"s1", "s2", "h1", "h2"}
  ClientTenant <- MCClientTenant
  Replicas = {"r1"}
  SseClients = {"s1", "s2"}
  Home <- MCHome
  RingCap = 2
  MaxLimit = 1
  ChanCap = 1
  Endpoints = {"w1", "w2"}
  OwnerOf <- MCOwnerOf
  MaxAttempts = 2
  MaxBusFaults = 1
  Records = {"a", "b", "c"}
  GateRecords = {"c"}
  MaxAuditFaults = 2
  Calls = {c1, c2, c3}
  Payers = {t1}
  NoPayer = NoPayer
  Tokens = {0, 2}
  MaxRetries = 1
  MaxBuffered = 1
  MaxFaults = 2
  Samplers = {"l1"}
  PolicyIds = {"lp1"}
  Models = {"m1"}
  Labels = {"car", "person"}
  Limits <- MCLimits
  MaxPolicies = 2
  MaxDetections = 3
  MaxDays = 2
  MaxLaunches = 2
  Detectors = {"d1"}
  Watched = {"m1", "m2"}
  DefaultWidth = 1
  DriftLimits <- MCDriftLimits
  MaxUpserts = 2
  MaxSeen = 2
  MaxSeconds = 2
  MaxSignals = 1
SPECIFICATION Spec
INVARIANTS AlertsAreEarned HubNeverSendsOnClosed SlowClientsCostOnlyThemselves OnlyKnownLosses UsageConserved BudgetPerStart SignalsRestOnTheWindow
PROPERTIES WebhooksSettle EventuallyBilled
CHECK_DEADLOCK FALSE
