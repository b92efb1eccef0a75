SPECIFICATION AgentsSpec
CONSTANTS
  UintBits = 8
  UserConfigs <- MCUserConfigs
  BuilderValues = {1, 2}
  BuilderServers = {"a", "b"}
  MaxPoints = 3
  MaxEmits = 2
  MountPaths = {"p", "q", "r"}
  RemoteFs <- MCRemoteFs
  ServerOf <- MCServerOf
  Operations = {"READ"}
  Delays = {0}
  QueryEnabled = TRUE
  ExcludedServers = {}
  ExcludedPaths = {"r"}
  AgentAnswers = {"i1", ""}
  UmountsInScrape = FALSE
  MaxOps = 1
  MaxTime = 2
  MaxMounts = 3
  MaxScrapes = 2
  Pools = {"0", "1"}
  ClientIPs = {"a", "b"}
  MaxScrapings = 2
  MaxBumps <- MCMaxBumps
  CacheFiles = {"f", "g", "h"}
  DirOf <- MCDirOf
  InitialFiles = {"f", "h"}
  MinFileSize = 1
  Batch = 2
  MaxExtents = 3
  MaxChanges = 2
  MaxClock = 3
  MaxWalks = 2
  Callers = {"x", "y"}
  MaxRequests = 1
  MaxTouches = 1
INVARIANTS
  AggregationExact
  RatesHonest
  EmissionWhole
  OldestHonest
  ExtentsExact
  NodeInfoHonest
  DropIsReal
PROPERTIES
  LabelsStable
  
CHECK_DEADLOCK FALSE
