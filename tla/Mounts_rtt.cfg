SPECIFICATION MountsSpec
CONSTANTS
  UintBits = 8
  MountPaths = {"p", "q", "r"}
  RemoteFs <- MCRemoteFs
  ServerOf <- MCServerOf
  Operations = {"READ"}
  Delays = {0, 1}
  QueryEnabled = TRUE
  ExcludedServers = {}
  ExcludedPaths = {"r"}
  AgentAnswers = {"i1", ""}
  UmountsInScrape = FALSE
  MaxOps = 1
  MaxTime = 2
  MaxMounts = 3
  MaxScrapes = 2
INVARIANT RttWithinExe
CHECK_DEADLOCK FALSE
