SPECIFICATION ProxySpec
CONSTANTS
  bootRetryDeadline = 6
  checkTableAttemptTimeout = 2
  ConnectTime = 1
  MetricsShutdown = 1
  TimeoutStartSec = 9
  StartLimitBurst = 2
  PauseScale = 2
  Settings <- MCSettings
  Volumes <- MCVolumes
  InitialVolumes = {1, 2, 3}
  PageSize = 2
  Environments <- MCEnvironments
  MaxVolumeChanges = 1
  Matches <- MCMatches
  BadPatterns = {"bad"}
  ExportMap <- MCExportMap
  AutoExports <- MCAutoExports
  Symlinks = {"bin"}
  Filters <- MCFilters
  FsidConfigs <- MCFsidConfigs
  MaxRuns = 2
  c1 = c1
  c2 = c2
  p1 = p1
  p2 = p2
  e1 = e1
  e2 = e2
  None = None
  Run = Run
  Conns <- TwoConns
  Creators <- OneCreator
  Paths <- OnePath
  FsidOf <- MCFsidOf
  ApiErrors <- OneError
INVARIANTS
  TypeOK
  OwnReply
  CauseReported
  ExportedIsMounted
  ServedComplete
  TableAsDeployed
CHECK_DEADLOCK FALSE
