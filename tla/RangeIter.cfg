CONSTANTS
  Capacity = 150
  MAX_SLOTS = 100
  SPILLOVER_RESERVATION = 16
  SIZE_BY_TYPE <- MCSizes
  Keys <- MCKeys
  Values = {2, 30}
  Guids = {0, 1, 2, 3}
  Cap <- MCCap
  PREFIX_MAX_INLINE = 1
  MAX_SPILLOVER_ATTEMPTS = 8
  MERGE_RESERVE = 16
  TargetFill = 105
  MinFill = 52
  Slash = 2
  Loads <- MCLoads
  MaxCalls = 4
  Scans <- MCScans
  MaxByte = 3
  ROUTE_CACHE_CAPACITY = 2
  ROUTE_PREFIX_MAX = 3
SPECIFICATION RouteSpec
INVARIANTS
  LookupIsDict
  FramesAccounted
  
  ScanInOrder
  ScanMissesNothing
  RoutesLeadHome
CHECK_DEADLOCK FALSE
