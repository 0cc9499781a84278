SPECIFICATION Spec
CONSTANTS
  c1 = c1
  c2 = c2
  c3 = c3
  Conf <- Configurations
  Local <- OnCacheFilesystem
  Movable <- Renamed
  Overlap = FALSE
  MaxKills = 1
  Nobody = Nobody
  Collector = Collector
  NoEntry = NoEntry
INVARIANTS
  NotLeaked
PROPERTY
  InUseUntouched
