SPECIFICATION Spec
CONSTANTS
  c1 = c1
  c2 = c2
  c3 = c3
  Conf <- Configurations
  Local <- OnCacheFilesystem
  Movable <- Nowhere
  Overlap = TRUE
  MaxKills = 0
  Nobody = Nobody
  Collector = Collector
  NoEntry = NoEntry
PROPERTY
  InUseUntouched
