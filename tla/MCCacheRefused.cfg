SPECIFICATION Spec
CONSTANTS
  None = None
  LineCount = 4
  LineWords = 2
  CachedLines = {0, 1, 2}
  Configs <- MCWriteBackConfig
  Latencies = {0, 2}
  MayRefuse = TRUE
  MayAbandon = {}
  Loads = {0, 4, 6}
  Stores <- MCStores
  Cleans <- MCCleans
  Discards <- MCDiscards
  DeviceWrites <- MCDeviceWrites
INVARIANT
  Coherent
