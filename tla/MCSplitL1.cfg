SPECIFICATION SplitSpec
CONSTANTS
  None = None
  LineCount = 4
  LineWords = 2
  CachedLines = {0, 1, 2}
  Configs <- MCSplitConfigs
  Latencies = {0, 2}
  MayRefuse = FALSE
  MayAbandon = {0}
  Fetches = {0}
  SplitWords = {0, 2, 4}
  OlderAccesses = 1
  Loads = {0, 4, 6}
  Stores <- MCStores
  Cleans <- MCCleans
  Discards <- MCDiscards
  DeviceWrites <- MCDeviceWrites
INVARIANTS
  SplitTypeOK
  Coherent
  SingleCopy
  CleanLinesMatchMemory
  InstructionsFollowStores
PROPERTIES
  CleanReachesMemory
  SplitAccessCompletes
