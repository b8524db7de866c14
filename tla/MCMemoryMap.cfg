SPECIFICATION Spec
CONSTANTS
  DeviceOf <- MCDeviceOf
  ReadOnly = {2}
  Values = {0, 1, 2}
  Latencies <- MCLatencies
  AccessRequests <- MCAccessRequests
  BurstRequests <- MCBurstRequests
  PowerOnWords <- MCPowerOnWords
  MaxId = 3
  None = None
INVARIANTS
  TypeOK
  IdsDistinct
  CompatBacked
  ExactlyOnce
PROPERTIES
  EveryRequestFinishes
  KeepsBusContract
