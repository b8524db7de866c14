SPECIFICATION Spec
CONSTANTS
  DeviceOf <- MCDeviceOf
  ReadOnly = {}
  Values = {0, 1, 2, 3, 4, 5}
  Latencies <- MCLatencies
  None = None
  NoTransfer = NoTransfer
  MasterCount = 1
  Window <- MCWindow
  MaxBurstWords = 1
  MaxOutstandingRequests = 3
  Image <- MCImage
  PowerOnWords <- MCPowerOnWords
  Sources = {1}
  Destinations = {0, 3}
  Lengths = {1, 5}
  ControlWrites <- MCControlWrites
  MaxTransfers = 2
INVARIANTS
  DoneMeansCopied
