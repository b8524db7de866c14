SPECIFICATION Spec
CONSTANTS
  DeviceOf <- MCDeviceOf
  ReadOnly = {7, 8}
  Values = {0, 1, 2, 3, 4, 5, 6, 7, 8, 9}
  Latencies <- MCLatencies
  None = None
  NoTransfer = NoTransfer
  MasterCount = 1
  Window <- MCWindow
  MaxBurstWords = 2
  MaxOutstandingRequests = 2
  Image <- MCImage
  PowerOnWords <- MCPowerOnWords
  Sources = {1, 4}
  Destinations = {0, 5}
  Lengths = {0, 5}
  MaxTransfers = 2
  ControlWrites <- MCControlWrites
INVARIANTS
  TypeOK
  CountedWordsArrived
  WritesOnlyTarget
  QueuesAgree
  OneStatus
PROPERTIES
  TransferEnds
