SPECIFICATION Spec
CONSTANTS
  None = None
  MasterCount = 2
  Window <- MCWindow
  Latencies = {1, 3}
  MaxRequests = 3
INVARIANTS
  ResponsesInSubmissionOrder
