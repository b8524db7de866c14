SPECIFICATION Spec
CONSTANTS
  None = None
  TextWords = 640
  PageSize = 64
  TimeBound = 80
  BlockCount = 2
  BlockBytes = 4
  Workloads <- MCWorkloads
INVARIANTS TypeOK InterruptedContextKept SourcesServedOnce CompletionStaysVisible
PROPERTIES CommandsKeepTheirMeaning EverythingServed
