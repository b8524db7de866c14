SPECIFICATION Spec
CONSTANTS
  None = None
  Tables <- MCTables
  ReadOnlySlots <- MCReadOnlySlots
  Workloads <- MCWorkloads
  TlbEntryCount = 2
  MaxStores = 2
INVARIANTS TypeOK AnswersFollowTables StoresSurviveWalks NoAccessAbandoned
PROPERTIES RequestIsAnswered
