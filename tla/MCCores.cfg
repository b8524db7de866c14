SPECIFICATION Spec
CONSTANTS
  None = None
  TextWords = 256
  PageSize = 64
  Programs <- Agreeing
INVARIANTS TypeOK InFlightIsOnePath
PROPERTIES ImplementsArchitecture ProgramEnds
