SPECIFICATION Spec
CONSTANTS
  None = None
  TextWords = 256
  PageSize = 64
  Programs <- BehindATrap
PROPERTY ImplementsArchitecture
