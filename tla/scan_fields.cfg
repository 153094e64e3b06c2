SPECIFICATION Spec
CONSTANTS
  NumberOfThreads = 3
  Files <- GoodFiles
  Reader = "fields"
  Segment = "A"
  Fields <- MCFields
  IncludeUnknown = TRUE
  STANDARD_VECTOR_SIZE = 2
INVARIANTS
  TypeOK
  OneReaderPerFile
  FilenameIsSource
  RowsInOrder
  NoRowLost
  CursorBounded
PROPERTIES
  ImplementsResult
  Terminates
CHECK_DEADLOCK FALSE
