SPECIFICATION Spec
CONSTANTS
  NumberOfThreads = 3
  Files <- FailingFiles
  Reader = "fields"
  Segment = "A"
  Fields <- MCFields
  IncludeUnknown = FALSE
  STANDARD_VECTOR_SIZE = 2
PROPERTIES
  ImplementsResult
CHECK_DEADLOCK FALSE
