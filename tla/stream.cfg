SPECIFICATION Spec
CONSTANTS
  Magic <- MCMagic
  CONTROL_RECORD_LEN = 3
  DATA_RECORD_LEN = 5
  ReadSize = 8
  LookAhead = 6
  Inputs <- AllInputs
INVARIANTS
  TypeOK
  BoundedMemory
  KeysFollowControls
  RawRoundTrip
  SalvagesComplete
PROPERTIES
  ImplementsFeed
  Terminates
CHECK_DEADLOCK FALSE
