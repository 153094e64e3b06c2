SPECIFICATION Spec
CONSTANTS
  SDATA_LEN = 4
  INT64_MAX = 31
  INT32_MAX = 7
  Dictionaries <- AllDictionaries
INVARIANTS
  TypeOK
  EmptyMeansSound
  ValidatedBinds
  XmlSlicesAgree
  OffsetsPass
  EncodedReadsBack
CHECK_DEADLOCK FALSE
