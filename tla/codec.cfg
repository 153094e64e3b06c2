SPECIFICATION Spec
CONSTANTS
  SDATA_LEN = 8
  MAX_DECIMAL_WIDTH = 5
  Cases <- AllCases
INVARIANTS
  TypeOK
  WrittenReadsBack
  TextLossless
  RefusesExactlyMalformed
  TypedExact
  FullScaleFits
CHECK_DEADLOCK FALSE
