SPECIFICATION Spec
CONSTANTS
  Inputs <- Files
  Dictionary = {"A", "B", "9"}
  ElementNames <- Names
INVARIANTS
  TypeOK
  OpenLevelsIncrease
  HierarchySurvives
  SegmentsSurvive
  RoundTrip
CHECK_DEADLOCK FALSE
