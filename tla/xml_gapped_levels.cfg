SPECIFICATION Spec
CONSTANTS
  Inputs <- GappedLevels
  Dictionary = {"A", "B", "9"}
  ElementNames <- Names
INVARIANTS
  NestsInLevelAbove
CHECK_DEADLOCK FALSE
