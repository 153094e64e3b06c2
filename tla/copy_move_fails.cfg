SPECIFICATION Spec
CONSTANTS
  Jobs <- OneJob
  Remote = {}
  Present = {"a"}
  Faults = {"move"}
  Exclusive = TRUE
  MayCrash = FALSE
PROPERTIES
  FailedOverwriteKeeps
CHECK_DEADLOCK FALSE
