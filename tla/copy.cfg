SPECIFICATION Spec
CONSTANTS
  Jobs <- MixedJobs
  Remote = {"s3"}
  Present = {"a"}
  Faults = {"open", "write", "close", "remove", "move"}
  Exclusive = TRUE
  MayCrash = TRUE
INVARIANTS
  TypeOK
  TargetWhole
  NothingLeft
PROPERTIES
  SuccessIsComplete
  OriginalSurvives
  CrashRecoverable
CHECK_DEADLOCK FALSE
