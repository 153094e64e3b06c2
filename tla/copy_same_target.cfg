SPECIFICATION Spec
CONSTANTS
  Jobs <- SameTarget
  Remote = {}
  Present = {"a"}
  Faults = {}
  Exclusive = FALSE
  MayCrash = FALSE
INVARIANTS
  TargetWhole
CHECK_DEADLOCK FALSE
