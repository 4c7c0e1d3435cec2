\* Calibration needs one channel and counting two; two samples, one pass of settling.
SPECIFICATION Spec
CONSTANTS
  Channels = {c1, c2}
  MinValid = 1
  MinEvent = 2
  Samples = 2
  Settle = 1
  BootSettle = 1
INVARIANTS OneClearSpell CalibrationIsExclusive
PROPERTIES UnlockedByEmptyDoorway ApproachIsNotLearned GetsReady
