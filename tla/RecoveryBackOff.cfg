\* Two channels on a quiet bus: a sensor that fails is recovered at a constant rate.
SPECIFICATION FairSpec
CONSTANTS
  N = 2
  OffMs = 1
  WakeMs = 0
  TimeoutMs = 4
  SettleMs = 0
  InitSteps = 1
  InitRetries = 1
  BaseMs = 4
  MaxMs = 8
  MaxAttempts = 3
  RecoveredMs = 9
  Disturbances = {}
  Steps = {1}
PROPERTIES
  DefectiveSensorsBackOff
