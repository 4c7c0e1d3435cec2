\* The shipped four-sensor profiles: no median window, a side-mounted sensor.
SPECIFICATION HSpec
CONSTANTS
  Modulus = 16
  SamplingSize = 1
  Baseline = 700
  TriggerDelta = 280
  ReleaseDelta = 140
  CoverDistance = 100
  MinDistance = 30
  DebounceMs = 1
  HoldMs = 2
  StaleMs = 4
  BlockedMs = 3
  Oldest = 6
  Distances = {20, 430, 700}
  Steps = {1, 2}
VIEW RelevantState
INVARIANTS
  CoveredIsOccupied
  NoGhostPresence
PROPERTIES
  TwoMeasurements
