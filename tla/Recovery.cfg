\* Two channels in every combination of good, absent and failing sensors, on a bus
\* whose transfers fail and whose supplies drop until it is quiet.
SPECIFICATION FairSpec
CONSTANTS
  N = 2
  OffMs = 1
  WakeMs = 1
  TimeoutMs = 4
  SettleMs = 1
  InitSteps = 1
  InitRetries = 1
  BaseMs = 4
  MaxMs = 8
  MaxAttempts = 3
  RecoveredMs = 9
  Disturbances = {"transfers", "supply"}
  Steps = {1}
INVARIANTS
  AddressedApart
PROPERTIES
  WorkingSensorsServed
  MissingSensorsBackOff
