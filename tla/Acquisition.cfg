\* Transfers take up to one tick; the loop may be delayed past the autonomous range.
SPECIFICATION FairSpec
CONSTANTS
  Budget = 1
  Guard = 12
  Margin = 2
  Settle = 2
  Slip = 1
  MaxFaults = 2
  MaxStalls = 12
INVARIANTS
  FiledUnderItsZone
PROPERTIES
  AimedBetweenRanges
  BothZonesServed
