\* One page; the device changes up to four times, by its actions and by itself.
SPECIFICATION PageSpec
CONSTANTS
  MaxVersion = 4
INVARIANTS SingleFlight
PROPERTIES ShownIsCurrent EditsKept CatchesUp
