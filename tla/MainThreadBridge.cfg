\* Four requests, two of which ask for a restart.
SPECIFICATION FairSpec
CONSTANTS
  Requests = {r1, r2, r3, r4}
  Restarts = {r1, r2}
  REBOOT = REBOOT
INVARIANTS
  OneOutstanding
PROPERTIES
  Implements
  AlwaysAnswered
  BridgeFrees
CHECK_DEADLOCK FALSE
