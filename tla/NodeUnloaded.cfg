\* A bus that stays down for longer than the guard waits for the network.
SPECIFICATION Spec
CONSTANTS
  Modulus = 8
  DiscoveryMs = 2
  RetryMs = 1
  ColdMs = 1
  GuardMs = 3
  BusFailures = 3
  Hasty = FALSE
  Found <- MCFound
  Requests <- MCRequests
  MaxConfirmed = 1
  Steps = {1}

PROPERTIES GuardSavesCounts
