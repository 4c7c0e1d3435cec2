\* One failure of the bus in a boot: the saved state is loaded before the outage guard
\* can fire, and every other interval passes and does not.
SPECIFICATION Spec
CONSTANTS
  Modulus = 8
  DiscoveryMs = 2
  RetryMs = 1
  ColdMs = 1
  GuardMs = 3
  BusFailures = 1
  Hasty = FALSE
  Found <- MCFound
  Requests <- MCRequests
  MaxConfirmed = 1
  Steps = {1}
INVARIANTS TypeOK CleanMeansSaved NoMixedBaselines
PROPERTIES GuardAfterOutage GuardSavesCounts Implements StartsUp
