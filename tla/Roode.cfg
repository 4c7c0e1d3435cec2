\* A sensor with a shutdown pin, at the default address or at one of its own; a
\* calibration takes two readings of a zone.
SPECIFICATION Spec
CONSTANTS
  InitAttempts = 3
  MaxFaults = 2
  Modulus = 2
  Own = {TRUE, FALSE}
  XShut = {TRUE}
  ClearMs = 1
  MinimumMs = 1
  Steps = {1}
  Samples = 1
  Attempts = 2
  MaxPeople = 1
  Tunings = {configured, asked}
  CONFIGURED = configured
  Raised = {asked}
INVARIANTS TypeOK MeasuredInItsRegion CountedInOneStretch
PROPERTIES OneFaultSurvived Settles
