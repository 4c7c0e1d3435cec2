\* Two sensors, one of which suffices, so votes can agree or oppose and health
\* changes within an episode, on a clock that wraps; tracks of no minimum length, so
\* that two fields may empty within one turn of it and too far apart; and tracks of up
\* to seven changes.
SPECIFICATION MCSpec
CONSTANTS
  Sensors = {s1, s2}
  Required = 1
  RequiredHealth = 1
  ClearMs = 1
  MinimumMs = 0
  AgreementMs = 0
  Modulus = 2
  Horizon = 1
  Invert = FALSE
  RequireTimingEvidence = FALSE
  Timed = FALSE
  Steps = {0, 1}
  Shortest = 1
  MaxChanges = 7
  MaxTime = 1
VIEW RelevantState
SYMMETRY Symmetry
INVARIANTS
  CountIsEarned
  VotersLeaveTogether
  VoteIsTraverse
PROPERTIES
  ClearBeforeAnything
  Implements
