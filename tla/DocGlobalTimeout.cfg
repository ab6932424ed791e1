CONSTANTS
  Retriers <- OnePullRequest
  NoFactor = NoFactor
  Durations = {1, 12}
  Lateness = {0, 2}
  MaxCalls = 8
SPECIFICATION Spec
CHECK_DEADLOCK FALSE
INVARIANT WithinTimeout
