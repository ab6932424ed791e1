\* every call takes 1 or 12 units, so that the default policy makes 7 calls at most:
\* MaxCalls is reached by no execution
CONSTANTS
  Retriers <- AllRetriers
  NoFactor = NoFactor
  Durations = {1, 12}
  Lateness = {0, 2}
  MaxCalls = 8
SPECIFICATION FairSpec
CHECK_DEADLOCK FALSE
INVARIANTS TypeOK CallsBounded StartsInTime BacksOff
PROPERTY Terminates
