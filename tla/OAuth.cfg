SPECIFICATION Spec
CONSTANTS
  Logins = {s1,s2}
  Polls = {p1,p2}
  None = None
  Max = 1
  LoginTTL = 1
  ResultTTL = 1
  DiskFaults = TRUE
  Damage = TRUE
  Rewrites = TRUE
  MaxCrashes = 1
  MaxTime = 3
SYMMETRY LoginsAndGoroutines
CHECK_DEADLOCK FALSE
INVARIANTS AskedOnce OneWriter Bounded
PROPERTIES CheckpointStands 
