\* Two requests for one slot; upstream may stay silent.
SPECIFICATION FairSpec
CONSTANTS
  a1 = a1
  m1 = m1
  r1 = r1
  r2 = r2
  Auths = {a1}
  Models = {m1}
  Shared = Shared
  None = None
  RateLimitTTL = 2
  UnknownTTL = 1
  QuotaTTL = 2
  MaxEntries = 4
  Requests = {r1, r2}
  Paths = {"execute", "sync", "async"}
  Outcomes = {"soft", "daily_quota", "empty", "ok"}
  Cap = 1
  MaxAttempts = 3
  Hints = {0}
  MaxTime = 0
INVARIANTS SlotsConserved
PROPERTIES GateSpec EveryRequestEnds
