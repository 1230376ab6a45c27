SPECIFICATION PartSpec
CONSTANTS
  \* One account, two models: room for two of the three keys.
  a1 = a1
  m1 = m1
  m2 = m2
  Auths = {a1}
  Models = {m1, m2}
  Shared = Shared
  None = None
  RateLimitTTL = 2
  UnknownTTL = 1
  QuotaTTL = 2
  MaxEntries = 2
  Hints = {0, 3}
  MaxSkew = 1
  MaxTime = 3
  \* Every refusal with up to two markers.
  Statuses = {401, 402, 403, 429, 500}
  MaxAttempts = 3
  MaxMarkers = 2
  \* Two files, of one account or of two, with a uid or without.
  f1 = f1
  f2 = f2
  c1 = c1
  c2 = c2
  Files = {f1, f2}
  Uids = {u1}
  CallSlots = {c1, c2}
  NoUid = NoUid
  Missing = Missing
  HostBridge = TRUE
  MaxCalls = 3
  MaxRefreshes = 1
  MaxConfigs = 1
SYMMETRY Symmetry
CHECK_DEADLOCK FALSE
INVARIANTS  BusinessBlamesNoKey 
  OwnIdentity SentOnce
PROPERTIES NoDowngrade OnlyRecoveryLifts
