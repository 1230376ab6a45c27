\* Two requests of one credential, inside the gate together, on every path.
SPECIFICATION Spec
CONSTANTS
  a1 = a1
  m1 = m1
  r1 = r1
  r2 = r2
  Auths = {a1}
  Models = {m1}
  Shared = Shared
  None = None
  RateLimitTTL = 1
  UnknownTTL = 1
  QuotaTTL = 1
  MaxEntries = 4
  Requests = {r1, r2}
  Paths = {"execute", "sync", "async"}
  Outcomes = {"soft", "ok", "shared_credit_exhausted"}
  Cap = 2
  MaxAttempts = 2
  Hints = {0, 2}
  MaxTime = 1
SYMMETRY Symmetry
INVARIANTS ClearedBeforeFreeze OneAttemptSeen
PROPERTIES FreezeNeedsEvidence CooldownSpec
