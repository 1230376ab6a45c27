\* Two accounts and room for one record, the loop and the panel's toggle, under
\* the legacy contract.
SPECIFICATION FairSpec
CONSTANTS
  a1 = a1
  c1 = c1
  k1 = k1
  Campaigns = {k1}
  Daily = Daily
  None = None
  Limit = 1
  RetryDelays <- OneRetry
  a2 = a2
  Accounts = {a1, a2}
  Callers = {}
  Contracts = {"legacy"}
  Switches = {"panel"}
  DayLength = 4
  Hours = {2}
  MaxTime = 3
INVARIANTS DoubtRemembered
PROPERTIES RetryComes
