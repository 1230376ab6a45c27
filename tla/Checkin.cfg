\* One account of the campaign contract, a caller beside the loop, a midnight.
SPECIFICATION Spec
CONSTANTS
  a1 = a1
  c1 = c1
  k1 = k1
  Campaigns = {k1}
  Daily = Daily
  None = None
  Limit = 1
  RetryDelays <- OneRetry
  Accounts = {a1}
  Callers = {c1}
  Contracts = {"campaign"}
  Switches = {"config"}
  DayLength = 4
  Hours = {2}
  MaxTime = 4
INVARIANTS NoBlindRepeat ParkedLeftAlone RetryBudget
PROPERTIES CancelledStaysCancelled
