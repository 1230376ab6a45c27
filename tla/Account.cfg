SPECIFICATION PartSpec
CONSTANTS
  \* The file: two goroutines under the lock.
  g1 = g1
  g2 = g2
  Workers = {g1, g2}
  None = None
  Writers = {"toggle", "sync", "reconcile", "delete"}
  Credits = {"credits","exhausted"}
  Found <- FoundUsual
  HostParks = FALSE
  MaxToken = 2
  \* Its names: two goroutines; one failure or crash.
  Movers = {g1, g2}
  NoOne = NoOne
  NoFile = NoFile
  MoveOps = {"note", "toggle", "delete", "rename", "refresh", "login"}
  MaxMoves = 4
  MaxTroubles = 1
  \* The cache: two accounts and room for one; two fetches, a chat and a card.
  a1 = a1
  a2 = a2
  c1 = c1
  c2 = c2
  h1 = h1
  w1 = w1
  Accounts = {a1, a2}
  Callers = {c1, c2}
  Chats = {h1}
  Cards = {w1}
  Nobody = Nobody
  Forgets = {"dashboard", "reenable"}
  Cap = 1
  TTL = 0
  Grace = 2
  DayLength = 4
  MaxTime = 4
SYMMETRY Symmetry
CHECK_DEADLOCK FALSE
INVARIANTS ParkedStaysParked AlwaysAFile LastWordMoves OneFetch  BalanceAfterCheckin
PROPERTIES DocSpec
