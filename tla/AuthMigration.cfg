\* Nothing fails, and nothing but the note is written.
SPECIFICATION NamesSpec
CONSTANTS
  g1 = g1
  Movers = {g1}
  NoOne = NoOne
  NoFile = NoFile
  MoveOps = {"note"}
  MaxMoves = 2
  MaxTroubles = 0
CHECK_DEADLOCK FALSE
INVARIANTS LegacyRemoved
