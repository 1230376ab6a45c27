SPECIFICATION Spec
CONSTANTS
  Choices = {1, 2}
  Tools = {1}
  Ids = {i1, i2}
  Finishes = {"tool_calls", "length"}
  None = None
  PartsOfCall = 2
  MaxChoices = 2
  MaxTools = 2
  MaxParts = 4
  MaxAttempts = 2
  MaxFrames = 3
SYMMETRY AnyId
CHECK_DEADLOCK FALSE
INVARIANTS ToolsWhole NothingLost
