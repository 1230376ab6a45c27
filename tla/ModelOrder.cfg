\* One browser; nothing fails.
SPECIFICATION OverlaySpec
CONSTANTS
  ModelIds = {"x", "y"}
  BaseModels = {"x"}
  Panels = {p1}
  MaxEdits = 3
  MaxFailures = 0
  MaxReloads = 0
CHECK_DEADLOCK FALSE
INVARIANTS OrderSparesHidden
