\* A second edit is sent before the first one is shown.
SPECIFICATION Spec
CONSTANTS
  Fields = {}
  Values = {"low", "high"}
  ProductGpu = TRUE
  Stored <- SavedRules
  MaxCommands = 2
  MaxPlugs = 0
  MaxTroubles = 0
PROPERTY UltimateLeftOnlyOnRequest
CHECK_DEADLOCK FALSE
