\* The rules alone: two edits, two changes of the source, one trouble. The fan
\* editor: two profiles, two fans, three curves, of which one stops the fan, three gestures.
\* Two limits of two values, three drafts or clicks, a profile switch, a trouble.
\* A card: two choices, two clicks, one change elsewhere, two troubles.
\* A store: three saves, a hand edit, an error, two kills or power losses.
SPECIFICATION PartSpec
CONSTANTS
  Fields = {"profile", "hz"}
  Values = {"low", "high"}
  ProductGpu = FALSE
  Stored <- SavedRules
  MaxCommands = 2
  MaxPlugs = 1
  MaxTroubles = 1
  FanProfiles = {"balanced", "quiet"}
  Fans = {"CPU", "GPU"}
  Curves <- ThreeCurves
  Factory <- Good
  First <- FirstSlot
  MaxGestures = 3
  MaxForeign = 1
  MaxFailures = 1
  Limits <- TwoLimits
  Watts = {"low", "high"}
  MaxEdits = 3
  MaxSwitches = 1
  MaxMishaps = 1
  Choices = {"eco", "standard"}
  MaxClicks = 2
  MaxOthers = 1
  MaxMisses = 2
  Docs = {"a", "b"}
  MaxSaves = 3
  MaxHandEdits = 1
  MaxErrors = 1
  MaxLosses = 2
INVARIANTS FirstSourceWritesNothing RuleInForce EditsKeepTheRest
  DraftOfSelection ShownIsHardware LocksAreOwed SavesSurvive
PROPERTY BadKept
\* Every edit, gesture and save is used up: nothing is left to do.
CHECK_DEADLOCK FALSE
