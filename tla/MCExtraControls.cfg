\* Two staged controls and a direct one, two edits, two clicks, one trouble. Quick
\* controls: two levels, two clicks, one foreign change, one trouble. Windows: five
\* events of the person or of other launches, the tray host comes or goes twice.
\* Lighting: two calls, one access that fails or change elsewhere. Lid: six calls,
\* three upsets.
SPECIFICATION PartSpec
CONSTANTS
  Order <- TwoStaged
  Direct = {"aura"}
  Values = {"off", "on"}
  MaxEdits = 2
  MaxClicks = 2
  MaxTroubles = 1
  MaxLevel = 1
  MaxQuickClicks = 2
  MaxOthers = 1
  MaxEvents = 5
  MaxHosts = 2
  Callers = {c1, c2}
  Modes = {"static", "breathe", "pulse", "comet"}
  Listed = {"static", "breathe"}
  KernelTakes = {"static", "breathe", "pulse"}
  Colours = {red, blue}
  Speeds = {"low", "odd"}
  KnownSpeeds = {"low"}
  Reported = {"keyboard", "logo"}
  Zones = {"keyboard", "logo", "lid"}
  MaxCalls = 2
  MaxRequests = 6
  MaxUpsets = 3
INVARIANTS DraftIffUnresolved SectionsSettle HiddenHasIcon PanelsAreMirrored PartsAsAsked
PROPERTY QuickRecovers
\* Every click and trouble of the extra controls is used up: nothing is left to do.
CHECK_DEADLOCK FALSE
