\* The read that confirms the dimming fails.
SPECIFICATION PartSpec
CONSTANTS
  MaxLevel = 1
  Timeouts = {30}
  MaxPresses = 0
  MaxSwitches = 1
  MaxIdles = 1
  MaxFaults = 1
  MaxEvents = 2
  MaxMishaps = 0
INVARIANT RestoredOnInput
CHECK_DEADLOCK FALSE
