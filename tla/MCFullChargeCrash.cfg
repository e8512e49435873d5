\* The process dies between clearing the file and writing the limit.
SPECIFICATION Spec
CONSTANTS
  Wanted = {60, 80}
  MaxCommands = 2
  MaxPlugs = 0
  MaxFaults = 0
  MaxCrashes = 1
INVARIANT CrashStillRestores
CHECK_DEADLOCK FALSE
