\* One client, a failing second write, then the status.
SPECIFICATION Spec
CONSTANTS
  Callers = {ui}
  MaxCalls = 2
  MaxFaults = 1
  MaxBoots = 0
PROPERTY HalfWrittenIsUnknown
CHECK_DEADLOCK FALSE
