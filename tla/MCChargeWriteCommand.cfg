\* asusd executes the setter and dies before hardwared's configured read-back.
SPECIFICATION Spec
CONSTANTS
  Clients = {ui}
  Wanted = {60, 80}
  MaxRequests = 1
  MaxExternal = 0
  MaxCrashes = 1
INVARIANT CommandErrorMeansNotWritten
CHECK_DEADLOCK FALSE
