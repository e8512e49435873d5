\* Two front-ends writing the same threshold, one death, one foreign change.
SPECIFICATION SpecAtSixty
CONSTANTS
  Clients = {ui, other}
  Wanted = {10, 60, 80}
  MaxRequests = 1
  MaxExternal = 1
  MaxCrashes = 1
INVARIANTS AppliedWasInForce RefusalIsReal OneGrantedSetter CommandErrorIsFinal
PROPERTIES ImplementsOneShot Responsive
\* Every front-end has used its requests: nothing is left to do.
CHECK_DEADLOCK FALSE
