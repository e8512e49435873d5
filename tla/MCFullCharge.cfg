\* Three commands, a failing save, a kill, a moving charger.
SPECIFICATION FairSpec
CONSTANTS
  Wanted = {80}
  MaxCommands = 3
  MaxPlugs = 1
  MaxFaults = 1
  MaxCrashes = 1
INVARIANTS RestoreOwed MemoryMatchesDisk RestorePointNeverFull RestoredOncePerFault
PROPERTIES RestoredWhenDue StopHonoured
\* Every command, fault and kill is used up: nothing is left to do.
CHECK_DEADLOCK FALSE
