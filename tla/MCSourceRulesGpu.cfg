\* GPU Optimized and one rule, two commands, a change of the source, a trouble.
SPECIFICATION FairSpec
CONSTANTS
  Fields = {"hz"}
  Values = {"high"}
  ProductGpu = TRUE
  Stored <- OptimizedOnly
  MaxCommands = 2
  MaxPlugs = 1
  MaxTroubles = 1
PROPERTIES UltimateKept OptimizedSettles
CHECK_DEADLOCK FALSE
