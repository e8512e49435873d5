\* Profile limits: two profiles, one with limits remembered; two commands, one switch,
\* one trouble. GPU queue: two clients, three calls, one fault, one boot.
\* Attributes: two clients, three calls, two CPUs, one trouble.
SPECIFICATION PartSpec
CONSTANTS
  Profiles = {"silent", "turbo"}
  Limits <- TwoLimits
  Cpu <- OneCpu
  Nvidia <- OneGpu
  Interactive = {"curve", "core"}
  Values = {"low", "high"}
  InitialFiles <- Files
  MaxCommands = 2
  MaxSwitches = 1
  MaxTroubles = 1
  Callers = {"ui", "other"}
  MaxCalls = 3
  MaxFaults = 1
  MaxBoots = 1
  Cpus = {0, 1}
INVARIANTS LimitsMatchFile TrackedIsInForce RememberedInForce CallersKnow
PROPERTIES LimitsFollowed ConfirmedIsNext
\* Every call to hardwared is used up: nothing is left to do there.
CHECK_DEADLOCK FALSE
