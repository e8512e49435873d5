\* Two levels besides off, two presses, two changes of source or settings, one idle
\* spell, one fault.
\* Capabilities: two daemons that stop or start or questions that fail.
SPECIFICATION PartSpec
CONSTANTS
  MaxLevel = 2
  Timeouts = {30}
  MaxPresses = 2
  MaxSwitches = 2
  MaxIdles = 1
  MaxFaults = 1
  MaxEvents = 2
  MaxMishaps = 2
INVARIANTS LightKept GatesAreTrue
PROPERTIES UndimmedOnInput TimeoutFollows StopsUndimmed GatesFollow
\* A closed application does nothing more.
CHECK_DEADLOCK FALSE
