SPECIFICATION FairSpec
CONSTANTS
  Window = 3
  Deadband = 0
  HeatMinOn = 2
  CoolMinOn = 2
  ReverseIdle = 3
  StaleTimeout = 3
  ChipTimeout = 1
  Efforts <- BothWays
  Outcomes = {"ok", "lost"}
  Faults = {}
  PlugsAtStart = {"off"}
  MaxAge = 6
  Period = 2
  TickS = 1
  Interrupts = TRUE
INVARIANTS
  IdleMeansOff
PROPERTIES
  PlugsGapped
  PulsesAskedFor
  StaleTurnsOff
CHECK_DEADLOCK FALSE
