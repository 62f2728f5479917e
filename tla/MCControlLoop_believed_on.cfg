SPECIFICATION FairSpec
CONSTANTS
  Window = 3
  Deadband = 0
  HeatMinOn = 2
  CoolMinOn = 2
  ReverseIdle = 1
  StaleTimeout = 2
  ChipTimeout = 1
  Efforts <- BothWays
  Outcomes = {"ok", "lost"}
  Faults = {}
  PlugsAtStart = {"off"}
  MaxAge = 4
  Period = 2
  TickS = 1
  Interrupts = FALSE
PROPERTIES
  FullEffortHeats
CHECK_DEADLOCK FALSE
