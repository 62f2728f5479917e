SPECIFICATION FairSpec
CONSTANTS
  Window = 3
  Deadband = 0
  HeatMinOn = 2
  CoolMinOn = 2
  ReverseIdle = 3
  StaleTimeout = 3
  ChipTimeout = 1
  Efforts <- BothWays
  Outcomes = {"ok"}
  Faults = {}
  PlugsAtStart = {"off"}
  MaxAge = 12
  Period = 2
  TickS = 1
  Interrupts = TRUE
INVARIANTS
  TypeOK
  ShutdownLeavesOff
PROPERTIES
  StaleOutputOff
  FullEffortHeats
CHECK_DEADLOCK FALSE
