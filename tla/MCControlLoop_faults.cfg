SPECIFICATION Spec
CONSTANTS
  Window = 3
  Deadband = 0
  HeatMinOn = 2
  CoolMinOn = 2
  ReverseIdle = 1
  StaleTimeout = 2
  ChipTimeout = 1
  Efforts <- BothWays
  Outcomes = {"ok", "lost", "unacked"}
  Faults = {"raise", "crash", "restart"}
  PlugsAtStart = {"on", "off"}
  MaxAge = 4
  Period = 2
  TickS = 1
  Interrupts = TRUE
INVARIANTS
  Interlock
  BeliefExcludesOther
PROPERTIES
  PlugsInterlocked
CHECK_DEADLOCK FALSE
