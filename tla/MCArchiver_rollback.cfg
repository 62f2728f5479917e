SPECIFICATION Spec
CONSTANTS
  Kinds = {"good", "unstamped"}
  MaxEntries = 2
  MaxLen = 2
  BatchMax = 2
  Trimming = FALSE
  RedisFails = TRUE
  ClientRetries = TRUE
  DatedIds = TRUE
  Moments = {earlier, later}
SYMMETRY ClockSymmetry
INVARIANTS
  NothingForgotten
  OneRowEach
