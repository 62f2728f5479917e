SPECIFICATION FairSpec
CONSTANTS
  Full = 20
  Kp = 2
  Ki = 1
  Kff = 2
  Limit = 18
  Period = 1
  DtMax = 2
  AlphaAmbient = 1
  AlphaInternal = 1
  AlphaUnit = 2
  Setpoint = 5
  Low = 0
  High = 2
  Ambients = {0, 2}
  Internals = {0, 4, 6, 12}
  Gaps = {1, 3}
  MaxAge = 3
INVARIANTS
  TypeOK
  NoWindup
  ColderHeatsMore
PROPERTIES
  NoLargeJump
  PersistentErrorWins
