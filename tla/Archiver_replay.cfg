SPECIFICATION FairSpec
CONSTANTS
  Kinds = {"good", "malformed"}
  MaxEntries = 2
  MaxLen = 1
  BatchMax = 1
  Trimming = TRUE
  RedisFails = FALSE
  ClientRetries = FALSE
  DatedIds = TRUE
  Moments = {"once"}
INVARIANTS
  TypeOK
  PendingFirst
PROPERTIES
  GoodArchived

