SPECIFICATION FairSpec
CONSTANTS
  Kinds = {"good", "refused"}
  MaxEntries = 1
  MaxLen = 1
  BatchMax = 1
  Trimming = FALSE
  RedisFails = FALSE
  ClientRetries = FALSE
  DatedIds = TRUE
  Moments = {"once"}
PROPERTIES
  GoodArchived

