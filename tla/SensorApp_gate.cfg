SPECIFICATION FairSpec
CONSTANTS
  BurstTimeout = 1
  SampleMaxAge = 1
  MaxAge = 3
  ReportPeriod = 3
  MaxPublishedAge = 6
  MaxPosted = 2
  MaxWaiting = 1
INVARIANTS
  TypeOK
  GateCloses
  ScanOwned
  TimeoutBelongsToBurst
  GateFollowsPolicy
  PublishedIsRecent
PROPERTIES
  BurstsEnd
  CallbackAfterCapture
  GateClosesAfterRemoval
  BurstsGoOn
