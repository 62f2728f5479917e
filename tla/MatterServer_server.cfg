SPECIFICATION Spec
CONSTANTS
  TiltTemps = {0, 68, 65535}
  Gravities = {1050, 65535}
  Above = {21470000}
  Below = {509999}
  None = None
  Never = Never
INVARIANTS
  TypeOK
  ReadingsTrue
  OthersKeepDefaults
  ServersReady
  CommandsServed
  PrivilegesAligned
  ShutdownReleases
