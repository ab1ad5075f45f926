SPECIFICATION Spec
CONSTANTS
  d1 = d1
  d2 = d2
  Drives = {d1, d2}
  NoDrive = NoDrive
  Machines <- SomeMachines
  Configs <- SomeConfigs
  DefaultMax = 10
  DefaultMin = 2
  MaxErrors = 2
  SectorSize = 2
  ArgRange = 2
INVARIANTS
  TypeOK
  BkopsIsProgrammedOnce
  PublishedIsTrue
PROPERTIES
  SanitizeLeavesNothing
  GeometryAnswersTrue
  DriveComesUp
  SetUpAdvances
\* With a placeholder the daemon waits for events that change nothing.
CHECK_DEADLOCK FALSE
