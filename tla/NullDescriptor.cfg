SPECIFICATION Spec
CONSTANTS
  d1 = d1
  d2 = d2
  Drives = {d1, d2}
  NoDrive = NoDrive
  Machines <- SomeMachines
  Configs <- SomeConfigs
  DefaultMax = 10
  DefaultMin = 2
  MaxErrors = 2
  SectorSize = 2
  ArgRange = 2
\* With a placeholder the daemon waits for events that change nothing.
PROPERTIES
  OpenFailureIsSurvived
CHECK_DEADLOCK FALSE
