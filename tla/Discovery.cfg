CONSTANTS
  Paths = {a, b}
  MaxRetries = 1
  MaxErrors = 3
  ScanIds = {1, 2}
SPECIFICATION Spec
INVARIANTS
  TypeOK
  OnlyConfigIsPending
PROPERTIES
  VolumeStaysIfAllAnswer
  OnlyConfigIsFound
CHECK_DEADLOCK FALSE
