CONSTANTS
  Paths = {a, b}
  MaxRetries = 1
  MaxErrors = 2
  ScanIds = {1}
SPECIFICATION Spec
PROPERTIES
  CallableAgain
CHECK_DEADLOCK FALSE
