CONSTANTS
  Passwords = {p1}
  NoPassword = noPassword
  Faults = {"crash"}
SPECIFICATION RecoverySpec
PROPERTIES
  VolumeComesBack
CHECK_DEADLOCK FALSE
