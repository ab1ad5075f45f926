CONSTANTS
  Passwords = {p1}
  NoPassword = noPassword
  Faults = {"mount", "rmdir"}
SPECIFICATION Spec
INVARIANTS
  UnlockRelocks
