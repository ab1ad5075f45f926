CONSTANTS
  Passwords = {p1}
  NoPassword = noPassword
  Faults = {}
SPECIFICATION Spec
INVARIANTS
  FsckResolves
