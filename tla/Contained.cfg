CONSTANTS
  Passwords = {p1, p2}
  NoPassword = noPassword
  Faults <- ContainedFaults
SPECIFICATION Spec
INVARIANTS
  StrandedOnlyByFormat
