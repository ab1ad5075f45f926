CONSTANTS
  Passwords = {p1, p2}
  NoPassword = noPassword
  Faults <- AnyFault
SPECIFICATION Spec
INVARIANTS
  TypeOK
  Assumed
PROPERTIES
  AnswersAreTrue
  StrandedUntilReboot
  DataLossIsAsked
  SealedDataIsUnreachable
  ErasedStaysErased
  ImplementsVolumeService
