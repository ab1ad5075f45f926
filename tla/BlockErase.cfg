CONSTANTS
  DriveSize = 5
  BlockSize = 2
  MaxRetry = 2
  Modulus = 8
  HeaderSize = 2
  Content = "pattern"
SPECIFICATION AtomicSpec
INVARIANTS
  TypeOK
  IndexFollowsOffset
  OverwriteIsExact
  VerifyIsExact
PROPERTIES
  EveryMethodEnds
  EveryStepAdvances
  ImplementsVolumeSteps
