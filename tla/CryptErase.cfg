CONSTANTS
  MaxKeySlots = 4
SPECIFICATION Spec
INVARIANTS
  TypeOK
  EraseIsAllOrReported
  PassedAreGone
PROPERTIES
  ImplementsVolumeStep
