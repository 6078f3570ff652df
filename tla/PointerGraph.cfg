SPECIFICATION Spec
CONSTANTS
  Programs <- AllPrograms
  MinOffset <- LowOffset
  MaxOffset = 4
  MinWide <- WideLow
  MaxWide = 9
  AllOnes = 7
  ReservedLimit = 2
INVARIANTS
  ExecutionsCovered
  ValueProofsSound
  LanesExact
CHECK_DEADLOCK FALSE
