SPECIFICATION CertifiedSpec
CONSTANTS
  Programs <- FrontedPrograms
  MinOffset <- LowOffset
  MaxOffset = 4
  MinWide <- WideLow
  MaxWide = 9
  AllOnes = 7
  ReservedLimit = 2
  MaxPromoted = 5
  MaxClosed = 30
  Limits <- SettingsOf
  MaxContexts = 2
  MaxOrigins = 2
INVARIANTS
  CallsAnswered
CHECK_DEADLOCK FALSE
