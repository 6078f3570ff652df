SPECIFICATION FairSpec
CONSTANTS
  x = x
  y = y
  z = z
  w = w
  A = A
  B = B
  R = R
  ext = ext
  NoLabel = NoLabel
  MaxOffset = 2
  Nodes <- MCNodes
  Objects <- MCObjects
  Regions <- MCRegions
  Labels <- MCLabels
  Locations <- MCLocations
  UnknownLocation <- MCUnknown
  LaneLocations <- MCLanes
  KnownLocations <- MCKnown
  AddLocation <- MCAdd
  MayAlias <- MCAlias
  Programs <- MCPrograms
  Solutions <- MCSolutions
  LaneCap = 1
  SccEnabled = TRUE
  SccMinEdges = 3
INVARIANTS
  QuiescentSound
  Precise
PROPERTIES
  IdentitiesStable
  Terminates
CHECK_DEADLOCK FALSE
