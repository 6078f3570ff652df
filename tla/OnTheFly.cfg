SPECIFICATION OracleSpec
CONSTANTS
  x = x
  y = y
  z = z
  w = w
  A = A
  f = f
  g = g
  R = R
  D = D
  l = l
  s = s
  t = t
  Zero = Zero
  Anywhere = Anywhere
  NoLabel = NoLabel
  ArgLabel = l
  ResultLabel = l
  Nodes <- MCNodes
  Objects <- MCObjects
  Regions <- MCRegions
  Labels <- MCLabels
  Locations <- MCLocations
  UnknownLocation = Anywhere
  LaneLocations <- MCNoLanes
  KnownLocations <- MCKnown
  AddLocation <- MCAdd
  MayAlias <- MCAlias
  Programs <- MCPrograms
  LaneCap = 1
  SccEnabled = TRUE
  SccMinEdges = 3
  Functions <- MCFunctions
  CodeRegions <- MCCode
  CallGraphs <- MCCallGraphs
  Controls <- MCControls
  ClosedGraphs <- MCClosedGraphs
INVARIANTS
  CompleteIsClosed
  BoundsLeast
  SubtractiveDifferential
  PublishedSound
PROPERTIES
  SolverSpec
  Decides
CHECK_DEADLOCK FALSE
