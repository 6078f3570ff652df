SPECIFICATION Spec
CONSTANTS
  buf = buf
  len = len
  log = log
  pair = pair
  NoGroup = NoGroup
  Globals <- MCGlobals
  Groups <- MCGroups
  GroupOf <- MCGroupOf
  Conflicting <- MCConflicts
  Inputs <- MCAnalyses
  OverrideFiles <- MCOverrideFiles
  MayCrash = TRUE
INVARIANTS
  JointUniform
  NothingInvented
  SelectionExecutable
PROPERTIES
  CommitRepairs
  OnlyLowers
