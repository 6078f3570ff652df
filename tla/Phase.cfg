CONSTANTS
    Functions <- MCFunctions
    Main = "main"
    Programs <- MCPrograms
    MaxDescent = 2
    MaxFrames = 5
SPECIFICATION Spec
INVARIANTS
    QuiescentOncePublished
    ReadsPhased
    InitSubtreeCarries
CHECK_DEADLOCK FALSE
