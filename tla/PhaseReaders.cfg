CONSTANTS
    Functions <- MCFunctions
    Main = "main"
    Programs <- MCPrograms
    MaxDescent = 2
    MaxFrames = 5
SPECIFICATION Spec
INVARIANT
    EveryReadPhased
CHECK_DEADLOCK FALSE
