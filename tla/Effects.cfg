SPECIFICATION ClientsSpec
CONSTANTS
    main = main  f = f  g = g  ext = ext
    a = a  b = b  c = c  n = n  m = m  s1 = s1  s2 = s2  s3 = s3
    NoGlobal = NoGlobal  Local = Local  Omega = Omega  Spawn = Spawn  Signal = Signal  Anywhere = Anywhere  p1 = p1
    Main = main
    Funcs <- MCFuncs
    Declared <- MCDeclared
    Globals <- MCGlobals
    Programs <- MCClientPrograms
    FanoutLimit = 1
    TransitiveLimit = 2
    MaxFrames = 5
INVARIANTS AccessesAttributed SummariesExact StationaryHolds ContextThreaded CleanComponentsClosed
    LocksSound UnwrittenStaysUnwritten ContextsMarked
