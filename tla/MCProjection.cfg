SPECIFICATION ProjectionSpec
CONSTANTS
    mc = mc jobs = jobs l1 = l1 l2 = l2
    Scene = {"stay", "settles", "anything"}
    Scope = {mc, jobs}
    Listener = {l1, l2}
    Asked <- BothAtOnce
    Reread = {}
    Leaver = {}
    MayLag = FALSE
    MayFail = TRUE
    MaxRevision = 3
    MaxCall = 5
INVARIANTS
    
    ReadersServed
PROPERTY
    MirrorSpec
CHECK_DEADLOCK FALSE
