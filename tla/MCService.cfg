SPECIFICATION ServiceSpec
CONSTANTS
    c1 = c1 c2 = c2 s1 = s1 s2 = s2 t1 = t1 t2 = t2 t3 = t3 k1 = k1 k2 = k2 n1 = n1
    x1 = x1 x2 = x2 none = none sweeper = sweeper
    N = 3 Named = {0, 1, 2, 3}
    Scene = {"records", "full", "crash", "evicted",
             "acp", "sub-agents", "sub-agents steady", "sub-agent calls",
             "rate", "probing", "closing", "batch", "batch tries", "batch again", "plan"}
INVARIANTS
    
    AcpRunsEndAlone
    SubAgentsInHand
    LimitsRespected
    BatchSound
    PlanIsRight
PROPERTIES
    
    ClosedByProbes
CHECK_DEADLOCK FALSE
