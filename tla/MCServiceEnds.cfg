SPECIFICATION FairServiceSpec
CONSTANTS
    c1 = c1 s1 = s1 s2 = s2 t1 = t1 t2 = t2 k1 = k1 k2 = k2 n1 = n1 w1 = w1 w2 = w2 x1 = x1
    none = none sweeper = sweeper
    Caller = {c1} Request = {s1} Task = {t1} HistoryLimit = 2 Breaker = 2
    Happens = {"crash", "fail", "refuse"} MaxWrites = 2 MaxTime = 7 None = none
    Scene = {"executors end", "records", "acp ends", "sub-agents end", "recovery", "batch ends"}
INVARIANT
    QueuedHasRunner
PROPERTIES
    
    ExecutorsReturn
    StopEnds
    PlacesComeBack
    Recovers
    BatchEnds
CHECK_DEADLOCK FALSE
