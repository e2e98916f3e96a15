SPECIFICATION FairSpec
CONSTANTS
    t1 = t1  t2 = t2  w1 = w1  w2 = w2  s1 = s1  none = none
    Task <- OneTask
    Workspace = {w1, w2}
    WorkspaceOf <- OneWorkspace
    MaxRuns = 1
    NSteps = 1
    ApprovalSteps <- BothSteps
    ScopeOf <- SameScope
    NoScope = none
    MaxSlots = 1
    MaxSessions = 1
    HistoryLimit = 1
    Interruptible = {}
    Pausable = {}
    BootStatus = {"awaiting_approval"}
PROPERTIES
    DecidedSettles
CHECK_DEADLOCK FALSE
