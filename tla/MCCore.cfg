SPECIFICATION CoreSpec
CONSTANTS
    t1 = t1  t2 = t2  w1 = w1  w2 = w2  s1 = s1  none = none
    Scene = {"two tasks", "slots", "paused", "resumed", "restarted"}
    Task <- TwoTasks
    Workspace = {w1, w2}
    WorkspaceOf <- OneWorkspace
    MaxRuns = 1
    NSteps = 2
    ApprovalSteps <- BothSteps
    ScopeOf <- SameScope
    NoScope = none
    MaxSlots = 2
    MaxSessions = 2
    HistoryLimit = 2
    Interruptible = {t1, t2}
    Pausable = {}
    BootStatus = {"absent"}
INVARIANTS
    TypeOK
    WorkspaceSerialized
    ApprovalGate
    InterruptNeverCompletes
    AwaitingIsAnswerable
    IndexEntriesHaveWaiters
    ExecutorsStaySafe
PROPERTIES
    VerdictIsFinal
    CompletedStaysDone
CHECK_DEADLOCK FALSE
