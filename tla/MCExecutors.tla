---------------------------- MODULE MCExecutors ----------------------------
(***************************************************************************)
(* More instances of AgentTask for TLC, one in each scene, as explained in *)
(* MCService: the slots that bound what the workspace lock does not; two   *)
(* executors of one task, alone and beside another task on the one slot    *)
(* with the one session; a restart with a history of one.                  *)
(***************************************************************************)
EXTENDS Naturals

CONSTANTS t1, t2, w1, w2, s1, none

VARIABLES scene, status, intr, cur, err, steps, approved, pend, index, stored, older,
          decisions, pc, at, woken, outcome, wsHeld, slots

SameScope == [t \in {t1, t2} |-> [i \in 1..2 |-> s1]]
Slots == INSTANCE AgentTask WITH
    Task <- {t1, t2}, Workspace <- {w1, w2},
    WorkspaceOf <- [t \in {t1, t2} |-> IF t = t1 THEN w1 ELSE w2],
    MaxRuns <- 1, NSteps <- 1,
    ApprovalSteps <- [t \in {t1, t2} |-> IF t = t1 THEN {1} ELSE {}],
    ScopeOf <- SameScope, NoScope <- none, MaxSlots <- 1, MaxSessions <- 2,
    HistoryLimit <- 2, Interruptible <- {t1, t2}, Pausable <- {}, BootStatus <- {"absent"}
Paused == INSTANCE AgentTask WITH
    Task <- {t1}, Workspace <- {w1}, WorkspaceOf <- [t \in {t1} |-> w1],
    MaxRuns <- 2, NSteps <- 2, ApprovalSteps <- [t \in {t1} |-> 1..2],
    ScopeOf <- [t \in {t1} |-> [i \in 1..2 |-> none]], NoScope <- none,
    MaxSlots <- 2, MaxSessions <- 1, HistoryLimit <- 1,
    Interruptible <- {t1}, Pausable <- {t1},
    BootStatus <- {"absent", "queued", "interrupted", "awaiting_approval", "paused"}
Resumed == INSTANCE AgentTask WITH
    Task <- {t1, t2}, Workspace <- {w1}, WorkspaceOf <- [t \in {t1, t2} |-> w1],
    MaxRuns <- 2, NSteps <- 1,
    ApprovalSteps <- [t \in {t1, t2} |-> IF t = t1 THEN {1} ELSE {}],
    ScopeOf <- SameScope, NoScope <- none, MaxSlots <- 1, MaxSessions <- 1,
    HistoryLimit <- 1, Interruptible <- {t2}, Pausable <- {t1},
    BootStatus <- {"absent", "paused"}
Restarted == INSTANCE AgentTask WITH
    Task <- {t1, t2}, Workspace <- {w1}, WorkspaceOf <- [t \in {t1, t2} |-> w1],
    MaxRuns <- 2, NSteps <- 1,
    ApprovalSteps <- [t \in {t1, t2} |-> IF t = t1 THEN {1} ELSE {}],
    ScopeOf <- SameScope, NoScope <- none, MaxSlots <- 1, MaxSessions <- 1,
    HistoryLimit <- 1, Interruptible <- {t1, t2}, Pausable <- {},
    BootStatus <- {"absent", "queued", "interrupted", "awaiting_approval", "paused"}

\* Init gives the variables of a scene that is not here those of a service without tasks.
Init == CASE scene = "paused" -> Paused!Init
          [] scene = "resumed" -> Resumed!Init
          [] scene = "restarted" -> Restarted!Init
          [] OTHER -> Slots!Init
Next == \/ scene = "slots" /\ Slots!Next
        \/ scene = "paused" /\ Paused!Next
        \/ scene = "resumed" /\ Resumed!Next
        \/ scene = "restarted" /\ Restarted!Next

-----------------------------------------------------------------------------
\* The semaphore of execution slots bounds what the workspace locks do not.  After a pause and
\* a resume an old and a new executor of one task exist: they are not both inside, an approval
\* the one got does not let the other run the step, neither completes a task whose interrupt
\* stands; and there as after a restart who awaits an approval can be answered, no entry of the
\* approval index is left over, and only what is done is completed.
ExecutorsStaySafe ==
    /\ scene = "slots" => Slots!SlotsRespected
    /\ scene = "paused" =>
         /\ Paused!WorkspaceSerialized /\ Paused!ApprovalGate /\ Paused!InterruptNeverCompletes
         /\ Paused!AwaitingIsAnswerable /\ Paused!IndexEntriesHaveWaiters
    /\ scene = "resumed" =>
         /\ Resumed!AwaitingIsAnswerable /\ Resumed!IndexEntriesHaveWaiters
    /\ scene = "restarted" =>
         /\ Restarted!AwaitingIsAnswerable /\ Restarted!IndexEntriesHaveWaiters
         /\ Restarted!CompletedMeansDone

\* A recovered task does not run a completed step again.
StepStaysDone == scene = "restarted" => Restarted!CompletedStays
=============================================================================
