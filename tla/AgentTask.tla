----------------------------- MODULE AgentTask -----------------------------
(***************************************************************************)
(* The agent task runtime of code-runtime-service-rs: the shared task      *)
(* store (`ctx.agent_tasks`, an async RwLock), the executors that run a    *)
(* task step by step, the operator's RPC handlers (start, interrupt,       *)
(* pause, resume, approval decision), the approval timeout sweeper, and    *)
(* the store a restarted service boots with.                               *)
(*                                                                         *)
(* An action is one critical section of the store lock (or one event an    *)
(* executor waits for); between two of them any other executor or handler  *)
(* may run.  A step `i` is the source's `step_index + 1`, so that 0 can be *)
(* the `None` of `current_step`.  An executor is <<t, n>>: the n-th run    *)
(* spawned for task t since the service started.                           *)
(***************************************************************************)
EXTENDS Naturals, FiniteSets

CONSTANTS
    Task,           \* the tasks that may be started, or that a restart recovered
    Workspace,      \* the workspaces they run in
    WorkspaceOf,    \* the workspace of each task
    MaxRuns,        \* executors a task may be given (bounds the resumes)
    NSteps,         \* steps of every task
    ApprovalSteps,  \* steps that policy or an inspector lets run only with approval
    ScopeOf,        \* approval scope of each step
    NoScope,        \* the scope of a step kind that has none
    MaxSlots,       \* permits of agent_task_execution_slots
    MaxSessions,    \* CODE_RUNTIME_SERVICE_AGENT_SESSION_MAX_CONCURRENCY
    HistoryLimit,   \* agent_task_history_limit
    Interruptible,  \* tasks the operator interrupts  (bounds the environment)
    Pausable,       \* tasks the operator pauses      (bounds the environment)
    BootStatus      \* statuses a task may have when the service starts

Step == 1..NSteps
Run == Task \X (1..MaxRuns)
ApprovalId == (Task \X (0..MaxRuns)) \X Step  \* executor 0: before the restart
NoApproval == [id |-> <<>>, step |-> 0, decision |-> "none"]

ASSUME TaskAssumption == IsFiniteSet(Task) /\ WorkspaceOf \in [Task -> Workspace]
ASSUME BoundAssumption ==
    /\ MaxRuns \in Nat /\ NSteps \in Nat /\ MaxSlots \in Nat
    /\ MaxSessions \in Nat /\ HistoryLimit \in Nat
ASSUME ApprovalAssumption == ApprovalSteps \in [Task -> SUBSET Step]
ASSUME BootAssumption ==
    BootStatus \subseteq {"absent", "queued", "interrupted", "awaiting_approval", "paused"}

VARIABLES
    status,     \* summary.status, "absent" before the task is started
    intr,       \* interrupt_requested
    cur,        \* summary.current_step
    err,        \* summary.error_code
    steps,      \* status of each of summary.steps
    approved,   \* steps whose metadata holds an "approved" approval
    pend,       \* summary.pending_approval
    index,      \* store.approval_index: the approval ids it has an entry for
    stored,     \* the keys of store.tasks
    older,      \* store.order: <<u, t>> when u stands before t
    decisions,  \* history: the decisions acknowledged with "recorded": true
    pc,         \* where each executor is
    at,         \* the step each executor is at
    woken,      \* a Notify reached the executor since it began to wait
    outcome,    \* what an executor learned and has not yet acted upon
    wsHeld,     \* executors that hold the lock of their workspace
    slots       \* executors that hold an execution slot

taskVars  == <<status, intr, cur, err, steps, approved>>
storeVars == <<taskVars, pend, index, stored, older, decisions>>
lockVars  == <<wsHeld, slots>>
execVars  == <<pc, at, woken, outcome, wsHeld, slots>>
vars      == <<storeVars, execVars>>

Status == {"absent", "queued", "running", "awaiting_approval", "paused",
           "completed", "failed", "interrupted"}
StepStatus == Status \ {"absent"}
ErrorCode == {"none", "TASK_INTERRUPTED", "TASK_PAUSED", "STEP_FAILED",
              "AGENT_SESSION_CONCURRENCY_LIMIT", "APPROVAL_TIMEOUT",
              "APPROVAL_REJECTED", "APPROVAL_UNAVAILABLE",
              "RUNTIME_RESTART_RECOVERY"}
Outcome == {"none", "approved", "rejected", "interrupted", "error", "timed_out"}

\* Where an executor may be, and the parts of its life the locks cover.
ApprovalPC == {"index", "appr_check", "appr_arm", "appr_wait", "close"}
WorkingPC  == {"preflight", "exec", "halt", "expire", "post"}
InsidePC   == {"begin", "head", "stop", "check", "inspect", "start_step", "wedged"}
                \cup ApprovalPC \cup WorkingPC
PC == {"idle", "spawned", "limit", "limit_fail", "ws_wait", "slot_wait",
       "leaving", "done"} \cup InsidePC

-----------------------------------------------------------------------------
(* Helpers. *)

TaskOf(r) == r[1]
RunsOf(t) == {r \in Run : TaskOf(r) = t}

\* Mutants: "failed" is forgotten; a pending approval is taken for an end.
FailedNotTerminal(s) == s \in {"completed", "interrupted"}
AwaitingIsTerminal(s) == s \in {"completed", "failed", "interrupted", "awaiting_approval"}

is_agent_task_terminal_status(s) == s \in {"completed", "failed", "interrupted"}
Present(t)  == t \in stored
\* Mutant: only a pause stops a task.
OnlyPauseStops(t) == status[t] = "paused"

Stopping(t) == intr[t] \/ status[t] \in {"interrupted", "paused"}

\* Mutant: a status the task summary does not have.
CancelledStatus(t) == IF status[t] = "paused" THEN "paused" ELSE "cancelled"

\* A stop that finds the task paused leaves it paused, else it is interrupted.
StopStatus(t) == IF status[t] = "paused" THEN "paused" ELSE "interrupted"
StopError(t)  == IF status[t] = "paused" THEN "TASK_PAUSED" ELSE "TASK_INTERRUPTED"

\* The store lock is free unless an executor waits for it while holding it.
StoreFree == \A r \in Run : pc[r] # "wedged"

SetStatus(t, s, e) == status' = [status EXCEPT ![t] = s] /\ err' = [err EXCEPT ![t] = e]
SetCur(t, i)  == cur' = [cur EXCEPT ![t] = i]
SetStep(t, i, s) == steps' = [steps EXCEPT ![t][i] = s]

Goto(r, l) == pc' = [pc EXCEPT ![r] = l]

\* `notify_waiters` reaches the executors of t that wait at one of these places.
Notify(t, places) ==
    woken' = [r \in Run |-> woken[r] \/ (TaskOf(r) = t /\ pc[r] \in places)]
InterruptWaits == {"ws_wait", "slot_wait", "exec"}
ApprovalWaits  == {"appr_wait"}

\* spawn_agent_task_execution: the first executor of t not used yet.
Spawn(t) ==
    \E r \in RunsOf(t) :
        /\ pc[r] = "idle"
        /\ \A q \in RunsOf(t) : q[2] < r[2] => pc[q] # "idle"
        /\ Goto(r, "spawned")

-----------------------------------------------------------------------------
(* The executor: run_agent_task. *)

InStore(r, l) == pc[r] = l /\ StoreFree

\* The task is no longer in the store: the executor returns.
TaskGone(r) ==
    /\ pc[r] \in {"spawned", "begin", "head", "check", "start_step", "post"}
         \/ (pc[r] = "inspect" /\ at[r] \in ApprovalSteps[TaskOf(r)])
    /\ StoreFree
    /\ ~Present(TaskOf(r))
    /\ Goto(r, "leaving")
    /\ UNCHANGED <<storeVars, at, woken, outcome, lockVars>>

Snapshot(r) ==
    /\ InStore(r, "spawned")
    /\ Present(TaskOf(r))
    /\ Goto(r, "limit")
    /\ UNCHANGED <<storeVars, at, woken, outcome, lockVars>>

\* enforce_agent_session_concurrency_limit counts under one lock ...
ActiveSessions(w) ==
    {t \in Task : Present(t) /\ WorkspaceOf[t] = w /\ ~is_agent_task_terminal_status(status[t])}
CheckSessionLimit(r) ==
    /\ InStore(r, "limit")
    /\ Goto(r, IF Cardinality(ActiveSessions(WorkspaceOf[TaskOf(r)])) <= MaxSessions
               THEN "ws_wait" ELSE "limit_fail")
    /\ UNCHANGED <<storeVars, at, woken, outcome, lockVars>>

\* ... and writes under another.
FailSessionLimit(r) ==
    LET t == TaskOf(r) IN
    /\ InStore(r, "limit_fail")
    /\ IF Present(t)
       THEN SetStatus(t, "failed", "AGENT_SESSION_CONCURRENCY_LIMIT") /\ SetCur(t, 0)
       ELSE UNCHANGED <<status, err, cur>>
    /\ Goto(r, "leaving")
    /\ UNCHANGED <<intr, steps, approved, pend, index, stored, older, decisions,
                   at, woken, outcome, lockVars>>

\* Mutants: the lock is keyed by task; one permit too many, one too few.
TaskFree(r) == \A q \in wsHeld : TaskOf(q) # TaskOf(r)
ExtraSlot == Cardinality(slots) <= MaxSlots
MissingSlot == Cardinality(slots) + 1 < MaxSlots

\* Each wait selects between what it waits for and the interrupt waiter.  The
\* first may win even when both are ready, so it does not look at `woken`.
WorkspaceFree(r) == \A q \in wsHeld : WorkspaceOf[TaskOf(q)] # WorkspaceOf[TaskOf(r)]
SlotFree == Cardinality(slots) < MaxSlots

AcquireWorkspace(r) ==
    /\ pc[r] = "ws_wait"
    /\ WorkspaceFree(r)
    /\ wsHeld' = wsHeld \cup {r}
    /\ Goto(r, "slot_wait")
    /\ woken' = [woken EXCEPT ![r] = FALSE]
    /\ UNCHANGED <<storeVars, at, outcome, slots>>

AcquireSlot(r) ==
    /\ pc[r] = "slot_wait"
    /\ SlotFree
    /\ slots' = slots \cup {r}
    /\ Goto(r, "begin")
    /\ woken' = [woken EXCEPT ![r] = FALSE]
    /\ UNCHANGED <<storeVars, at, outcome, wsHeld>>

\* read_agent_interrupt_message after a wake; None sends the loop round again.
WaitWake(r) ==
    /\ pc[r] \in {"ws_wait", "slot_wait"}
    /\ StoreFree
    /\ woken[r]
    /\ woken' = [woken EXCEPT ![r] = FALSE]
    /\ Goto(r, IF Present(TaskOf(r)) /\ Stopping(TaskOf(r)) THEN "leaving" ELSE pc[r])
    /\ UNCHANGED <<storeVars, at, outcome, lockVars>>

Begin(r) ==
    LET t == TaskOf(r) IN
    /\ InStore(r, "begin")
    /\ Present(t)
    /\ \/ /\ Stopping(t)
          /\ Goto(r, "leaving")
          /\ UNCHANGED <<status, at>>
       \/ /\ ~Stopping(t)
          /\ status' = [status EXCEPT ![t] = "running"]
          /\ at' = [at EXCEPT ![r] = 1]
          /\ Goto(r, "head")
    /\ UNCHANGED <<intr, cur, err, steps, approved, pend, index, stored, older, decisions,
                   woken, outcome, lockVars>>

MoreSteps(r) == at[r] \in Step

\* The head of the step loop; it does not look for status "interrupted".
StepHead(r) ==
    LET t == TaskOf(r) IN
    /\ InStore(r, "head")
    /\ MoreSteps(r)
    /\ Present(t)
    /\ Goto(r, IF intr[t] \/ status[t] = "paused" THEN "stop" ELSE "check")
    /\ UNCHANGED <<storeVars, at, woken, outcome, lockVars>>

\* The stop is written, and then checkpointed while the write guard is held:
\* the checkpoint waits for the store's read lock for ever.
Stop(r) ==
    LET t == TaskOf(r) IN
    /\ InStore(r, "stop")
    /\ IF Present(t)
       THEN SetStatus(t, StopStatus(t), StopError(t)) /\ SetCur(t, 0)
       ELSE UNCHANGED <<status, err, cur>>
    /\ Goto(r, "wedged")
    /\ UNCHANGED <<intr, steps, approved, pend, index, stored, older, decisions,
                   at, woken, outcome, lockVars>>

\* A step that is already completed is skipped.
CheckStep(r) ==
    LET t == TaskOf(r) IN
    /\ InStore(r, "check")
    /\ Present(t)
    /\ \/ /\ steps[t][at[r]] = "completed"
          /\ at' = [at EXCEPT ![r] = @ + 1]
          /\ Goto(r, "head")
       \/ /\ steps[t][at[r]] # "completed"
          /\ Goto(r, "inspect")
          /\ UNCHANGED at
    /\ UNCHANGED <<storeVars, woken, outcome, lockVars>>

\* The step is refused or cut off, and the task fails with it.
FailStep(r) ==
    LET t == TaskOf(r) IN
    /\ IF Present(t)
       THEN /\ SetStatus(t, "failed", "STEP_FAILED")
            /\ SetCur(t, 0)
            /\ SetStep(t, at[r], "failed")
       ELSE UNCHANGED <<status, err, cur, steps>>
    /\ Goto(r, "leaving")
    /\ UNCHANGED <<intr, approved, pend, index, stored, older, decisions,
                   at, woken, outcome, lockVars>>

\* resolve_agent_step_read_requirement_violation found no fresh read.
MissingFreshRead(r) == InStore(r, "inspect") /\ Present(TaskOf(r)) /\ FailStep(r)

\* An inspector denies the step, or a guardrail blocks it.
BlockStep(r) == (InStore(r, "inspect") \/ InStore(r, "preflight")) /\ FailStep(r)

InspectAllow(r) ==
    /\ pc[r] = "inspect"
    /\ at[r] \notin ApprovalSteps[TaskOf(r)]
    /\ Goto(r, "start_step")
    /\ UNCHANGED <<storeVars, at, woken, outcome, lockVars>>

\* task_has_prior_approved_scope: an earlier completed step was approved for it.
HasPriorApproval(t, i) ==
    /\ ScopeOf[t][i] # NoScope
    /\ \E j \in Step : /\ j < i
                       /\ steps[t][j] = "completed"
                       /\ j \in approved[t]
                       /\ ScopeOf[t][j] = ScopeOf[t][i]

ReuseApproval(r) ==
    LET t == TaskOf(r) IN
    /\ InStore(r, "inspect")
    /\ Present(t)
    /\ at[r] \in ApprovalSteps[t]
    /\ HasPriorApproval(t, at[r])
    /\ approved' = [approved EXCEPT ![t] = @ \cup {at[r]}]
    /\ Goto(r, "start_step")
    /\ UNCHANGED <<status, intr, cur, err, steps, pend, index, stored, older, decisions,
                   at, woken, outcome, lockVars>>

RequestApproval(r) ==
    LET t == TaskOf(r) IN
    /\ InStore(r, "inspect")
    /\ Present(t)
    /\ at[r] \in ApprovalSteps[t]
    /\ ~HasPriorApproval(t, at[r])
    /\ status' = [status EXCEPT ![t] = "awaiting_approval"]
    /\ SetCur(t, at[r])
    /\ pend' = [pend EXCEPT ![t] = [id |-> <<r, at[r]>>, step |-> at[r], decision |-> "none"]]
    /\ SetStep(t, at[r], "awaiting_approval")
    /\ approved' = [approved EXCEPT ![t] = @ \ {at[r]}]
    /\ Goto(r, "index")
    /\ UNCHANGED <<intr, err, index, stored, older, decisions, at, woken, outcome, lockVars>>

\* The index entry is a second critical section of the same request.
IndexApproval(r) ==
    /\ InStore(r, "index")
    /\ index' = index \cup {<<r, at[r]>>}
    /\ Goto(r, "appr_check")
    /\ UNCHANGED <<taskVars, pend, stored, older, decisions, at, woken, outcome, lockVars>>

\* wait_for_agent_task_approval: what one look at the store tells the waiter.
ApprovalOutcome(r) ==
    LET t == TaskOf(r) IN
    IF ~Present(t) THEN "error"
    ELSE IF intr[t] THEN "interrupted"
    ELSE IF pend[t].id = <<r, at[r]>> THEN pend[t].decision
    ELSE "none"

CheckDecision(r) ==
    /\ InStore(r, "appr_check")
    /\ outcome' = [outcome EXCEPT ![r] = ApprovalOutcome(r)]
    /\ Goto(r, IF ApprovalOutcome(r) = "none" THEN "appr_arm" ELSE "close")
    /\ UNCHANGED <<storeVars, at, woken, lockVars>>

\* `waiter.notified()` is created after the lock is released.
ArmWaiter(r) ==
    /\ pc[r] = "appr_arm"
    /\ woken' = [woken EXCEPT ![r] = FALSE]
    /\ Goto(r, "appr_wait")
    /\ UNCHANGED <<storeVars, at, outcome, lockVars>>

ApprovalWake(r) ==
    /\ pc[r] = "appr_wait"
    /\ woken[r]
    /\ Goto(r, "appr_check")
    /\ UNCHANGED <<storeVars, at, woken, outcome, lockVars>>

ApprovalTimeout(r) ==
    /\ pc[r] = "appr_wait"
    /\ ~woken[r]
    /\ outcome' = [outcome EXCEPT ![r] = "timed_out"]
    /\ Goto(r, "close")
    /\ UNCHANGED <<storeVars, at, woken, lockVars>>

\* What each way of not being approved makes of the task and of the step.
Refusal == [rejected    |-> <<"failed", "APPROVAL_REJECTED">>,
            interrupted |-> <<"interrupted", "TASK_INTERRUPTED">>,
            error       |-> <<"failed", "APPROVAL_UNAVAILABLE">>,
            timed_out   |-> <<"failed", "APPROVAL_TIMEOUT">>]

\* Mutants: only an explicit rejection refuses the step; the entry stays.
FailsOpen(r) == outcome[r] \notin {"rejected", "interrupted"}
EntryStays(r) == index

Granted(r) == outcome[r] = "approved"
Withdrawn(r) == index \ {<<r, at[r]>>}
Open(t) == Present(t) /\ ~is_agent_task_terminal_status(status[t])

\* The wait is over: the approval is withdrawn, and a task that is not terminal
\* by now runs on or is finalized (try_finalize_agent_task_runtime).
CloseApproval(r) ==
    LET t == TaskOf(r) IN
    /\ InStore(r, "close")
    /\ index' = Withdrawn(r)
    /\ pend' = IF Present(t) THEN [pend EXCEPT ![t] = NoApproval] ELSE pend
    /\ \/ /\ ~Open(t)
          /\ Goto(r, "leaving")
          /\ UNCHANGED <<status, err, steps, approved>>
       \/ /\ Open(t) /\ Granted(r)
          /\ status' = [status EXCEPT ![t] = "running"]
          /\ approved' = [approved EXCEPT ![t] = @ \cup {at[r]}]
          /\ Goto(r, "start_step")
          /\ UNCHANGED <<err, steps>>
       \/ /\ Open(t) /\ ~Granted(r)
          /\ SetStatus(t, Refusal[outcome[r]][1], Refusal[outcome[r]][2])
          /\ SetStep(t, at[r], Refusal[outcome[r]][1])
          /\ Goto(r, "leaving")
          /\ UNCHANGED approved
    /\ outcome' = [outcome EXCEPT ![r] = "none"]
    /\ UNCHANGED <<intr, cur, stored, older, decisions, at, woken, lockVars>>

\* Neither the interrupt flag nor the status is looked at before the step starts.
StartStep(r) ==
    LET t == TaskOf(r) IN
    /\ InStore(r, "start_step")
    /\ Present(t)
    /\ status' = [status EXCEPT ![t] = "running"]
    /\ SetCur(t, at[r])
    /\ SetStep(t, at[r], "running")
    /\ Goto(r, "preflight")
    /\ UNCHANGED <<intr, err, approved, pend, index, stored, older, decisions,
                   at, woken, outcome, lockVars>>

\* preflight_and_mark_tool_started lets the step run, and the skill is spawned.
Preflight(r) ==
    /\ pc[r] = "preflight"
    /\ Goto(r, "exec")
    /\ woken' = [woken EXCEPT ![r] = FALSE]
    /\ UNCHANGED <<storeVars, at, outcome, lockVars>>

\* The guardrails themselves fail: as BlockStep, but current_step is kept.
GuardrailError(r) ==
    LET t == TaskOf(r) IN
    /\ InStore(r, "preflight")
    /\ IF Present(t)
       THEN SetStatus(t, "failed", "STEP_FAILED") /\ SetStep(t, at[r], "failed")
       ELSE UNCHANGED <<status, err, steps>>
    /\ Goto(r, "leaving")
    /\ UNCHANGED <<intr, cur, approved, pend, index, stored, older, decisions,
                   at, woken, outcome, lockVars>>

\* The skill ends; its metadata is read before the result is written.
FinishStep(r) ==
    /\ InStore(r, "exec")
    /\ outcome' = [outcome EXCEPT ![r] =
           IF Present(TaskOf(r)) /\ at[r] \in approved[TaskOf(r)] THEN "approved" ELSE "none"]
    /\ Goto(r, "post")
    /\ UNCHANGED <<storeVars, at, woken, lockVars>>

\* A wake during the step: a stop request cancels the skill.
ExecWake(r) ==
    /\ InStore(r, "exec")
    /\ woken[r]
    /\ woken' = [woken EXCEPT ![r] = FALSE]
    /\ Goto(r, IF Present(TaskOf(r)) /\ Stopping(TaskOf(r)) THEN "halt" ELSE "exec")
    /\ UNCHANGED <<storeVars, at, outcome, lockVars>>

StepTimeout(r) ==
    /\ pc[r] = "exec"
    /\ Goto(r, "expire")
    /\ UNCHANGED <<storeVars, at, woken, outcome, lockVars>>

\* The cancelled skill has ended (or was aborted): the stop is recorded.
Halt(r) ==
    LET t == TaskOf(r) IN
    /\ InStore(r, "halt")
    /\ IF Present(t)
       THEN /\ SetStatus(t, StopStatus(t), StopError(t))
            /\ SetCur(t, 0)
            /\ SetStep(t, at[r], StopStatus(t))
       ELSE UNCHANGED <<status, err, cur, steps>>
    /\ Goto(r, "leaving")
    /\ UNCHANGED <<intr, approved, pend, index, stored, older, decisions,
                   at, woken, outcome, lockVars>>

\* The step ran into its timeout: the skill is cancelled and the task fails.
Expire(r) == InStore(r, "expire") /\ FailStep(r)

\* handle_step_post_exec_outcome, for a step that succeeded ...
StepSucceeded(r) ==
    LET t == TaskOf(r) IN
    /\ InStore(r, "post")
    /\ Present(t)
    /\ SetStep(t, at[r], "completed")
    /\ approved' = [approved EXCEPT ![t] =
           IF outcome[r] = "approved" THEN @ \cup {at[r]} ELSE @ \ {at[r]}]
    /\ \/ /\ intr[t]
          /\ SetStatus(t, StopStatus(t), StopError(t))
          /\ SetCur(t, 0)
          /\ Goto(r, "leaving")
          /\ UNCHANGED at
       \/ /\ ~intr[t]
          /\ at' = [at EXCEPT ![r] = @ + 1]
          /\ Goto(r, "head")
          /\ UNCHANGED <<status, err, cur>>
    /\ outcome' = [outcome EXCEPT ![r] = "none"]
    /\ UNCHANGED <<intr, pend, index, stored, older, decisions, woken, lockVars>>

\* ... and for one that failed or whose skill returned an error.
StepFailed(r) ==
    LET t == TaskOf(r) IN
    /\ InStore(r, "post")
    /\ Present(t)
    /\ SetStatus(t, "failed", "STEP_FAILED")
    /\ SetStep(t, at[r], "failed")
    /\ Goto(r, "leaving")
    /\ outcome' = [outcome EXCEPT ![r] = "none"]
    /\ UNCHANGED <<intr, cur, approved, pend, index, stored, older, decisions,
                   at, woken, lockVars>>

\* finalize_agent_task_completion, after the last step.
Finalize(r) ==
    LET t == TaskOf(r) IN
    /\ InStore(r, "head")
    /\ ~MoreSteps(r)
    /\ Present(t)
    /\ IF Stopping(t)
       THEN SetStatus(t, StopStatus(t), StopError(t))
       ELSE status' = [status EXCEPT ![t] = "completed"] /\ UNCHANGED err
    /\ SetCur(t, 0)
    /\ Goto(r, "leaving")
    /\ UNCHANGED <<intr, steps, approved, pend, index, stored, older, decisions,
                   at, woken, outcome, lockVars>>

\* Returning drops the slot's permit and the workspace guard.
Leave(r) ==
    /\ pc[r] = "leaving"
    /\ wsHeld' = wsHeld \ {r}
    /\ slots' = slots \ {r}
    /\ Goto(r, "done")
    /\ UNCHANGED <<storeVars, at, woken, outcome>>

ExecutorStep(r) ==
    \/ TaskGone(r)           \/ Snapshot(r)           \/ CheckSessionLimit(r)
    \/ FailSessionLimit(r)   \/ AcquireWorkspace(r)   \/ AcquireSlot(r)
    \/ WaitWake(r)           \/ Begin(r)              \/ StepHead(r)
    \/ Stop(r)               \/ CheckStep(r)          \/ MissingFreshRead(r)
    \/ BlockStep(r)          \/ InspectAllow(r)       \/ ReuseApproval(r)
    \/ RequestApproval(r)    \/ IndexApproval(r)      \/ CheckDecision(r)
    \/ ArmWaiter(r)          \/ ApprovalWake(r)       \/ ApprovalTimeout(r)
    \/ CloseApproval(r)      \/ StartStep(r)          \/ Preflight(r)
    \/ GuardrailError(r)     \/ FinishStep(r)         \/ ExecWake(r)
    \/ StepTimeout(r)        \/ Halt(r)               \/ Expire(r)
    \/ StepSucceeded(r)      \/ StepFailed(r)         \/ Finalize(r)
    \/ Leave(r)

-----------------------------------------------------------------------------
(* The operator's handlers and the sweeper. *)

\* The entries evict_oldest_terminal_agent_task takes until one more fits: the
\* oldest terminal ones.  An evicted task's variables stay as its durable
\* checkpoint has them.
Ended == {u \in stored : is_agent_task_terminal_status(status[u])}
Evicted == {u \in Ended : Cardinality({v \in Ended : <<v, u>> \in older}) + HistoryLimit
                            <= Cardinality(stored)}
Kept == stored \ Evicted

\* launch_agent_task: ensure_agent_task_capacity may evict, and still refuse.
Start(t) ==
    /\ StoreFree
    /\ status[t] = "absent"
    /\ index' = {a \in index : TaskOf(a[1]) \notin Evicted}
    /\ IF Cardinality(Kept) < HistoryLimit
       THEN /\ status' = [status EXCEPT ![t] = "queued"]
            /\ stored' = Kept \cup {t}
            /\ older' = (older \cap (Kept \X Kept)) \cup (Kept \X {t})
            /\ Spawn(t)
       ELSE /\ stored' = Kept
            /\ older' = older \cap (Kept \X Kept)
            /\ UNCHANGED <<status, pc>>
    /\ UNCHANGED <<intr, cur, err, steps, approved, pend, decisions,
                   at, woken, outcome, lockVars>>

\* handle_agent_task_interrupt.  A paused task keeps its status.
Interrupt(t) ==
    /\ StoreFree
    /\ Present(t) /\ t \in Interruptible
    /\ ~is_agent_task_terminal_status(status[t])
    /\ intr' = [intr EXCEPT ![t] = TRUE]
    /\ IF status[t] \in {"queued", "running", "awaiting_approval"}
       THEN SetStatus(t, "interrupted", "TASK_INTERRUPTED") /\ SetCur(t, 0)
       ELSE UNCHANGED <<status, err, cur>>
    /\ Notify(t, InterruptWaits \cup ApprovalWaits)
    /\ UNCHANGED <<steps, approved, pend, index, stored, older, decisions,
                   pc, at, outcome, lockVars>>

\* handle_agent_task_intervene, action Pause.
Pause(t) ==
    /\ StoreFree
    /\ Present(t) /\ t \in Pausable
    /\ status[t] = "running"
    /\ SetStatus(t, "paused", "TASK_PAUSED")
    /\ SetCur(t, 0)
    /\ IF cur[t] \in Step THEN SetStep(t, cur[t], "paused") ELSE UNCHANGED steps
    /\ Notify(t, InterruptWaits \cup ApprovalWaits)
    /\ UNCHANGED <<intr, approved, pend, index, stored, older, decisions,
                   pc, at, outcome, lockVars>>

is_agent_task_resumable(t) ==
    \/ status[t] = "paused"
    \/ status[t] = "interrupted" /\ err[t] = "RUNTIME_RESTART_RECOVERY"

\* A task that is not in the store is read back from its checkpoint.
Reload(t) == /\ stored' = stored \cup {t}
             /\ older' = older \cup ((stored \ {t}) \X {t})

\* Mutant: every step is queued again.
EveryStep(t) == Step

\* prepare_task_runtime_for_resume: what is not completed is queued again.
Unfinished(t) == {i \in Step : steps[t][i] # "completed"}

\* handle_agent_task_resume, accepted.
Resume(t) ==
    /\ StoreFree
    /\ status[t] # "absent"
    /\ is_agent_task_resumable(t)
    /\ Reload(t)
    /\ SetStatus(t, "queued", "none")
    /\ intr' = [intr EXCEPT ![t] = FALSE]
    /\ steps' = [steps EXCEPT ![t] = [i \in Step |->
           IF i \in Unfinished(t) THEN "queued" ELSE steps[t][i]]]
    /\ approved' = [approved EXCEPT ![t] = @ \ Unfinished(t)]
    /\ \/ Unfinished(t) = {} /\ SetCur(t, 0)
       \/ \E i \in Unfinished(t) :
              (\A j \in Unfinished(t) : i <= j) /\ SetCur(t, i)
    /\ index' = index \ {pend[t].id}
    /\ pend' = [pend EXCEPT ![t] = NoApproval]
    /\ Spawn(t)
    /\ UNCHANGED <<decisions, at, woken, outcome, lockVars>>

\* handle_agent_task_resume, refused: a task read back stays in the store.
RefuseResume(t) ==
    /\ StoreFree
    /\ status[t] # "absent"
    /\ ~Present(t)
    /\ ~is_agent_task_resumable(t)
    /\ Reload(t)
    /\ UNCHANGED <<taskVars, pend, index, decisions, execVars>>

\* handle_agent_approval_decision: recorded when the index leads to a task whose
\* pending approval is this one; an entry of a task that is gone is dropped.
Decide(a, d) ==
    LET t == TaskOf(a[1]) IN
    /\ StoreFree
    /\ a \in index
    /\ \/ /\ Present(t)
          /\ pend[t].id = a
          /\ pend' = [pend EXCEPT ![t].decision = d]
          /\ decisions' = decisions \cup {<<a, d>>}
          /\ Notify(t, ApprovalWaits)
          /\ UNCHANGED index
       \/ /\ ~Present(t)
          /\ index' = index \ {a}
          /\ UNCHANGED <<pend, decisions, woken>>
    /\ UNCHANGED <<taskVars, stored, older, pc, at, outcome, lockVars>>

\* sweep_agent_approval_timeouts: S are the approvals old enough; its second look
\* at each task, under the write lock, is the one that counts.
Sweepable(t) == /\ Present(t)
                /\ status[t] = "awaiting_approval"
                /\ pend[t] # NoApproval
                /\ pend[t].decision = "none"

Sweep(S) ==
    /\ StoreFree
    /\ S # {}
    /\ \A t \in S : Sweepable(t)
    /\ status' = [t \in Task |-> IF t \in S THEN "failed" ELSE status[t]]
    /\ err' = [t \in Task |-> IF t \in S THEN "APPROVAL_TIMEOUT" ELSE err[t]]
    /\ cur' = [t \in Task |-> IF t \in S THEN 0 ELSE cur[t]]
    /\ steps' = [t \in Task |-> [i \in Step |->
           IF t \in S /\ i = pend[t].step THEN "failed" ELSE steps[t][i]]]
    /\ index' = {a \in index : \A t \in S : pend[t].id # a}
    /\ pend' = [t \in Task |-> IF t \in S THEN NoApproval ELSE pend[t]]
    /\ woken' = [r \in Run |-> woken[r] \/ (TaskOf(r) \in S /\ pc[r] \in ApprovalWaits)]
    /\ UNCHANGED <<intr, approved, stored, older, decisions, pc, at, outcome, lockVars>>

OperatorStep ==
    \/ \E t \in Task : Start(t) \/ Interrupt(t) \/ Pause(t) \/ Resume(t) \/ RefuseResume(t)
    \/ \E a \in index, d \in {"approved", "rejected"} : Decide(a, d)

SweeperStep == \E S \in SUBSET Task : Sweep(S)

-----------------------------------------------------------------------------
(* The service starts: hydrate_agent_task_runtime_from_snapshot for each task *)
(* with a checkpoint, and an executor for each one that was queued.  Rows of  *)
(* tasks that had ended are read back as well: completed and failed ones, and *)
(* those an operator interrupted.  They are left out: no executor is theirs,  *)
(* every resume is refused, and they only come and go in the store.           *)

\* Status of the first step not completed, by the status the task boots with.
BootStep == [absent |-> "queued", queued |-> "queued", interrupted |-> "running",
             awaiting_approval |-> "awaiting_approval", paused |-> "paused"]
BootError == [absent |-> "none", queued |-> "none", awaiting_approval |-> "none",
              interrupted |-> "RUNTIME_RESTART_RECOVERY", paused |-> "TASK_PAUSED"]
BootCur(t, done) == IF status[t] = "awaiting_approval" THEN done + 1 ELSE 0
BootId(t, done) == <<<<t, 0>>, done + 1>>

\* How many steps a task can have completed before the restart.
BootDone(t) ==
    CASE status[t] = "absent" -> {0}
      [] status[t] = "awaiting_approval" -> {k \in 0..NSteps : k + 1 \in ApprovalSteps[t]}
      [] OTHER -> 0..NSteps

StrictOrder(S, R) ==
    /\ R \subseteq S \X S
    /\ \A u, v \in S : u # v <=> (<<u, v>> \in R \/ <<v, u>> \in R)
    /\ \A u, v \in S : ~(<<u, v>> \in R /\ <<v, u>> \in R)
    /\ \A u, v, w \in S : <<u, v>> \in R /\ <<v, w>> \in R => <<u, w>> \in R

Init ==
    /\ status \in [Task -> BootStatus]
    /\ \E done \in [Task -> 0..NSteps] :
          /\ \A t \in Task : done[t] \in BootDone(t)
          /\ cur = [t \in Task |-> BootCur(t, done[t])]
          /\ steps = [t \in Task |-> [i \in Step |->
                 IF i <= done[t] THEN "completed"
                 ELSE IF i = done[t] + 1 THEN BootStep[status[t]] ELSE "queued"]]
          /\ approved = [t \in Task |-> {i \in ApprovalSteps[t] : i <= done[t]}]
          /\ decisions = {<<a, "approved">> : a \in
                 {b \in ApprovalId : /\ b[1][2] = 0
                                    /\ b[2] \in ApprovalSteps[b[1][1]]
                                    /\ b[2] <= done[b[1][1]]}}
          /\ pend = [t \in Task |->
                 IF status[t] = "awaiting_approval"
                 THEN [id |-> BootId(t, done[t]), step |-> done[t] + 1, decision |-> "none"]
                 ELSE NoApproval]
    /\ intr = [t \in Task |-> status[t] = "interrupted"]
    /\ err = [t \in Task |-> BootError[status[t]]]
    /\ index = {pend[t].id : t \in {u \in Task : status[u] = "awaiting_approval"}}
    /\ stored = {t \in Task : status[t] # "absent"}
    /\ older \in SUBSET (stored \X stored) /\ StrictOrder(stored, older)
    /\ pc = [r \in Run |-> IF r[2] = 1 /\ status[TaskOf(r)] = "queued"
                           THEN "spawned" ELSE "idle"]
    /\ at = [r \in Run |-> 0]
    /\ woken = [r \in Run |-> FALSE]
    /\ outcome = [r \in Run |-> "none"]
    /\ wsHeld = {}
    /\ slots = {}

Next ==
    \/ \E r \in Run : ExecutorStep(r)
    \/ OperatorStep
    \/ SweeperStep

Spec == Init /\ [][Next]_vars

\* The scheduler runs every executor that can move; the store lock is granted to
\* whoever waits; the two waits for a lock are served in order of arrival; a live
\* skill ends or is cut off.  Nothing is assumed of the operator or the sweeper.
Fairness ==
    \A r \in Run :
        /\ WF_vars(ExecutorStep(r))
        /\ SF_vars(AcquireWorkspace(r))
        /\ SF_vars(AcquireSlot(r))

FairSpec == Spec /\ Fairness
-----------------------------------------------------------------------------
(* What the runtime promises. *)

Approvals == [id : ApprovalId \cup {<<>>}, step : 0..NSteps,
              decision : {"none", "approved", "rejected"}]

\* Every variable has its type.
TypeOK ==
    /\ status \in [Task -> Status]
    /\ intr \in [Task -> BOOLEAN]
    /\ cur \in [Task -> 0..NSteps]
    /\ err \in [Task -> ErrorCode]
    /\ steps \in [Task -> [Step -> StepStatus]]
    /\ approved \in [Task -> SUBSET Step]
    /\ pend \in [Task -> Approvals]
    /\ index \subseteq ApprovalId
    /\ stored \subseteq Task
    /\ older \subseteq stored \X stored
    /\ decisions \subseteq ApprovalId \X {"approved", "rejected"}
    /\ pc \in [Run -> PC]
    /\ at \in [Run -> 0..(NSteps + 1)]
    /\ woken \in [Run -> BOOLEAN]
    /\ outcome \in [Run -> Outcome]
    /\ wsHeld \subseteq Run
    /\ slots \subseteq Run

\* Two tasks of one workspace never run at the same time, and neither do two
\* executors of one task (the workspace guard of run_agent_task, which the test
\* agent_tasks_with_same_workspace_are_serialized relies on).
WorkspaceSerialized ==
    \A r, q \in Run :
        pc[r] \in InsidePC /\ pc[q] \in InsidePC /\ r # q
            => WorkspaceOf[TaskOf(r)] # WorkspaceOf[TaskOf(q)]

\* No more tasks execute than there are execution slots.
SlotsRespected == Cardinality({r \in Run : pc[r] \in InsidePC}) <= MaxSlots

\* Executor n of t got step i approved; an earlier step of t with i's scope was.
ApprovedFor(t, n, i) == <<<<<<t, n>>, i>>, "approved">> \in decisions
ScopeApproved(t, i) ==
    /\ ScopeOf[t][i] # NoScope
    /\ \E n \in 0..MaxRuns, j \in Step :
          j < i /\ ScopeOf[t][j] = ScopeOf[t][i] /\ ApprovedFor(t, n, j)

\* A step that needs approval runs only after an operator's recorded approval of
\* this very execution of it, or of an earlier step of the task with the same
\* scope, whatever was interrupted, paused, resumed, timed out or recovered
\* meanwhile (handle_step_inspector_and_approval).
ApprovalGate ==
    \A r \in Run : pc[r] \in WorkingPC /\ at[r] \in ApprovalSteps[TaskOf(r)]
        => ApprovedFor(TaskOf(r), r[2], at[r]) \/ ScopeApproved(TaskOf(r), at[r])

\* A task whose interrupt was accepted is never reported completed, however late
\* in the run the request came (finalize_agent_task_completion looks again).
InterruptNeverCompletes == \A t \in Task : intr[t] => status[t] # "completed"

\* A task that awaits approval can be answered: the approval it names is in the
\* index, or its executor is just about to put it there.
AwaitingIsAnswerable ==
    \A t \in Task : status[t] = "awaiting_approval" =>
        /\ Present(t)
        /\ pend[t] # NoApproval
        /\ \/ pend[t].id \in index
           \/ \E r \in Run : pc[r] = "index" /\ pend[t].id = <<r, at[r]>>

\* The approval index leaks nothing: each entry belongs to an executor that still
\* waits for it and will take it out, or to an approval of before the restart.
IndexEntriesHaveWaiters ==
    \A a \in index :
        \/ a[1][2] = 0
        \/ a[1] \in Run /\ pc[a[1]] \in ApprovalPC /\ at[a[1]] = a[2]

\* A task is reported completed only when each of its steps is.
CompletedMeansDone ==
    \A t \in Task : status[t] = "completed" => \A i \in Step : steps[t][i] = "completed"

\* A completed or failed task stays so: decisions, timeouts, sweeps and interrupts
\* that race with the end of a task do not bring it back (try_finalize).
VerdictStands ==
    \A t \in Task : status[t] \in {"completed", "failed"} => status'[t] = status[t]
VerdictIsFinal == [][VerdictStands]_vars

\* A step that is completed is never run again.
CompletedStays ==
    \A t \in Task, i \in Step : steps[t][i] = "completed" => steps'[t][i] = "completed"
CompletedStepsStay == [][CompletedStays]_vars

\* Every executor comes to its end and gives its locks back, unless the store is
\* wedged (see Stop).
ExecutorsReturn ==
    \A r \in Run : pc[r] = "spawned" ~> (pc[r] = "done" \/ ~StoreFree)

-----------------------------------------------------------------------------
(* What a comment, a message or a test says of the runtime, and what the code  *)
(* does not do (README, "Findings").                                           *)

\* No executor waits for the store lock while holding it: after an accepted stop
\* the task can still be read, as every interrupt test goes on to do.
StoreStaysFree == StoreFree

\* A task that nobody interrupted is not seen interrupted: a pause that was
\* resumed does not end the task.
InterruptedWasAsked ==
    \A t \in Task : StoreFree /\ status[t] = "interrupted" => intr[t]

\* A wait is reported as timed out "before a decision was recorded" only if none was.
TimeoutMeansUndecided ==
    \A t \in Task : err[t] = "APPROVAL_TIMEOUT" =>
        \A a \in ApprovalId, d \in {"approved", "rejected"} :
            TaskOf(a[1]) = t /\ steps[t][a[2]] = "failed" => <<a, d>> \notin decisions

\* An interrupted task remains interrupted: its executor does not run it again.
InterruptedRemains ==
    [][\A t \in Task : status[t] = "interrupted" /\ err[t] = "TASK_INTERRUPTED"
            => status'[t] \notin {"running", "awaiting_approval"}]_vars

\* An accepted interrupt is not taken back: resume is for paused and for recovered
\* tasks only.
InterruptSticks ==
    [][\A t \in Task : intr[t] /\ err[t] # "RUNTIME_RESTART_RECOVERY" => intr'[t]]_vars

\* A task whose approval was decided does not await that approval for ever.
DecidedSettles ==
    \A t \in Task : (status[t] = "awaiting_approval" /\ pend[t].decision # "none")
                        ~> status[t] # "awaiting_approval"
=============================================================================
