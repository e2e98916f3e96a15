--------------------------- MODULE AgentTaskProofs ---------------------------
(***************************************************************************)
(* Proofs about AgentTask, for every number of tasks, workspaces, steps,   *)
(* executors and slots, every choice of the steps that need approval, and  *)
(* every set of states a restart may leave (the assumptions of AgentTask). *)
(*                                                                         *)
(* TypeInv comes first; every other invariant is inductive relative to it. *)
(* A lemma named ...Step says that an invariant survives a step, and one   *)
(* named ...Frame what a group of actions leaves alone.                    *)
(***************************************************************************)
EXTENDS AgentTask, TLAPS, FiniteSetTheorems

USE TaskAssumption, BoundAssumption, ApprovalAssumption DEF Step, Run, TaskOf

-----------------------------------------------------------------------------
(* Types.  TypeOK is not inductive by itself: an executor indexes the steps  *)
(* of its task by `at`, and Refusal by `outcome`.                            *)

TaskTypeOK ==
    /\ status \in [Task -> Status]
    /\ intr \in [Task -> BOOLEAN]
    /\ cur \in [Task -> 0..NSteps]
    /\ err \in [Task -> ErrorCode]
    /\ steps \in [Task -> [Step -> StepStatus]]
    /\ approved \in [Task -> SUBSET Step]

StoreTypeOK ==
    /\ pend \in [Task -> Approvals]
    /\ index \subseteq ApprovalId
    /\ stored \subseteq Task
    /\ older \subseteq stored \X stored
    /\ decisions \subseteq ApprovalId \X {"approved", "rejected"}

ExecTypeOK ==
    /\ pc \in [Run -> PC]
    /\ at \in [Run -> 0..(NSteps + 1)]
    /\ woken \in [Run -> BOOLEAN]
    /\ outcome \in [Run -> Outcome]
    /\ wsHeld \subseteq Run
    /\ slots \subseteq Run

\* Where the executor has a step at hand.
LoopPC == {"stop", "check", "inspect", "start_step"} \cup ApprovalPC \cup WorkingPC

LocOK ==
    \A r \in Run : /\ pc[r] \in LoopPC => at[r] \in Step
                   /\ pc[r] = "close" => outcome[r] # "none"

TypeInv == TaskTypeOK /\ StoreTypeOK /\ ExecTypeOK /\ LocOK

\* Writing summary.status and error_code keeps their types.
LEMMA SetStatusType ==
    ASSUME TaskTypeOK, NEW t \in Task, NEW s \in Status, NEW e \in ErrorCode, SetStatus(t, s, e)
    PROVE  status' \in [Task -> Status] /\ err' \in [Task -> ErrorCode]
BY DEF SetStatus, TaskTypeOK

\* So does writing summary.current_step.
LEMMA SetCurType ==
    ASSUME TaskTypeOK, NEW t \in Task, NEW i \in 0..NSteps, SetCur(t, i)
    PROVE  cur' \in [Task -> 0..NSteps]
BY DEF SetCur, TaskTypeOK

\* So does writing the status of one step summary.
LEMMA SetStepType ==
    ASSUME TaskTypeOK, NEW t \in Task, NEW i \in Step, NEW s \in StepStatus, SetStep(t, i, s)
    PROVE  steps' \in [Task -> [Step -> StepStatus]]
BY DEF SetStep, TaskTypeOK

\* What a stop writes is a status, whether it finds the task paused or not.
LEMMA StopType ==
    ASSUME TaskTypeOK, NEW t \in Task, SetStatus(t, StopStatus(t), StopError(t))
    PROVE  status' \in [Task -> Status] /\ err' \in [Task -> ErrorCode]
<1>1. StopStatus(t) \in Status /\ StopError(t) \in ErrorCode
    BY DEF StopStatus, StopError, Status, ErrorCode
<1> QED BY <1>1, SetStatusType

\* fail_agent_task_for_blocked_tool writes a step the task has.
LEMMA FailStepType ==
    ASSUME TypeInv, NEW r \in Run, at[r] \in Step, FailStep(r)
    PROVE  TaskTypeOK'
<1>1. CASE Present(TaskOf(r))
    <2>1. SetStatus(r[1], "failed", "STEP_FAILED") /\ SetCur(r[1], 0) /\ SetStep(r[1], at[r], "failed")
        BY <1>1 DEF FailStep
    <2>2. "failed" \in Status /\ "failed" \in StepStatus /\ "STEP_FAILED" \in ErrorCode
        BY DEF Status, StepStatus, ErrorCode
    <2>3. UNCHANGED <<intr, approved>>
        BY DEF FailStep
    <2> QED
        BY <2>1, <2>2, <2>3, SetStatusType, SetCurType, SetStepType DEF TypeInv, TaskTypeOK
<1>2. CASE ~Present(TaskOf(r))
    BY <1>2 DEF FailStep, TypeInv, TaskTypeOK
<1> QED BY <1>1, <1>2

\* The task summaries keep their types under every action.
LEMMA TaskTypeStep == TypeInv /\ [Next]_vars => TaskTypeOK'
<1> SUFFICES ASSUME TypeInv, [Next]_vars PROVE TaskTypeOK'
    OBVIOUS
<1> USE DEF TypeInv, InStore, Status, StepStatus, ErrorCode
<1>0. CASE UNCHANGED taskVars
    BY <1>0 DEF taskVars, TaskTypeOK
<1>1. ASSUME NEW r \in Run, FailSessionLimit(r) PROVE TaskTypeOK'
    BY <1>1, SetStatusType, SetCurType DEF FailSessionLimit, TaskTypeOK
<1>2. ASSUME NEW r \in Run, Begin(r) PROVE TaskTypeOK'
    <2>1. status' \in [Task -> Status]
        BY <1>2 DEF Begin, TaskTypeOK
    <2> QED BY <1>2, <2>1 DEF Begin, TaskTypeOK
<1>3. ASSUME NEW r \in Run, Stop(r) PROVE TaskTypeOK'
    <2>1. CASE Present(r[1])
        BY <1>3, <2>1, StopType, SetCurType DEF Stop, TaskTypeOK
    <2>2. CASE ~Present(r[1])
        BY <1>3, <2>2 DEF Stop, TaskTypeOK
    <2> QED BY <2>1, <2>2
<1>4. ASSUME NEW r \in Run, MissingFreshRead(r) \/ BlockStep(r) \/ Expire(r) PROVE TaskTypeOK'
    <2>1. FailStep(r) /\ at[r] \in Step
        BY <1>4 DEF MissingFreshRead, BlockStep, Expire, LocOK, LoopPC, WorkingPC
    <2> QED BY <2>1, FailStepType
<1>5. ASSUME NEW r \in Run, ReuseApproval(r) PROVE TaskTypeOK'
    BY <1>5 DEF ReuseApproval, TaskTypeOK
<1>6. ASSUME NEW r \in Run, RequestApproval(r) PROVE TaskTypeOK'
    <2>1. at[r] \in Step
        BY <1>6 DEF RequestApproval, LocOK, LoopPC
    <2>2. status' \in [Task -> Status] /\ approved' \in [Task -> SUBSET Step] /\ UNCHANGED <<intr, err>>
        BY <1>6 DEF RequestApproval, TaskTypeOK
    <2>3. SetCur(r[1], at[r]) /\ SetStep(r[1], at[r], "awaiting_approval")
        BY <1>6 DEF RequestApproval
    <2> QED BY <2>1, <2>2, <2>3, SetCurType, SetStepType DEF TaskTypeOK
<1>7. ASSUME NEW r \in Run, CloseApproval(r) PROVE TaskTypeOK'
    <2>1. at[r] \in Step /\ outcome[r] \in Outcome \ {"none"}
        BY <1>7 DEF CloseApproval, LocOK, LoopPC, ApprovalPC, ExecTypeOK
    <2>2. CASE Open(r[1]) /\ ~Granted(r)
        <3>1. Refusal[outcome[r]][1] \in {"failed", "interrupted"} /\ Refusal[outcome[r]][2] \in ErrorCode
            BY <2>1, <2>2 DEF Refusal, Granted, Outcome
        <3>2. PICK s \in {"failed", "interrupted"}, e \in ErrorCode :
                  SetStatus(r[1], s, e) /\ SetStep(r[1], at[r], s)
            BY <1>7, <2>2, <3>1 DEF CloseApproval
        <3>3. UNCHANGED <<intr, cur, approved>>
            BY <1>7, <2>2 DEF CloseApproval
        <3> QED BY <2>1, <3>2, <3>3, SetStatusType, SetStepType DEF TaskTypeOK
    <2>3. CASE ~(Open(r[1]) /\ ~Granted(r))
        <3>1. /\ UNCHANGED <<intr, cur, err, steps>>
              /\ \/ UNCHANGED <<status, approved>>
                 \/ /\ status' = [status EXCEPT ![r[1]] = "running"]
                    /\ approved' = [approved EXCEPT ![r[1]] = @ \cup {at[r]}]
            BY <1>7, <2>3 DEF CloseApproval
        <3>2. status' \in [Task -> Status]
            BY <3>1 DEF TaskTypeOK
        <3>3. approved' \in [Task -> SUBSET Step]
            <4>1. approved[r[1]] \cup {at[r]} \in SUBSET Step
                BY <2>1 DEF TaskTypeOK
            <4> QED BY <3>1, <4>1 DEF TaskTypeOK
        <3> QED BY <3>1, <3>2, <3>3 DEF TaskTypeOK
    <2> QED BY <2>2, <2>3
<1>8. ASSUME NEW r \in Run, StartStep(r) PROVE TaskTypeOK'
    <2>1. at[r] \in Step
        BY <1>8 DEF StartStep, LocOK, LoopPC
    <2> QED BY <1>8, <2>1, SetCurType, SetStepType DEF StartStep, TaskTypeOK
<1>9. ASSUME NEW r \in Run, GuardrailError(r) PROVE TaskTypeOK'
    <2>1. at[r] \in Step
        BY <1>9 DEF GuardrailError, LocOK, LoopPC, WorkingPC
    <2> QED BY <1>9, <2>1, SetStatusType, SetStepType DEF GuardrailError, TaskTypeOK
<1>10. ASSUME NEW r \in Run, Halt(r) PROVE TaskTypeOK'
    <2>1. at[r] \in Step
        BY <1>10 DEF Halt, LocOK, LoopPC, WorkingPC
    <2>2. CASE Present(r[1])
        <3>1. StopStatus(r[1]) \in StepStatus
            BY DEF StopStatus
        <3>2. steps' \in [Task -> [Step -> StepStatus]]
            BY <1>10, <2>1, <2>2, <3>1, SetStepType DEF Halt
        <3> QED BY <1>10, <2>2, <3>2, StopType, SetCurType DEF Halt, TaskTypeOK
    <2>3. CASE ~Present(r[1])
        BY <1>10, <2>3 DEF Halt, TaskTypeOK
    <2> QED BY <2>2, <2>3
<1>11. ASSUME NEW r \in Run, StepSucceeded(r) PROVE TaskTypeOK'
    <2>1. at[r] \in Step
        BY <1>11 DEF StepSucceeded, LocOK, LoopPC, WorkingPC
    <2>2. steps' \in [Task -> [Step -> StepStatus]]
        BY <1>11, <2>1, SetStepType DEF StepSucceeded
    <2>3. approved' \in [Task -> SUBSET Step] /\ UNCHANGED intr
        BY <1>11, <2>1 DEF StepSucceeded, TaskTypeOK
    <2>4. /\ status' \in [Task -> Status] /\ err' \in [Task -> ErrorCode]
          /\ cur' \in [Task -> 0..NSteps]
        <3>1. CASE intr[r[1]]
            BY <1>11, <3>1, StopType, SetCurType DEF StepSucceeded
        <3>2. CASE ~intr[r[1]]
            BY <1>11, <3>2 DEF StepSucceeded, TaskTypeOK
        <3> QED BY <3>1, <3>2
    <2> QED BY <2>2, <2>3, <2>4 DEF TaskTypeOK
<1>12. ASSUME NEW r \in Run, StepFailed(r) PROVE TaskTypeOK'
    <2>1. at[r] \in Step
        BY <1>12 DEF StepFailed, LocOK, LoopPC, WorkingPC
    <2> QED BY <1>12, <2>1, SetStatusType, SetStepType DEF StepFailed, TaskTypeOK
<1>13. ASSUME NEW r \in Run, Finalize(r) PROVE TaskTypeOK'
    <2>1. status' \in [Task -> Status] /\ err' \in [Task -> ErrorCode]
        <3>1. CASE Stopping(r[1])
            BY <1>13, <3>1, StopType DEF Finalize
        <3>2. CASE ~Stopping(r[1])
            BY <1>13, <3>2 DEF Finalize, TaskTypeOK
        <3> QED BY <3>1, <3>2
    <2>2. cur' \in [Task -> 0..NSteps]
        BY <1>13, SetCurType DEF Finalize
    <2> QED BY <1>13, <2>1, <2>2 DEF Finalize, TaskTypeOK
<1>14. ASSUME NEW t \in Task, Start(t) PROVE TaskTypeOK'
    BY <1>14 DEF Start, TaskTypeOK
<1>15. ASSUME NEW t \in Task, Interrupt(t) PROVE TaskTypeOK'
    <2>1. intr' \in [Task -> BOOLEAN]
        BY <1>15 DEF Interrupt, TaskTypeOK
    <2> QED BY <1>15, <2>1, SetStatusType, SetCurType DEF Interrupt, TaskTypeOK
<1>16. ASSUME NEW t \in Task, Pause(t) PROVE TaskTypeOK'
    <2>1. steps' \in [Task -> [Step -> StepStatus]]
        BY <1>16, SetStepType DEF Pause, TaskTypeOK
    <2> QED BY <1>16, <2>1, SetStatusType, SetCurType DEF Pause, TaskTypeOK
<1>17. ASSUME NEW t \in Task, Resume(t) PROVE TaskTypeOK'
    <2>1. Unfinished(t) \subseteq Step
        BY DEF Unfinished
    <2>2. cur' \in [Task -> 0..NSteps]
        BY <1>17, <2>1, SetCurType DEF Resume
    <2>3. status' \in [Task -> Status] /\ err' \in [Task -> ErrorCode]
        BY <1>17, SetStatusType DEF Resume
    <2>4. steps' \in [Task -> [Step -> StepStatus]]
        <3> DEFINE f == [i \in Step |-> IF i \in Unfinished(t) THEN "queued" ELSE steps[t][i]]
        <3>1. f \in [Step -> StepStatus]
            BY DEF TaskTypeOK
        <3>2. steps' = [steps EXCEPT ![t] = f]
            BY <1>17 DEF Resume
        <3> HIDE DEF f
        <3> QED BY <3>1, <3>2 DEF TaskTypeOK
    <2>5. intr' \in [Task -> BOOLEAN] /\ approved' \in [Task -> SUBSET Step]
        BY <1>17 DEF Resume, TaskTypeOK
    <2> QED BY <2>2, <2>3, <2>4, <2>5 DEF TaskTypeOK
<1>18. ASSUME NEW S \in SUBSET Task, Sweep(S) PROVE TaskTypeOK'
    BY <1>18 DEF Sweep, TaskTypeOK
<1> QED
    <2>1. ASSUME NEW r \in Run, ExecutorStep(r) PROVE TaskTypeOK'
        <3>1. CASE \/ FailSessionLimit(r) \/ Begin(r) \/ Stop(r) \/ MissingFreshRead(r)
                   \/ BlockStep(r) \/ Expire(r) \/ ReuseApproval(r) \/ RequestApproval(r)
                   \/ CloseApproval(r) \/ StartStep(r) \/ GuardrailError(r) \/ Halt(r)
                   \/ StepSucceeded(r) \/ StepFailed(r) \/ Finalize(r)
            BY <3>1, <1>1, <1>2, <1>3, <1>4, <1>5, <1>6, <1>7, <1>8, <1>9, <1>10, <1>11, <1>12, <1>13
        <3>2. CASE \/ TaskGone(r) \/ Snapshot(r) \/ CheckSessionLimit(r) \/ AcquireWorkspace(r)
                   \/ AcquireSlot(r) \/ WaitWake(r) \/ StepHead(r) \/ CheckStep(r)
                   \/ InspectAllow(r) \/ IndexApproval(r) \/ CheckDecision(r) \/ ArmWaiter(r)
                   \/ ApprovalWake(r) \/ ApprovalTimeout(r) \/ Preflight(r) \/ FinishStep(r)
                   \/ ExecWake(r) \/ StepTimeout(r) \/ Leave(r)
            BY <3>2, <1>0 DEF storeVars, TaskGone, Snapshot, CheckSessionLimit, AcquireWorkspace,
                AcquireSlot, WaitWake, StepHead, CheckStep, InspectAllow, IndexApproval,
                CheckDecision, ArmWaiter, ApprovalWake, ApprovalTimeout, Preflight, FinishStep,
                ExecWake, StepTimeout, Leave
        <3> QED BY <2>1, <3>1, <3>2 DEF ExecutorStep
    <2>2. ASSUME NEW t \in Task, RefuseResume(t) PROVE TaskTypeOK'
        BY <2>2, <1>0 DEF RefuseResume
    <2>3. ASSUME NEW a \in index, NEW d \in {"approved", "rejected"}, Decide(a, d)
          PROVE TaskTypeOK'
        BY <2>3, <1>0 DEF Decide
    <2>4. CASE UNCHANGED vars
        BY <2>4, <1>0 DEF vars, storeVars
    <2> QED
        BY <2>1, <2>2, <2>3, <2>4, <1>14, <1>15, <1>16, <1>17, <1>18
        DEF Next, OperatorStep, SweeperStep

\* The store, its order and its approval index keep their types; an index entry and
\* a pending approval always name a step of their task.
LEMMA StoreTypeStep == TypeInv /\ [Next]_vars => StoreTypeOK'
<1> SUFFICES ASSUME TypeInv, [Next]_vars PROVE StoreTypeOK'
    OBVIOUS
<1> USE DEF TypeInv, InStore, StoreTypeOK
<1>a. NoApproval \in Approvals
    BY DEF NoApproval, Approvals
<1>0. CASE UNCHANGED <<pend, index, stored, older, decisions>>
    BY <1>0
<1>1. ASSUME NEW r \in Run, RequestApproval(r) PROVE StoreTypeOK'
    <2>1. at[r] \in Step
        BY <1>1 DEF RequestApproval, LocOK, LoopPC
    <2>2. [id |-> <<r, at[r]>>, step |-> at[r], decision |-> "none"] \in Approvals
        BY <2>1 DEF Approvals, ApprovalId
    <2>3. pend' \in [Task -> Approvals]
        BY <1>1, <2>2 DEF RequestApproval
    <2> QED BY <1>1, <2>3 DEF RequestApproval
<1>2. ASSUME NEW r \in Run, IndexApproval(r) PROVE StoreTypeOK'
    <2>1. at[r] \in Step
        BY <1>2 DEF IndexApproval, LocOK, LoopPC, ApprovalPC
    <2> QED BY <1>2, <2>1 DEF IndexApproval, ApprovalId
<1>3. ASSUME NEW r \in Run, CloseApproval(r) PROVE StoreTypeOK'
    <2>1. pend' \in [Task -> Approvals] /\ index' \subseteq index
        BY <1>3, <1>a DEF CloseApproval, Withdrawn
    <2> QED BY <1>3, <2>1 DEF CloseApproval
<1>4. ASSUME NEW t \in Task, Start(t) PROVE StoreTypeOK'
    <2>1. Kept \subseteq stored
        BY DEF Kept
    <2>2. stored' \subseteq Task /\ older' \subseteq stored' \X stored'
        BY <1>4, <2>1 DEF Start
    <2> QED BY <1>4, <2>2 DEF Start
<1>5. ASSUME NEW t \in Task, Resume(t) PROVE StoreTypeOK'
    <2>1. stored' \subseteq Task /\ older' \subseteq stored' \X stored'
        BY <1>5 DEF Resume, Reload
    <2>2. pend' \in [Task -> Approvals] /\ index' \subseteq index
        BY <1>5, <1>a DEF Resume
    <2> QED BY <1>5, <2>1, <2>2 DEF Resume
<1>6. ASSUME NEW t \in Task, RefuseResume(t) PROVE StoreTypeOK'
    BY <1>6 DEF RefuseResume, Reload
<1>7. ASSUME NEW a \in index, NEW d \in {"approved", "rejected"}, Decide(a, d)
      PROVE StoreTypeOK'
    <2>1. a \in ApprovalId /\ a[1][1] \in Task
        BY DEF ApprovalId
    <2>2. pend' \in [Task -> Approvals]
        <3>1. CASE Present(a[1][1])
            <4> DEFINE p == pend[a[1][1]]
            <4>1. [p EXCEPT !.decision = d] \in Approvals
                <5>1. p \in Approvals
                    BY <2>1
                <5> HIDE DEF p
                <5> QED BY ONLY <5>1, d \in {"approved", "rejected"} DEF Approvals
            <4>2. pend' = [pend EXCEPT ![a[1][1]] = [pend[a[1][1]] EXCEPT !.decision = d]]
                BY <1>7, <3>1 DEF Decide
            <4> QED BY <2>1, <4>1, <4>2
        <3>2. CASE ~Present(a[1][1])
            BY <1>7, <3>2 DEF Decide
        <3> QED BY <3>1, <3>2
    <2> QED BY <1>7, <2>1, <2>2 DEF Decide
<1>8. ASSUME NEW S \in SUBSET Task, Sweep(S) PROVE StoreTypeOK'
    BY <1>8, <1>a DEF Sweep
<1> QED
    <2>1. ASSUME NEW r \in Run, ExecutorStep(r) PROVE StoreTypeOK'
        <3>1. CASE RequestApproval(r) \/ IndexApproval(r) \/ CloseApproval(r)
            BY <3>1, <1>1, <1>2, <1>3
        <3>2. CASE \/ TaskGone(r) \/ Snapshot(r) \/ CheckSessionLimit(r) \/ AcquireWorkspace(r)
                   \/ AcquireSlot(r) \/ WaitWake(r) \/ StepHead(r) \/ CheckStep(r)
                   \/ InspectAllow(r) \/ CheckDecision(r) \/ ArmWaiter(r) \/ ApprovalWake(r)
                   \/ ApprovalTimeout(r) \/ Preflight(r) \/ FinishStep(r) \/ ExecWake(r)
                   \/ StepTimeout(r) \/ Leave(r)
            BY <3>2, <1>0 DEF storeVars, TaskGone, Snapshot, CheckSessionLimit,
                AcquireWorkspace, AcquireSlot, WaitWake, StepHead, CheckStep, InspectAllow,
                CheckDecision, ArmWaiter, ApprovalWake, ApprovalTimeout, Preflight, FinishStep,
                ExecWake, StepTimeout, Leave
        <3>3. CASE \/ FailSessionLimit(r) \/ Begin(r) \/ Stop(r) \/ MissingFreshRead(r)
                   \/ BlockStep(r) \/ Expire(r) \/ ReuseApproval(r) \/ StartStep(r)
                   \/ GuardrailError(r) \/ Halt(r) \/ StepSucceeded(r) \/ StepFailed(r)
                   \/ Finalize(r)
            BY <3>3, <1>0 DEF FailSessionLimit, Begin, Stop, MissingFreshRead, BlockStep,
                Expire, FailStep, ReuseApproval, StartStep, GuardrailError, Halt,
                StepSucceeded, StepFailed, Finalize
        <3> QED BY <2>1, <3>1, <3>2, <3>3 DEF ExecutorStep
    <2>2. ASSUME NEW t \in Task, Interrupt(t) \/ Pause(t) PROVE StoreTypeOK'
        BY <2>2, <1>0 DEF Interrupt, Pause
    <2>3. CASE UNCHANGED vars
        BY <2>3, <1>0 DEF vars, storeVars
    <2> QED
        BY <2>1, <2>2, <2>3, <1>4, <1>5, <1>6, <1>7, <1>8
        DEF Next, OperatorStep, SweeperStep

\* The executors keep their types; whoever has a step at hand has one of the task's,
\* and whoever closes an approval has learned how it ended.
LEMMA ExecTypeStep == TypeInv /\ [Next]_vars => ExecTypeOK' /\ LocOK'
<1> SUFFICES ASSUME TypeInv, [Next]_vars PROVE ExecTypeOK' /\ LocOK'
    OBVIOUS
<1> DEFINE TypedNext == ExecTypeOK' /\ LocOK'
<1> USE DEF TypeInv, InStore, LoopPC, PC, InsidePC, ApprovalPC, WorkingPC, Outcome, lockVars, execVars
<1>0. CASE UNCHANGED execVars
    BY <1>0 DEF ExecTypeOK, LocOK
<1>1. ASSUME NEW r \in Run,
             \/ TaskGone(r) \/ Snapshot(r) \/ CheckSessionLimit(r) \/ FailSessionLimit(r)
             \/ MissingFreshRead(r) \/ BlockStep(r) \/ GuardrailError(r) \/ Halt(r)
             \/ Expire(r) \/ Finalize(r)
      PROVE TypedNext
    BY <1>1 DEF TaskGone, Snapshot, CheckSessionLimit, FailSessionLimit, MissingFreshRead,
        BlockStep, FailStep, GuardrailError, Halt, Expire, Finalize, Goto, ExecTypeOK, LocOK
<1>2. ASSUME NEW r \in Run, AcquireWorkspace(r) \/ AcquireSlot(r) \/ WaitWake(r) PROVE TypedNext
    <2>1. CASE AcquireWorkspace(r)
        BY <2>1 DEF AcquireWorkspace, Goto, ExecTypeOK, LocOK
    <2>3. CASE AcquireSlot(r)
        BY <2>3 DEF AcquireSlot, Goto, ExecTypeOK, LocOK
    <2>2. CASE WaitWake(r)
        <3>1. pc' = [pc EXCEPT ![r] = "leaving"] \/ pc' = [pc EXCEPT ![r] = pc[r]]
            BY <2>2 DEF WaitWake, Goto
        <3>2. woken' = [woken EXCEPT ![r] = FALSE] /\ UNCHANGED <<at, outcome, lockVars>>
            BY <2>2 DEF WaitWake
        <3> QED BY <3>1, <3>2 DEF ExecTypeOK, LocOK
    <2> QED BY <1>2, <2>1, <2>2, <2>3
<1>3. ASSUME NEW r \in Run, Begin(r) PROVE TypedNext
    <2>1. at' \in [Run -> 0..(NSteps + 1)]
        BY <1>3 DEF Begin, ExecTypeOK
    <2>2. /\ pc' = [pc EXCEPT ![r] = "leaving"] \/ pc' = [pc EXCEPT ![r] = "head"]
          /\ \A q \in Run : q # r => at'[q] = at[q]
          /\ UNCHANGED <<woken, outcome, lockVars>>
        BY <1>3 DEF Begin, Goto, ExecTypeOK
    <2> QED BY <2>1, <2>2 DEF ExecTypeOK, LocOK
<1>4. ASSUME NEW r \in Run, StepHead(r) \/ Stop(r) PROVE TypedNext
    BY <1>4 DEF StepHead, Stop, MoreSteps, Goto, ExecTypeOK, LocOK
<1>5. ASSUME NEW r \in Run, CheckStep(r) PROVE TypedNext
    <2>1. at[r] \in Step
        BY <1>5 DEF CheckStep, LocOK
    <2>2. at' \in [Run -> 0..(NSteps + 1)] /\ \A q \in Run : q # r => at'[q] = at[q]
        BY <1>5, <2>1 DEF CheckStep, ExecTypeOK
    <2>3. /\ \/ pc' = [pc EXCEPT ![r] = "head"]
             \/ pc' = [pc EXCEPT ![r] = "inspect"] /\ at' = at
          /\ UNCHANGED <<woken, outcome, lockVars>>
        BY <1>5 DEF CheckStep, Goto
    <2> QED BY <2>1, <2>2, <2>3 DEF ExecTypeOK, LocOK
<1>6. ASSUME NEW r \in Run,
             \/ InspectAllow(r) \/ ReuseApproval(r) \/ RequestApproval(r) \/ IndexApproval(r)
             \/ StartStep(r) \/ Preflight(r) \/ ExecWake(r) \/ StepTimeout(r)
             \/ ArmWaiter(r) \/ ApprovalWake(r)
      PROVE TypedNext
    <2>1. PICK l \in LoopPC \ {"close"} :
              pc' = [pc EXCEPT ![r] = l] /\ pc[r] \in LoopPC
        BY <1>6 DEF InspectAllow, ReuseApproval, RequestApproval, IndexApproval, StartStep,
            Preflight, ExecWake, StepTimeout, ArmWaiter, ApprovalWake, Goto
    <2>2. /\ woken' = woken \/ woken' = [woken EXCEPT ![r] = FALSE]
          /\ UNCHANGED <<at, outcome, lockVars>>
        BY <1>6 DEF InspectAllow, ReuseApproval, RequestApproval, IndexApproval, StartStep,
            Preflight, ExecWake, StepTimeout, ArmWaiter, ApprovalWake
    <2> QED BY <2>1, <2>2 DEF ExecTypeOK, LocOK
<1>7. ASSUME NEW r \in Run, CheckDecision(r) PROVE TypedNext
    <2>1. ApprovalOutcome(r) \in Outcome
        BY DEF ApprovalOutcome, StoreTypeOK, Approvals
    <2> QED BY <1>7, <2>1 DEF CheckDecision, Goto, ExecTypeOK, LocOK
<1>8. ASSUME NEW r \in Run, ApprovalTimeout(r) \/ CloseApproval(r) \/ FinishStep(r) \/ StepFailed(r)
      PROVE TypedNext
    <2>1. CASE ApprovalTimeout(r) \/ FinishStep(r)
        BY <2>1 DEF ApprovalTimeout, FinishStep, Goto, ExecTypeOK, LocOK
    <2>2. CASE CloseApproval(r) \/ StepFailed(r)
        <3>1. /\ \/ pc' = [pc EXCEPT ![r] = "start_step"] /\ pc[r] = "close"
                 \/ pc' = [pc EXCEPT ![r] = "leaving"]
              /\ outcome' = [outcome EXCEPT ![r] = "none"]
              /\ UNCHANGED <<at, woken, lockVars>>
            BY <2>2 DEF CloseApproval, StepFailed, Goto
        <3>2. ExecTypeOK'
            BY <3>1 DEF ExecTypeOK
        <3>3. CASE pc' = [pc EXCEPT ![r] = "start_step"] /\ pc[r] = "close"
            BY <3>1, <3>3 DEF ExecTypeOK, LocOK
        <3>4. CASE pc' = [pc EXCEPT ![r] = "leaving"]
            BY <3>1, <3>4 DEF ExecTypeOK, LocOK
        <3> QED BY <3>1, <3>2, <3>3, <3>4
    <2> QED BY <1>8, <2>1, <2>2
<1>9. ASSUME NEW r \in Run, StepSucceeded(r) PROVE TypedNext
    <2>1. at[r] \in Step
        BY <1>9 DEF StepSucceeded, LocOK
    <2>2. at' \in [Run -> 0..(NSteps + 1)] /\ \A q \in Run : q # r => at'[q] = at[q]
        BY <1>9, <2>1 DEF StepSucceeded, ExecTypeOK
    <2>3. /\ pc' = [pc EXCEPT ![r] = "head"] \/ pc' = [pc EXCEPT ![r] = "leaving"]
          /\ outcome' = [outcome EXCEPT ![r] = "none"]
          /\ UNCHANGED <<woken, lockVars>>
        BY <1>9 DEF StepSucceeded, Goto
    <2> QED BY <2>2, <2>3 DEF ExecTypeOK, LocOK
<1>10. ASSUME NEW r \in Run, Leave(r) PROVE TypedNext
    BY <1>10 DEF Leave, Goto, ExecTypeOK, LocOK
<1>11. ASSUME NEW t \in Task, Start(t) \/ Resume(t) PROVE TypedNext
    <2>1. UNCHANGED pc \/ \E r \in Run : pc' = [pc EXCEPT ![r] = "spawned"]
        BY <1>11 DEF Start, Resume, Spawn, RunsOf, Goto
    <2>2. UNCHANGED <<at, woken, outcome, lockVars>>
        BY <1>11 DEF Start, Resume
    <2> QED BY <2>1, <2>2 DEF ExecTypeOK, LocOK
<1>12. ASSUME NEW t \in Task, Interrupt(t) \/ Pause(t) PROVE TypedNext
    BY <1>12 DEF Interrupt, Pause, Notify, ExecTypeOK, LocOK
<1>13. ASSUME NEW a \in index, NEW d \in {"approved", "rejected"}, Decide(a, d) PROVE TypedNext
    BY <1>13 DEF Decide, Notify, ExecTypeOK, LocOK
<1>14. ASSUME NEW S \in SUBSET Task, Sweep(S) PROVE TypedNext
    BY <1>14 DEF Sweep, ExecTypeOK, LocOK
<1>15. ASSUME NEW t \in Task, RefuseResume(t) PROVE TypedNext
    BY <1>15, <1>0 DEF RefuseResume
<1>16. CASE UNCHANGED vars
    BY <1>16, <1>0 DEF vars
<1> QED
    BY <1>1, <1>2, <1>3, <1>4, <1>5, <1>6, <1>7, <1>8, <1>9, <1>10, <1>11, <1>12, <1>13, <1>14,
       <1>15, <1>16
    DEF Next, ExecutorStep, OperatorStep, SweeperStep

\* The store a service boots with is well typed, whatever was recovered.
LEMMA TypeInit == Init => TypeInv
<1> SUFFICES ASSUME Init PROVE TypeInv
    OBVIOUS
<1>1. status \in [Task -> {"absent", "queued", "interrupted", "awaiting_approval", "paused"}]
    BY BootAssumption DEF Init
<1>2. PICK done \in [Task -> 0..NSteps] : Init!2!(done)
    BY DEF Init
<1>3. TaskTypeOK
    <2>1. status \in [Task -> Status] /\ intr \in [Task -> BOOLEAN]
        BY <1>1 DEF Init, Status
    <2>2. \A t \in Task : BootError[status[t]] \in ErrorCode /\ BootStep[status[t]] \in StepStatus
        BY <1>1 DEF BootError, BootStep, ErrorCode, StepStatus, Status
    <2>3. err \in [Task -> ErrorCode]
        BY <2>2 DEF Init
    <2>4. \A t \in Task : BootCur(t, done[t]) \in 0..NSteps
        BY <1>1, <1>2 DEF BootCur, BootDone
    <2>5. cur \in [Task -> 0..NSteps] /\ approved \in [Task -> SUBSET Step]
        BY <1>2, <2>4
    <2>6. steps \in [Task -> [Step -> StepStatus]]
        BY <1>2, <2>2 DEF StepStatus, Status
    <2> QED BY <2>1, <2>3, <2>5, <2>6 DEF TaskTypeOK
<1>4. StoreTypeOK
    <2>1. \A t \in Task : status[t] = "awaiting_approval" => done[t] + 1 \in Step
        BY <1>2 DEF BootDone
    <2>2. \A t \in Task : status[t] = "awaiting_approval" =>
              [id |-> BootId(t, done[t]), step |-> done[t] + 1, decision |-> "none"] \in Approvals
        BY <2>1 DEF Approvals, ApprovalId, BootId
    <2>3. NoApproval \in Approvals
        BY DEF NoApproval, Approvals
    <2>4. pend \in [Task -> Approvals]
        BY <1>2, <2>2, <2>3
    <2>5. index \subseteq ApprovalId
        BY <1>2, <2>1 DEF Init, BootId, ApprovalId
    <2>6. stored \subseteq Task /\ older \subseteq stored \X stored
        BY DEF Init
    <2>7. decisions \subseteq ApprovalId \X {"approved", "rejected"}
        BY <1>2
    <2> QED BY <2>4, <2>5, <2>6, <2>7 DEF StoreTypeOK
<1>5. ExecTypeOK /\ LocOK
    BY <1>1 DEF Init, ExecTypeOK, LocOK, PC, InsidePC, Outcome, LoopPC, ApprovalPC, WorkingPC
<1> QED BY <1>3, <1>4, <1>5 DEF TypeInv

\* The inductive type invariant: the step loop never runs outside the task's steps.
THEOREM TypeInvariant == Spec => []TypeInv
<1>1. TypeInv /\ [Next]_vars => TypeInv'
    BY TaskTypeStep, StoreTypeStep, ExecTypeStep DEF TypeInv
<1> QED BY <1>1, TypeInit, PTL DEF Spec

\* Every variable has its type, for every value of the constants.
THEOREM TypeCorrect == Spec => []TypeOK
<1>1. TypeInv => TypeOK
    BY DEF TypeInv, TypeOK, TaskTypeOK, StoreTypeOK, ExecTypeOK
<1> QED BY <1>1, TypeInvariant, PTL

-----------------------------------------------------------------------------
(* The workspace guards and the execution slots.                             *)

GuardOK ==
    /\ \A r \in Run : pc[r] \in InsidePC \cup {"slot_wait"} => r \in wsHeld
    /\ \A r, q \in wsHeld : r # q => WorkspaceOf[TaskOf(r)] # WorkspaceOf[TaskOf(q)]

SlotOK ==
    /\ \A r \in Run : pc[r] \in InsidePC => r \in slots
    /\ Cardinality(slots) <= MaxSlots

\* The steps of an executor that neither take nor give a lock stay where they are
\* allowed to be.
LEMMA LockFrame ==
    ASSUME TypeInv, NEW r \in Run, ExecutorStep(r),
           ~AcquireWorkspace(r), ~AcquireSlot(r), ~Leave(r)
    PROVE  /\ UNCHANGED lockVars
           /\ \E l \in PC : /\ pc' = [pc EXCEPT ![r] = l]
                            /\ l \in InsidePC => pc[r] \in InsidePC
                            /\ l = "slot_wait" => pc[r] = "slot_wait"
<1> USE DEF InStore, Goto, PC, InsidePC, ApprovalPC, WorkingPC, lockVars
<1>1. CASE TaskGone(r) \/ Snapshot(r) \/ CheckSessionLimit(r) \/ FailSessionLimit(r)
    BY <1>1 DEF TaskGone, Snapshot, CheckSessionLimit, FailSessionLimit
<1>2. CASE WaitWake(r)
    BY <1>2 DEF WaitWake
<1>3. CASE Begin(r) \/ StepHead(r) \/ Stop(r) \/ CheckStep(r) \/ InspectAllow(r)
    BY <1>3 DEF Begin, StepHead, Stop, CheckStep, InspectAllow
<1>4. CASE MissingFreshRead(r) \/ BlockStep(r) \/ GuardrailError(r) \/ Halt(r) \/ Expire(r)
    BY <1>4 DEF MissingFreshRead, BlockStep, FailStep, GuardrailError, Halt, Expire
<1>5. CASE ReuseApproval(r) \/ RequestApproval(r) \/ IndexApproval(r) \/ CheckDecision(r)
    BY <1>5 DEF ReuseApproval, RequestApproval, IndexApproval, CheckDecision
<1>6. CASE ArmWaiter(r) \/ ApprovalWake(r) \/ ApprovalTimeout(r) \/ CloseApproval(r)
    BY <1>6 DEF ArmWaiter, ApprovalWake, ApprovalTimeout, CloseApproval
<1>7. CASE StartStep(r) \/ Preflight(r) \/ FinishStep(r) \/ ExecWake(r) \/ StepTimeout(r)
    BY <1>7 DEF StartStep, Preflight, FinishStep, ExecWake, StepTimeout
<1>8. CASE StepSucceeded(r) \/ StepFailed(r) \/ Finalize(r)
    BY <1>8 DEF StepSucceeded, StepFailed, Finalize
<1> QED
    BY <1>1, <1>2, <1>3, <1>4, <1>5, <1>6, <1>7, <1>8 DEF ExecutorStep

\* What the operator and the sweeper do to the executors: they spawn one, or none.
LEMMA HandlerFrame ==
    ASSUME OperatorStep \/ SweeperStep
    PROVE  /\ UNCHANGED <<at, outcome, lockVars>>
           /\ UNCHANGED pc \/ \E r \in Run : pc' = [pc EXCEPT ![r] = "spawned"]
<1>1. ASSUME NEW t \in Task, Start(t) \/ Resume(t)
      PROVE /\ UNCHANGED <<at, outcome, lockVars>>
            /\ UNCHANGED pc \/ \E r \in Run : pc' = [pc EXCEPT ![r] = "spawned"]
    BY <1>1 DEF Start, Resume, Spawn, RunsOf, Goto
<1>2. ASSUME NEW t \in Task, Interrupt(t) \/ Pause(t) \/ RefuseResume(t)
      PROVE UNCHANGED <<pc, at, outcome, lockVars>>
    BY <1>2 DEF Interrupt, Pause, RefuseResume, execVars, lockVars
<1>3. ASSUME NEW a \in index, NEW d \in {"approved", "rejected"}, Decide(a, d)
      PROVE UNCHANGED <<pc, at, outcome, lockVars>>
    BY <1>3 DEF Decide
<1>4. ASSUME NEW S \in SUBSET Task, Sweep(S)
      PROVE UNCHANGED <<pc, at, outcome, lockVars>>
    BY <1>4 DEF Sweep
<1> QED
    BY <1>1, <1>2, <1>3, <1>4 DEF OperatorStep, SweeperStep

\* The workspace guards stay exclusive, and an executor keeps its own to the end.
LEMMA GuardStep == TypeInv /\ GuardOK /\ [Next]_vars => GuardOK'
<1> SUFFICES ASSUME TypeInv, GuardOK, [Next]_vars PROVE GuardOK'
    OBVIOUS
<1> USE DEF TypeInv, ExecTypeOK
<1>1. ASSUME NEW r \in Run, AcquireWorkspace(r) PROVE GuardOK'
    BY <1>1 DEF AcquireWorkspace, WorkspaceFree, Goto, GuardOK
<1>2. ASSUME NEW r \in Run, AcquireSlot(r) PROVE GuardOK'
    BY <1>2 DEF AcquireSlot, Goto, GuardOK
<1>3. ASSUME NEW r \in Run, Leave(r) PROVE GuardOK'
    BY <1>3 DEF Leave, Goto, GuardOK, InsidePC, ApprovalPC, WorkingPC
<1>4. ASSUME NEW r \in Run, ExecutorStep(r),
             ~AcquireWorkspace(r), ~AcquireSlot(r), ~Leave(r)
      PROVE GuardOK'
    BY <1>4, LockFrame DEF GuardOK, lockVars
<1>5. CASE OperatorStep \/ SweeperStep
    BY <1>5, HandlerFrame DEF GuardOK, lockVars, InsidePC, ApprovalPC, WorkingPC
<1>6. CASE UNCHANGED vars
    BY <1>6 DEF GuardOK, vars, execVars
<1> QED BY <1>1, <1>2, <1>3, <1>4, <1>5, <1>6 DEF Next

\* There are finitely many executors.
LEMMA RunFinite == IsFiniteSet(Run)
<1>1. IsFiniteSet(1..MaxRuns)
    BY FS_Interval
<1> QED BY <1>1, FS_Product

\* An executor that is inside holds a permit, and no more permits are out than exist.
LEMMA SlotStep == TypeInv /\ SlotOK /\ [Next]_vars => SlotOK'
<1> SUFFICES ASSUME TypeInv, SlotOK, [Next]_vars PROVE SlotOK'
    OBVIOUS
<1> USE DEF TypeInv, ExecTypeOK
<1>0. IsFiniteSet(slots) /\ Cardinality(slots) \in Nat
    BY RunFinite, FS_Subset, FS_CardinalityType
<1>1. ASSUME NEW r \in Run, AcquireWorkspace(r) PROVE SlotOK'
    BY <1>1 DEF AcquireWorkspace, Goto, SlotOK, InsidePC, ApprovalPC, WorkingPC
<1>2. ASSUME NEW r \in Run, AcquireSlot(r) PROVE SlotOK'
    <2>1. slots' = slots \cup {r} /\ Cardinality(slots) < MaxSlots
        BY <1>2 DEF AcquireSlot, SlotFree
    <2>2. Cardinality(slots') <= MaxSlots
        <3>1. Cardinality(slots \cup {r}) \in {Cardinality(slots), Cardinality(slots) + 1}
            BY <1>0, FS_AddElement
        <3> QED BY <1>0, <2>1, <3>1
    <2> QED BY <1>2, <2>1, <2>2 DEF AcquireSlot, Goto, SlotOK
<1>3. ASSUME NEW r \in Run, Leave(r) PROVE SlotOK'
    <2>1. slots' = slots \ {r}
        BY <1>3 DEF Leave
    <2>2. Cardinality(slots') <= Cardinality(slots) /\ Cardinality(slots') \in Nat
        BY <1>0, <2>1, FS_Subset, FS_CardinalityType
    <2>3. Cardinality(slots') <= MaxSlots
        BY <1>0, <2>2 DEF SlotOK
    <2> QED BY <1>3, <2>1, <2>3 DEF Leave, Goto, SlotOK, InsidePC, ApprovalPC, WorkingPC
<1>4. ASSUME NEW r \in Run, ExecutorStep(r),
             ~AcquireWorkspace(r), ~AcquireSlot(r), ~Leave(r)
      PROVE SlotOK'
    BY <1>4, LockFrame DEF SlotOK, lockVars
<1>5. CASE OperatorStep \/ SweeperStep
    BY <1>5, HandlerFrame DEF SlotOK, lockVars, InsidePC, ApprovalPC, WorkingPC
<1>6. CASE UNCHANGED vars
    BY <1>6 DEF SlotOK, vars, execVars
<1> QED BY <1>1, <1>2, <1>3, <1>4, <1>5, <1>6 DEF Next

\* Nobody holds a lock when the service starts.
LEMMA LockInit == Init => GuardOK /\ SlotOK
<1> SUFFICES ASSUME Init PROVE GuardOK /\ SlotOK
    OBVIOUS
<1>1. Cardinality(slots) = 0
    BY FS_EmptySet DEF Init
<1> QED BY <1>1 DEF Init, GuardOK, SlotOK, InsidePC, ApprovalPC, WorkingPC

\* Two executors in one workspace never run at the same time, whatever they are
\* woken by and whichever way they return.
THEOREM Serialization == Spec => []WorkspaceSerialized
<1>1. GuardOK => WorkspaceSerialized
    BY DEF GuardOK, WorkspaceSerialized
<1> QED BY <1>1, LockInit, GuardStep, TypeInvariant, PTL DEF Spec

\* No more executors are inside than there are permits.
THEOREM SlotLimit == Spec => []SlotsRespected
<1>1. ASSUME TypeInv, SlotOK PROVE SlotsRespected
    <2> DEFINE Inside == {r \in Run : pc[r] \in InsidePC}
    <2>1. Inside \subseteq slots /\ IsFiniteSet(slots)
        BY <1>1, RunFinite, FS_Subset DEF SlotOK, TypeInv, ExecTypeOK
    <2>2. /\ Cardinality(Inside) <= Cardinality(slots)
          /\ Cardinality(Inside) \in Nat /\ Cardinality(slots) \in Nat
        BY <2>1, FS_Subset, FS_CardinalityType
    <2>3. Cardinality(slots) <= MaxSlots
        BY <1>1 DEF SlotOK
    <2> QED BY <2>2, <2>3 DEF SlotsRespected
<1> QED BY <1>1, LockInit, SlotStep, TypeInvariant, PTL DEF Spec

-----------------------------------------------------------------------------
(* Interrupts and completion.                                                *)

\* The end of a task looks at the interrupt flag under the lock it writes with.
LEMMA InterruptStep ==
    ASSUME TypeInv, InterruptNeverCompletes, [Next]_vars
    PROVE  InterruptNeverCompletes'
<1> USE DEF TypeInv, InterruptNeverCompletes, TaskTypeOK
<1>1. ASSUME NEW r \in Run, FailSessionLimit(r) \/ Begin(r) \/ Stop(r)
      PROVE InterruptNeverCompletes'
    BY <1>1 DEF FailSessionLimit, Begin, Stop, Stopping, StopStatus, SetStatus
<1>2. ASSUME NEW r \in Run, MissingFreshRead(r) \/ BlockStep(r) \/ Expire(r) \/ GuardrailError(r)
      PROVE InterruptNeverCompletes'
    BY <1>2 DEF MissingFreshRead, BlockStep, Expire, FailStep, GuardrailError, SetStatus
<1>3. ASSUME NEW r \in Run, RequestApproval(r) \/ StartStep(r) \/ Halt(r) \/ StepFailed(r)
      PROVE InterruptNeverCompletes'
    BY <1>3 DEF RequestApproval, StartStep, Halt, StepFailed, StopStatus, SetStatus
<1>4. ASSUME NEW r \in Run, CloseApproval(r) PROVE InterruptNeverCompletes'
    <2>1. outcome[r] \in Outcome \ {"none"}
        BY <1>4 DEF CloseApproval, InStore, LocOK, ExecTypeOK
    <2>2. ~Granted(r) => Refusal[outcome[r]][1] \in {"failed", "interrupted"}
        BY <2>1 DEF Granted, Refusal, Outcome
    <2>3. /\ UNCHANGED intr
          /\ \/ UNCHANGED status
             \/ \E s \in {"running", "failed", "interrupted"} :
                    status' = [status EXCEPT ![r[1]] = s]
        BY <1>4, <2>2 DEF CloseApproval, SetStatus
    <2> QED BY <2>3
<1>5. ASSUME NEW r \in Run, StepSucceeded(r) \/ Finalize(r) PROVE InterruptNeverCompletes'
    BY <1>5 DEF StepSucceeded, Finalize, Stopping, StopStatus, SetStatus
<1>6. ASSUME NEW r \in Run,
             \/ TaskGone(r) \/ Snapshot(r) \/ CheckSessionLimit(r) \/ AcquireWorkspace(r)
             \/ AcquireSlot(r) \/ WaitWake(r) \/ StepHead(r) \/ CheckStep(r)
             \/ InspectAllow(r) \/ ReuseApproval(r) \/ IndexApproval(r) \/ CheckDecision(r)
             \/ ArmWaiter(r) \/ ApprovalWake(r) \/ ApprovalTimeout(r) \/ Preflight(r)
             \/ FinishStep(r) \/ ExecWake(r) \/ StepTimeout(r) \/ Leave(r)
      PROVE InterruptNeverCompletes'
    <2>1. UNCHANGED <<intr, status>>
        BY <1>6 DEF storeVars, taskVars, TaskGone, Snapshot, CheckSessionLimit,
            AcquireWorkspace, AcquireSlot, WaitWake, StepHead, CheckStep, InspectAllow,
            ReuseApproval, IndexApproval, CheckDecision, ArmWaiter, ApprovalWake,
            ApprovalTimeout, Preflight, FinishStep, ExecWake, StepTimeout, Leave
    <2> QED BY <2>1
<1>7. ASSUME NEW t \in Task, Start(t) \/ Pause(t) \/ Resume(t) \/ RefuseResume(t)
      PROVE InterruptNeverCompletes'
    BY <1>7 DEF Start, Pause, Resume, RefuseResume, SetStatus, taskVars
<1>8. ASSUME NEW t \in Task, Interrupt(t) PROVE InterruptNeverCompletes'
    BY <1>8 DEF Interrupt, SetStatus, is_agent_task_terminal_status
<1>9. ASSUME NEW a \in index, NEW d \in {"approved", "rejected"}, Decide(a, d)
      PROVE InterruptNeverCompletes'
    BY <1>9 DEF Decide, taskVars
<1>10. ASSUME NEW S \in SUBSET Task, Sweep(S) PROVE InterruptNeverCompletes'
    BY <1>10 DEF Sweep
<1>11. CASE UNCHANGED vars
    BY <1>11 DEF vars, storeVars, taskVars
<1> QED
    BY <1>1, <1>2, <1>3, <1>4, <1>5, <1>6, <1>7, <1>8, <1>9, <1>10, <1>11
    DEF Next, ExecutorStep, OperatorStep, SweeperStep

\* However late an interrupt is accepted, the task is not reported completed.
THEOREM InterruptWins == Spec => []InterruptNeverCompletes
<1>1. Init => InterruptNeverCompletes
    BY BootAssumption DEF Init, InterruptNeverCompletes
<1> QED BY <1>1, InterruptStep, TypeInvariant, PTL DEF Spec

-----------------------------------------------------------------------------
(* The approval gate.  What lets a step run goes a long way: the operator's    *)
(* decision is put in the pending approval, read by the waiter, kept in        *)
(* `outcome`, written into the step's metadata, read from there by a later     *)
(* step of the same scope, and read again before the step's result is written. *)
(* Each stop on the way keeps its link to a recorded decision.                 *)

Consent(t, i) == (\E n \in 0..MaxRuns : ApprovedFor(t, n, i)) \/ ScopeApproved(t, i)

PendingRecorded ==
    \A t \in Task : pend[t].decision = "approved" => <<pend[t].id, "approved">> \in decisions
ApprovedConsented == \A t \in Task : \A i \in approved[t] : Consent(t, i)
WaiterConsented ==
    \A r \in Run : pc[r] = "close" /\ outcome[r] = "approved" => ApprovedFor(r[1], r[2], at[r])
ResultConsented ==
    \A r \in Run : pc[r] = "post" /\ outcome[r] = "approved" => Consent(r[1], at[r])

RunningPC == {"start_step"} \cup WorkingPC
RunningConsented ==
    \A r \in Run : pc[r] \in RunningPC /\ at[r] \in ApprovalSteps[r[1]]
        => ApprovedFor(r[1], r[2], at[r]) \/ ScopeApproved(r[1], at[r])

ConsentInv == /\ PendingRecorded /\ ApprovedConsented
              /\ WaiterConsented /\ ResultConsented /\ RunningConsented

\* The actions of an executor that handle approvals or enter a state ConsentInv
\* speaks of.
Approving(r) ==
    \/ InspectAllow(r)     \/ ReuseApproval(r)   \/ RequestApproval(r)
    \/ CheckDecision(r)    \/ ApprovalTimeout(r) \/ CloseApproval(r)
    \/ FinishStep(r)       \/ StepSucceeded(r)   \/ StepFailed(r)

\* The other actions of an executor: approvals stay as they are, and only a step
\* that was let run goes on running.
LEMMA ApprovalFrame ==
    ASSUME TypeInv, NEW r \in Run, ExecutorStep(r), ~Approving(r)
    PROVE  /\ UNCHANGED <<approved, pend, decisions, outcome>>
           /\ \A q \in Run : q # r => at'[q] = at[q]
           /\ \E l \in PC \ {"close", "post"} :
                /\ pc' = [pc EXCEPT ![r] = l]
                /\ l \in RunningPC => pc[r] \in RunningPC /\ UNCHANGED at
<1> USE DEF InStore, Goto, PC, InsidePC, ApprovalPC, WorkingPC, RunningPC, storeVars, taskVars
<1>1. CASE TaskGone(r) \/ Snapshot(r) \/ CheckSessionLimit(r) \/ FailSessionLimit(r)
    BY <1>1 DEF TaskGone, Snapshot, CheckSessionLimit, FailSessionLimit
<1>2. CASE AcquireWorkspace(r) \/ AcquireSlot(r) \/ Leave(r)
    BY <1>2 DEF AcquireWorkspace, AcquireSlot, Leave
<1>3. CASE WaitWake(r)
    <2>1. PICK l \in {"leaving", "ws_wait", "slot_wait"} : pc' = [pc EXCEPT ![r] = l]
        BY <1>3 DEF WaitWake
    <2> QED BY <1>3, <2>1 DEF WaitWake
<1>4. CASE Begin(r) \/ StepHead(r) \/ Stop(r) \/ CheckStep(r)
    BY <1>4 DEF Begin, StepHead, Stop, CheckStep, TypeInv, ExecTypeOK
<1>5. CASE MissingFreshRead(r) \/ BlockStep(r) \/ GuardrailError(r) \/ Halt(r) \/ Expire(r)
    BY <1>5 DEF MissingFreshRead, BlockStep, FailStep, GuardrailError, Halt, Expire
<1>6. CASE IndexApproval(r) \/ ArmWaiter(r) \/ ApprovalWake(r) \/ Finalize(r)
    BY <1>6 DEF IndexApproval, ArmWaiter, ApprovalWake, Finalize
<1>7. CASE StartStep(r) \/ Preflight(r) \/ ExecWake(r) \/ StepTimeout(r)
    BY <1>7 DEF StartStep, Preflight, ExecWake, StepTimeout
<1> QED
    BY <1>1, <1>2, <1>3, <1>4, <1>5, <1>6, <1>7 DEF ExecutorStep, Approving

\* Recorded decisions are never taken back, so consent once given stays given.
LEMMA ConsentStays ==
    ASSUME TypeInv, [Next]_vars
    PROVE  /\ decisions \subseteq decisions'
           /\ \A t, n, i : ApprovedFor(t, n, i) => ApprovedFor(t, n, i)'
           /\ \A t, i : ScopeApproved(t, i) => ScopeApproved(t, i)'
           /\ \A t, i : Consent(t, i) => Consent(t, i)'
<1>1. ASSUME NEW r \in Run, ExecutorStep(r) PROVE decisions' = decisions
    <2>1. CASE Approving(r)
        BY <2>1 DEF Approving, InspectAllow, ReuseApproval, RequestApproval, CheckDecision,
            ApprovalTimeout, CloseApproval, FinishStep, StepSucceeded, StepFailed, storeVars
    <2> QED BY <1>1, <2>1, ApprovalFrame
<1>2. ASSUME OperatorStep \/ SweeperStep PROVE decisions \subseteq decisions'
    <2>1. ASSUME NEW t \in Task,
                 Start(t) \/ Interrupt(t) \/ Pause(t) \/ Resume(t) \/ RefuseResume(t)
          PROVE decisions' = decisions
        BY <2>1 DEF Start, Interrupt, Pause, Resume, RefuseResume
    <2>2. ASSUME NEW a \in index, NEW d \in {"approved", "rejected"}, Decide(a, d)
          PROVE decisions \subseteq decisions'
        BY <2>2 DEF Decide
    <2>3. ASSUME NEW S \in SUBSET Task, Sweep(S) PROVE decisions' = decisions
        BY <2>3 DEF Sweep
    <2> QED BY <1>2, <2>1, <2>2, <2>3 DEF OperatorStep, SweeperStep
<1>3. ASSUME UNCHANGED vars PROVE decisions' = decisions
    BY <1>3 DEF vars, storeVars, taskVars, execVars
<1>4. decisions \subseteq decisions'
    BY <1>1, <1>2, <1>3 DEF Next
<1> QED BY <1>4 DEF Consent, ScopeApproved, ApprovedFor

\* What the operator and the sweeper do to approvals.
LEMMA HandlerApprovals ==
    ASSUME TypeInv, PendingRecorded, OperatorStep \/ SweeperStep
    PROVE  PendingRecorded' /\ \A t \in Task : approved'[t] \subseteq approved[t]
<1> USE DEF TypeInv, StoreTypeOK, TaskTypeOK, PendingRecorded, NoApproval, taskVars
<1>1. ASSUME NEW t \in Task, Start(t) \/ Interrupt(t) \/ Pause(t) \/ RefuseResume(t)
      PROVE  UNCHANGED <<pend, decisions, approved>>
    BY <1>1 DEF Start, Interrupt, Pause, RefuseResume
<1>2. ASSUME NEW t \in Task, Resume(t)
      PROVE  PendingRecorded' /\ \A u \in Task : approved'[u] \subseteq approved[u]
    BY <1>2 DEF Resume
<1>3. ASSUME NEW a \in index, NEW d \in {"approved", "rejected"}, Decide(a, d)
      PROVE  PendingRecorded' /\ UNCHANGED approved
    <2>1. a[1][1] \in Task
        BY DEF ApprovalId
    <2>2. CASE Present(a[1][1])
        <3>1. /\ pend[a[1][1]].id = a
              /\ pend' = [pend EXCEPT ![a[1][1]].decision = d]
              /\ decisions' = decisions \cup {<<a, d>>}
            BY <1>3, <2>2 DEF Decide
        <3>2. pend'[a[1][1]].id = a /\ pend'[a[1][1]].decision = d
            BY <2>1, <3>1 DEF Approvals
        <3> QED BY <1>3, <2>1, <3>1, <3>2 DEF Decide
    <2>3. CASE ~Present(a[1][1])
        BY <1>3, <2>3 DEF Decide
    <2> QED BY <2>2, <2>3
<1>4. ASSUME NEW S \in SUBSET Task, Sweep(S) PROVE PendingRecorded' /\ UNCHANGED approved
    BY <1>4 DEF Sweep
<1> QED
    BY <1>1, <1>2, <1>3, <1>4 DEF OperatorStep, SweeperStep

\* No action breaks the chain from a recorded decision to a running step.
LEMMA ConsentStep == TypeInv /\ ConsentInv /\ [Next]_vars => ConsentInv'
<1> SUFFICES ASSUME TypeInv, ConsentInv, [Next]_vars PROVE ConsentInv'
    OBVIOUS
<1> USE ConsentStays DEF ConsentInv, TypeInv, ExecTypeOK, InStore, Goto
<1> USE DEF PendingRecorded, ApprovedConsented, WaiterConsented, ResultConsented, RunningConsented
<1> USE DEF RunningPC, WorkingPC
<1>1. ASSUME NEW r \in Run, ExecutorStep(r), ~Approving(r) PROVE ConsentInv'
    <2>1. PICK l \in PC \ {"close", "post"} :
              /\ pc' = [pc EXCEPT ![r] = l]
              /\ l \in RunningPC => pc[r] \in RunningPC /\ UNCHANGED at
        BY <1>1, ApprovalFrame
    <2>2. /\ UNCHANGED <<approved, pend, decisions, outcome>>
          /\ \A q \in Run : q # r => at'[q] = at[q]
        BY <1>1, ApprovalFrame
    <2>3. PendingRecorded' /\ ApprovedConsented'
        BY <2>2
    <2>4. WaiterConsented' /\ ResultConsented'
        BY <2>1, <2>2
    <2>5. RunningConsented'
        BY <2>1, <2>2
    <2> QED BY <2>3, <2>4, <2>5
<1>2. ASSUME NEW r \in Run, InspectAllow(r) PROVE ConsentInv'
    BY <1>2 DEF InspectAllow, storeVars, taskVars
<1>3. ASSUME NEW r \in Run, ReuseApproval(r) PROVE ConsentInv'
    <2> DEFINE t == r[1]
               i == at[r]
    <2>1. t \in Task /\ i \in Step /\ pc[r] = "inspect" /\ HasPriorApproval(t, i)
        BY <1>3 DEF ReuseApproval, LocOK, LoopPC
    <2>2. PICK j \in Step : j < i /\ j \in approved[t] /\ ScopeOf[t][j] = ScopeOf[t][i]
                              /\ ScopeOf[t][i] # NoScope
        BY <2>1 DEF HasPriorApproval
    <2>3. Consent(t, j)
        BY <2>1, <2>2
    <2>4. ScopeApproved(t, i)
        <3>1. ASSUME NEW n \in 0..MaxRuns, NEW k \in Step, k <= j, ApprovedFor(t, n, k),
                     ScopeOf[t][k] = ScopeOf[t][j]
              PROVE  ScopeApproved(t, i)
            <4>1. k < i
                BY <2>1, <2>2, <3>1
            <4> QED BY <2>2, <3>1, <4>1 DEF ScopeApproved
        <3> QED BY <2>3, <3>1 DEF Consent, ScopeApproved
    <2>5. /\ approved' = [approved EXCEPT ![t] = @ \cup {i}]
          /\ pc' = [pc EXCEPT ![r] = "start_step"]
          /\ UNCHANGED <<pend, decisions, at, outcome>>
        BY <1>3 DEF ReuseApproval
    <2>6. ScopeApproved(t, i)' /\ Consent(t, i)'
        BY <2>4, <2>5 DEF Consent
    <2>7. ApprovedConsented'
        BY <2>1, <2>5, <2>6 DEF TaskTypeOK
    <2>8. RunningConsented'
        BY <2>5, <2>6
    <2> QED BY <2>5, <2>7, <2>8
<1>4. ASSUME NEW r \in Run, RequestApproval(r) PROVE ConsentInv'
    BY <1>4 DEF RequestApproval, TaskTypeOK, StoreTypeOK
<1>5. ASSUME NEW r \in Run, CheckDecision(r) PROVE ConsentInv'
    <2>1. ApprovalOutcome(r) = "approved" => ApprovedFor(r[1], r[2], at[r])
        <3>1. r = <<r[1], r[2]>> /\ r[1] \in Task
            OBVIOUS
        <3>2. ApprovalOutcome(r) = "approved" =>
                  pend[r[1]].id = <<r, at[r]>> /\ pend[r[1]].decision = "approved"
            BY DEF ApprovalOutcome
        <3> QED BY <3>1, <3>2 DEF ApprovedFor
    <2>2. /\ pc[r] = "appr_check"
          /\ outcome' = [outcome EXCEPT ![r] = ApprovalOutcome(r)]
          /\ pc' = [pc EXCEPT ![r] = "appr_arm"] \/ pc' = [pc EXCEPT ![r] = "close"]
          /\ UNCHANGED <<approved, pend, decisions, at>>
        BY <1>5 DEF CheckDecision, storeVars, taskVars
    <2>3. WaiterConsented'
        BY <2>1, <2>2
    <2> QED BY <2>2, <2>3
<1>6. ASSUME NEW r \in Run, ApprovalTimeout(r) PROVE ConsentInv'
    BY <1>6 DEF ApprovalTimeout, storeVars, taskVars
<1>7. ASSUME NEW r \in Run, CloseApproval(r) PROVE ConsentInv'
    <2>1. /\ pc[r] = "close"
          /\ outcome' = [outcome EXCEPT ![r] = "none"]
          /\ UNCHANGED <<decisions, at>>
          /\ UNCHANGED pend \/ pend' = [pend EXCEPT ![r[1]] = NoApproval]
        BY <1>7 DEF CloseApproval
    <2>2. PendingRecorded'
        <3>1. NoApproval.decision = "none"
            BY DEF NoApproval
        <3>2. \A t \in Task : \/ pend'[t] = pend[t]
                             \/ pend'[t].decision = "none"
            BY <2>1, <3>1 DEF StoreTypeOK
        <3> QED BY <2>1, <3>2
    <2>3. CASE Open(r[1]) /\ Granted(r)
        <3>1. ApprovedFor(r[1], r[2], at[r])
            BY <2>1, <2>3 DEF Granted
        <3>2. Consent(r[1], at[r])
            BY <3>1 DEF Consent
        <3>3. /\ approved' = [approved EXCEPT ![r[1]] = @ \cup {at[r]}]
              /\ pc' = [pc EXCEPT ![r] = "start_step"]
            BY <1>7, <2>3 DEF CloseApproval
        <3>4. ApprovedConsented'
            BY <2>1, <3>2, <3>3 DEF TaskTypeOK
        <3>5. RunningConsented'
            BY <2>1, <3>1, <3>3
        <3> QED BY <2>1, <2>2, <3>3, <3>4, <3>5
    <2>4. CASE ~(Open(r[1]) /\ Granted(r))
        <3>1. UNCHANGED approved /\ pc' = [pc EXCEPT ![r] = "leaving"]
            BY <1>7, <2>4 DEF CloseApproval
        <3> QED BY <2>1, <2>2, <3>1
    <2> QED BY <2>3, <2>4
<1>8. ASSUME NEW r \in Run, FinishStep(r) PROVE ConsentInv'
    BY <1>8 DEF FinishStep, storeVars, taskVars
<1>9. ASSUME NEW r \in Run, StepSucceeded(r) PROVE ConsentInv'
    <2>1. /\ pc[r] = "post"
          /\ outcome' = [outcome EXCEPT ![r] = "none"]
          /\ pc' = [pc EXCEPT ![r] = "leaving"] \/ pc' = [pc EXCEPT ![r] = "head"]
          /\ \A q \in Run : q # r => at'[q] = at[q]
          /\ UNCHANGED <<pend, decisions>>
          /\ \/ approved' = [approved EXCEPT ![r[1]] = @ \ {at[r]}]
             \/ /\ outcome[r] = "approved"
                /\ approved' = [approved EXCEPT ![r[1]] = @ \cup {at[r]}]
        BY <1>9 DEF StepSucceeded
    <2>2. outcome[r] = "approved" => Consent(r[1], at[r])
        BY <2>1
    <2>3. \A t \in Task : \A i \in approved'[t] :
              i \in approved[t] \/ (t = r[1] /\ i = at[r] /\ outcome[r] = "approved")
        BY <2>1 DEF TaskTypeOK
    <2>4. ApprovedConsented'
        BY <2>2, <2>3
    <2>5. PendingRecorded'
        BY <2>1
    <2>6. WaiterConsented' /\ ResultConsented'
        BY <2>1
    <2>7. RunningConsented'
        BY <2>1
    <2> QED BY <2>4, <2>5, <2>6, <2>7
<1>10. ASSUME NEW r \in Run, StepFailed(r) PROVE ConsentInv'
    BY <1>10 DEF StepFailed
<1>11. CASE OperatorStep \/ SweeperStep
    BY <1>11, HandlerFrame, HandlerApprovals
<1>12. CASE UNCHANGED vars
    BY <1>12 DEF vars, storeVars, taskVars, execVars
<1> QED
    BY <1>1, <1>2, <1>3, <1>4, <1>5, <1>6, <1>7, <1>8, <1>9, <1>10, <1>11, <1>12
    DEF Next, Approving

\* Steps approved before a restart have their decision on record.
LEMMA ConsentInit == Init => ConsentInv
<1> SUFFICES ASSUME Init PROVE ConsentInv
    OBVIOUS
<1>1. PendingRecorded
    BY DEF Init, PendingRecorded, NoApproval
<1>2. ApprovedConsented
    <2>1. PICK done \in [Task -> 0..NSteps] : Init!2!(done)
        BY DEF Init
    <2>2. ASSUME NEW t \in Task, NEW i \in approved[t] PROVE ApprovedFor(t, 0, i)
        <3>1. i \in ApprovalSteps[t] /\ i <= done[t]
            BY <2>1
        <3>2. <<<<t, 0>>, i>> \in ApprovalId
            BY <3>1 DEF ApprovalId
        <3> QED BY <2>1, <3>1, <3>2 DEF ApprovedFor
    <2> QED BY <2>2 DEF ApprovedConsented, Consent
<1>3. WaiterConsented /\ ResultConsented /\ RunningConsented
    BY DEF Init, WaiterConsented, ResultConsented, RunningConsented, RunningPC, WorkingPC
<1> QED BY <1>1, <1>2, <1>3 DEF ConsentInv

\* A step that policy or an inspector gates runs only after a recorded approval of
\* this execution of it, or of an earlier step with its scope.
THEOREM Gate == Spec => []ApprovalGate
<1>1. ConsentInv => ApprovalGate
    BY DEF ConsentInv, RunningConsented, RunningPC, ApprovalGate
<1> QED BY <1>1, ConsentInit, ConsentStep, TypeInvariant, PTL DEF Spec

-----------------------------------------------------------------------------
(* The life of a task: a task that awaits approval can be answered, the        *)
(* approval index leaks nothing, and the verdict on a task nobody pauses is    *)
(* final.  An approval is put into the task, put into the index, waited for,   *)
(* and withdrawn.                                                              *)

Waiting(r) ==
    \/ RequestApproval(r) \/ IndexApproval(r)   \/ CheckDecision(r) \/ ArmWaiter(r)
    \/ ApprovalWake(r)    \/ ApprovalTimeout(r) \/ CloseApproval(r)

\* Every other action of an executor is of one that neither waits for an approval
\* nor comes to; it leaves approvals, index and store alone, and no task awaits
\* approval because of it.
LEMMA NotWaitingFrame ==
    ASSUME TypeInv, NEW r \in Run, ExecutorStep(r), ~Waiting(r)
    PROVE  /\ UNCHANGED <<pend, index, stored>>
           /\ \A q \in Run : q # r => at'[q] = at[q]
           /\ pc[r] \notin ApprovalPC
           /\ \E l \in PC \ ApprovalPC : pc' = [pc EXCEPT ![r] = l]
           /\ \A t \in Task : status'[t] = "awaiting_approval" => status[t] = "awaiting_approval"
<1> USE DEF TypeInv, ExecTypeOK, TaskTypeOK, InStore, Goto, PC, InsidePC, ApprovalPC, WorkingPC
<1> USE DEF SetStatus, storeVars, taskVars
<1>1. CASE TaskGone(r) \/ Snapshot(r) \/ CheckSessionLimit(r)
    BY <1>1 DEF TaskGone, Snapshot, CheckSessionLimit
<1>2. CASE AcquireWorkspace(r) \/ AcquireSlot(r) \/ Leave(r) \/ StepHead(r) \/ CheckStep(r)
    BY <1>2 DEF AcquireWorkspace, AcquireSlot, Leave, StepHead, CheckStep
<1>3. CASE WaitWake(r)
    <2>1. PICK l \in {"leaving", "ws_wait", "slot_wait"} : pc' = [pc EXCEPT ![r] = l]
        BY <1>3 DEF WaitWake
    <2> QED BY <1>3, <2>1 DEF WaitWake
<1>4. CASE FailSessionLimit(r) \/ Begin(r) \/ Stop(r)
    BY <1>4 DEF FailSessionLimit, Begin, Stop, StopStatus
<1>5. CASE MissingFreshRead(r) \/ BlockStep(r) \/ GuardrailError(r) \/ Expire(r)
    BY <1>5 DEF MissingFreshRead, BlockStep, FailStep, GuardrailError, Expire
<1>6. CASE Halt(r) \/ Finalize(r)
    BY <1>6 DEF Halt, Finalize, StopStatus
<1>7. CASE StartStep(r) \/ Preflight(r) \/ ExecWake(r) \/ StepTimeout(r) \/ FinishStep(r)
    BY <1>7 DEF StartStep, Preflight, ExecWake, StepTimeout, FinishStep
<1>8. CASE StepSucceeded(r) \/ StepFailed(r)
    BY <1>8 DEF StepSucceeded, StepFailed, StopStatus
<1>9. CASE InspectAllow(r) \/ ReuseApproval(r)
    BY <1>9 DEF InspectAllow, ReuseApproval
<1> QED
    BY <1>1, <1>2, <1>3, <1>4, <1>5, <1>6, <1>7, <1>8, <1>9 DEF ExecutorStep, Waiting

\* While it waits, an executor only moves among the places of the wait.
LEMMA WaitFrame ==
    ASSUME TypeInv, NEW r \in Run,
           CheckDecision(r) \/ ArmWaiter(r) \/ ApprovalWake(r) \/ ApprovalTimeout(r)
    PROVE  /\ UNCHANGED <<storeVars, at>>
           /\ pc[r] \in ApprovalPC \ {"index"}
           /\ \E l \in ApprovalPC \ {"index"} : pc' = [pc EXCEPT ![r] = l]
BY DEF TypeInv, ExecTypeOK, InStore, Goto, ApprovalPC, CheckDecision, ArmWaiter,
    ApprovalWake, ApprovalTimeout

\* The handlers and the sweeper start an executor that was not used yet, or none.
LEMMA SpawnFrame ==
    ASSUME TypeInv, OperatorStep \/ SweeperStep
    PROVE  /\ UNCHANGED at
           /\ \/ UNCHANGED pc
              \/ \E r \in Run : pc[r] = "idle" /\ pc' = [pc EXCEPT ![r] = "spawned"]
<1>1. ASSUME NEW t \in Task, Start(t) \/ Resume(t)
      PROVE  UNCHANGED pc \/ \E r \in Run : pc[r] = "idle" /\ pc' = [pc EXCEPT ![r] = "spawned"]
    BY <1>1 DEF Start, Resume, Spawn, RunsOf, Goto
<1>2. ASSUME NEW t \in Task, Interrupt(t) \/ Pause(t) \/ RefuseResume(t)
      PROVE  UNCHANGED pc
    BY <1>2 DEF Interrupt, Pause, RefuseResume, execVars
<1>3. ASSUME NEW a \in index, NEW d \in {"approved", "rejected"}, Decide(a, d)
      PROVE  UNCHANGED pc
    BY <1>3 DEF Decide
<1>4. ASSUME NEW S \in SUBSET Task, Sweep(S) PROVE UNCHANGED pc
    BY <1>4 DEF Sweep
<1>5. UNCHANGED at
    BY HandlerFrame
<1> QED
    BY <1>1, <1>2, <1>3, <1>4, <1>5 DEF OperatorStep, SweeperStep

\* The handlers and the sweeper put nothing into the index.
LEMMA HandlerIndex ==
    ASSUME OperatorStep \/ SweeperStep
    PROVE  index' \subseteq index
<1>1. ASSUME NEW t \in Task, Start(t) \/ Interrupt(t) \/ Pause(t) \/ Resume(t) \/ RefuseResume(t)
      PROVE  index' \subseteq index
    BY <1>1 DEF Start, Interrupt, Pause, Resume, RefuseResume
<1>2. ASSUME NEW a \in index, NEW d \in {"approved", "rejected"}, Decide(a, d)
      PROVE  index' \subseteq index
    BY <1>2 DEF Decide
<1>3. ASSUME NEW S \in SUBSET Task, Sweep(S) PROVE index' \subseteq index
    BY <1>3 DEF Sweep
<1> QED
    BY <1>1, <1>2, <1>3 DEF OperatorStep, SweeperStep

\* An entry made since the start of the service goes with the wait it belongs to.
LEMMA EntryStep ==
    ASSUME TypeInv, IndexEntriesHaveWaiters, [Next]_vars
    PROVE  IndexEntriesHaveWaiters'
<1> USE DEF TypeInv, ExecTypeOK, StoreTypeOK, IndexEntriesHaveWaiters, InStore, Goto, ApprovalPC
<1>1. ASSUME NEW r \in Run, ExecutorStep(r), ~Waiting(r) PROVE IndexEntriesHaveWaiters'
    BY <1>1, NotWaitingFrame
<1>2. ASSUME NEW r \in Run,
             CheckDecision(r) \/ ArmWaiter(r) \/ ApprovalWake(r) \/ ApprovalTimeout(r)
      PROVE  IndexEntriesHaveWaiters'
    BY <1>2, WaitFrame DEF storeVars
<1>3. ASSUME NEW r \in Run, RequestApproval(r) PROVE IndexEntriesHaveWaiters'
    BY <1>3 DEF RequestApproval
<1>4. ASSUME NEW r \in Run, IndexApproval(r) PROVE IndexEntriesHaveWaiters'
    BY <1>4 DEF IndexApproval
<1>5. ASSUME NEW r \in Run, CloseApproval(r) PROVE IndexEntriesHaveWaiters'
    <2>1. /\ index' = index \ {<<r, at[r]>>}
          /\ UNCHANGED at
          /\ \E l \in {"leaving", "start_step"} : pc' = [pc EXCEPT ![r] = l]
        BY <1>5 DEF CloseApproval, Withdrawn
    <2>2. ASSUME NEW a \in index', a[1][2] # 0
          PROVE  a[1] \in Run /\ pc'[a[1]] \in ApprovalPC /\ at'[a[1]] = a[2]
        <3>1. a \in index /\ a = <<a[1], a[2]>> /\ a # <<r, at[r]>>
            BY <2>1 DEF ApprovalId
        <3>2. a[1] \in Run /\ pc[a[1]] \in ApprovalPC /\ at[a[1]] = a[2]
            BY <2>2, <3>1
        <3>3. a[1] # r
            BY <3>1, <3>2
        <3> QED BY <2>1, <3>2, <3>3
    <2> QED BY <2>2
<1>6. CASE OperatorStep \/ SweeperStep
    BY <1>6, SpawnFrame, HandlerIndex
<1>7. CASE UNCHANGED vars
    BY <1>7 DEF vars, storeVars, execVars
<1> QED
    BY <1>1, <1>2, <1>3, <1>4, <1>5, <1>6, <1>7 DEF Next, Waiting

\* The approval index leaks nothing, however the waits end and whatever the
\* operator, the sweeper and the evictions do to the tasks meanwhile.
THEOREM EntriesHaveWaiters == Spec => []IndexEntriesHaveWaiters
<1>1. Init => IndexEntriesHaveWaiters
    BY DEF Init, IndexEntriesHaveWaiters, BootId
<1> QED BY <1>1, EntryStep, TypeInvariant, PTL DEF Spec

-----------------------------------------------------------------------------
(* A pending approval is one of its own task, so that what is withdrawn for one *)
(* task is never what another one waits for.                                    *)

PendingOwn == \A t \in Task : pend[t].id \in ApprovalId => pend[t].id[1][1] = t

\* That no approval is pending is not taken for an approval.
LEMMA NoApprovalId == NoApproval.id \notin ApprovalId
BY DEF NoApproval, ApprovalId

\* A request names the executor that makes it; every other write keeps the id or
\* takes the approval away.
LEMMA PendingOwnStep == TypeInv /\ PendingOwn /\ [Next]_vars => PendingOwn'
<1> SUFFICES ASSUME TypeInv, PendingOwn, [Next]_vars PROVE PendingOwn'
    OBVIOUS
<1> USE DEF TypeInv, ExecTypeOK, StoreTypeOK, PendingOwn, taskVars
<1>1. ASSUME NEW r \in Run, ExecutorStep(r), ~Waiting(r) PROVE PendingOwn'
    BY <1>1, NotWaitingFrame
<1>2. ASSUME NEW r \in Run,
             CheckDecision(r) \/ ArmWaiter(r) \/ ApprovalWake(r) \/ ApprovalTimeout(r)
      PROVE  PendingOwn'
    BY <1>2, WaitFrame DEF storeVars
<1>3. ASSUME NEW r \in Run, RequestApproval(r) PROVE PendingOwn'
    <2>1. at[r] \in Step /\ r[2] \in 0..MaxRuns /\ r = <<r[1], r[2]>> /\ r[1] \in Task
        BY <1>3 DEF RequestApproval, InStore, LocOK, LoopPC
    <2>2. pend' = [pend EXCEPT ![r[1]] =
                      [id |-> <<r, at[r]>>, step |-> at[r], decision |-> "none"]]
        BY <1>3 DEF RequestApproval
    <2>3. pend'[r[1]].id = <<r, at[r]>>
        BY <2>1, <2>2
    <2>4. \A t \in Task : t # r[1] => pend'[t] = pend[t]
        BY <2>2
    <2>5. pend'[r[1]].id[1][1] = r[1]
        BY <2>3
    <2> QED BY <2>4, <2>5
<1>4. ASSUME NEW r \in Run, IndexApproval(r) PROVE PendingOwn'
    BY <1>4 DEF IndexApproval
<1>5. ASSUME NEW r \in Run, CloseApproval(r) PROVE PendingOwn'
    BY NoApprovalId, <1>5 DEF CloseApproval
<1>6. ASSUME NEW t \in Task, Start(t) \/ Interrupt(t) \/ Pause(t) \/ Resume(t) \/ RefuseResume(t)
      PROVE  PendingOwn'
    BY NoApprovalId, <1>6 DEF Start, Interrupt, Pause, Resume, RefuseResume
<1>7. ASSUME NEW a \in index, NEW d \in {"approved", "rejected"}, Decide(a, d)
      PROVE  PendingOwn'
    <2>1. a[1][1] \in Task
        BY DEF ApprovalId
    <2>2. UNCHANGED pend \/ pend' = [pend EXCEPT ![a[1][1]].decision = d]
        BY <1>7 DEF Decide
    <2>3. ASSUME NEW t \in Task PROVE pend'[t].id = pend[t].id
        <3>1. CASE UNCHANGED pend
            BY <3>1
        <3>2. CASE pend' = [pend EXCEPT ![a[1][1]].decision = d]
            BY <2>1, <3>2 DEF Approvals
        <3> QED BY <2>2, <3>1, <3>2
    <2> QED BY <2>3
<1>8. ASSUME NEW S \in SUBSET Task, Sweep(S) PROVE PendingOwn'
    BY NoApprovalId, <1>8 DEF Sweep
<1>9. CASE UNCHANGED vars
    BY <1>9 DEF vars, storeVars
<1> QED
    BY <1>1, <1>2, <1>3, <1>4, <1>5, <1>6, <1>7, <1>8, <1>9
    DEF Next, Waiting, OperatorStep, SweeperStep

\* What makes a task that awaits approval answerable.
Answerable(t) ==
    /\ Present(t)
    /\ pend[t] # NoApproval
    /\ \/ pend[t].id \in index
       \/ \E r \in Run : pc[r] = "index" /\ pend[t].id = <<r, at[r]>>

\* An approval in the index is pending for the task it names and for no other.
LEMMA OwnEntry ==
    ASSUME StoreTypeOK, PendingOwn, NEW t \in Task, pend[t].id \in index
    PROVE  /\ pend[t].id[1][1] = t
           /\ \A u \in Task : pend[u].id = pend[t].id => u = t
BY DEF StoreTypeOK, PendingOwn

\* An entry is taken out, and a task evicted, only when the task it belongs to no
\* longer awaits approval.
LEMMA AnswerableStep ==
    ASSUME TypeInv, PendingOwn, AwaitingIsAnswerable, [Next]_vars
    PROVE  AwaitingIsAnswerable'
<1> SUFFICES ASSUME NEW t \in Task, status'[t] = "awaiting_approval" PROVE Answerable(t)'
    BY DEF AwaitingIsAnswerable, Answerable
<1> USE DEF TypeInv, ExecTypeOK, StoreTypeOK, TaskTypeOK, InStore, Goto, Present
<1>a. status[t] = "awaiting_approval" => Answerable(t)
    BY DEF AwaitingIsAnswerable, Answerable
<1>1. ASSUME NEW r \in Run, ExecutorStep(r), ~Waiting(r) PROVE Answerable(t)'
    <2>1. status[t] = "awaiting_approval" /\ UNCHANGED <<pend, index, stored>>
        BY <1>1, NotWaitingFrame
    <2>2. \A q \in Run : pc[q] = "index" => pc'[q] = "index" /\ at'[q] = at[q]
        BY <1>1, NotWaitingFrame DEF ApprovalPC
    <2> QED BY <1>a, <2>1, <2>2 DEF Answerable
<1>2. ASSUME NEW r \in Run,
             CheckDecision(r) \/ ArmWaiter(r) \/ ApprovalWake(r) \/ ApprovalTimeout(r)
      PROVE  Answerable(t)'
    <2>1. UNCHANGED <<status, pend, index, stored, at>>
        BY <1>2, WaitFrame DEF storeVars, taskVars
    <2>2. \A q \in Run : pc[q] = "index" => pc'[q] = "index"
        BY <1>2, WaitFrame
    <2> QED BY <1>a, <2>1, <2>2 DEF Answerable
<1>3. ASSUME NEW r \in Run, RequestApproval(r) PROVE Answerable(t)'
    <2>1. /\ pc[r] = "inspect" /\ r[1] \in stored
          /\ status' = [status EXCEPT ![r[1]] = "awaiting_approval"]
          /\ pend' = [pend EXCEPT ![r[1]] =
                         [id |-> <<r, at[r]>>, step |-> at[r], decision |-> "none"]]
          /\ pc' = [pc EXCEPT ![r] = "index"]
          /\ UNCHANGED <<index, stored, at>>
        BY <1>3 DEF RequestApproval
    <2>2. CASE t = r[1]
        <3>1. pend'[t].id = <<r, at[r]>> /\ pc'[r] = "index" /\ at'[r] = at[r] /\ t \in stored'
            BY <2>1, <2>2
        <3>2. pend'[t].step # 0
            BY <2>1, <2>2 DEF LocOK, LoopPC
        <3>3. pend'[t] # NoApproval
            BY <3>2 DEF NoApproval
        <3> QED BY <3>1, <3>3 DEF Answerable
    <2>3. CASE t # r[1]
        BY <1>a, <2>1, <2>3 DEF Answerable
    <2> QED BY <2>2, <2>3
<1>4. ASSUME NEW r \in Run, IndexApproval(r) PROVE Answerable(t)'
    BY <1>a, <1>4 DEF IndexApproval, taskVars, Answerable
<1>5. ASSUME NEW r \in Run, CloseApproval(r) PROVE Answerable(t)'
    <2>1. /\ pc[r] = "close"
          /\ index' = index \ {<<r, at[r]>>}
          /\ \E l \in {"leaving", "start_step"} : pc' = [pc EXCEPT ![r] = l]
          /\ UNCHANGED <<at, stored>>
          /\ \A u \in Task : u # r[1] => pend'[u] = pend[u] /\ status'[u] = status[u]
        BY <1>5 DEF CloseApproval, Withdrawn, SetStatus
    <2>2. CASE t # r[1]
        <3>1. pend[t].id \in index => pend[t].id # <<r, at[r]>>
            BY <2>2, OwnEntry
        <3> QED BY <1>a, <2>1, <2>2, <3>1 DEF Answerable
    <2>3. CASE t = r[1]
        <3>1. outcome[r] \in Outcome \ {"none"}
            BY <2>1 DEF LocOK
        <3>2. ~Granted(r) => Refusal[outcome[r]][1] \in {"failed", "interrupted"}
            BY <3>1 DEF Granted, Refusal, Outcome
        <3>3. ~Open(t)
            BY <1>5, <2>3, <3>2 DEF CloseApproval, SetStatus
        <3>4. status'[t] = status[t]
            BY <1>5, <2>3, <3>3 DEF CloseApproval
        <3>5. FALSE
            BY <1>a, <3>3, <3>4 DEF Open, Answerable, is_agent_task_terminal_status
        <3> QED BY <3>5
    <2> QED BY <2>2, <2>3
<1>6. ASSUME NEW u \in Task, Start(u) PROVE Answerable(t)'
    <2>1. status[t] = "awaiting_approval"
        BY <1>6 DEF Start
    <2>2. t \notin Evicted
        BY <2>1 DEF Evicted, Ended, is_agent_task_terminal_status
    <2>3. t \in stored'
        BY <1>a, <1>6, <2>1, <2>2 DEF Start, Kept, Answerable
    <2>4. pend[t].id \in index => pend[t].id \in index'
        <3>1. pend[t].id \in index => pend[t].id[1][1] = t
            BY OwnEntry
        <3> QED BY <1>6, <2>2, <3>1 DEF Start
    <2>5. \A q \in Run : pc[q] = "index" => pc'[q] = "index" /\ at'[q] = at[q]
        BY <1>6, SpawnFrame DEF OperatorStep
    <2> QED BY <1>a, <1>6, <2>1, <2>3, <2>4, <2>5 DEF Start, Answerable
<1>7. ASSUME NEW u \in Task, Interrupt(u) \/ Pause(u) PROVE Answerable(t)'
    BY <1>a, <1>7 DEF Interrupt, Pause, SetStatus, Answerable
<1>8. ASSUME NEW u \in Task, Resume(u) PROVE Answerable(t)'
    <2>1. t # u /\ status[t] = "awaiting_approval"
        BY <1>8 DEF Resume, SetStatus
    <2>2. pend[t].id \in index => pend[t].id # pend[u].id
        BY <2>1, OwnEntry
    <2>3. pend'[t] = pend[t] /\ index' = index \ {pend[u].id} /\ stored \subseteq stored'
        BY <1>8, <2>1 DEF Resume, Reload
    <2>4. \A q \in Run : pc[q] = "index" => pc'[q] = "index" /\ at'[q] = at[q]
        BY <1>8, SpawnFrame DEF OperatorStep
    <2> QED BY <1>a, <2>1, <2>2, <2>3, <2>4 DEF Answerable
<1>9. ASSUME NEW u \in Task, RefuseResume(u) PROVE Answerable(t)'
    BY <1>a, <1>9 DEF RefuseResume, Reload, taskVars, execVars, Answerable
<1>10. ASSUME NEW a \in index, NEW d \in {"approved", "rejected"}, Decide(a, d)
       PROVE  Answerable(t)'
    <2>1. a[1][1] \in Task /\ d # "none"
        BY DEF ApprovalId
    <2>2. status[t] = "awaiting_approval" /\ UNCHANGED <<stored, pc, at>>
        BY <1>10 DEF Decide, taskVars
    <2>3. CASE a[1][1] \in stored
        <3>1. UNCHANGED index /\ pend' = [pend EXCEPT ![a[1][1]].decision = d]
            BY <1>10, <2>3 DEF Decide
        <3>2. pend'[t].id = pend[t].id /\ (pend'[t] = pend[t] \/ pend'[t].decision = d)
            BY <2>1, <3>1 DEF Approvals
        <3>3. pend'[t] # NoApproval
            BY <1>a, <2>1, <2>2, <3>2 DEF NoApproval, Answerable
        <3> QED BY <1>a, <2>2, <3>1, <3>2, <3>3 DEF Answerable
    <2>4. CASE a[1][1] \notin stored
        <3>1. UNCHANGED pend /\ index' = index \ {a}
            BY <1>10, <2>4 DEF Decide
        <3>2. pend[t].id # a
            BY <1>a, <2>2, <2>4, OwnEntry DEF Answerable
        <3> QED BY <1>a, <2>2, <3>1, <3>2 DEF Answerable
    <2> QED BY <2>3, <2>4
<1>11. ASSUME NEW S \in SUBSET Task, Sweep(S) PROVE Answerable(t)'
    <2>1. t \notin S /\ status[t] = "awaiting_approval" /\ pend'[t] = pend[t]
        BY <1>11 DEF Sweep
    <2>2. \A u \in S : pend[t].id \in index => pend[t].id # pend[u].id
        BY <2>1, OwnEntry
    <2>3. pend[t].id \in index => pend[t].id \in index'
        BY <1>11, <2>2 DEF Sweep
    <2> QED BY <1>a, <1>11, <2>1, <2>3 DEF Sweep, Answerable
<1>12. CASE UNCHANGED vars
    BY <1>a, <1>12 DEF vars, storeVars, taskVars, execVars, Answerable
<1> QED
    BY <1>1, <1>2, <1>3, <1>4, <1>5, <1>6, <1>7, <1>8, <1>9, <1>10, <1>11, <1>12
    DEF Next, Waiting, OperatorStep, SweeperStep

\* A task recovered while it awaited approval has its approval in the index.
LEMMA AnswerableInit == Init => PendingOwn /\ AwaitingIsAnswerable
<1> SUFFICES ASSUME Init PROVE PendingOwn /\ AwaitingIsAnswerable
    OBVIOUS
<1>1. PICK done \in [Task -> 0..NSteps] : Init!2!(done)
    BY DEF Init
<1>2. \A t \in Task : status[t] = "awaiting_approval" => done[t] + 1 \in Step
    BY <1>1 DEF BootDone
<1>3. PendingOwn
    <2>1. \A t \in Task : status[t] = "awaiting_approval" => pend[t].id[1][1] = t
        BY <1>1 DEF BootId
    <2>2. \A t \in Task : status[t] # "awaiting_approval" => pend[t].id \notin ApprovalId
        BY <1>1, NoApprovalId
    <2> QED BY <2>1, <2>2 DEF PendingOwn
<1>4. AwaitingIsAnswerable
    <2> SUFFICES ASSUME NEW t \in Task, status[t] = "awaiting_approval"
                 PROVE  Present(t) /\ pend[t] # NoApproval /\ pend[t].id \in index
        BY DEF AwaitingIsAnswerable
    <2>1. Present(t) /\ pend[t].id \in index
        BY DEF Init, Present
    <2>2. pend[t].step # 0
        BY <1>1, <1>2
    <2> QED BY <2>1, <2>2 DEF NoApproval
<1> QED BY <1>3, <1>4

\* The approval a task awaits has an entry in the index, and an executor is at work on that
\* very approval, or about to put it into the index; but for an approval of before the
\* restart, which has the entry and no executor.
AwaitingIsAwaited ==
    \A t \in Task : status[t] = "awaiting_approval" =>
        \/ pend[t].id \in index /\ pend[t].id[1][2] = 0
        \/ \E r \in Run, i \in Step :
              /\ pend[t].id = <<r, i>> /\ at[r] = i
              /\ (pend[t].id \in index /\ pc[r] \in ApprovalPC) \/ pc[r] = "index"

\* A task that awaits approval can be answered, however requests, decisions, sweeps,
\* resumes and evictions of all the tasks interleave: a decision finds its entry, and the
\* executor that waits for it is there to go on, except after a restart.
THEOREM AwaitingAnswered == Spec => [](AwaitingIsAnswerable /\ AwaitingIsAwaited)
<1>1. TypeInv /\ PendingOwn /\ AwaitingIsAnswerable /\ [Next]_vars
          => PendingOwn' /\ AwaitingIsAnswerable'
    BY PendingOwnStep, AnswerableStep
<1>2. TypeInv /\ AwaitingIsAnswerable /\ IndexEntriesHaveWaiters => AwaitingIsAwaited
    <2> SUFFICES ASSUME TypeInv, AwaitingIsAnswerable, IndexEntriesHaveWaiters,
                        NEW t \in Task, status[t] = "awaiting_approval"
                 PROVE  \/ pend[t].id \in index /\ pend[t].id[1][2] = 0
                        \/ \E r \in Run, i \in Step :
                              /\ pend[t].id = <<r, i>> /\ at[r] = i
                              /\ (pend[t].id \in index /\ pc[r] \in ApprovalPC) \/ pc[r] = "index"
        BY DEF AwaitingIsAwaited
    <2>1. CASE pend[t].id \in index /\ pend[t].id[1][2] # 0
        <3>1. PICK a \in index : a = pend[t].id
            BY <2>1
        <3>2. a[1] \in Run /\ pc[a[1]] \in ApprovalPC /\ at[a[1]] = a[2]
            BY <2>1, <3>1 DEF IndexEntriesHaveWaiters
        <3>3. a = <<a[1], a[2]>> /\ a[2] \in Step
            BY <3>1 DEF TypeInv, StoreTypeOK, ApprovalId
        <3> QED BY <3>1, <3>2, <3>3
    <2>2. CASE pend[t].id \notin index
        <3>1. PICK r \in Run : pc[r] = "index" /\ pend[t].id = <<r, at[r]>>
            BY <2>2 DEF AwaitingIsAnswerable
        <3>2. at[r] \in Step
            BY <3>1 DEF TypeInv, LocOK, LoopPC, ApprovalPC
        <3> QED BY <3>1, <3>2
    <2> QED BY <2>1, <2>2 DEF AwaitingIsAnswerable
<1> QED BY <1>1, <1>2, AnswerableInit, EntriesHaveWaiters, TypeInvariant, PTL DEF Spec

-----------------------------------------------------------------------------
(* Verdicts.  A pause that is resumed can leave two executors of one task       *)
(* behind, and then the older one may still write; for a task that nobody       *)
(* pauses there is never more than one, and it knows when the task has ended.   *)

Unpaused == Task \ Pausable

\* Where an executor no longer writes the task's status unless the task is open.
QuietPC == {"idle", "leaving", "done"} \cup ApprovalPC
SettledStatus == {"completed", "failed", "awaiting_approval"}

OneExecutor ==
    \A t \in Unpaused : \A r, q \in RunsOf(t) : pc[r] # "idle" /\ pc[q] # "idle" => r = q
Unstarted ==
    \A t \in Unpaused : status[t] = "absent" \/ is_agent_task_resumable(t)
        => \A r \in RunsOf(t) : pc[r] = "idle"
Settled ==
    \A t \in Unpaused : status[t] \in SettledStatus => \A r \in RunsOf(t) : pc[r] \in QuietPC

SoleInv == OneExecutor /\ Unstarted /\ Settled

\* What executor r writes when it sets the status of its task to s and the error to e.
Writes(r, s, e) ==
    /\ SetStatus(r[1], s, e)
    /\ s # "absent"
    /\ s = "paused" => status[r[1]] = "paused"
    /\ s = "interrupted" => e # "RUNTIME_RESTART_RECOVERY"
    /\ s \in SettledStatus => pc'[r] \in QuietPC
    /\ s = "completed" => pc[r] = "head" /\ ~MoreSteps(r) /\ UNCHANGED steps

\* An executor writes the status of its own task at most; where it waits for an
\* approval or leaves it writes none unless the task is open; an executor that ends
\* a task, or asks for its approval, is then at such a place.
LEMMA StatusFrame ==
    ASSUME TypeInv, NEW r \in Run, ExecutorStep(r)
    PROVE  /\ pc[r] # "idle" /\ pc'[r] # "idle"
           /\ \A q \in Run : q # r => pc'[q] = pc[q]
           /\ \/ /\ UNCHANGED <<status, err>>
                 /\ pc[r] \in QuietPC => pc'[r] \in QuietPC
              \/ /\ pc[r] \in QuietPC =>
                        pc[r] = "close" /\ ~is_agent_task_terminal_status(status[r[1]])
                 /\ \E s \in Status, e \in ErrorCode : Writes(r, s, e)
<1> USE DEF TypeInv, ExecTypeOK, TaskTypeOK, InStore, Goto, QuietPC, ApprovalPC, WorkingPC, Writes
<1> USE DEF SettledStatus, storeVars, taskVars
<1>1. CASE TaskGone(r) \/ Snapshot(r) \/ CheckSessionLimit(r) \/ AcquireWorkspace(r)
    BY <1>1 DEF TaskGone, Snapshot, CheckSessionLimit, AcquireWorkspace
<1>2. CASE AcquireSlot(r) \/ WaitWake(r) \/ StepHead(r) \/ CheckStep(r) \/ InspectAllow(r)
    BY <1>2 DEF AcquireSlot, WaitWake, StepHead, CheckStep, InspectAllow
<1>3. CASE ReuseApproval(r) \/ IndexApproval(r) \/ CheckDecision(r) \/ ArmWaiter(r)
    BY <1>3 DEF ReuseApproval, IndexApproval, CheckDecision, ArmWaiter
<1>4. CASE ApprovalWake(r) \/ ApprovalTimeout(r) \/ Preflight(r) \/ FinishStep(r)
    BY <1>4 DEF ApprovalWake, ApprovalTimeout, Preflight, FinishStep
<1>5. CASE ExecWake(r) \/ StepTimeout(r) \/ Leave(r)
    BY <1>5 DEF ExecWake, StepTimeout, Leave
<1> USE DEF Status, ErrorCode
<1>6. CASE FailSessionLimit(r)
    <2>1. /\ pc[r] = "limit_fail" /\ pc' = [pc EXCEPT ![r] = "leaving"]
          /\ \/ UNCHANGED <<status, err>>
             \/ SetStatus(r[1], "failed", "AGENT_SESSION_CONCURRENCY_LIMIT")
        BY <1>6 DEF FailSessionLimit
    <2> QED BY <2>1
<1>7. CASE Begin(r)
    <2>1. /\ pc[r] = "begin"
          /\ \/ pc' = [pc EXCEPT ![r] = "leaving"] /\ UNCHANGED <<status, err>>
             \/ pc' = [pc EXCEPT ![r] = "head"] /\ SetStatus(r[1], "running", err[r[1]])
        BY <1>7 DEF Begin, SetStatus
    <2> QED BY <2>1
<1>8. CASE Stop(r)
    <2>1. /\ pc[r] = "stop" /\ pc' = [pc EXCEPT ![r] = "wedged"]
          /\ \/ UNCHANGED <<status, err>>
             \/ SetStatus(r[1], StopStatus(r[1]), StopError(r[1]))
        BY <1>8 DEF Stop
    <2> QED BY <2>1 DEF StopStatus, StopError
<1>9. CASE MissingFreshRead(r) \/ BlockStep(r) \/ Expire(r)
    <2>1. /\ pc[r] \in {"inspect", "preflight", "expire"} /\ pc' = [pc EXCEPT ![r] = "leaving"]
          /\ \/ UNCHANGED <<status, err>>
             \/ SetStatus(r[1], "failed", "STEP_FAILED")
        BY <1>9 DEF MissingFreshRead, BlockStep, Expire, FailStep
    <2> QED BY <2>1
<1>10. CASE RequestApproval(r)
    <2>1. /\ pc[r] = "inspect" /\ pc' = [pc EXCEPT ![r] = "index"]
          /\ SetStatus(r[1], "awaiting_approval", err[r[1]])
        BY <1>10 DEF RequestApproval, SetStatus
    <2> QED BY <2>1
<1>11. CASE CloseApproval(r)
    <2>1. outcome[r] \in Outcome \ {"none"}
        BY <1>11 DEF CloseApproval, LocOK
    <2>2. ~Granted(r) =>
              /\ Refusal[outcome[r]][1] \in {"failed", "interrupted"}
              /\ Refusal[outcome[r]][2] \in ErrorCode \ {"RUNTIME_RESTART_RECOVERY"}
        BY <2>1 DEF Granted, Refusal, Outcome
    <2>3. /\ pc[r] = "close"
          /\ \/ pc' = [pc EXCEPT ![r] = "leaving"] /\ UNCHANGED <<status, err>>
             \/ /\ pc' = [pc EXCEPT ![r] = "start_step"] /\ Open(r[1])
                /\ SetStatus(r[1], "running", err[r[1]])
             \/ /\ pc' = [pc EXCEPT ![r] = "leaving"] /\ Open(r[1]) /\ ~Granted(r)
                /\ SetStatus(r[1], Refusal[outcome[r]][1], Refusal[outcome[r]][2])
        BY <1>11 DEF CloseApproval, SetStatus
    <2>4. CASE /\ pc' = [pc EXCEPT ![r] = "leaving"] /\ Open(r[1]) /\ ~Granted(r)
               /\ SetStatus(r[1], Refusal[outcome[r]][1], Refusal[outcome[r]][2])
        <3>1. PICK s \in {"failed", "interrupted"},
                   e \in ErrorCode \ {"RUNTIME_RESTART_RECOVERY"} : SetStatus(r[1], s, e)
            BY <2>2, <2>4
        <3>2. s \in Status /\ e \in ErrorCode /\ Writes(r, s, e)
            BY <2>4, <3>1
        <3>3. ~is_agent_task_terminal_status(status[r[1]]) /\ pc[r] = "close"
            BY <2>3, <2>4 DEF Open
        <3>4. pc'[r] # "idle" /\ \A q \in Run : q # r => pc'[q] = pc[q]
            BY <2>4
        <3> HIDE DEF Writes
        <3> QED BY <3>2, <3>3, <3>4
    <2>5. CASE /\ pc' = [pc EXCEPT ![r] = "start_step"] /\ Open(r[1])
               /\ SetStatus(r[1], "running", err[r[1]])
        BY <2>3, <2>5 DEF Open
    <2>6. CASE pc' = [pc EXCEPT ![r] = "leaving"] /\ UNCHANGED <<status, err>>
        BY <2>3, <2>6
    <2> QED BY <2>3, <2>4, <2>5, <2>6
<1>12. CASE StartStep(r)
    <2>1. /\ pc[r] = "start_step" /\ pc' = [pc EXCEPT ![r] = "preflight"]
          /\ SetStatus(r[1], "running", err[r[1]])
        BY <1>12 DEF StartStep, SetStatus
    <2> QED BY <2>1
<1>13. CASE GuardrailError(r) \/ StepFailed(r)
    <2>1. /\ pc[r] \in {"preflight", "post"} /\ pc' = [pc EXCEPT ![r] = "leaving"]
          /\ \/ UNCHANGED <<status, err>>
             \/ SetStatus(r[1], "failed", "STEP_FAILED")
        BY <1>13 DEF GuardrailError, StepFailed
    <2> QED BY <2>1
<1>14. CASE Halt(r) \/ StepSucceeded(r)
    <2>1. /\ pc[r] \in {"halt", "post"}
          /\ pc' = [pc EXCEPT ![r] = "leaving"] \/ pc' = [pc EXCEPT ![r] = "head"]
          /\ \/ UNCHANGED <<status, err>>
             \/ SetStatus(r[1], StopStatus(r[1]), StopError(r[1]))
        BY <1>14 DEF Halt, StepSucceeded
    <2> QED BY <2>1 DEF StopStatus, StopError
<1>15. CASE Finalize(r)
    <2>1. /\ pc[r] = "head" /\ pc' = [pc EXCEPT ![r] = "leaving"]
          /\ ~MoreSteps(r) /\ UNCHANGED steps
          /\ \/ SetStatus(r[1], "completed", err[r[1]])
             \/ SetStatus(r[1], StopStatus(r[1]), StopError(r[1]))
        BY <1>15 DEF Finalize, SetStatus
    <2> QED BY <2>1 DEF StopStatus, StopError
<1> QED
    BY <1>1, <1>2, <1>3, <1>4, <1>5, <1>6, <1>7, <1>8, <1>9, <1>10, <1>11, <1>12, <1>13,
        <1>14, <1>15 DEF ExecutorStep

\* What a handler or the sweeper does to the status of task t, if anything: it starts or
\* resumes t with its first or next executor, interrupts it, pauses it where that is
\* allowed, or fails it because its approval timed out.
LEMMA HandlerStatus ==
    ASSUME TypeInv, OperatorStep \/ SweeperStep, NEW t \in Task
    PROVE  \/ /\ UNCHANGED <<status[t], err[t]>>
              /\ \A r \in RunsOf(t) : pc'[r] = pc[r]
           \/ /\ status[t] = "absent" \/ is_agent_task_resumable(t)
              /\ status'[t] = "queued"
              /\ \E r \in RunsOf(t) : pc' = [pc EXCEPT ![r] = "spawned"]
           \/ /\ ~is_agent_task_terminal_status(status[t])
              /\ status'[t] = "interrupted" /\ err'[t] = "TASK_INTERRUPTED"
              /\ UNCHANGED pc
           \/ t \in Pausable /\ status[t] = "running"
           \/ /\ status[t] = "awaiting_approval"
              /\ status'[t] = "failed"
              /\ UNCHANGED pc
<1> USE DEF TypeInv, TaskTypeOK, ExecTypeOK
<1>1. ASSUME NEW u \in Task, Start(u)
      PROVE  \/ UNCHANGED <<status[t], err[t]>> /\ \A r \in RunsOf(t) : pc'[r] = pc[r]
             \/ /\ status[t] = "absent"
                /\ status'[t] = "queued"
                /\ \E r \in RunsOf(t) : pc' = [pc EXCEPT ![r] = "spawned"]
    <2>1. CASE UNCHANGED <<status, pc>>
        BY <1>1, <2>1 DEF Start, RunsOf
    <2>2. CASE ~UNCHANGED <<status, pc>>
        <3>1. /\ status[u] = "absent"
              /\ status' = [status EXCEPT ![u] = "queued"] /\ UNCHANGED err
              /\ \E r \in RunsOf(u) : pc' = [pc EXCEPT ![r] = "spawned"]
            BY <1>1, <2>2 DEF Start, Spawn, Goto
        <3> QED BY <3>1 DEF RunsOf
    <2> QED BY <2>1, <2>2
<1>2. ASSUME NEW u \in Task, Resume(u)
      PROVE  \/ UNCHANGED <<status[t], err[t]>> /\ \A r \in RunsOf(t) : pc'[r] = pc[r]
             \/ /\ is_agent_task_resumable(t)
                /\ status'[t] = "queued"
                /\ \E r \in RunsOf(t) : pc' = [pc EXCEPT ![r] = "spawned"]
    BY <1>2 DEF Resume, Spawn, RunsOf, Goto, SetStatus
<1>3. ASSUME NEW u \in Task, Interrupt(u)
      PROVE  /\ UNCHANGED pc
             /\ \/ UNCHANGED <<status[t], err[t]>>
                \/ /\ ~is_agent_task_terminal_status(status[t])
                   /\ status'[t] = "interrupted" /\ err'[t] = "TASK_INTERRUPTED"
    BY <1>3 DEF Interrupt, SetStatus
<1>4. ASSUME NEW u \in Task, Pause(u)
      PROVE  \/ UNCHANGED <<status[t], err[t], pc>>
             \/ t \in Pausable /\ status[t] = "running"
    BY <1>4 DEF Pause, SetStatus
<1>5. ASSUME NEW u \in Task, RefuseResume(u) PROVE UNCHANGED <<status[t], err[t], pc>>
    BY <1>5 DEF RefuseResume, taskVars, execVars
<1>6. ASSUME NEW a \in index, NEW d \in {"approved", "rejected"}, Decide(a, d)
      PROVE  UNCHANGED <<status[t], err[t], pc>>
    BY <1>6 DEF Decide, taskVars
<1>7. ASSUME NEW S \in SUBSET Task, Sweep(S)
      PROVE  /\ UNCHANGED pc
             /\ \/ UNCHANGED <<status[t], err[t]>>
                \/ status[t] = "awaiting_approval" /\ status'[t] = "failed"
    BY <1>7 DEF Sweep, Sweepable
<1> QED
    BY <1>1, <1>2, <1>3, <1>4, <1>5, <1>6, <1>7 DEF OperatorStep, SweeperStep

\* An unpaused task is resumed only before its first executor, and its executor has
\* left the task alone by the time the task has ended.
LEMMA SoleStep == TypeInv /\ SoleInv /\ [Next]_vars => SoleInv'
<1> SUFFICES ASSUME TypeInv, SoleInv, [Next]_vars PROVE SoleInv'
    OBVIOUS
<1> HIDE DEF Run
<1> USE DEF TypeInv, ExecTypeOK, TaskTypeOK, SoleInv, RunsOf
<1>1. ASSUME NEW r \in Run, ExecutorStep(r) PROVE SoleInv'
    <2>1. /\ pc[r] # "idle" /\ pc'[r] # "idle"
          /\ \A q \in Run : q # r => pc'[q] = pc[q]
        BY <1>1, StatusFrame
    <2>2. OneExecutor'
        BY <2>1 DEF OneExecutor
    <2>3. CASE /\ UNCHANGED <<status, err>>
               /\ pc[r] \in QuietPC => pc'[r] \in QuietPC
        BY <2>1, <2>2, <2>3 DEF Unstarted, Settled, is_agent_task_resumable
    <2>4. CASE \E s \in Status, e \in ErrorCode : Writes(r, s, e)
        <3>1. PICK s \in Status, e \in ErrorCode : Writes(r, s, e)
            BY <2>4
        <3>2. /\ status' = [status EXCEPT ![r[1]] = s] /\ err' = [err EXCEPT ![r[1]] = e]
              /\ s # "absent"
              /\ s = "paused" => status[r[1]] = "paused"
              /\ s = "interrupted" => e # "RUNTIME_RESTART_RECOVERY"
              /\ s \in SettledStatus => pc'[r] \in QuietPC
            BY <3>1 DEF Writes, SetStatus
        <3>3. ASSUME NEW t \in Unpaused, t # r[1]
              PROVE  /\ status'[t] = status[t] /\ err'[t] = err[t]
                     /\ \A q \in RunsOf(t) : pc'[q] = pc[q]
            BY <2>1, <3>2, <3>3 DEF Unpaused
        <3>4. CASE r[1] \notin Unpaused
            BY <2>2, <3>3, <3>4 DEF Unstarted, Settled, is_agent_task_resumable
        <3>5. CASE r[1] \in Unpaused
            <4>1. \A q \in RunsOf(r[1]) : q # r => pc[q] = "idle" /\ pc'[q] = "idle"
                BY <2>1, <3>5 DEF OneExecutor
            <4>2. ~is_agent_task_resumable(r[1]) /\ r \in RunsOf(r[1]) /\ r[1] \in Task
                BY <2>1, <3>5 DEF Unstarted, Unpaused
            <4>3. status'[r[1]] = s /\ err'[r[1]] = e
                BY <3>2, <4>2
            <4>4. s # "absent" /\ s # "paused" /\ (s = "interrupted" => e # "RUNTIME_RESTART_RECOVERY")
                BY <3>2, <4>2 DEF is_agent_task_resumable
            <4>5. Unstarted'
                BY <3>3, <4>3, <4>4 DEF Unstarted, is_agent_task_resumable
            <4>6. Settled'
                <5>1. s \in SettledStatus => \A q \in RunsOf(r[1]) : pc'[q] \in QuietPC
                    BY <3>2, <4>1 DEF QuietPC
                <5> QED BY <3>3, <4>3, <5>1 DEF Settled
            <4> QED BY <2>2, <4>5, <4>6
        <3> QED BY <3>4, <3>5
    <2> QED BY <1>1, <2>3, <2>4, StatusFrame
<1>2. CASE OperatorStep \/ SweeperStep
    <2> SUFFICES ASSUME NEW t \in Unpaused
                 PROVE  /\ \A r, q \in RunsOf(t) : pc'[r] # "idle" /\ pc'[q] # "idle" => r = q
                        /\ status'[t] = "absent" \/ is_agent_task_resumable(t)'
                               => \A r \in RunsOf(t) : pc'[r] = "idle"
                        /\ status'[t] \in SettledStatus
                               => \A r \in RunsOf(t) : pc'[r] \in QuietPC
        BY DEF OneExecutor, Unstarted, Settled
    <2>1. t \in Task /\ t \notin Pausable
        BY DEF Unpaused
    <2>2. CASE /\ UNCHANGED <<status[t], err[t]>>
               /\ \A r \in RunsOf(t) : pc'[r] = pc[r]
        BY <2>2 DEF OneExecutor, Unstarted, Settled, is_agent_task_resumable
    <2>3. CASE /\ status[t] = "absent" \/ is_agent_task_resumable(t)
               /\ status'[t] = "queued"
               /\ \E r \in RunsOf(t) : pc' = [pc EXCEPT ![r] = "spawned"]
        <3>1. \A r \in RunsOf(t) : pc[r] = "idle"
            BY <2>3 DEF Unstarted
        <3> QED BY <2>3, <3>1 DEF is_agent_task_resumable, SettledStatus
    <2>4. CASE /\ ~is_agent_task_terminal_status(status[t])
               /\ status'[t] = "interrupted" /\ err'[t] = "TASK_INTERRUPTED"
               /\ UNCHANGED pc
        BY <2>4 DEF OneExecutor, is_agent_task_resumable, SettledStatus
    <2>5. CASE /\ status[t] = "awaiting_approval"
               /\ status'[t] = "failed"
               /\ UNCHANGED pc
        BY <2>5 DEF OneExecutor, Settled, is_agent_task_resumable, SettledStatus
    <2> QED BY <1>2, <2>1, <2>2, <2>3, <2>4, <2>5, HandlerStatus
<1>3. CASE UNCHANGED vars
    BY <1>3 DEF vars, storeVars, taskVars, execVars, OneExecutor, Unstarted, Settled,
        is_agent_task_resumable
<1> QED BY <1>1, <1>2, <1>3 DEF Next

\* A service starts with one executor for each task that was queued.
LEMMA SoleInit == Init => SoleInv
<1> SUFFICES ASSUME Init PROVE SoleInv
    OBVIOUS
<1> USE DEF RunsOf, Unpaused
<1>1. /\ status \in [Task -> BootStatus]
      /\ pc = [r \in Run |-> IF r[2] = 1 /\ status[r[1]] = "queued" THEN "spawned" ELSE "idle"]
    BY DEF Init
<1>2. OneExecutor
    <2> SUFFICES ASSUME NEW t \in Unpaused, NEW r \in RunsOf(t), NEW q \in RunsOf(t),
                        pc[r] # "idle", pc[q] # "idle"
                 PROVE  r = q
        BY DEF OneExecutor
    <2>1. r[2] = 1 /\ q[2] = 1 /\ r[1] = t /\ q[1] = t /\ r \in Run /\ q \in Run
        BY <1>1
    <2> QED BY <2>1
<1>3. Unstarted /\ Settled
    BY <1>1, BootAssumption DEF Unstarted, Settled, is_agent_task_resumable, SettledStatus, QuietPC
<1> QED BY <1>2, <1>3 DEF SoleInv

\* What an end of a task that nobody pauses says, nothing unsays.
UnpausedVerdictStands ==
    \A t \in Unpaused : status[t] \in {"completed", "failed"} => status'[t] = status[t]

\* No step of an executor, a handler or the sweeper unsays it.
LEMMA VerdictStep == TypeInv /\ SoleInv /\ [Next]_vars => UnpausedVerdictStands
<1> SUFFICES ASSUME TypeInv, SoleInv, [Next]_vars,
                    NEW t \in Unpaused, status[t] \in {"completed", "failed"}
             PROVE  status'[t] = status[t]
    BY DEF UnpausedVerdictStands
<1> HIDE DEF Run
<1> USE DEF TypeInv, ExecTypeOK, TaskTypeOK, RunsOf
<1>1. ASSUME NEW r \in Run, ExecutorStep(r) PROVE status'[t] = status[t]
    <2>1. r[1] = t => pc[r] \in QuietPC /\ is_agent_task_terminal_status(status[t])
        BY DEF SoleInv, Settled, SettledStatus, is_agent_task_terminal_status
    <2> QED BY <1>1, <2>1, StatusFrame DEF Writes, SetStatus, Unpaused
<1>2. CASE OperatorStep \/ SweeperStep
    BY <1>2, HandlerStatus DEF Unpaused, is_agent_task_resumable, is_agent_task_terminal_status
<1>3. CASE UNCHANGED vars
    BY <1>3 DEF vars, storeVars, taskVars
<1> QED BY <1>1, <1>2, <1>3 DEF Next

\* The verdict on a task that nobody pauses is final, whatever happens to the others.
THEOREM UnpausedVerdict == Spec => [][UnpausedVerdictStands]_vars
<1>1. Spec => []SoleInv
    BY SoleInit, SoleStep, TypeInvariant, PTL DEF Spec
<1>2. TypeInv /\ SoleInv /\ [Next]_vars => [UnpausedVerdictStands]_vars
    BY VerdictStep
<1> QED BY <1>1, <1>2, TypeInvariant, PTL DEF Spec

\* Where no task is paused at all, every verdict is final.  (With a pause it is not:
\* the executor of before the pause and that of after the resume both write.)
THEOREM Verdict == ASSUME Pausable = {} PROVE Spec => VerdictIsFinal
<1>1. UnpausedVerdictStands <=> VerdictStands
    BY DEF UnpausedVerdictStands, VerdictStands, Unpaused
<1>2. [UnpausedVerdictStands]_vars <=> [VerdictStands]_vars
    BY <1>1
<1> QED BY <1>2, UnpausedVerdict, PTL DEF VerdictIsFinal

-----------------------------------------------------------------------------
(* The steps of a task that nobody pauses: a completed one is never run again,  *)
(* and the task is not completed before all of them are.                        *)

StepPC == {"inspect", "start_step"} \cup ApprovalPC \cup WorkingPC

AtWork ==
    \A t \in Unpaused : \A r \in RunsOf(t) : pc[r] \in StepPC => steps[t][at[r]] # "completed"
PendingOpen ==
    \A t \in Unpaused : pend[t].step # 0 =>
        /\ status[t] # "absent"
        /\ steps[t][pend[t].step] # "completed"
        /\ \A r \in RunsOf(t) : pc[r] \in QuietPC
BehindDone ==
    \A t \in Unpaused : \A r \in RunsOf(t) : pc[r] \in {"head"} \cup LoopPC =>
        at[r] # 0 /\ \A i \in Step : i < at[r] => steps[t][i] = "completed"
DoneAll == \A t \in Unpaused : status[t] = "completed" => \A i \in Step : steps[t][i] = "completed"

ProgressInv == AtWork /\ PendingOpen /\ BehindDone /\ DoneAll

UnpausedStepsStand ==
    \A t \in Unpaused, i \in Step : steps[t][i] = "completed" => steps'[t][i] = "completed"

\* What an executor that goes from one place to l does to the step it is at, and
\* where it is afterwards.
Moves(r, l) ==
    /\ pc' = [pc EXCEPT ![r] = l]
    /\ \/ /\ UNCHANGED <<steps, at>>
          /\ l \in StepPC => \/ pc[r] \in StepPC
                             \/ pc[r] = "check" /\ steps[r[1]][at[r]] # "completed"
          /\ l \in {"head"} \cup LoopPC => pc[r] \in {"head"} \cup LoopPC
       \/ /\ UNCHANGED steps
          /\ l = "head"
          /\ \/ pc[r] = "begin" /\ at' = [at EXCEPT ![r] = 1]
             \/ /\ pc[r] = "check" /\ steps[r[1]][at[r]] = "completed"
                /\ at' = [at EXCEPT ![r] = @ + 1]
       \/ /\ pc[r] \in StepPC /\ l \notin {"head", "check", "inspect"}
          /\ UNCHANGED at
          /\ \E s \in StepStatus \ {"completed"} : SetStep(r[1], at[r], s)
       \/ /\ pc[r] = "post" /\ SetStep(r[1], at[r], "completed")
          /\ \/ l = "leaving" /\ UNCHANGED at
             \/ l = "head" /\ at' = [at EXCEPT ![r] = @ + 1]

\* An executor writes no step but the one it is at, and that only once it has
\* seen that it is not completed.
LEMMA StepFrame ==
    ASSUME TypeInv, NEW r \in Run, ExecutorStep(r)
    PROVE  \E l \in PC : Moves(r, l)
<1> USE DEF TypeInv, ExecTypeOK, TaskTypeOK, InStore, Goto, PC, InsidePC, ApprovalPC, WorkingPC
<1> USE DEF Moves, StepPC, LoopPC, storeVars, taskVars
<1>1. CASE TaskGone(r) \/ Snapshot(r) \/ CheckSessionLimit(r) \/ AcquireWorkspace(r)
    BY <1>1 DEF TaskGone, Snapshot, CheckSessionLimit, AcquireWorkspace
<1>2. CASE AcquireSlot(r) \/ StepHead(r) \/ InspectAllow(r) \/ ReuseApproval(r)
    BY <1>2 DEF AcquireSlot, StepHead, InspectAllow, ReuseApproval
<1>3. CASE IndexApproval(r) \/ CheckDecision(r) \/ ArmWaiter(r) \/ ApprovalWake(r)
    BY <1>3 DEF IndexApproval, CheckDecision, ArmWaiter, ApprovalWake
<1>4. CASE ApprovalTimeout(r) \/ Preflight(r) \/ FinishStep(r) \/ ExecWake(r)
    BY <1>4 DEF ApprovalTimeout, Preflight, FinishStep, ExecWake
<1>5. CASE StepTimeout(r) \/ Leave(r) \/ FailSessionLimit(r) \/ Finalize(r) \/ Stop(r)
    BY <1>5 DEF StepTimeout, Leave, FailSessionLimit, Finalize, Stop
<1>6. CASE WaitWake(r)
    <2>1. PICK l \in {"leaving", "ws_wait", "slot_wait"} : pc' = [pc EXCEPT ![r] = l]
        BY <1>6 DEF WaitWake
    <2> QED BY <1>6, <2>1 DEF WaitWake
<1>7. CASE Begin(r)
    BY <1>7 DEF Begin
<1>8. CASE CheckStep(r)
    <2>1. /\ pc[r] = "check" /\ UNCHANGED steps
          /\ \/ /\ steps[r[1]][at[r]] = "completed"
                /\ at' = [at EXCEPT ![r] = @ + 1]
                /\ pc' = [pc EXCEPT ![r] = "head"]
             \/ /\ steps[r[1]][at[r]] # "completed"
                /\ UNCHANGED at
                /\ pc' = [pc EXCEPT ![r] = "inspect"]
        BY <1>8 DEF CheckStep
    <2> QED BY <2>1
<1>a. ASSUME NEW l \in PC \ {"head", "check", "inspect"}, NEW s \in StepStatus \ {"completed"},
             pc[r] \in StepPC, pc' = [pc EXCEPT ![r] = l], UNCHANGED at,
             SetStep(r[1], at[r], s)
      PROVE  Moves(r, l)
    BY <1>a
<1> HIDE DEF Moves
<1> USE DEF Status, StepStatus
<1>9. CASE MissingFreshRead(r) \/ BlockStep(r) \/ Expire(r) \/ GuardrailError(r)
    <2>1. /\ pc[r] \in StepPC /\ pc' = [pc EXCEPT ![r] = "leaving"] /\ UNCHANGED at
          /\ UNCHANGED steps \/ SetStep(r[1], at[r], "failed")
        BY <1>9 DEF MissingFreshRead, BlockStep, Expire, FailStep, GuardrailError
    <2>2. CASE UNCHANGED steps
        BY <2>1, <2>2 DEF Moves
    <2> QED BY <1>a, <2>1, <2>2
<1>10. CASE RequestApproval(r) \/ StartStep(r) \/ StepFailed(r)
    <2>1. \E l \in {"index", "preflight", "leaving"},
             s \in {"awaiting_approval", "running", "failed"} :
                pc' = [pc EXCEPT ![r] = l] /\ SetStep(r[1], at[r], s)
        BY <1>10 DEF RequestApproval, StartStep, StepFailed
    <2>2. pc[r] \in StepPC /\ UNCHANGED at
        BY <1>10 DEF RequestApproval, StartStep, StepFailed
    <2> QED BY <1>a, <2>1, <2>2
<1>11. CASE CloseApproval(r)
    <2>1. outcome[r] \in Outcome \ {"none"}
        BY <1>11 DEF CloseApproval, LocOK
    <2>2. ~Granted(r) => Refusal[outcome[r]][1] \in {"failed", "interrupted"}
        BY <2>1 DEF Granted, Refusal, Outcome
    <2>3. \/ UNCHANGED steps
          \/ ~Granted(r) /\ SetStep(r[1], at[r], Refusal[outcome[r]][1])
               /\ pc' = [pc EXCEPT ![r] = "leaving"]
        BY <1>11 DEF CloseApproval
    <2>4. /\ pc[r] = "close" /\ UNCHANGED at
          /\ pc' = [pc EXCEPT ![r] = "leaving"] \/ pc' = [pc EXCEPT ![r] = "start_step"]
        BY <1>11 DEF CloseApproval
    <2>5. CASE UNCHANGED steps
        BY <2>4, <2>5 DEF Moves
    <2>6. CASE \E s \in {"failed", "interrupted"} :
                  SetStep(r[1], at[r], s) /\ pc' = [pc EXCEPT ![r] = "leaving"]
        BY <1>a, <2>4, <2>6
    <2> QED BY <2>2, <2>3, <2>5, <2>6
<1>12. CASE Halt(r)
    <2>1. /\ pc[r] = "halt" /\ pc' = [pc EXCEPT ![r] = "leaving"] /\ UNCHANGED at
          /\ UNCHANGED steps \/ SetStep(r[1], at[r], "paused") \/ SetStep(r[1], at[r], "interrupted")
        BY <1>12 DEF Halt, StopStatus
    <2>2. CASE UNCHANGED steps
        BY <2>1, <2>2 DEF Moves
    <2> QED BY <1>a, <2>1, <2>2
<1>13. CASE StepSucceeded(r)
    BY <1>13 DEF StepSucceeded, Moves
<1> QED
    BY <1>1, <1>2, <1>3, <1>4, <1>5, <1>6, <1>7, <1>8, <1>9, <1>10, <1>11, <1>12, <1>13
    DEF ExecutorStep

\* What an executor does to the pending approval of its task: it puts one there as it
\* begins to wait, and takes it away as it stops waiting while the task is stored.
LEMMA PendFrame ==
    ASSUME TypeInv, NEW r \in Run, ExecutorStep(r)
    PROVE  \/ UNCHANGED pend /\ (pc[r] = "close" => pc'[r] = "leaving" /\ UNCHANGED steps)
           \/ /\ RequestApproval(r)
              /\ \A t \in Task : t # r[1] => pend'[t] = pend[t]
              /\ pend'[r[1]].step = at[r]
           \/ pend' = [pend EXCEPT ![r[1]] = NoApproval]
<1> USE DEF TypeInv, ExecTypeOK, StoreTypeOK, InStore, Goto, ApprovalPC
<1>1. CASE ~Waiting(r)
    BY <1>1, NotWaitingFrame
<1>2. CASE CheckDecision(r) \/ ArmWaiter(r) \/ ApprovalWake(r) \/ ApprovalTimeout(r)
    BY <1>2 DEF CheckDecision, ArmWaiter, ApprovalWake, ApprovalTimeout, storeVars
<1>3. CASE RequestApproval(r)
    BY <1>3 DEF RequestApproval
<1>4. CASE IndexApproval(r)
    BY <1>4 DEF IndexApproval
<1>5. CASE CloseApproval(r)
    BY <1>5 DEF CloseApproval, Open
<1> QED BY <1>1, <1>2, <1>3, <1>4, <1>5 DEF Waiting

\* A recorded decision changes neither which approval is pending nor for which step.
LEMMA DecidedPend ==
    ASSUME StoreTypeOK, NEW u \in Task, NEW d \in {"approved", "rejected"},
           pend' = [pend EXCEPT ![u].decision = d], NEW t \in Task
    PROVE  pend'[t].id = pend[t].id /\ pend'[t].step = pend[t].step
<1>1. pend[t] = [id |-> pend[t].id, step |-> pend[t].step, decision |-> pend[t].decision]
    BY DEF StoreTypeOK, Approvals
<1> QED BY <1>1 DEF StoreTypeOK

\* The handlers and the sweeper leave a completed step of an unpaused task completed:
\* a resume queues the others only, and a swept approval is of a step not completed.
LEMMA HandlerSteps ==
    ASSUME TypeInv, ProgressInv, OperatorStep \/ SweeperStep, NEW t \in Unpaused, NEW i \in Step
    PROVE  steps[t][i] = "completed" => steps'[t][i] = "completed"
<1> USE DEF TypeInv, TaskTypeOK
<1>1. ASSUME NEW u \in Task, Start(u) \/ Interrupt(u) \/ RefuseResume(u) PROVE UNCHANGED steps
    BY <1>1 DEF Start, Interrupt, RefuseResume, taskVars
<1>2. ASSUME NEW u \in Task, Pause(u) PROVE steps'[t] = steps[t]
    BY <1>2 DEF Pause, SetStep, Unpaused
<1>3. ASSUME NEW u \in Task, Resume(u), steps[t][i] = "completed"
      PROVE  steps'[t][i] = "completed"
    BY <1>3 DEF Resume, Unfinished, Unpaused
<1>4. ASSUME NEW a \in index, NEW d \in {"approved", "rejected"}, Decide(a, d)
      PROVE  UNCHANGED steps
    BY <1>4 DEF Decide, taskVars
<1>5. ASSUME NEW S \in SUBSET Task, Sweep(S), steps[t][i] = "completed"
      PROVE  steps'[t][i] = "completed"
    <2>1. i # 0
        OBVIOUS
    <2>2. i # pend[t].step
        BY <1>5, <2>1 DEF ProgressInv, PendingOpen
    <2> QED BY <1>5, <2>2 DEF Sweep, Unpaused
<1> QED BY <1>1, <1>2, <1>3, <1>4, <1>5 DEF OperatorStep, SweeperStep

\* Nor does the one executor of such a task touch a completed step.
LEMMA UnpausedStepsStep ==
    ASSUME TypeInv, ProgressInv, [Next]_vars
    PROVE  UnpausedStepsStand
<1> HIDE DEF Run
<1> SUFFICES ASSUME NEW t \in Unpaused, NEW i \in Step, steps[t][i] = "completed"
             PROVE  steps'[t][i] = "completed"
    BY DEF UnpausedStepsStand
<1>1. ASSUME NEW r \in Run, ExecutorStep(r) PROVE steps'[t][i] = "completed"
    <2>1. PICK l \in PC : Moves(r, l)
        BY <1>1, StepFrame
    <2>2. t = r[1] /\ pc[r] \in StepPC => i # at[r]
        BY DEF ProgressInv, AtWork, RunsOf
    <2>3. CASE pc[r] \in StepPC /\ \E s \in StepStatus \ {"completed"} : SetStep(r[1], at[r], s)
        BY <2>2, <2>3 DEF SetStep, TypeInv, TaskTypeOK, Unpaused
    <2>4. CASE SetStep(r[1], at[r], "completed")
        BY <2>4 DEF SetStep, TypeInv, TaskTypeOK, Unpaused
    <2> QED BY <2>1, <2>3, <2>4 DEF Moves
<1>2. CASE OperatorStep \/ SweeperStep
    BY <1>2, HandlerSteps
<1>3. CASE UNCHANGED vars
    BY <1>3 DEF vars, storeVars, taskVars
<1> QED BY <1>1, <1>2, <1>3 DEF Next

\* The invariant of one executor of an unpaused task survives its steps.
LEMMA ExecutorProgress ==
    ASSUME TypeInv, SoleInv, ProgressInv, UnpausedStepsStand, NEW r \in Run, ExecutorStep(r)
    PROVE  ProgressInv'
<1> HIDE DEF Run
<1> USE DEF TypeInv, ExecTypeOK, TaskTypeOK, RunsOf
<1>1. PICK l \in PC : Moves(r, l)
    BY StepFrame
<1>2. /\ \A q \in Run : q # r => pc'[q] = pc[q] /\ at'[q] = at[q]
      /\ pc'[r] = l
      /\ \A t \in Task : t # r[1] => steps'[t] = steps[t]
    BY <1>1 DEF Moves, SetStep
<1>3. \A t \in Unpaused, q \in Run : t = r[1] /\ q[1] = t /\ q # r => pc'[q] = "idle"
    BY <1>2, StatusFrame DEF SoleInv, OneExecutor
<1>4. AtWork'
    <2> SUFFICES ASSUME NEW t \in Unpaused, NEW q \in RunsOf(t), pc'[q] \in StepPC
                 PROVE  steps'[t][at'[q]] # "completed"
        BY DEF AtWork
    <2>1. CASE t # r[1]
        <3>1. q # r /\ q \in Run /\ t \in Task
            BY <2>1 DEF Unpaused
        <3>2. pc'[q] = pc[q] /\ at'[q] = at[q] /\ steps'[t] = steps[t]
            BY <1>2, <2>1, <3>1
        <3> QED BY <3>2 DEF ProgressInv, AtWork
    <2>2. CASE t = r[1]
        <3>1. q = r /\ l \in StepPC
            BY <1>2, <1>3, <2>2 DEF StepPC, ApprovalPC, WorkingPC
        <3>2. at[r] \in Step /\ r[1] \in Task
            BY <1>1, <2>2, <3>1 DEF Moves, LocOK, LoopPC, StepPC, ApprovalPC, WorkingPC, Unpaused
        <3>3. at'[r] = at[r]
            BY <1>1, <3>1 DEF Moves, StepPC, ApprovalPC, WorkingPC
        <3>4. \/ steps[t][at[r]] # "completed" /\ UNCHANGED steps
              \/ \E s \in StepStatus \ {"completed"} : SetStep(r[1], at[r], s)
            BY <1>1, <2>2, <3>1 DEF Moves, StepPC, ApprovalPC, WorkingPC, ProgressInv, AtWork
        <3>5. ASSUME NEW s \in StepStatus \ {"completed"}, SetStep(r[1], at[r], s)
              PROVE  steps'[t][at[r]] = s
            BY <2>2, <3>2, <3>5 DEF SetStep
        <3> QED BY <3>1, <3>3, <3>4, <3>5
    <2> QED BY <2>1, <2>2
<1>5. BehindDone'
    <2> SUFFICES ASSUME NEW t \in Unpaused, NEW q \in RunsOf(t), pc'[q] \in {"head"} \cup LoopPC
                 PROVE  at'[q] # 0 /\ \A i \in Step : i < at'[q] => steps'[t][i] = "completed"
        BY DEF BehindDone
    <2>1. CASE t # r[1]
        BY <1>2, <2>1 DEF ProgressInv, BehindDone, Unpaused
    <2>2. CASE t = r[1]
        <3>1. q = r /\ l \in {"head"} \cup LoopPC
            BY <1>2, <1>3, <2>2 DEF LoopPC, ApprovalPC, WorkingPC
        <3>2. CASE UNCHANGED at /\ pc[r] \in {"head"} \cup LoopPC
            BY <2>2, <3>1, <3>2 DEF ProgressInv, BehindDone, UnpausedStepsStand
        <3>3. CASE at' = [at EXCEPT ![r] = 1]
            BY <3>1, <3>3
        <3>4. CASE /\ pc[r] \in LoopPC /\ at[r] \in Step
                   /\ at' = [at EXCEPT ![r] = @ + 1]
                   /\ steps'[t][at[r]] = "completed"
            <4>1. at'[r] = at[r] + 1
                BY <3>4
            <4>2. ASSUME NEW i \in Step, i < at[r] + 1 PROVE steps'[t][i] = "completed"
                <5>1. i = at[r] \/ i < at[r]
                    BY <3>4, <4>2
                <5>2. i < at[r] => steps[t][i] = "completed"
                    BY <2>2, <3>1, <3>4 DEF ProgressInv, BehindDone
                <5> QED BY <3>4, <5>1, <5>2 DEF UnpausedStepsStand
            <4> QED BY <3>1, <3>4, <4>1, <4>2
        <3>5. at[r] \in Step \/ pc[r] \notin LoopPC
            BY DEF LocOK
        <3>6. pc[r] = "check" \/ pc[r] = "post" \/ pc[r] \in StepPC => pc[r] \in LoopPC
            BY DEF LoopPC, StepPC, WorkingPC
        <3>7. SetStep(r[1], at[r], "completed") /\ at[r] \in Step => steps'[t][at[r]] = "completed"
            BY <2>2 DEF SetStep, Unpaused
        <3> QED BY <1>1, <2>2, <3>1, <3>2, <3>3, <3>4, <3>5, <3>6, <3>7 DEF Moves
    <2> QED BY <2>1, <2>2
<1>6. PendingOpen'
    <2> SUFFICES ASSUME NEW t \in Unpaused, pend'[t].step # 0
                 PROVE  /\ status'[t] # "absent"
                        /\ steps'[t][pend'[t].step] # "completed"
                        /\ \A q \in RunsOf(t) : pc'[q] \in QuietPC
        BY DEF PendingOpen
    <2>1. status'[t] = "absent" => status[t] = "absent"
        BY StatusFrame DEF Writes, SetStatus, Unpaused
    <2>2. CASE t # r[1]
        <3>1. pend'[t] = pend[t]
            BY <2>2, PendFrame DEF StoreTypeOK, Unpaused
        <3> QED BY <1>2, <2>1, <2>2, <3>1 DEF ProgressInv, PendingOpen, Unpaused
    <2>3. CASE t = r[1] /\ RequestApproval(r)
        <3>1. at[r] \in Step /\ t \in Task /\ pc' = [pc EXCEPT ![r] = "index"]
            BY <2>3 DEF RequestApproval, InStore, Goto, LocOK, LoopPC, Unpaused
        <3>2. pend'[t].step = at[r]
            BY <2>3, <3>1 DEF RequestApproval, StoreTypeOK
        <3>3. /\ steps' = [steps EXCEPT ![t][at[r]] = "awaiting_approval"]
              /\ status' = [status EXCEPT ![t] = "awaiting_approval"]
            BY <2>3 DEF RequestApproval, SetStep
        <3>4. steps'[t][at[r]] = "awaiting_approval" /\ status'[t] = "awaiting_approval"
            BY <3>1, <3>3
        <3> QED BY <1>3, <2>3, <3>1, <3>2, <3>4 DEF QuietPC, ApprovalPC
    <2>4. CASE t = r[1] /\ ~RequestApproval(r)
        <3>1. UNCHANGED pend /\ (pc[r] = "close" => pc'[r] = "leaving" /\ UNCHANGED steps)
            BY <2>4, PendFrame DEF StoreTypeOK, NoApproval, Unpaused
        <3>2. /\ status[t] # "absent" /\ steps[t][pend[t].step] # "completed"
              /\ pc[r] \in QuietPC
            BY <2>4, <3>1 DEF ProgressInv, PendingOpen
        <3>3. pc'[r] \in QuietPC
            BY <3>1, <3>2, StatusFrame DEF QuietPC
        <3>4. steps'[t][pend[t].step] # "completed"
            <4>1. pc[r] # "post" /\ pc[r] # "check"
                BY <3>2 DEF QuietPC, ApprovalPC
            <4>2. UNCHANGED steps \/ \E s \in StepStatus \ {"completed"} : SetStep(r[1], at[r], s)
                BY <1>1, <4>1 DEF Moves
            <4>3. ASSUME NEW s \in StepStatus \ {"completed"}, SetStep(r[1], at[r], s)
                  PROVE  steps'[t][pend[t].step] \in {steps[t][pend[t].step], s}
                <5>1. steps[t] \in [Step -> StepStatus] /\ pend[t].step \in Step /\ t \in Task
                    BY <3>1 DEF StoreTypeOK, Approvals, Unpaused
                <5> QED BY <2>4, <4>3, <5>1 DEF SetStep
            <4> QED BY <3>2, <4>2, <4>3
        <3> QED BY <1>3, <2>1, <2>4, <3>1, <3>2, <3>3, <3>4 DEF QuietPC
    <2> QED BY <2>2, <2>3, <2>4
<1>7. DoneAll'
    <2> SUFFICES ASSUME NEW t \in Unpaused, status'[t] = "completed", NEW i \in Step
                 PROVE  steps'[t][i] = "completed"
        BY DEF DoneAll
    <2>1. CASE status[t] = "completed"
        BY <2>1 DEF ProgressInv, DoneAll, UnpausedStepsStand
    <2>2. CASE status[t] # "completed"
        <3>1. t = r[1] /\ pc[r] = "head" /\ ~MoreSteps(r) /\ UNCHANGED steps
            BY <2>2, StatusFrame DEF Writes, SetStatus, Unpaused
        <3>2. at[r] # 0 /\ \A j \in Step : j < at[r] => steps[t][j] = "completed"
            BY <3>1 DEF ProgressInv, BehindDone
        <3>3. at[r] \in 0..(NSteps + 1) /\ at[r] \notin Step
            BY <3>1 DEF MoreSteps
        <3>4. \A n \in 0..(NSteps + 1) : n # 0 /\ n \notin Step => n = NSteps + 1
            OBVIOUS
        <3>5. at[r] = NSteps + 1
            BY <3>2, <3>3, <3>4
        <3> QED BY <3>1, <3>2, <3>5
    <2> QED BY <2>1, <2>2
<1> QED BY <1>4, <1>5, <1>6, <1>7 DEF ProgressInv

\* It survives the handlers and the sweeper, which start an executor only where the
\* task had none.
LEMMA HandlerProgress ==
    ASSUME TypeInv, SoleInv, ProgressInv, UnpausedStepsStand, OperatorStep \/ SweeperStep
    PROVE  ProgressInv'
<1> HIDE DEF Run
<1> USE DEF TypeInv, ExecTypeOK, TaskTypeOK, RunsOf
<1>a. UNCHANGED at
    BY SpawnFrame
<1>b. \A q \in Run : pc'[q] = pc[q] \/ pc'[q] = "spawned"
    BY SpawnFrame
<1>1. ASSUME NEW t \in Unpaused, NEW i \in Step, steps[t][i] # "completed"
      PROVE  steps'[t][i] # "completed"
    <2>1. ASSUME NEW u \in Task, Start(u) \/ Interrupt(u) \/ RefuseResume(u) PROVE UNCHANGED steps
        BY <2>1 DEF Start, Interrupt, RefuseResume, taskVars
    <2>2. ASSUME NEW u \in Task, Pause(u) PROVE steps'[t] = steps[t]
        BY <2>2 DEF Pause, SetStep, Unpaused
    <2>3. ASSUME NEW u \in Task, Resume(u) PROVE steps'[t][i] # "completed"
        BY <1>1, <2>3 DEF Resume, Unpaused
    <2>4. ASSUME NEW a \in index, NEW d \in {"approved", "rejected"}, Decide(a, d)
          PROVE  UNCHANGED steps
        BY <2>4 DEF Decide, taskVars
    <2>5. ASSUME NEW S \in SUBSET Task, Sweep(S) PROVE steps'[t][i] # "completed"
        BY <1>1, <2>5 DEF Sweep, Unpaused
    <2> QED BY <1>1, <2>1, <2>2, <2>3, <2>4, <2>5 DEF OperatorStep, SweeperStep
<1>2. AtWork'
    <2> SUFFICES ASSUME NEW t \in Unpaused, NEW r \in RunsOf(t), pc'[r] \in StepPC
                 PROVE  steps'[t][at[r]] # "completed"
        BY <1>a DEF AtWork
    <2>1. pc[r] \in StepPC
        BY <1>b DEF StepPC, ApprovalPC, WorkingPC
    <2>2. at[r] \in Step
        BY <2>1 DEF LocOK, LoopPC, StepPC
    <2> QED BY <1>1, <2>1, <2>2 DEF ProgressInv, AtWork
<1>3. BehindDone'
    <2> SUFFICES ASSUME NEW t \in Unpaused, NEW r \in RunsOf(t), pc'[r] \in {"head"} \cup LoopPC
                 PROVE  at[r] # 0 /\ \A i \in Step : i < at[r] => steps'[t][i] = "completed"
        BY <1>a DEF BehindDone
    <2>1. pc[r] \in {"head"} \cup LoopPC
        BY <1>b DEF LoopPC, ApprovalPC, WorkingPC
    <2> QED BY <2>1 DEF ProgressInv, BehindDone, UnpausedStepsStand
<1>4. PendingOpen'
    <2> SUFFICES ASSUME NEW t \in Unpaused, pend'[t].step # 0
                 PROVE  /\ status'[t] # "absent"
                        /\ steps'[t][pend'[t].step] # "completed"
                        /\ \A r \in RunsOf(t) : pc'[r] \in QuietPC
        BY DEF PendingOpen
    <2> USE DEF StoreTypeOK
    <2>0. t \in Task
        BY DEF Unpaused
    <2>1. ASSUME NEW u \in Task, Start(u) PROVE pend' = pend /\ \A r \in RunsOf(t) : pc'[r] = pc[r]
        <3>1. pend' = pend
            BY <2>1 DEF Start
        <3>2. status[t] # "absent"
            BY <3>1 DEF ProgressInv, PendingOpen
        <3> QED BY <2>1, <3>1, <3>2 DEF Start, Spawn, Goto
    <2>2. ASSUME NEW u \in Task, Interrupt(u) \/ Pause(u) \/ RefuseResume(u)
          PROVE  UNCHANGED <<pend, pc>>
        BY <2>2 DEF Interrupt, Pause, RefuseResume, execVars
    <2>3. ASSUME NEW u \in Task, Resume(u)
          PROVE  pend'[t] = pend[t] /\ \A r \in RunsOf(t) : pc'[r] = pc[r]
        <3>1. u # t
            BY <2>0, <2>3 DEF Resume, NoApproval
        <3> QED BY <2>0, <2>3, <3>1 DEF Resume, Spawn, Goto
    <2>4. ASSUME NEW a \in index, NEW d \in {"approved", "rejected"}, Decide(a, d)
          PROVE  pend'[t].step = pend[t].step /\ UNCHANGED pc
        <3>1. PICK u \in Task : u = a[1][1]
            BY DEF ApprovalId
        <3>2. UNCHANGED pc /\ (UNCHANGED pend \/ pend' = [pend EXCEPT ![u].decision = d])
            BY <2>4, <3>1 DEF Decide
        <3>3. CASE pend' = [pend EXCEPT ![u].decision = d]
            BY <2>0, <3>2, <3>3, DecidedPend
        <3> QED BY <3>2, <3>3
    <2>5. ASSUME NEW S \in SUBSET Task, Sweep(S) PROVE pend'[t] = pend[t] /\ UNCHANGED pc
        BY <2>0, <2>5 DEF Sweep, NoApproval
    <2>6. pend'[t].step = pend[t].step /\ \A r \in RunsOf(t) : pc'[r] = pc[r]
        BY <2>1, <2>2, <2>3, <2>4, <2>5 DEF OperatorStep, SweeperStep
    <2>7. /\ status[t] # "absent" /\ steps[t][pend[t].step] # "completed"
          /\ \A r \in RunsOf(t) : pc[r] \in QuietPC
        BY <2>6 DEF ProgressInv, PendingOpen
    <2>8. pend[t].step \in Step
        BY <2>0, <2>6 DEF Approvals
    <2>9. status'[t] # "absent"
        BY <2>0, <2>7, HandlerStatus DEF Unpaused, is_agent_task_resumable
    <2> QED BY <1>1, <2>6, <2>7, <2>8, <2>9
<1>5. DoneAll'
    <2> SUFFICES ASSUME NEW t \in Unpaused, status'[t] = "completed"
                 PROVE  status[t] = "completed"
        BY DEF DoneAll, ProgressInv, UnpausedStepsStand
    <2> QED BY HandlerStatus DEF Unpaused, is_agent_task_resumable
<1> QED BY <1>2, <1>3, <1>4, <1>5 DEF ProgressInv

\* The steps a task had completed before a restart are the first ones.
LEMMA ProgressInit == Init => ProgressInv
<1> SUFFICES ASSUME Init PROVE ProgressInv
    OBVIOUS
<1> USE DEF RunsOf, Unpaused
<1>1. PICK done \in [Task -> 0..NSteps] : Init!2!(done)
    BY DEF Init
<1>2. /\ status \in [Task -> BootStatus]
      /\ pc = [r \in Run |-> IF r[2] = 1 /\ status[r[1]] = "queued" THEN "spawned" ELSE "idle"]
    BY DEF Init
<1>3. AtWork /\ BehindDone
    BY <1>2 DEF AtWork, BehindDone, StepPC, LoopPC, ApprovalPC, WorkingPC
<1>4. DoneAll
    BY <1>2, BootAssumption DEF DoneAll
<1>5. PendingOpen
    <2> SUFFICES ASSUME NEW t \in Unpaused, pend[t].step # 0
                 PROVE  /\ status[t] # "absent"
                        /\ steps[t][pend[t].step] # "completed"
                        /\ \A r \in RunsOf(t) : pc[r] \in QuietPC
        BY DEF PendingOpen
    <2>1. status[t] = "awaiting_approval"
        BY <1>1 DEF NoApproval
    <2>2. pend[t].step = done[t] + 1 /\ done[t] + 1 \in Step
        BY <1>1, <2>1 DEF BootDone
    <2>3. steps[t][done[t] + 1] = "awaiting_approval"
        BY <1>1, <2>1, <2>2 DEF BootStep
    <2> QED BY <1>2, <2>1, <2>2, <2>3 DEF QuietPC
<1> QED BY <1>3, <1>4, <1>5 DEF ProgressInv

\* Every step keeps to the order of the steps of a task that nobody pauses.
LEMMA ProgressStep == TypeInv /\ SoleInv /\ ProgressInv /\ [Next]_vars => ProgressInv'
<1> SUFFICES ASSUME TypeInv, SoleInv, ProgressInv, [Next]_vars PROVE ProgressInv'
    OBVIOUS
<1>1. ASSUME NEW r \in Run, ExecutorStep(r) PROVE ProgressInv'
    BY <1>1, ExecutorProgress, UnpausedStepsStep
<1>2. CASE OperatorStep \/ SweeperStep
    BY <1>2, HandlerProgress, UnpausedStepsStep
<1>3. CASE UNCHANGED vars
    BY <1>3 DEF vars, storeVars, taskVars, execVars, ProgressInv, AtWork, PendingOpen,
        BehindDone, DoneAll
<1> QED BY <1>1, <1>2, <1>3 DEF Next

\* A step of an unpaused task that is completed stays so: it is not run again.
THEOREM UnpausedSteps == Spec => [][UnpausedStepsStand]_vars
<1>1. Spec => [](TypeInv /\ SoleInv /\ ProgressInv)
    BY SoleInit, SoleStep, ProgressInit, ProgressStep, TypeInvariant, PTL DEF Spec
<1>2. TypeInv /\ SoleInv /\ ProgressInv /\ [Next]_vars => [UnpausedStepsStand]_vars
    BY UnpausedStepsStep
<1> QED BY <1>1, <1>2, PTL DEF Spec

\* An unpaused task is reported completed only when each of its steps is.
THEOREM UnpausedDone == Spec => []DoneAll
<1>1. ProgressInv => DoneAll
    BY DEF ProgressInv
<1> QED
    BY <1>1, SoleInit, SoleStep, ProgressInit, ProgressStep, TypeInvariant, PTL DEF Spec
=============================================================================
