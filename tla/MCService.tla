----------------------------- MODULE MCService -----------------------------
(***************************************************************************)
(* TLC instances of what runs in, or drives, the Rust service beside the   *)
(* executors of MCCore: TaskRecords, AcpTask, SubAgents, ToolGuardrails,   *)
(* SubAgentBatch and BatchPlan.                                            *)
(*                                                                         *)
(* The modules share no variable.  A behaviour is therefore given to one   *)
(* instance of one module, its scene, chosen at the start; the variables   *)
(* of the other modules stay as they begin.  What a scene can reach is     *)
(* exactly what its instance reaches alone, and TLC visits the sum of the  *)
(* instances, not their product.  Instances of one module differ in their  *)
(* constants, so a property names the scenes it is for.                    *)
(***************************************************************************)
EXTENDS BatchPlan

CONSTANTS
    Scene,                         \* the scenes of a run
    c1, c2, s1, s2, t1, t2, t3, k1, k2, n1, x1, x2, none, sweeper

VARIABLES
    scene,
    \* TaskRecords
    recStatus, recOrder, request, runner, recCall, recDisk, writes, failures, now,
    refused, told,
    \* AcpTask
    acpPc, acpStatus, lock, stop, asked, wire, waiting, sessions, bound, working,
    cancelled, answer, updates,
    \* SubAgents
    sess, subOrder, stored, task, late, owner, subCall,
    \* ToolGuardrails
    mem, disk, writable, caller, calm, seen, probes, good, strays,
    \* SubAgentBatch
    batchDeps, policy, entry, exec, try, batchSess

recordVars == <<recStatus, recOrder, request, runner, recCall, recDisk, writes, failures,
                now, refused, told>>
acpVars == <<acpPc, acpStatus, lock, stop, asked, wire, waiting, sessions, bound, working,
             cancelled, answer, updates>>
subVars == <<sess, subOrder, stored, task, late, owner, subCall>>
guardVars == <<mem, disk, writable, caller, calm, seen, probes, good, strays>>
batchVars == <<batchDeps, policy, entry, exec, try, batchSess>>

-----------------------------------------------------------------------------
(* TaskRecords: starts that are refused and checkpoints that fail, while   *)
(* clients do not start one request twice at once; a full store; a crash;  *)
(* evicted tasks that are resumed.  Two checkpoints may be under way at    *)
(* once, and reach the disk in either order.                               *)

Records == INSTANCE TaskRecords WITH
    Caller <- {c1, c2}, Request <- {s1}, Task <- {t1, t2, t3}, HistoryLimit <- 2,
    Breaker <- 2, Happens <- {"refuse", "fail"}, MaxWrites <- 2, MaxTime <- 4, None <- none,
    status <- recStatus, order <- recOrder, call <- recCall, disk <- recDisk
Full == INSTANCE TaskRecords WITH
    Caller <- {c1, c2}, Request <- {s1, s2}, Task <- {t1, t2}, HistoryLimit <- 1,
    Breaker <- 2, Happens <- {"refuse"}, MaxWrites <- 2, MaxTime <- 6, None <- none,
    status <- recStatus, order <- recOrder, call <- recCall, disk <- recDisk
Crash == INSTANCE TaskRecords WITH
    Caller <- {c1}, Request <- {s1}, Task <- {t1, t2}, HistoryLimit <- 2, Breaker <- 2,
    Happens <- {"crash"}, MaxWrites <- 2, MaxTime <- 8, None <- none,
    status <- recStatus, order <- recOrder, call <- recCall, disk <- recDisk
Evicted == INSTANCE TaskRecords WITH
    Caller <- {c1}, Request <- {s1}, Task <- {t1, t2, t3}, HistoryLimit <- 2, Breaker <- 2,
    Happens <- {"crash", "evicted", "fail"}, MaxWrites <- 2, MaxTime <- 5, None <- none,
    status <- recStatus, order <- recOrder, call <- recCall, disk <- recDisk

RecordsInit == CASE scene = "full" -> Full!Init
                 [] scene = "crash" -> Crash!Init
                 [] OTHER -> Records!Init
RecordsNext == /\ \/ scene = "records" /\ Records!Next /\ Records!StartsApart'
                  \/ scene = "full" /\ Full!Next
                  \/ scene = "crash" /\ Crash!Next
                  \/ scene = "evicted" /\ Evicted!Next
               /\ UNCHANGED <<acpVars, subVars, guardVars, batchVars, vars>>

-----------------------------------------------------------------------------
(* AcpTask: a task and a turn of other sessions.                           *)

Acp == INSTANCE AcpTask WITH
    Task <- {t1}, Turn <- {n1}, Key <- {k1, k2},
    KeyOf <- [u \in {t1, n1} |-> IF u = t1 THEN k1 ELSE k2],
    StopIn <- {"ensure", "bound", "prompt", "event", "ok"}, MaxUpdate <- 2, None <- none,
    pc <- acpPc, status <- acpStatus

AcpInit == Acp!Init
AcpNext == /\ scene = "acp" /\ Acp!Next
           /\ UNCHANGED <<recordVars, subVars, guardVars, batchVars, vars>>

-----------------------------------------------------------------------------
(* SubAgents: one client of tasks that outlive their budget and may be     *)
(* refused or forgotten; two clients that send instructions again and      *)
(* again, each send alone with its session (without that the code runs two *)
(* tasks for it); two clients of one session, and all of it.               *)

Reach == INSTANCE SubAgents WITH
    Session <- {s1, s2}, Task <- {t1, t2}, Client <- {c1}, Sweeper <- sweeper,
    NoTask <- none, ActiveLimit <- 1, HistoryLimit <- 2, OneInstruction <- TRUE,
    MayLeave <- FALSE, MayExpire <- TRUE, MayFail <- TRUE,
    order <- subOrder, call <- subCall
Steady == INSTANCE SubAgents WITH
    Session <- {s1}, Task <- {t1, t2}, Client <- {c1, c2}, Sweeper <- sweeper,
    NoTask <- none, ActiveLimit <- 1, HistoryLimit <- 2, OneInstruction <- FALSE,
    MayLeave <- TRUE, MayExpire <- TRUE, MayFail <- TRUE,
    order <- subOrder, call <- subCall
Calls == INSTANCE SubAgents WITH
    Session <- {s1}, Task <- {t1}, Client <- {c1, c2}, Sweeper <- sweeper,
    NoTask <- none, ActiveLimit <- 1, HistoryLimit <- 2, OneInstruction <- FALSE,
    MayLeave <- TRUE, MayExpire <- TRUE, MayFail <- TRUE,
    order <- subOrder, call <- subCall

SubInit == CASE scene = "sub-agents" -> Reach!Init
             [] scene = "sub-agents steady" -> Steady!Init
             [] OTHER -> Calls!Init
SubNext == /\ \/ scene = "sub-agents" /\ Reach!Next
              \/ scene = "sub-agents steady" /\ Steady!Next /\ Steady!SendsApart'
              \/ scene = "sub-agent calls" /\ Calls!Next
           /\ UNCHANGED <<recordVars, acpVars, guardVars, batchVars, vars>>

-----------------------------------------------------------------------------
(* ToolGuardrails: a rate limit on a circuit that never opens; two callers *)
(* probing; two callers whose calls outlast phases of the circuit.         *)

Rate == INSTANCE ToolGuardrails WITH
    Caller <- {c1, c2}, RateLimit <- 2, RateWindow <- 1, Window <- 1, MinCompleted <- 2,
    OpenTime <- 1, MaxProbes <- 2, Required <- 1, DryRuns <- TRUE,
    Faults <- {"disk", "crash", "metrics"}
Probing == INSTANCE ToolGuardrails WITH
    Caller <- {c1, c2}, RateLimit <- 0, RateWindow <- 0, Window <- 1, MinCompleted <- 1,
    OpenTime <- 1, MaxProbes <- 2, Required <- 2, DryRuns <- FALSE,
    Faults <- {"disk", "crash", "metrics"}
Closing == INSTANCE ToolGuardrails WITH
    Caller <- {c1, c2}, RateLimit <- 0, RateWindow <- 0, Window <- 2, MinCompleted <- 1,
    OpenTime <- 1, MaxProbes <- 3, Required <- 3, DryRuns <- FALSE,
    Faults <- {"crash", "metrics"}

GuardInit == Rate!Init
GuardNext == /\ \/ scene = "rate" /\ Rate!Next
                \/ scene = "probing" /\ Probing!Next
                \/ scene = "closing" /\ Closing!Next
             /\ UNCHANGED <<recordVars, acpVars, subVars, batchVars, vars>>

-----------------------------------------------------------------------------
(* SubAgentBatch: any batch of three; answers that get lost; a batch that  *)
(* is resumed by a second execution.                                       *)

Batch == INSTANCE SubAgentBatch WITH
    N <- 3, Exec <- {x1}, RunId <- {n1}, NoRun <- none, Retries <- 0, MaxParallel <- 2,
    CloseSessions <- TRUE, Overlap <- FALSE, MayLose <- FALSE, CloseFails <- FALSE,
    TasksFail <- FALSE, JournalFull <- FALSE, deps <- batchDeps, sess <- batchSess
Tries == INSTANCE SubAgentBatch WITH
    N <- 2, Exec <- {x1}, RunId <- {n1}, NoRun <- none, Retries <- 1, MaxParallel <- 2,
    CloseSessions <- TRUE, Overlap <- FALSE, MayLose <- TRUE, CloseFails <- FALSE,
    TasksFail <- TRUE, JournalFull <- FALSE, deps <- batchDeps, sess <- batchSess
Again == INSTANCE SubAgentBatch WITH
    N <- 2, Exec <- {x1, x2}, RunId <- {n1}, NoRun <- none, Retries <- 0, MaxParallel <- 2,
    CloseSessions <- TRUE, Overlap <- FALSE, MayLose <- FALSE, CloseFails <- FALSE,
    TasksFail <- FALSE, JournalFull <- FALSE, deps <- batchDeps, sess <- batchSess

BatchInit == CASE scene = "batch" -> Batch!Init
               [] scene = "batch tries" -> Tries!Init
               [] scene = "batch again" -> Again!Init
               [] OTHER -> Tries!Init /\ batchDeps = [k \in 1..2 |-> {}]
                                      /\ policy = [k \in 1..2 |-> "stop"]
BatchNext == /\ \/ scene = "batch" /\ Batch!Next
                \/ scene = "batch tries" /\ Tries!Next
                \/ scene = "batch again" /\ Again!Next
             /\ UNCHANGED <<recordVars, acpVars, subVars, guardVars, vars>>

(* BatchPlan: any dependencies.                                            *)

PlanInit == IF scene = "plan" THEN Init
            ELSE /\ deps = [k \in Key |-> {}] /\ indegree = [k \in Key |-> 0]
                 /\ ready = {} /\ waves = <<>> /\ order = 0 /\ phase = "checking"
PlanNext == /\ scene = "plan" /\ Next
            /\ UNCHANGED <<recordVars, acpVars, subVars, guardVars, batchVars>>
-----------------------------------------------------------------------------
(* A service in one of the scenes. *)

ServiceInit == /\ scene \in Scene
               /\ RecordsInit /\ AcpInit /\ SubInit /\ GuardInit
               /\ BatchInit /\ PlanInit
ServiceNext == /\ \/ RecordsNext \/ AcpNext \/ SubNext \/ GuardNext
                  \/ BatchNext \/ PlanNext
               /\ UNCHANGED scene
serviceVars == <<scene, recordVars, acpVars, subVars, guardVars, batchVars, vars>>
ServiceSpec == ServiceInit /\ [][ServiceNext]_serviceVars

ASSUME /\ Records!RecordsAssumption /\ Full!RecordsAssumption
       /\ Crash!RecordsAssumption /\ Evicted!RecordsAssumption
       /\ Acp!AcpAssumption
       /\ Reach!LimitsAreCounts /\ Reach!SweeperIsNoClient /\ Reach!NoTaskIsNoTask
       /\ Steady!LimitsAreCounts /\ Steady!SweeperIsNoClient /\ Steady!NoTaskIsNoTask
       /\ Calls!LimitsAreCounts /\ Calls!SweeperIsNoClient /\ Calls!NoTaskIsNoTask
       /\ Rate!LimitsAreCounts /\ Probing!LimitsAreCounts
       /\ Closing!LimitsAreCounts
       /\ Batch!CountsAreNat /\ Batch!NoRunIsNone /\ Tries!CountsAreNat /\ Tries!NoRunIsNone
       /\ Again!CountsAreNat /\ Again!NoRunIsNone

-----------------------------------------------------------------------------
(* The properties.  Their parts are stated and explained in the modules,   *)
(* whose type invariants come along.                                       *)

\* Starts with one request id share one task (handle_agent_task_start), the store keeps to
\* its history limit, whoever starts and is evicted, and what is queued will
\* be run, after a crash as well, which finds all that the disk knows as queued.
Admission == /\ scene = "records" => /\ Records!TypeOK /\ Records!OneTaskPerRequest
                                     /\ Records!QueuedHasRunner
             /\ scene = "full" => Full!StoreBounded
             /\ scene = "crash" => Crash!QueuedHasRunner /\ Crash!QueuedIsKnown

\* A task that has ended stays so on disk, but for a record made before its end that reaches
\* the disk after it: through failed writes, evictions, tasks that are read back, and crashes.
WhatIsDoneStays == [][/\ scene = "records" => Records!EndStays
                      /\ scene = "crash" => Crash!EndStays
                      /\ scene = "evicted" => Evicted!EndStays]_serviceVars

\* A task of the ACP backend leaves no session binding behind, and only what the operator
\* stopped ends as interrupted, sessions being apart.
AcpRunsEndAlone == scene = "acp" => Acp!TypeOK /\ Acp!NothingLeft /\ Acp!InterruptedWasStopped

\* A task that runs for a sub-agent can be stopped through its session, and no more run than
\* the limit lets; a session works on one instruction at a time, when sends are alone with
\* it; what a closed one was doing has been stopped.
SubAgentsInHand ==
    /\ scene = "sub-agents" => Reach!RunningIsReachable /\ Reach!ActiveWithinLimit
    /\ scene = "sub-agents steady" => Steady!TypeOK /\ Steady!OneRunning
    /\ scene = "sub-agent calls" => Calls!ClosedHasNoTask

\* No window of time sees more calls than the limit of the scope, and a half-open circuit
\* lets no more through than there are probes.
LimitsRespected == /\ scene = "rate" => Rate!TypeOK /\ Rate!RateRespected
                   /\ scene = "probing" => Probing!ProbesBounded

\* A half-open circuit is closed by enough successes of its probes, but for at most one
\* earlier call of each caller, which ends as a success while the circuit is half open.
ClosedByProbes == [][scene = "closing" => Closing!EnoughProbes]_serviceVars

\* A task of a batch is attempted when what it depends on was reported as succeeded and has run
\* to its end, and again only when its last attempt is over; what is reported as succeeded has
\* run to its end; after a failure that stops the batch no other wave begins; a resumed batch
\* does not do again what is done; the sessions of a batch that was told to close them are
\* closed in the end.
BatchSound ==
    /\ scene = "batch" => Batch!DependenciesDone /\ Batch!StopMeansStop /\ Batch!NothingLeft
    /\ scene = "batch tries" => /\ Tries!TypeOK /\ Tries!OneAttemptAtATime
                                /\ Tries!DependenciesDone /\ Tries!SucceededIsDone
                                /\ Tries!StopMeansStop
    /\ scene = "batch again" => Again!DoneOnce
=============================================================================
