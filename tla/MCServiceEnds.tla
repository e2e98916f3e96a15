--------------------------- MODULE MCServiceEnds ---------------------------
(***************************************************************************)
(* TLC instances of the service's modules for the liveness properties, one *)
(* in each scene, as explained in MCService: AgentTask, AcpTask, SubAgents, *)
(* ToolGuardrails and SubAgentBatch; and of TaskRecords, whose constants    *)
(* are those of the run: one task, and all that may go wrong with it.       *)
(***************************************************************************)
EXTENDS TaskRecords

CONSTANTS Scene, c1, s1, s2, t1, t2, k1, k2, n1, w1, w2, x1, none, sweeper

VARIABLES
    scene,
    \* AgentTask
    agentStatus, intr, cur, err, steps, approved, pend, index, stored, older, decisions,
    pc, at, woken, outcome, wsHeld, slots,
    \* AcpTask
    acpPc, acpStatus, lock, stop, asked, wire, waiting, sessions, bound, working,
    cancelled, answer, updates,
    \* SubAgents
    sess, subOrder, subStored, task, late, owner, subCall,
    \* ToolGuardrails
    mem, guardDisk, writable, caller, calm, seen, probes, good, strays,
    \* SubAgentBatch
    deps, policy, entry, exec, try, batchSess

agentVars == <<agentStatus, intr, cur, err, steps, approved, pend, index, stored, older,
               decisions, pc, at, woken, outcome, wsHeld, slots>>
acpVars == <<acpPc, acpStatus, lock, stop, asked, wire, waiting, sessions, bound, working,
             cancelled, answer, updates>>
subVars == <<sess, subOrder, subStored, task, late, owner, subCall>>
guardVars == <<mem, guardDisk, writable, caller, calm, seen, probes, good, strays>>
batchVars == <<deps, policy, entry, exec, try, batchSess>>

-----------------------------------------------------------------------------
Ends == INSTANCE AgentTask WITH
    Task <- {t1, t2}, Workspace <- {w1}, WorkspaceOf <- [t \in {t1, t2} |-> w1],
    MaxRuns <- 1, NSteps <- 1,
    ApprovalSteps <- [t \in {t1, t2} |-> IF t = t1 THEN {1} ELSE {}],
    ScopeOf <- [t \in {t1, t2} |-> [i \in 1..2 |-> s1]], NoScope <- none,
    MaxSlots <- 1, MaxSessions <- 2, HistoryLimit <- 2,
    Interruptible <- {t1}, Pausable <- {}, BootStatus <- {"absent"}, status <- agentStatus
AcpEnds == INSTANCE AcpTask WITH
    Task <- {t1, t2}, Turn <- {}, Key <- {k1, k2},
    KeyOf <- [u \in {t1, t2} |-> IF u = t1 THEN k1 ELSE k2],
    StopIn <- {"prompt", "event"}, MaxUpdate <- 1, None <- none,
    pc <- acpPc, status <- acpStatus
Places == INSTANCE SubAgents WITH
    Session <- {s1}, Task <- {t1, t2}, Client <- {c1}, Sweeper <- sweeper,
    NoTask <- none, ActiveLimit <- 1, HistoryLimit <- 2, OneInstruction <- FALSE,
    MayLeave <- TRUE, MayExpire <- TRUE, MayFail <- FALSE,
    order <- subOrder, stored <- subStored, call <- subCall
Recovery == INSTANCE ToolGuardrails WITH
    Caller <- {c1}, RateLimit <- 0, RateWindow <- 0, Window <- 1, MinCompleted <- 1,
    OpenTime <- 1, MaxProbes <- 2, Required <- 2, DryRuns <- FALSE,
    Faults <- {"disk", "crash", "metrics"}, disk <- guardDisk
BatchTries == INSTANCE SubAgentBatch WITH
    N <- 2, Exec <- {x1}, RunId <- {n1}, NoRun <- none, Retries <- 0, MaxParallel <- 2,
    CloseSessions <- TRUE, Overlap <- FALSE, MayLose <- TRUE, CloseFails <- TRUE,
    TasksFail <- FALSE, JournalFull <- TRUE, sess <- batchSess

-----------------------------------------------------------------------------
ServiceInit == /\ scene \in Scene
               /\ Ends!Init /\ AcpEnds!Init /\ Places!Init /\ Recovery!Init /\ Init
               /\ BatchTries!Init
               /\ scene # "batch ends" => /\ deps = [k \in 1..2 |-> {}]
                                          /\ policy = [k \in 1..2 |-> "stop"]
ServiceNext ==
    /\ \/ /\ scene = "executors end" /\ Ends!Next
          /\ UNCHANGED <<vars, acpVars, subVars, guardVars, batchVars>>
       \/ /\ scene = "records" /\ Next
          /\ UNCHANGED <<agentVars, acpVars, subVars, guardVars, batchVars>>
       \/ /\ scene = "acp ends" /\ AcpEnds!Next
          /\ UNCHANGED <<agentVars, vars, subVars, guardVars, batchVars>>
       \/ /\ scene = "sub-agents end" /\ Places!Next
          /\ UNCHANGED <<agentVars, vars, acpVars, guardVars, batchVars>>
       \/ /\ scene = "recovery" /\ Recovery!Next
          /\ UNCHANGED <<agentVars, vars, acpVars, subVars, batchVars>>
       \/ /\ scene = "batch ends" /\ BatchTries!Next
          /\ UNCHANGED <<agentVars, vars, acpVars, subVars, guardVars>>
    /\ UNCHANGED scene
serviceVars == <<scene, agentVars, vars, acpVars, subVars, guardVars, batchVars>>
ServiceSpec == ServiceInit /\ [][ServiceNext]_serviceVars

\* The fairness of the scene's module; nothing has to happen to the records.
FairServiceSpec ==
    /\ ServiceSpec
    /\ \/ scene = "executors end" /\ Ends!Fairness
       \/ scene = "records"
       \/ scene = "acp ends" /\ AcpEnds!Fairness
       \/ scene = "sub-agents end" /\ Places!Fairness
       \/ scene = "recovery" /\ Recovery!Fairness
       \/ scene = "batch ends" /\ BatchTries!Fairness

ASSUME /\ RecordsAssumption /\ AcpEnds!AcpAssumption
       /\ Places!LimitsAreCounts /\ Places!SweeperIsNoClient /\ Places!NoTaskIsNoTask
       /\ Recovery!LimitsAreCounts /\ BatchTries!CountsAreNat /\ BatchTries!NoRunIsNone

-----------------------------------------------------------------------------
(* The properties; their parts are stated and explained in the modules, as *)
(* QueuedHasRunner and EndIsFinal are in TaskRecords.                      *)

\* Under fairness: executors return, ...
ExecutorsReturn == scene = "executors end" => Ends!ExecutorsReturn

\* ... a stopped task of the ACP backend ends and the store is not held for ever, ...
StopEnds == scene = "acp ends" => AcpEnds!StopEnds /\ AcpEnds!StoreIsFree

\* ... the places of sub-agents come back, ...
PlacesComeBack == scene = "sub-agents end" => Places!PlacesComeBack

\* ... circuits recover ...
Recovers == scene = "recovery" => Recovery!Recovers

\* ... and batches end.
BatchEnds == scene = "batch ends" => BatchTries!BatchEnds
=============================================================================
