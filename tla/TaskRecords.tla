----------------------------- MODULE TaskRecords -----------------------------
(***************************************************************************)
(* The records of agent tasks in the runtime service: starting a task under *)
(* a request id and a history limit (agent_tasks_handlers_start.rs,         *)
(* agent_policy.rs), the checkpoints detached tasks write to SQLite         *)
(* (agent_task_durability*.rs), and what a restart or a resume reads back.   *)
(* What a task does while it runs is AgentTask's subject; here it runs and   *)
(* ends.  Approvals, pauses and sub-agents are left out.                     *)
(***************************************************************************)
EXTENDS Naturals, FiniteSets

CONSTANTS
  Caller,       \* concurrent calls of agent_task_start
  Request,      \* request ids of one workspace
  Task,         \* ids new_id hands out
  HistoryLimit, \* agent_task_history_limit, at most 256
  Breaker,      \* AGENT_TASK_DURABILITY_WRITE_FAILURE_CIRCUIT_BREAKER
  Happens,      \* what may happen: a subset of Incident
  MaxWrites,    \* bound: checkpoints under way at once
  MaxTime,      \* bound: updates of records
  None

\* crash: the service restarts.  fail: a checkpoint is not written.  refuse: the
\* distributed queue refuses a start.  evicted: a resume names an evicted task.
Incident == {"crash", "fail", "refuse", "evicted"}

RecordsAssumption ==
  /\ Happens \subseteq Incident /\ None \notin Task \cup Request
  /\ {HistoryLimit, Breaker, MaxWrites} \subseteq Nat \ {0} /\ MaxTime \in Nat

VARIABLES
  status,   \* AgentTaskStore.tasks: "absent" or the status of the task
  order,    \* AgentTaskStore.order: the places of its tasks, the oldest first
  request,  \* the request id in the summary of a task
  runner,   \* the spawned execution of a task: none, waiting, running
  call,     \* per caller: where its start is
  disk,     \* agent_task_runtime_snapshots: a row per task
  writes,   \* snapshots whose detached write is under way
  failures, \* consecutive_write_failures
  now,      \* the clock of updated_at
  refused,  \* history: tasks whose start was answered with an error
  told      \* history: tasks a caller was told of

memory == <<status, order, request, runner, call>>
durable == <<disk, writes, failures>>
history == <<refused, told>>
vars == <<memory, durable, now, history>>

\* "completed" stands for completed and failed; "recovered" for interrupted with
\* the error code RECOVERY_INTERRUPTED, the one interrupted status resume accepts.
Active == {"queued", "running"}
Terminal == {"completed", "interrupted", "recovered"}
Row == [status : Active \cup Terminal, at : Nat]
NoRow == [status |-> "none", at |-> 0]

Init ==
  /\ status = [t \in Task |-> "absent"] /\ order = [t \in Task |-> 0]
  /\ request = [t \in Task |-> None] /\ runner = [t \in Task |-> "none"]
  /\ call = [c \in Caller |-> [pc |-> "idle", req |-> None, task |-> None]]
  /\ disk = [t \in Task |-> NoRow] /\ writes = {} /\ failures = 0
  /\ now = 0 /\ refused = {} /\ told = {}

Present == {t \in Task : status[t] # "absent"}
Fresh == {t \in Task : request[t] = None}
Idle(c) == [call EXCEPT ![c] = [pc |-> "idle", req |-> None, task |-> None]]

\* checkpoint_agent_task_runtime: a detached write of the record as it is now.
\* After too many failures in a row nothing is written any more.
Checkpoint(t, s) ==
  /\ now < MaxTime /\ now' = now + 1
  /\ Cardinality(writes) < MaxWrites
  /\ writes' = IF failures < Breaker
               THEN writes \cup {[task |-> t, row |-> [status |-> s, at |-> now + 1]]}
               ELSE writes
  /\ UNCHANGED <<disk, failures>>

-----------------------------------------------------------------------------
(* Starting a task.                                                        *)

\* Mutant: only a running task is found again.
SameRequestRunning(r) == {t \in Task : request[t] = r /\ status[t] = "running"}

\* handle_agent_task_start looks for a task of the request that has not ended.
SameRequest(r) == {t \in Task : request[t] = r /\ status[t] \in Active}

\* It answers with that task, or goes on without the lock.
Look(c) ==
  \E r \in Request :
    /\ call[c].pc = "idle" /\ Fresh # {}
    /\ IF SameRequest(r) # {}
       THEN \E t \in SameRequest(r) : told' = told \cup {t} /\ UNCHANGED call
       ELSE call' = [call EXCEPT ![c].pc = "looked", ![c].req = r] /\ UNCHANGED told
    /\ UNCHANGED <<status, order, request, runner, durable, now, refused>>

\* evict_oldest_terminal_agent_task, until there is room or no ended task is left.
Evicted ==
  LET ended == {t \in Present : status[t] \in Terminal}
      nth(t) == Cardinality({u \in ended : order[u] <= order[t]})
  IN {t \in ended : nth(t) + HistoryLimit <= Cardinality(Present) + 1}

\* ensure_agent_task_capacity, after the eviction
HasRoom(kept) == Cardinality(kept) < HistoryLimit

\* remove_agent_task: those behind it move up.
MovedUp(kept) ==
  [t \in Task |-> IF t \in kept THEN Cardinality({u \in kept : order[u] <= order[t]}) ELSE 0]

\* launch_agent_task, up to the end of its write lock.
Insert(c) ==
  /\ call[c].pc = "looked"
  /\ LET kept == Present \ Evicted
         left == [t \in Task |-> IF t \in Evicted THEN "absent" ELSE status[t]]
     IN \/ /\ ~HasRoom(kept)
           /\ status' = left /\ order' = MovedUp(kept) /\ call' = Idle(c)
           /\ UNCHANGED <<request, durable, now>>
        \/ /\ HasRoom(kept)
           /\ \E t \in Fresh :
                /\ status' = [left EXCEPT ![t] = "queued"]
                /\ order' = [MovedUp(kept) EXCEPT ![t] = Cardinality(kept) + 1]
                /\ request' = [request EXCEPT ![t] = call[c].req]
                /\ call' = [call EXCEPT ![c].pc = "inserted", ![c].task = t]
                /\ Checkpoint(t, "queued")
  /\ UNCHANGED <<runner, history>>

\* Without a distributed queue, or once it has the task: it is spawned and answered.
Launch(c) ==
  /\ call[c].pc = "inserted"
  /\ runner' = [runner EXCEPT ![call[c].task] = "waiting"]
  /\ told' = told \cup {call[c].task} /\ call' = Idle(c)
  /\ UNCHANGED <<status, order, request, durable, now, refused>>

\* The distributed queue or its state store refuses: the task is taken out again.
RollBack(c) ==
  /\ call[c].pc = "inserted" /\ "refuse" \in Happens
  /\ LET t == call[c].task
     IN /\ status' = [status EXCEPT ![t] = "absent"]
        /\ order' = MovedUp(Present \ {t})
        /\ refused' = refused \cup {t}
  /\ call' = Idle(c)
  /\ UNCHANGED <<request, runner, durable, now, told>>

-----------------------------------------------------------------------------
(* Running, interrupting and resuming.                                     *)

\* run_agent_task, once it has the workspace and a slot.
Begin(t) ==
  /\ runner[t] = "waiting"
  /\ \/ /\ status[t] = "queued"
        /\ status' = [status EXCEPT ![t] = "running"]
        /\ runner' = [runner EXCEPT ![t] = "running"]
        /\ Checkpoint(t, "running")
     \/ /\ status[t] # "queued"
        /\ runner' = [runner EXCEPT ![t] = "none"]
        /\ UNCHANGED <<status, durable, now>>
  /\ UNCHANGED <<order, request, call, history>>

\* Mutant: an interrupted run completes all the same.
FinishAnyway(t) ==
  /\ runner[t] = "running" /\ t \in Present
  /\ runner' = [runner EXCEPT ![t] = "none"]
  /\ status' = [status EXCEPT ![t] = "completed"]
  /\ Checkpoint(t, "completed")
  /\ UNCHANGED <<order, request, call, history>>

\* The last step ends, or the run finds itself interrupted; an evicted task has no
\* record any more.
Finish(t) ==
  /\ runner[t] = "running"
  /\ runner' = [runner EXCEPT ![t] = "none"]
  /\ \/ /\ status[t] = "running"
        /\ status' = [status EXCEPT ![t] = "completed"]
        /\ Checkpoint(t, "completed")
     \/ /\ status[t] = "interrupted" /\ UNCHANGED status
        /\ Checkpoint(t, "interrupted")
     \/ status[t] = "absent" /\ UNCHANGED <<status, durable, now>>
  /\ UNCHANGED <<order, request, call, history>>

\* handle_agent_task_interrupt
Interrupt(t) ==
  /\ status[t] \in Active
  /\ status' = [status EXCEPT ![t] = "interrupted"]
  /\ Checkpoint(t, "interrupted")
  /\ UNCHANGED <<order, request, runner, call, history>>

\* hydrate_agent_task_runtime_from_snapshot
Hydrated(row) == IF row.status = "running" THEN "recovered" ELSE row.status

\* handle_agent_task_resume: an evicted task is read back before it is asked
\* whether it can be resumed.
Resume(t) ==
  LET found == IF t \in Present THEN status[t] ELSE Hydrated(disk[t])
  IN /\ t \in Present \/ ("evicted" \in Happens /\ disk[t] # NoRow)
     /\ order' = IF t \in Present THEN order ELSE [order EXCEPT ![t] = Cardinality(Present) + 1]
     /\ \/ /\ found = "recovered"
           /\ status' = [status EXCEPT ![t] = "queued"]
           /\ runner' = [runner EXCEPT ![t] = "waiting"]
           /\ Checkpoint(t, "queued")
        \/ /\ found # "recovered" /\ t \notin Present
           /\ status' = [status EXCEPT ![t] = found]
           /\ UNCHANGED <<runner, durable, now>>
     /\ UNCHANGED <<request, call, history>>

-----------------------------------------------------------------------------
(* The disk and the restart.                                               *)

\* persist_agent_task_snapshot_local: the row takes whatever comes.  A success resets the
\* count of failures, but what is degraded stays so until the service restarts.
Write(w) ==
  /\ w \in writes /\ writes' = writes \ {w}
  /\ failures' = IF failures < Breaker THEN 0 ELSE failures
  /\ disk' = [disk EXCEPT ![w.task] = w.row]
  /\ UNCHANGED <<memory, now, history>>

WriteFails(w) ==
  /\ w \in writes /\ "fail" \in Happens
  /\ writes' = writes \ {w} /\ failures' = failures + 1
  /\ UNCHANGED <<memory, disk, now, history>>

\* read_recent_agent_task_snapshots_local
NewestRows ==
  LET rows == {t \in Task : disk[t] # NoRow}
  IN {t \in rows : Cardinality({u \in rows : disk[u].at > disk[t].at}) < HistoryLimit}

\* The places of what is read back, by updated_at.
ReadBack(rows) ==
  [t \in Task |-> IF t \in rows THEN Cardinality({u \in rows : disk[u].at <= disk[t].at}) ELSE 0]

\* Mutant: a task that was queued is not spawned again.
RestartUnspawned ==
  /\ "crash" \in Happens /\ Fresh # Task
  /\ status' = [t \in Task |-> IF t \in NewestRows THEN Hydrated(disk[t]) ELSE "absent"]
  /\ order' = ReadBack(NewestRows)
  /\ runner' = [t \in Task |-> "none"]
  /\ call' = [c \in Caller |-> [pc |-> "idle", req |-> None, task |-> None]]
  /\ writes' = {} /\ failures' = 0
  /\ UNCHANGED <<request, disk, now, history>>

\* The process dies with its writes under way, and starts again:
\* recover_durable_runtime_state, then what was queued is spawned.
Restart ==
  /\ "crash" \in Happens /\ Fresh # Task
  /\ status' = [t \in Task |-> IF t \in NewestRows THEN Hydrated(disk[t]) ELSE "absent"]
  /\ order' = ReadBack(NewestRows)
  /\ runner' = [t \in Task |-> IF t \in NewestRows /\ disk[t].status = "queued"
                               THEN "waiting" ELSE "none"]
  /\ call' = [c \in Caller |-> [pc |-> "idle", req |-> None, task |-> None]]
  /\ writes' = {} /\ failures' = 0
  /\ UNCHANGED <<request, disk, now, history>>

Next ==
  \/ \E c \in Caller : Look(c) \/ Insert(c) \/ Launch(c) \/ RollBack(c)
  \/ \E t \in Task : Begin(t) \/ Finish(t) \/ Interrupt(t) \/ Resume(t)
  \/ \E w \in writes : Write(w) \/ WriteFails(w)
  \/ Restart

Spec == Init /\ [][Next]_vars

-----------------------------------------------------------------------------
(* Properties.                                                             *)

\* The types.  The order lists the tasks of the store, each once.
TypeOK ==
  /\ status \in [Task -> Active \cup Terminal \cup {"absent"}]
  /\ order \in [Task -> Nat] /\ \A t \in Task \ Present : order[t] = 0
  /\ \A t \in Present : order[t] \in 1 .. Cardinality(Present)
  /\ \A t, u \in Present : order[t] = order[u] => t = u
  /\ request \in [Task -> Request \cup {None}]
  /\ runner \in [Task -> {"none", "waiting", "running"}]
  /\ call \in [Caller -> [pc : {"idle", "looked", "inserted"},
                          req : Request \cup {None}, task : Task \cup {None}]]
  /\ disk \in [Task -> Row \cup {NoRow}]
  /\ writes \subseteq [task : Task, row : Row] /\ failures \in Nat /\ now \in 0 .. MaxTime
  /\ refused \subseteq Task /\ told \subseteq Task

\* The store never holds more tasks than the history limit, whatever is started,
\* evicted, read back and recovered.
StoreBounded == Cardinality(Present) <= HistoryLimit

\* No two starts of one request are between their look and their insertion at once: what
\* the clients have to see to, as the code holds no lock in between.
StartsApart ==
  \A c, d \in Caller : call[c].pc = "looked" /\ call[d].pc = "looked" /\ call[c].req = call[d].req
                       => c = d

\* Starts with one request id share one task: no two tasks of a request are
\* active at once (the request-id lookup of handle_agent_task_start).
OneTaskPerRequest ==
  \A t, u \in Task : status[t] \in Active /\ status[u] \in Active /\ request[t] = request[u] => t = u

\* A queued task will be run: somebody is about to spawn its execution, or its
\* execution waits for its turn.  Otherwise it blocks its request and its place in
\* the store for ever.
QueuedHasRunner ==
  \A t \in Task : status[t] = "queued" =>
    runner[t] = "waiting" \/ \E c \in Caller : call[c].pc = "inserted" /\ call[c].task = t

\* A task whose start was answered with an error, and that nobody was told of, is
\* not run: neither now nor after a restart.
RefusedNeverRuns == \A t \in refused : runner[t] = "none"

\* A task somebody was told of is not taken back.
ToldIsKept == told \cap refused = {}

\* The row of a task that has ended for good is only replaced by a record made before the
\* end, which was on its way to the disk when the end overtook it: nothing that is done to a
\* task after its end, and no restart that finds the end, lets it run again.
EndStays ==
  \A t \in Task :
    disk[t].status \in {"completed", "interrupted"} /\ disk'[t].status # disk[t].status
      => disk'[t].at < disk[t].at
EndIsFinal == [][EndStays]_vars

\* A task the disk knows as queued is in the store: a restart finds all the work it
\* has to take up again (recover_durable_runtime_state).
QueuedIsKnown ==
  \A t \in Task \ refused :
    disk[t].status = "queued" /\ (\A w \in writes : w.task # t) => t \in Present
=============================================================================
