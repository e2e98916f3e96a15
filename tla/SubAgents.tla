----------------------------- MODULE SubAgents -----------------------------
(***************************************************************************)
(* The sub-agent sessions of the runtime service                           *)
(* (packages/code-runtime-service-rs/src/sub_agents.rs and                 *)
(* sub_agents/timeouts.rs).  A session is a handle under which a client    *)
(* runs one agent task after another: spawn, send, wait, interrupt, close. *)
(* The sessions and the tasks are two stores under two locks, and every    *)
(* handler takes a copy of its session, lets the lock go, works on the     *)
(* tasks and then writes the session again: each `at` below is one of the  *)
(* places where it waits for a lock.  The lifecycle sweeper goes over the  *)
(* sessions on its own and ends a task that has run past its budget.       *)
(*                                                                         *)
(* A task is named by the request that starts it.  Of its statuses only    *)
(* "running" (queued, running or awaiting approval) and the ends are told  *)
(* apart; how it runs is module AgentTask's matter.                        *)
(***************************************************************************)
EXTENDS Naturals, FiniteSets

CONSTANTS
    Session,        \* session ids
    Task,           \* requests, and the tasks they start
    Client,         \* the callers: each has at most one call in progress
    Sweeper,        \* the lifecycle sweeper
    NoTask,
    ActiveLimit,    \* agent_max_concurrent_tasks
    HistoryLimit,   \* sessions kept in the store
    OneInstruction, \* clients send a session one instruction only
    MayLeave,       \* clients close a session without force
    MayExpire,      \* tasks outlive their budget
    MayFail         \* a start can be refused, a task can leave its store

LimitsAreCounts == ActiveLimit \in Nat \ {0} /\ HistoryLimit \in Nat \ {0}
SweeperIsNoClient == Sweeper \notin Client
NoTaskIsNoTask == NoTask \notin Task

VARIABLES
    sess,   \* the sessions' records
    order,  \* when each session was made, counted in sessions; 0 for never
    stored, \* the sessions in the store
    task,   \* the task store
    late,   \* tasks started longer ago than the budget of a task
    owner,  \* the session each task was started for
    call    \* where each call is

vars == <<sess, order, stored, task, late, owner, call>>

Actor == Client \cup {Sweeper}
Ended == {"completed", "failed", "interrupted"}
SessionEnded == Ended \cup {"closed"}

Unborn == [status |-> "none", active |-> NoTask, timed |-> FALSE, last |-> NoTask, closed |-> FALSE]
Newborn == [Unborn EXCEPT !.status = "idle"]
AtRest == [op |-> "none", at |-> "rest", s |-> CHOOSE s \in Session : TRUE,
           seen |-> Unborn, t |-> NoTask, st |-> "none"]

Stored(s) == s \in stored
Live(t) == t # NoTask /\ task[t] = "running"

\* is_sub_agent_session_counted_as_active.
Counted(s) == Stored(s) /\ ~sess[s].closed /\ sess[s].status \in {"idle", "running"}

\* is_sub_agent_task_timeout_due.  A start time is as old as the task's own start.
Due(r) == r.active # NoTask /\ r.timed /\ late[r.active]

-----------------------------------------------------------------------------
\* What the handlers write into a session, each under the write lock.

\* update_sub_agent_session_with_task: a summary read earlier is folded in.
WithTask(r, t, st) ==
    IF r.closed
    THEN [r EXCEPT !.status = "closed", !.timed = FALSE]
    ELSE [r EXCEPT !.status = st,
                   !.last = t,
                   !.active = IF st \in Ended THEN NoTask ELSE t,
                   !.timed = st \notin Ended]

\* mark_sub_agent_session_task_start_failed, ..._manual_status.
WithoutTask(r, status) ==
    [r EXCEPT !.status = status, !.timed = FALSE, !.active = NoTask,
              !.last = IF r.active # NoTask THEN r.active ELSE r.last]

\* mark_sub_agent_session_task_missing.
WithTaskMissing(r, t) ==
    [r EXCEPT !.status = "failed", !.timed = FALSE, !.last = t,
              !.active = IF r.active = t THEN NoTask ELSE r.active]

\* mark_sub_agent_session_task_timeout.
WithTaskTimeout(r, t) ==
    [r EXCEPT !.status = "interrupted", !.timed = FALSE, !.last = t, !.active = NoTask]

AsClosed(r) ==
    [r EXCEPT !.status = "closed", !.closed = TRUE, !.active = NoTask, !.timed = FALSE]

Write(s, r) == sess' = IF Stored(s) THEN [sess EXCEPT ![s] = r] ELSE sess

Rest(c) == call' = [call EXCEPT ![c] = AtRest]
Go(c, at) == call' = [call EXCEPT ![c].at = at]

-----------------------------------------------------------------------------
Init ==
    /\ sess = [s \in Session |-> Unborn]
    /\ order = [s \in Session |-> 0]
    /\ stored = {}
    /\ task = [t \in Task |-> "none"]
    /\ late = [t \in Task |-> FALSE]
    /\ owner = [t \in Task |-> CHOOSE s \in Session : TRUE]
    /\ call = [c \in Actor |-> AtRest]

\* Mutant: age alone decides.
PrunableByAge(s) == Stored(s)

\* prune_stale_sub_agent_sessions: which sessions may go once they are old.
Prunable(s) ==
    /\ Stored(s)
    /\ sess[s].closed \/ sess[s].active = NoTask \/ sess[s].status \in SessionEnded

\* trim_sub_agent_session_history: the oldest go until there is room for one more.
Trimmed(kept) ==
    {s \in kept : Cardinality({o \in kept : order[o] > order[s]}) < HistoryLimit - 1}

\* handle_sub_agent_spawn / create_sub_agent_session, under one write lock.  Old is
\* what has not been touched for the time to live.
Admits(kept) == Cardinality({s \in kept : Counted(s)}) < ActiveLimit

Spawn(s, Old) ==
    /\ \E c \in Client : call[c] = AtRest
    /\ order[s] = 0
    /\ \A o \in Old : Prunable(o)
    /\ LET kept == stored \ Old IN
       IF Admits(kept)
       THEN /\ order' = [order EXCEPT ![s] = 1 + Cardinality({o \in Session : order[o] # 0})]
            /\ stored' = Trimmed(kept) \cup {s}
            /\ sess' = [sess EXCEPT ![s] = Newborn]
       ELSE stored' = kept /\ UNCHANGED <<order, sess>>
    /\ UNCHANGED <<task, late, owner, call>>

-----------------------------------------------------------------------------
\* handle_sub_agent_send.

SendRead(c, s, t) ==
    /\ call[c] = AtRest
    /\ Stored(s) /\ ~sess[s].closed
    /\ task[t] = "none" /\ \A d \in Client : call[d].t # t
    /\ OneInstruction => sess[s].status = "idle"
    /\ call' = [call EXCEPT ![c] = [AtRest EXCEPT !.op = "send", !.at = "sendCheck",
                                                  !.s = s, !.seen = sess[s], !.t = t]]
    /\ UNCHANGED <<sess, order, stored, task, late, owner>>

SendCheck(c) ==
    /\ call[c].at = "sendCheck"
    /\ IF Live(call[c].seen.active) THEN Rest(c) ELSE Go(c, "sendStart")
    /\ UNCHANGED <<sess, order, stored, task, late, owner>>

SendStart(c) ==
    /\ call[c].at = "sendStart"
    /\ task' = [task EXCEPT ![call[c].t] = "running"]
    /\ owner' = [owner EXCEPT ![call[c].t] = call[c].s]
    /\ Go(c, "summary")
    /\ UNCHANGED <<sess, order, stored, late>>

SendRefused(c) ==
    /\ MayFail
    /\ call[c].at = "sendStart"
    /\ Go(c, "sendFailed")
    /\ UNCHANGED <<sess, order, stored, task, late, owner>>

SendFailed(c) ==
    /\ call[c].at = "sendFailed"
    /\ Write(call[c].s, WithoutTask(sess[call[c].s], "failed"))
    /\ Rest(c)
    /\ UNCHANGED <<order, stored, task, late, owner>>

\* read_agent_task_summary, for a send and an interrupt.
ReadSummary(c) ==
    /\ call[c].at = "summary"
    /\ IF task[call[c].t] = "forgotten"
       THEN Rest(c)
       ELSE call' = [call EXCEPT ![c].st = task[call[c].t], ![c].at = "update"]
    /\ UNCHANGED <<sess, order, stored, task, late, owner>>

\* update_sub_agent_session_with_task; a wait whose task has not ended goes on or
\* reports that its own time is over.
Update(c) ==
    /\ call[c].at = "update"
    /\ Write(call[c].s, WithTask(sess[call[c].s], call[c].t, call[c].st))
    /\ \/ Rest(c)
       \/ /\ call[c].op = "wait" /\ call[c].st = "running" /\ Stored(call[c].s)
          /\ Go(c, "waitRead")
    /\ UNCHANGED <<order, stored, task, late, owner>>

-----------------------------------------------------------------------------
\* handle_sub_agent_wait, handle_sub_agent_status and sweep_sub_agent_task_timeouts.

Wait(c, s) ==
    /\ call[c] = AtRest
    /\ Stored(s)
    /\ call' = [call EXCEPT ![c] = [AtRest EXCEPT !.op = "wait", !.at = "waitRead", !.s = s]]
    /\ UNCHANGED <<sess, order, stored, task, late, owner>>

WaitRead(c) ==
    /\ call[c].at = "waitRead"
    /\ LET r == sess[call[c].s] IN
       IF Stored(call[c].s)
       THEN call' = [call EXCEPT ![c].seen = r, ![c].at = "enforce",
                                 ![c].t = IF r.active # NoTask THEN r.active ELSE r.last]
       ELSE Rest(c)
    /\ UNCHANGED <<sess, order, stored, task, late, owner>>

\* The sweeper's copy of one session, or that of a status call; without an active task
\* nothing is due.
Look(c, s) ==
    /\ MayExpire
    /\ call[c] = AtRest
    /\ Stored(s) /\ sess[s].active # NoTask
    /\ call' = [call EXCEPT ![c] = [AtRest EXCEPT !.op = "look", !.at = "enforce",
                                                  !.s = s, !.seen = sess[s]]]
    /\ UNCHANGED <<sess, order, stored, task, late, owner>>

\* enforce_sub_agent_task_timeout_if_needed: the copy is compared with the session.
Enforce(c) ==
    /\ call[c].at = "enforce"
    /\ LET now == sess[call[c].s]
           was == call[c].seen IN
       IF /\ Stored(call[c].s)
          /\ now.active = was.active /\ now.timed = was.timed
          /\ Due(now)
       THEN call' = [call EXCEPT ![c].at = "expire", ![c].t = now.active]
       ELSE IF call[c].op = "look" THEN Rest(c) ELSE Go(c, "waitTask")
    /\ UNCHANGED <<sess, order, stored, task, late, owner>>

\* Mutant: nothing is written for a task that has ended already.
ExpireLiveOnly(c) ==
    /\ call[c].at = "expire"
    /\ IF Live(call[c].t)
       THEN /\ task' = [task EXCEPT ![call[c].t] = "interrupted"]
            /\ call' = [call EXCEPT ![c].st = "interrupted", ![c].at = "update"]
       ELSE /\ task' = task
            /\ Rest(c)
    /\ UNCHANGED <<sess, order, stored, late, owner>>

\* interrupt_sub_agent_task_due_to_timeout: a task that has ended is left as it is,
\* and its summary is folded into the session all the same.
Expire(c) ==
    /\ call[c].at = "expire"
    /\ LET t == call[c].t
           st == IF Live(t) THEN "interrupted" ELSE task[t] IN
       /\ task' = [task EXCEPT ![t] = st]
       /\ call' = [call EXCEPT ![c].st = st,
                               ![c].at = IF st = "forgotten" THEN "expireMissing" ELSE "update"]
    /\ UNCHANGED <<sess, order, stored, late, owner>>

ExpireMissing(c) ==
    /\ call[c].at = "expireMissing"
    /\ Write(call[c].s, WithTaskTimeout(sess[call[c].s], call[c].t))
    /\ Rest(c)
    /\ UNCHANGED <<order, stored, task, late, owner>>

\* A session that never had a task: the wait ends, or looks again later.
WaitTask(c) ==
    /\ call[c].at = "waitTask"
    /\ IF call[c].t = NoTask
       THEN Rest(c) \/ (call[c].seen.status \notin SessionEnded /\ Go(c, "waitRead"))
       ELSE call' = [call EXCEPT ![c].st = task[call[c].t],
                                 ![c].at = IF task[call[c].t] = "forgotten"
                                           THEN "waitMissing" ELSE "update"]
    /\ UNCHANGED <<sess, order, stored, task, late, owner>>

WaitMissing(c) ==
    /\ call[c].at = "waitMissing"
    /\ Write(call[c].s, WithTaskMissing(sess[call[c].s], call[c].t))
    /\ Rest(c) \/ (Stored(call[c].s) /\ Go(c, "waitRead"))
    /\ UNCHANGED <<order, stored, task, late, owner>>

-----------------------------------------------------------------------------
\* handle_sub_agent_interrupt and handle_sub_agent_close.

InterruptRead(c, s) ==
    /\ call[c] = AtRest
    /\ Stored(s)
    /\ sess[s].active # NoTask \/ sess[s].status \notin SessionEnded
    /\ call' = [call EXCEPT ![c] =
          [AtRest EXCEPT !.op = "interrupt", !.s = s, !.seen = sess[s], !.t = sess[s].active,
                         !.at = IF sess[s].active = NoTask THEN "mark" ELSE "interrupt"]]
    /\ UNCHANGED <<sess, order, stored, task, late, owner>>

InterruptMark(c) ==
    /\ call[c].at = "mark"
    /\ Write(call[c].s, WithoutTask(sess[call[c].s], "interrupted"))
    /\ Rest(c)
    /\ UNCHANGED <<order, stored, task, late, owner>>

\* handle_agent_task_interrupt, for an interrupt and for a forced close.
InterruptTask(c) ==
    /\ call[c].at = "interrupt"
    /\ task' = IF Live(call[c].t) THEN [task EXCEPT ![call[c].t] = "interrupted"] ELSE task
    /\ Go(c, IF call[c].op = "close" THEN "close" ELSE "summary")
    /\ UNCHANGED <<sess, order, stored, late, owner>>

CloseRead(c, s, force) ==
    /\ call[c] = AtRest
    /\ Stored(s) /\ ~sess[s].closed
    /\ force \/ MayLeave
    /\ call' = [call EXCEPT ![c] =
          [AtRest EXCEPT !.op = "close", !.s = s, !.seen = sess[s], !.t = sess[s].active,
                         !.at = IF force /\ sess[s].active # NoTask THEN "interrupt" ELSE "close"]]
    /\ UNCHANGED <<sess, order, stored, task, late, owner>>

CloseMark(c) ==
    /\ call[c].at = "close"
    /\ Write(call[c].s, AsClosed(sess[call[c].s]))
    /\ Rest(c)
    /\ UNCHANGED <<order, stored, task, late, owner>>

-----------------------------------------------------------------------------
\* The tasks and the clock.

TaskEnds(t) ==
    /\ Live(t)
    /\ task' = [task EXCEPT ![t] = "completed"]
    /\ UNCHANGED <<sess, order, stored, late, owner, call>>

TaskForgotten(t) ==
    /\ MayFail
    /\ task[t] \in Ended
    /\ task' = [task EXCEPT ![t] = "forgotten"]
    /\ UNCHANGED <<sess, order, stored, late, owner, call>>

TaskTurnsLate(t) ==
    /\ MayExpire
    /\ task[t] # "none" /\ ~late[t]
    /\ late' = [late EXCEPT ![t] = TRUE]
    /\ UNCHANGED <<sess, order, stored, task, owner, call>>

ClientStep(c) ==
    \/ \E s \in Session : \/ Wait(c, s) \/ InterruptRead(c, s)
                          \/ \E t \in Task : SendRead(c, s, t)
                          \/ \E force \in BOOLEAN : CloseRead(c, s, force)
    \/ SendCheck(c) \/ SendStart(c) \/ SendRefused(c) \/ SendFailed(c)
    \/ ReadSummary(c) \/ WaitRead(c) \/ WaitTask(c) \/ WaitMissing(c)
    \/ InterruptMark(c) \/ InterruptTask(c) \/ CloseMark(c)

\* The steps of a call that a sweep has too.
SharedStep(c) == Update(c) \/ Enforce(c) \/ Expire(c) \/ ExpireMissing(c)

Next ==
    \/ \E s \in Session : \E Old \in SUBSET Session : Spawn(s, Old)
    \/ \E c \in Client : ClientStep(c)
    \/ \E c \in Actor : SharedStep(c)
    \/ \E c \in Actor, s \in Session : Look(c, s)
    \/ \E t \in Task : TaskEnds(t) \/ TaskForgotten(t) \/ TaskTurnsLate(t)

Spec == Init /\ [][Next]_vars

\* Only the sweeper and the clock can be counted on: it visits every session in each
\* of its rounds.  No client need ever call again, and no task need ever end.
Fairness ==
    /\ WF_vars(SharedStep(Sweeper))
    /\ \A s \in Session : SF_vars(Look(Sweeper, s))
    /\ \A t \in Task : WF_vars(TaskTurnsLate(t))

FairSpec == Spec /\ Fairness

-----------------------------------------------------------------------------
TypeOK ==
    /\ sess \in [Session -> [status : {"none", "idle", "running"} \cup SessionEnded,
                             active : Task \cup {NoTask}, timed : BOOLEAN,
                             last : Task \cup {NoTask}, closed : BOOLEAN]]
    /\ order \in [Session -> Nat]
    /\ stored \subseteq Session /\ Cardinality(stored) <= HistoryLimit
    /\ task \in [Task -> {"none", "running", "forgotten"} \cup Ended]
    /\ late \in [Task -> BOOLEAN]
    /\ owner \in [Task -> Session]
    /\ \A c \in Actor : call[c].s \in Session /\ call[c].t \in Task \cup {NoTask}

\* A task that runs can be reached through the session it was sent to: that session is
\* in the store and names it as its active task, so a wait, an interrupt, a forced close
\* and the sweeper find it (a send that is still under way is about to write it there).
RunningIsReachable ==
    \A t \in Task : Live(t) =>
        \/ Stored(owner[t]) /\ sess[owner[t]].active = t
        \/ \E c \in Client : call[c].op = "send" /\ call[c].t = t

\* No more sessions are active than agent_max_concurrent_tasks allows.
ActiveWithinLimit == Cardinality({s \in Session : Counted(s)}) <= ActiveLimit

\* Whatever calls and sweeps were under way when a session was closed, none of them
\* gives it a task again: nobody would end it, because a close answers "already closed".
ClosedHasNoTask == \A s \in Session : sess[s].closed => sess[s].active = NoTask

\* While a send is under way no other call and no sweep is on its session.
SendsApart ==
    \A c, d \in Actor : call[c].op = "send" /\ call[d].op # "none" /\ call[c].s = call[d].s => c = d

\* A session never has two tasks that run, if every send is alone with its session.
OneRunning ==
    \A t, u \in Task : Live(t) /\ Live(u) /\ owner[t] = owner[u] => t = u

\* A session whose client never comes back does not hold its place under the limit for
\* ever: once its task is past its budget the sweeper brings the session up to date.
PlacesComeBack ==
    \A s \in Session : (sess[s].active # NoTask) ~> (sess[s].active = NoTask \/ ~Stored(s))
=============================================================================
