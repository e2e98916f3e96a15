------------------------------ MODULE AcpTask ------------------------------
(***************************************************************************)
(* Tasks and turns that an external agent executes over the Agent Client    *)
(* Protocol: run_agent_task_via_acp, try_complete_turn_send_via_acp, the    *)
(* interrupt handlers and the client of one integration (acp_runtime.rs).   *)
(* The client's loop writes requests, reads answers and serves the agent's  *)
(* own requests one after the other.                                        *)
(***************************************************************************)
EXTENDS Naturals, Sequences

CONSTANTS
  Task,       \* agent tasks, of distinct workspaces
  Turn,       \* turns of threads
  Key,        \* session keys
  KeyOf,      \* the key of a task or turn
  StopIn,     \* where a task or turn may be when the operator stops it
  MaxUpdate,  \* bound: updates of a session a task handles
  None

User == Task \cup Turn

AcpAssumption ==
  /\ KeyOf \in [User -> Key] /\ Task \cap Turn = {} /\ None \notin User \cup Key
  /\ MaxUpdate \in Nat

VARIABLES
  pc,        \* per user: start, ensure, bound, prompt (its select), event, cancelling, ok, err, fail,
             \*   release, done
  status,    \* running, interrupted, completed or failed
  lock,      \* whose handler holds agent_tasks for writing while it awaits the client
  stop,      \* per user: an interrupt under way: none, cancel, notify
  asked,     \* users whose interrupt was accepted
  wire,      \* command_tx: commands for the client's loop
  waiting,   \* the session for whose terminal/wait_for_exit the loop blocks
  sessions,  \* sessions_by_key
  bound,     \* turn_sessions and task_sessions
  working,   \* prompts the agent works on
  cancelled, \* sessions the agent was told to cancel
  answer,    \* per user: the agent's answer to its prompt
  updates    \* updates handled so far

runner == <<pc, status>>
operator == <<lock, stop, asked>>
client == <<wire, waiting>>
store == <<sessions, bound>>
agent == <<working, cancelled, answer>>
vars == <<runner, operator, client, store, agent, updates>>

\* A task's session of its own is removed with its task; a thread's session stays.
Hidden(k) == \A u \in User : KeyOf[u] = k => u \in Task /\ \A v \in User : KeyOf[v] = k => v = u
Command(u, what) == [user |-> u, what |-> what]
Queued(u, what) == \E i \in DOMAIN wire : wire[i] = Command(u, what)
\* A task needs the store; a turn does not.
CanWrite(u) == u \in Task => lock = None

Init ==
  /\ pc = [u \in User |-> "start"] /\ status = [u \in User |-> "running"]
  /\ lock = None /\ stop = [u \in User |-> "none"] /\ asked = {}
  /\ wire = << >> /\ waiting = None /\ sessions = {} /\ bound = {}
  /\ working = {} /\ cancelled = {} /\ answer = [u \in User |-> "none"]
  /\ updates = [u \in User |-> 0]

Go(u, where) == pc' = [pc EXCEPT ![u] = where]

-----------------------------------------------------------------------------
(* A task or a turn.                                                       *)

\* ensure_session_for_task, ensure_session_for_turn
Ensure(u) ==
  /\ pc[u] = "start" /\ Go(u, "ensure")
  /\ wire' = Append(wire, Command(u, "session"))
  /\ UNCHANGED <<status, operator, waiting, store, agent, updates>>

\* The session is loaded or new: it is registered and bound.
Ensured(u) ==
  /\ pc[u] = "ensure" /\ answer[u] = "session" /\ Go(u, "bound")
  /\ sessions' = sessions \cup {KeyOf[u]} /\ bound' = bound \cup {u}
  /\ answer' = [answer EXCEPT ![u] = "none"]
  /\ UNCHANGED <<status, operator, client, working, cancelled, updates>>

\* There is none: the task fails, whatever its record says.
EnsureFails(u) ==
  /\ pc[u] = "ensure" /\ answer[u] = "refused" /\ CanWrite(u) /\ Go(u, "done")
  /\ status' = [status EXCEPT ![u] = "failed"]
  /\ UNCHANGED <<operator, client, store, agent, updates>>

\* A task notes its session in its record; then the prompt is sent.
Prompt(u) ==
  /\ pc[u] = "bound" /\ CanWrite(u) /\ Go(u, "prompt")
  /\ wire' = Append(wire, Command(u, "prompt"))
  /\ UNCHANGED <<status, operator, waiting, store, agent, updates>>

\* An update arrives: a task leaves its select and waits for the store.
Update(u) ==
  /\ u \in Task \cap working /\ pc[u] = "prompt" /\ waiting = None
  /\ updates[u] < MaxUpdate /\ updates' = [updates EXCEPT ![u] = @ + 1]
  /\ Go(u, "event")
  /\ UNCHANGED <<status, operator, client, store, agent>>

Event(u) ==
  /\ pc[u] = "event" /\ CanWrite(u) /\ Go(u, "prompt")
  /\ UNCHANGED <<status, operator, client, store, agent, updates>>

\* Mutant: a prompt that fails counts as cancelled.
AnsweredAlike(u) ==
  /\ pc[u] = "prompt" /\ answer[u] \in {"ended", "cancelled", "failed"}
  /\ Go(u, IF answer[u] = "ended" THEN "ok" ELSE "err")
  /\ UNCHANGED <<status, operator, client, store, agent, updates>>

\* The prompt is answered: it ended, was cancelled, or failed.
Answered(u) ==
  /\ pc[u] = "prompt" /\ answer[u] \in {"ended", "cancelled", "failed"}
  /\ Go(u, CASE answer[u] = "ended" -> "ok" [] answer[u] = "cancelled" -> "err" [] OTHER -> "fail")
  /\ UNCHANGED <<status, operator, client, store, agent, updates>>

\* It left its select for an interrupt and has told the agent.
Cancelled(u) ==
  /\ pc[u] = "cancelling" /\ ~Queued(u, "runnerCancel") /\ Go(u, "err")
  /\ UNCHANGED <<status, operator, client, store, agent, updates>>

\* How a run ends: a task whose prompt fails after an interrupt was interrupted.
EndOf(u) ==
  CASE pc[u] = "ok" -> "completed"
    [] pc[u] = "err" \/ u \in Task \cap asked -> "interrupted"
    [] OTHER -> "failed"

\* The completion is written, without a look at what the record says.
Finish(u) ==
  /\ pc[u] \in {"ok", "err", "fail"} /\ CanWrite(u) /\ Go(u, "release")
  /\ status' = [status EXCEPT ![u] = EndOf(u)]
  /\ UNCHANGED <<operator, client, store, agent, updates>>

\* release_task_session_binding
Release(u) ==
  /\ pc[u] = "release" /\ Go(u, "done")
  /\ bound' = bound \ {u}
  /\ sessions' = IF Hidden(KeyOf[u]) THEN sessions \ {KeyOf[u]} ELSE sessions
  /\ UNCHANGED <<status, operator, client, agent, updates>>

-----------------------------------------------------------------------------
(* The operator: handle_agent_task_interrupt and handle_turn_interrupt.     *)

\* Mutant: the agent is not told.
StopUntold(u) ==
  /\ stop[u] = "none" /\ u \notin asked /\ status[u] = "running"
  /\ pc[u] \in StopIn /\ CanWrite(u)
  /\ lock' = IF u \in Task THEN u ELSE lock
  /\ stop' = [stop EXCEPT ![u] = "cancel"]
  /\ UNCHANGED <<runner, asked, client, store, agent, updates>>

\* The agent is told first; a task's handler holds the store meanwhile.
Stop(u) ==
  /\ stop[u] = "none" /\ u \notin asked /\ status[u] = "running"
  /\ pc[u] \in StopIn /\ CanWrite(u)
  /\ lock' = IF u \in Task THEN u ELSE lock
  /\ stop' = [stop EXCEPT ![u] = "cancel"]
  /\ wire' = IF u \in bound THEN Append(wire, Command(u, "cancel")) ELSE wire
  /\ UNCHANGED <<runner, asked, waiting, store, agent, updates>>

\* Then the record is written and whoever waits in its select is woken:
\* notify_waiters leaves nothing for those who come to it later.
Stopped(u) ==
  /\ stop[u] = "cancel" /\ ~Queued(u, "cancel")
  /\ stop' = [stop EXCEPT ![u] = "none"] /\ lock' = IF lock = u THEN None ELSE lock
  /\ asked' = asked \cup {u}
  /\ status' = IF u \in Task THEN [status EXCEPT ![u] = "interrupted"] ELSE status
  /\ \/ /\ pc[u] = "prompt" /\ Go(u, "cancelling")
        /\ wire' = Append(wire, Command(u, "runnerCancel"))
     \/ pc[u] # "prompt" /\ UNCHANGED <<pc, wire>>
  /\ UNCHANGED <<waiting, store, agent, updates>>

-----------------------------------------------------------------------------
(* The client's loop and the agent.                                        *)

\* The loop writes the next command to the agent.
Deliver ==
  /\ wire # << >> /\ waiting = None /\ wire' = Tail(wire)
  /\ LET u == Head(wire).user
         what == Head(wire).what
     IN \/ /\ what = "session"
           /\ \E a \in {"session", "refused"} : answer' = [answer EXCEPT ![u] = a]
           /\ UNCHANGED <<working, cancelled>>
        \/ /\ what = "prompt" /\ working' = working \cup {u}
           /\ cancelled' = cancelled \ {KeyOf[u]} /\ UNCHANGED answer
        \/ /\ what \in {"cancel", "runnerCancel"}
           /\ cancelled' = cancelled \cup {KeyOf[u]} /\ UNCHANGED <<working, answer>>
  /\ UNCHANGED <<runner, operator, waiting, store, updates>>

\* The agent ends a prompt of its own accord.
AgentEnds(u) ==
  /\ u \in working /\ waiting = None
  /\ working' = working \ {u} /\ answer' = [answer EXCEPT ![u] = "ended"]
  /\ UNCHANGED <<runner, operator, client, store, cancelled, updates>>

\* It answers a prompt with an error.
AgentFails(u) ==
  /\ u \in working /\ waiting = None
  /\ working' = working \ {u} /\ answer' = [answer EXCEPT ![u] = "failed"]
  /\ UNCHANGED <<runner, operator, client, store, cancelled, updates>>

\* A cancelled session's prompts are answered as cancelled.
AgentObeys(u) ==
  /\ u \in working /\ KeyOf[u] \in cancelled /\ waiting = None
  /\ working' = working \ {u} /\ answer' = [answer EXCEPT ![u] = "cancelled"]
  /\ UNCHANGED <<runner, operator, client, store, cancelled, updates>>

\* The agent asks for the end of a command: respond_to_acp_server_request is
\* awaited in the loop, which reads and writes nothing until the command ends.
WaitForExit(u) ==
  /\ u \in working /\ waiting = None /\ waiting' = KeyOf[u] /\ KeyOf[u] \notin cancelled
  /\ KeyOf[u] \in sessions
  /\ UNCHANGED <<runner, operator, wire, store, agent, updates>>

CommandEnds ==
  /\ waiting # None /\ waiting' = None
  /\ UNCHANGED <<runner, operator, wire, store, agent, updates>>

Next ==
  \/ \E u \in User :
       \/ Ensure(u) \/ Ensured(u) \/ EnsureFails(u) \/ Prompt(u) \/ Update(u) \/ Event(u)
       \/ Answered(u) \/ Cancelled(u) \/ Finish(u) \/ Release(u)
       \/ Stop(u) \/ Stopped(u) \/ AgentEnds(u) \/ AgentFails(u) \/ AgentObeys(u)
       \/ WaitForExit(u)
  \/ Deliver \/ CommandEnds

Spec == Init /\ [][Next]_vars

\* The service and the client's loop go on, commands end, and an agent obeys; it
\* need not ever end a prompt by itself.  What the loop does waits, again and again,
\* for commands to end; a writer is passed over once per interrupt at most.
Fairness ==
  /\ \A u \in User :
       /\ WF_vars(Ensure(u) \/ Ensured(u) \/ EnsureFails(u) \/ Prompt(u) \/ Event(u)
                  \/ Answered(u) \/ Cancelled(u) \/ Finish(u) \/ Release(u))
       /\ WF_vars(Stopped(u)) /\ SF_vars(AgentObeys(u))
  /\ SF_vars(Deliver) /\ WF_vars(CommandEnds)

FairSpec == Spec /\ Fairness

-----------------------------------------------------------------------------
(* Properties.                                                             *)

\* The types; the store is held only by an interrupt that is under way.
TypeOK ==
  /\ pc \in [User -> {"start", "ensure", "bound", "prompt", "event", "cancelling",
                      "ok", "err", "fail", "release", "done"}]
  /\ status \in [User -> {"running", "interrupted", "completed", "failed"}]
  /\ lock \in Task \cup {None} /\ (lock # None => stop[lock] = "cancel")
  /\ stop \in [User -> {"none", "cancel"}] /\ asked \subseteq User
  /\ wire \in Seq({Command(u, w) : u \in User, w \in {"session", "prompt", "cancel", "runnerCancel"}})
  /\ waiting \in Key \cup {None} /\ sessions \subseteq Key /\ bound \subseteq User
  /\ working \subseteq User /\ cancelled \subseteq Key
  /\ answer \in [User -> {"none", "session", "refused", "ended", "cancelled", "failed"}]
  /\ updates \in [User -> 0 .. MaxUpdate]

\* Nothing is left of a task: when its run is over it is bound to no session, and a
\* session of its own is gone (release_task_session_binding on every way out).
NothingLeft ==
  \A u \in Task : pc[u] = "done" => u \notin bound /\ (Hidden(KeyOf[u]) => KeyOf[u] \notin sessions)

\* Only what the operator stopped ends as interrupted; a run says of itself "Task
\* interrupted by operator." (mod.rs:123-125, 170-173).
InterruptedWasStopped ==
  \A u \in User : status[u] = "interrupted" => u \in asked \/ stop[u] # "none"

\* An interrupted task remains interrupted, whatever its agent answers later.
InterruptStands ==
  [][\A u \in Task : status[u] = "interrupted" => status'[u] = "interrupted"]_vars

\* What the operator has stopped comes to its end, also when the agent would have
\* gone on for ever: it is woken or its prompt is cancelled.
StopEnds == \A u \in User : (u \in asked) ~> (pc[u] = "done")

\* The store is never held for ever: an interrupt waits for the client's loop with
\* the store locked, and the loop for a command of the agent.
StoreIsFree == []<>(lock = None)
=============================================================================
