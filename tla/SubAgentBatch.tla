--------------------------- MODULE SubAgentBatch ---------------------------
(***************************************************************************)
(* The batch tool for sub-agents                                           *)
(* (apps/code/src/services/webMcpBridgeRuntimeSubAgentBatchTool.ts).  An   *)
(* execution goes through the waves of its plan (module BatchPlan) in      *)
(* chunks of maxParallel tasks; every task of a chunk is tried on its own: *)
(* a session is spawned, sent the instruction, waited for and closed, up   *)
(* to maxRetries + 1 times; when all of the chunk have their results they  *)
(* go into the journal, from which an execution with the same idempotency  *)
(* key can resume.                                                         *)
(*                                                                         *)
(* The runtime (module SubAgents) is what the tool sees of it: sessions,   *)
(* one for each attempt, whose task runs and ends on its own, and calls    *)
(* that are refused, are answered, or take effect without an answer.       *)
(***************************************************************************)
EXTENDS Integers, FiniteSets

CONSTANTS
    N,              \* tasks in a batch
    Exec,           \* executions of the tool with one idempotency key
    RunId, NoRun,   \* batchRunId and resumeFromBatchRunId
    Retries,        \* maxRetries
    MaxParallel,
    CloseSessions,  \* closeSubAgentSession
    Overlap,        \* executions run at the same time
    MayLose,        \* answers get lost
    CloseFails,     \* a close can be refused
    TasksFail,      \* a task of the runtime can end as failed
    JournalFull     \* other batches push the entry out of the journal

Key == 1..N
Attempt == 1..(Retries + 1)

CountsAreNat == N \in Nat /\ Retries \in 0..2 /\ MaxParallel \in 1..6
NoRunIsNone == NoRun \notin RunId

VARIABLES
    deps,    \* dependsOn
    policy,  \* onFailure
    entry,   \* the journal's entry under the idempotency key, or what stands for none
    exec,    \* the executions
    try,     \* the attempt each task of an execution is at
    sess     \* the sessions of the attempts, in the runtime

vars == <<deps, policy, entry, exec, try, sess>>

NoResults == [k \in Key |-> "none"]
NoEntry == [run |-> NoRun, res |-> NoResults]
AtRest == [at |-> "rest", n |-> 1, out |-> "none"]
NoSession == [open |-> FALSE, task |-> "none"]

\* What can be run when the waves before number w are done (module BatchPlan).
Reach[w \in Nat] == IF w = 0 THEN {} ELSE {k \in Key : deps[k] \subseteq Reach[w - 1]}
Wave(w) == Reach[w] \ Reach[w - 1]

\* chunkArray: wave w in chunks of maxParallel tasks, in input order.
Chunk(pos) ==
    {k \in Wave(pos.wave) :
        Cardinality({j \in Wave(pos.wave) : j < k}) \div MaxParallel = pos.chunk}
NextPos(pos) ==
    LET after == [pos EXCEPT !.chunk = pos.chunk + 1] IN
    IF Chunk(after) # {} THEN after ELSE [wave |-> pos.wave + 1, chunk |-> 0]

Acyclic(g) == \A S \in SUBSET Key : S # {} => \E k \in S : g[k] \cap S = {}

Init ==
    /\ deps \in {g \in [Key -> SUBSET Key] : Acyclic(g)}
    /\ policy \in [Key -> {"stop", "continue"}]
    /\ entry = NoEntry
    /\ exec = [x \in Exec |-> [at |-> "idle", run |-> NoRun, pos |-> [wave |-> 1, chunk |-> 0],
                               res |-> NoResults, jres |-> NoResults, old |-> {}]]
    /\ try = [x \in Exec |-> [k \in Key |-> AtRest]]
    /\ sess = [x \in Exec |-> [k \in Key |-> [n \in Attempt |-> NoSession]]]

-----------------------------------------------------------------------------
\* Mutant: every execution of the idempotency key starts anew.
MatchesNothing(run, from) == FALSE

\* The entry an execution goes on from, when the marker it was given matches.
Matches(run, from) == entry # NoEntry /\ entry.run = IF from = NoRun THEN run ELSE from

Begin(x, run, from) ==
    /\ exec[x].at = "idle"
    /\ Overlap \/ \A y \in Exec : exec[y].at \in {"idle", "ended"}
    /\ LET kept == IF Matches(run, from) THEN entry.res ELSE NoResults IN
       exec' = [exec EXCEPT ![x] =
                  [@ EXCEPT !.at = "chunk", !.res = kept, !.jres = kept,
                            !.run = IF Matches(run, from) THEN entry.run ELSE run,
                            !.old = {k \in Key : kept[k] # "none"}]]
    /\ UNCHANGED <<deps, policy, entry, try, sess>>

Blocked(x, k) == \E d \in deps[k] : exec[x].res[d] # "succeeded"

\* The chunk's tasks that have no result yet are skipped or begin their first attempt.
StartChunk(x) ==
    /\ exec[x].at = "chunk"
    /\ LET due == {k \in Chunk(exec[x].pos) : exec[x].res[k] = "none"} IN
       /\ exec' = [exec EXCEPT ![x].at = "running",
                     ![x].res = [k \in Key |-> IF k \in due /\ Blocked(x, k)
                                               THEN "skipped" ELSE @[k]]]
       /\ try' = [try EXCEPT ![x] = [k \in Key |-> IF k \in due /\ ~Blocked(x, k)
                                                   THEN [AtRest EXCEPT !.at = "spawn"] ELSE @[k]]]
    /\ UNCHANGED <<deps, policy, entry, sess>>

\* Mutant: only the policy counts.
StopsByPolicy(k, out) == out \in {"fatal", "failed"} /\ policy[k] = "stop"

\* A fatal failure stops a batch whatever the policy of the task.
Stops(k, out) == out = "fatal" \/ (out = "failed" /\ policy[k] = "stop")

\* All of the chunk have answered: the results go into the journal; a stop, or the end
\* of the plan, gives every task without a result "skipped" and ends the execution.
Collect(x) ==
    /\ exec[x].at = "running"
    /\ \A k \in Key : try[x][k].at \in {"rest", "answered"}
    /\ LET won == {k \in Key : try[x][k].at = "answered"}
           res == [k \in Key |-> IF k \in won THEN try[x][k].out ELSE exec[x].res[k]]
           jres == [k \in Key |-> IF k \in won THEN try[x][k].out ELSE exec[x].jres[k]]
           next == NextPos(exec[x].pos)
           last == Chunk(next) = {} \/ \E k \in won : Stops(k, res[k])
           all == [k \in Key |-> IF res[k] = "none" THEN "skipped" ELSE res[k]] IN
       /\ entry' = [run |-> exec[x].run, res |-> IF last THEN all ELSE jres]
       /\ exec' = [exec EXCEPT ![x] =
                     IF last THEN [@ EXCEPT !.at = "ended", !.res = all, !.jres = all]
                             ELSE [@ EXCEPT !.at = "chunk", !.res = res, !.jres = jres, !.pos = next]]
    /\ try' = [try EXCEPT ![x] = [k \in Key |-> AtRest]]
    /\ UNCHANGED <<deps, policy, sess>>

\* trimJournalIfNeeded, for the entries of other batches: an entry keeps its place in
\* the order however often it is written.
Trim ==
    /\ JournalFull /\ entry # NoEntry
    /\ entry' = NoEntry
    /\ UNCHANGED <<deps, policy, exec, try, sess>>

-----------------------------------------------------------------------------
\* One attempt, runTaskAttempt, and the retries around it, runTaskWithRetries.

Session(x, k) == sess[x][k][try[x][k].n]
At(x, k, at) == try[x][k].at = at
Go(x, k, at, out) == try' = [try EXCEPT ![x][k].at = at, ![x][k].out = out]
Set(x, k, s) == sess' = [sess EXCEPT ![x][k][try[x][k].n] = s]
Interrupted(t) == IF t = "live" THEN "interrupted" ELSE t

\* Mutant: the number of attempts is not counted.
FailedUncounted(x, k, kind) ==
    try' = [try EXCEPT ![x][k] =
              IF kind = "fatal"
              THEN [@ EXCEPT !.at = "answered", !.out = kind]
              ELSE [at |-> "spawn", n |-> @.n, out |-> "none"]]

\* An attempt that failed for a reason that is not fatal is tried again.
Failed(x, k, kind) ==
    try' = [try EXCEPT ![x][k] =
              IF kind = "fatal" \/ @.n > Retries
              THEN [@ EXCEPT !.at = "answered", !.out = kind]
              ELSE [at |-> "spawn", n |-> @.n + 1, out |-> "none"]]

Spawn(x, k) ==
    /\ At(x, k, "spawn")
    /\ \/ Set(x, k, [open |-> TRUE, task |-> "none"]) /\ Go(x, k, "send", "none")
       \/ UNCHANGED sess /\ \E kind \in {"failed", "fatal"} : Failed(x, k, kind)
       \/ MayLose /\ Set(x, k, [open |-> TRUE, task |-> "none"]) /\ Failed(x, k, "failed")
    /\ UNCHANGED <<deps, policy, entry, exec>>

Send(x, k) ==
    /\ At(x, k, "send")
    /\ \/ Set(x, k, [open |-> TRUE, task |-> "live"]) /\ Go(x, k, "wait", "none")
       \/ UNCHANGED sess /\ \E kind \in {"failed", "fatal"} : Go(x, k, "catch", kind)
       \/ MayLose /\ Set(x, k, [open |-> TRUE, task |-> "live"]) /\ Go(x, k, "catch", "failed")
    /\ UNCHANGED <<deps, policy, entry, exec>>

\* The session reports done once its task has ended, however it ended.
WaitDone(x, k) ==
    /\ At(x, k, "wait") /\ Session(x, k).task # "live"
    /\ Go(x, k, IF CloseSessions THEN "close" ELSE "answered", "succeeded")
    /\ UNCHANGED <<deps, policy, entry, exec, sess>>

WaitTimesOut(x, k) ==
    /\ At(x, k, "wait") /\ Session(x, k).task = "live"
    /\ IF CloseSessions THEN Go(x, k, "closeForced", "failed") ELSE Failed(x, k, "failed")
    /\ UNCHANGED <<deps, policy, entry, exec, sess>>

WaitThrows(x, k) ==
    /\ At(x, k, "wait")
    /\ Go(x, k, "catch", "failed")
    /\ UNCHANGED <<deps, policy, entry, exec, sess>>

Close(x, k) ==
    /\ \/ At(x, k, "close") \/ At(x, k, "closeForced")
    /\ \/ /\ Set(x, k, [open |-> FALSE,
                        task |-> IF At(x, k, "closeForced") THEN Interrupted(Session(x, k).task)
                                 ELSE Session(x, k).task])
          /\ IF try[x][k].out = "succeeded" THEN Go(x, k, "answered", "succeeded")
             ELSE Failed(x, k, "failed")
       \/ CloseFails /\ UNCHANGED sess /\ Go(x, k, "catch", "failed")
    /\ UNCHANGED <<deps, policy, entry, exec>>

\* The catch: a forced close, whose own failure is swallowed.
Catch(x, k) ==
    /\ At(x, k, "catch")
    /\ \/ /\ CloseSessions
          /\ Set(x, k, [open |-> FALSE, task |-> Interrupted(Session(x, k).task)])
       \/ (CloseFails \/ ~CloseSessions) /\ UNCHANGED sess
    /\ Failed(x, k, try[x][k].out)
    /\ UNCHANGED <<deps, policy, entry, exec>>

AttemptStep(x, k) ==
    \/ Spawn(x, k) \/ Send(x, k) \/ WaitDone(x, k) \/ WaitTimesOut(x, k) \/ WaitThrows(x, k)
    \/ Close(x, k) \/ Catch(x, k)

TaskEnds(x, k, n) ==
    /\ sess[x][k][n].task = "live"
    /\ \E end \in {"completed"} \cup (IF TasksFail THEN {"failed"} ELSE {}) :
          sess' = [sess EXCEPT ![x][k][n].task = end]
    /\ UNCHANGED <<deps, policy, entry, exec, try>>

Next ==
    \/ \E x \in Exec :
        \/ \E run \in RunId, from \in RunId \cup {NoRun} : Begin(x, run, from)
        \/ StartChunk(x) \/ Collect(x)
        \/ \E k \in Key : AttemptStep(x, k)
        \/ \E k \in Key, n \in Attempt : TaskEnds(x, k, n)
    \/ Trim

Spec == Init /\ [][Next]_vars

\* The tool goes on when it can, and every call is answered, a wait in its own time at
\* the latest.  Nothing is assumed of the tasks.
Fairness ==
    \A x \in Exec : /\ WF_vars(StartChunk(x) \/ Collect(x))
                    /\ \A k \in Key : WF_vars(AttemptStep(x, k))

FairSpec == Spec /\ Fairness

-----------------------------------------------------------------------------
Outcome == {"none", "succeeded", "failed", "fatal", "skipped"}

TypeOK ==
    /\ entry.res \in [Key -> Outcome]
    /\ \A x \in Exec : /\ exec[x].at \in {"idle", "chunk", "running", "ended"}
                       /\ exec[x].res \in [Key -> Outcome]
                       /\ exec[x].at = "ended" => exec[x].res = exec[x].jres
    /\ \A x \in Exec, k \in Key : try[x][k].n \in Attempt /\ try[x][k].out \in Outcome

Trying(x, k) == try[x][k].at \notin {"rest", "answered"}
LiveWork(x, k) == {n \in Attempt : sess[x][k][n].task = "live"}

\* An attempt is over before the next one of its task begins, in the runtime too: two
\* agents never work on one instruction in one workspace.
OneAttemptAtATime == \A x \in Exec, k \in Key : Cardinality(LiveWork(x, k)) <= 1

\* What the tool takes for success: an agent worked on the task until it ended by itself.
\* As completed or as failed is not told apart, but nobody stopped it.
EndedItself == {"completed", "failed"}
RanToItsEnd(k) == \E y \in Exec, n \in Attempt : sess[y][k][n].task \in EndedItself

\* While a task is tried, no agent is still at work on what it depends on, and what it
\* depends on was reported as succeeded and has run to its end.
DependenciesDone ==
    \A x \in Exec, k \in Key : Trying(x, k) =>
        \A d \in deps[k] : /\ exec[x].res[d] = "succeeded"
                           /\ LiveWork(x, d) = {} /\ RanToItsEnd(d)

\* After a failure that stops the batch nothing more is begun, whichever chunk or wave it
\* happened in.
StopMeansStop ==
    \A x \in Exec, k \in Key : Trying(x, k) =>
        ~\E j \in Key : \/ exec[x].res[j] = "fatal"
                        \/ exec[x].res[j] = "failed" /\ policy[j] = "stop"

\* An execution that has ended leaves no session open and no agent at work.
NothingLeft ==
    \A x \in Exec : exec[x].at = "ended" =>
        \A k \in Key, n \in Attempt : ~sess[x][k][n].open /\ sess[x][k][n].task # "live"

\* What is reported as succeeded has run to its end: no attempt that was refused, lost,
\* timed out or interrupted counts, whichever execution made it.
SucceededIsDone ==
    \A x \in Exec, k \in Key : exec[x].res[k] = "succeeded" => RanToItsEnd(k)

\* Under one idempotency key and one run no task is done twice.
DoneOnce ==
    \A k \in Key :
        Cardinality({w \in Exec \X Attempt : sess[w[1]][k][w[2]].task = "completed"}) <= 1

\* What an execution takes over from the journal had been completed.
ResumedWasDone ==
    \A x \in Exec : \A k \in exec[x].old : exec[x].res[k] = "succeeded"

\* Every execution ends, though tasks may run for ever and every call may fail.
BatchEnds == \A x \in Exec : exec[x].at # "idle" ~> exec[x].at = "ended"
=============================================================================
