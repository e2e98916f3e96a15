----------------------------- MODULE LiveThread -----------------------------
(***************************************************************************)
(* The live subscription to the thread that is shown: the hook             *)
(* useThreadLiveSubscription, the refreshes it starts (useThreadActions,   *)
(* useRuntimeResyncRefresh) and the service's subscriptions, heartbeats    *)
(* and update fan-out (rpc_dispatch_thread_live.rs, runtime_events.rs).    *)
(* Every mount of the hook's effect has a number, which also names its     *)
(* subscription; a number is used again when nothing refers to it.         *)
(* The turns of a thread start and end one after the other.                *)
(***************************************************************************)
EXTENDS Naturals, Sequences, FiniteSets

CONSTANTS
  Thread,
  Happens,    \* what may happen: a subset of Incident
  MaxMount,   \* bound: mounts of the effect that something still refers to
  MaxTurn,    \* bound: starts and ends of turns, per thread
  MaxTrouble, \* bound: failures of the stream, restarts and archivals
  MaxBacklog, \* bound: events of the stream before live events wait to be sent
  MaxGets,    \* bound: lists and resumes under way
  NoThread

\* hasty: the effect is disposed before its subscribe call is answered.
Incident == {"hasty", "stream", "restart", "archive"}

LiveAssumption ==
  /\ Happens \subseteq Incident /\ NoThread \notin Thread
  /\ {MaxMount, MaxTurn, MaxTrouble, MaxBacklog, MaxGets} \subseteq Nat

VARIABLES
  shown,    \* activeThreadId; NoThread also when the workspace is not connected
  hook,     \* the mounted effect: its number, state, stream, subscription, timer
  calls,    \* subscribe calls under way
  gets,     \* lists, resumes and workspace lists under way
  mind,     \* per thread, what the client holds of it: processing, active turn
  resync,   \* the timer of useRuntimeResyncRefresh is armed
  channel,  \* whether the event stream is open
  events,   \* what the service sent on it
  alive,    \* the threads the service has
  archived, \* history: those that were archived, since revived or not
  turns,    \* starts and ends of turns of each thread so far
  changing, \* the part of a start or end still to be done
  subs,     \* thread_live_subscriptions
  fanout,   \* subscriptions with an update that is not sent yet
  jobs,     \* handlers of the service that are half done
  trouble,  \* troubles so far
  early     \* history: the effects disposed before their subscribe calls were answered

client == <<shown, hook, calls, gets, mind, resync>>
threads == <<alive, archived, turns, changing>>
service == <<threads, subs, fanout, jobs>>
vars == <<client, channel, events, service, trouble, early>>

Offline == [n |-> 0, state |-> "offline", open |-> FALSE, sub |-> 0, timer |-> "off"]
AtRest == [busy |-> FALSE, turn |-> FALSE]

Init ==
  /\ shown = NoThread /\ hook = Offline /\ calls = {} /\ gets = {} /\ resync = FALSE
  /\ mind = [t \in Thread |-> AtRest]
  /\ channel = "open" /\ events = <<>>
  /\ alive = Thread /\ turns = [t \in Thread |-> 0] /\ changing = [t \in Thread |-> "none"]
  /\ subs = {} /\ fanout = {} /\ jobs = {} /\ trouble = 0
  /\ archived = {} /\ early = {}

Running(t) == turns[t] % 2 = 1

Event(kind, t) == [kind |-> kind, thread |-> t]
IsTransient(e) == e.kind \in {"patched", "heartbeat", "detached"}
IsLasting(e) == ~IsTransient(e)

\* What is left of the stream for replay, in its order.
Replayable(queue) ==
  LET at == {i \in DOMAIN queue : IsLasting(queue[i])}
      nth(i) == Cardinality({j \in at : j <= i})
  IN [k \in 1 .. Cardinality(at) |-> queue[CHOOSE i \in at : nth(i) = k]]

\* Live events are not kept for replay: they are lost while nobody listens.
Sent(queue, e) == IF channel = "open" \/ IsLasting(e) THEN Append(queue, e) ELSE queue

HasRoom == channel = "down" \/ Len(events) < MaxBacklog

Numbered == {c.n : c \in calls} \cup {s.id : s \in subs} \cup {s.id : s \in fanout}
              \cup {j.id : j \in jobs} \cup {hook.n}
Fresh == {n \in 1 .. MaxMount : n \notin Numbered /\ \A k \in 1 .. n - 1 : k \in Numbered}

-----------------------------------------------------------------------------
(* The hook.                                                               *)

\* The effect, while its subscribe call is under way.
Asking == {hook.n} \cap {c.n : c \in calls}

\* Cleanup and, with a thread to show, a new effect.
Mount(t) ==
  /\ shown' = t
  /\ jobs' = jobs \cup {[kind |-> "unsubscribe", id |-> n, thread |-> NoThread] :
                          n \in {hook.sub} \ {0}}
  /\ IF t = NoThread
     THEN hook' = Offline /\ UNCHANGED calls /\ early' = early \cup Asking
     ELSE \E n \in Fresh :
            /\ hook' = [Offline EXCEPT !.n = n, !.state = "syncing"]
            /\ calls' = calls \cup {[n |-> n, thread |-> t, stage |-> "sent"]}
            /\ early' = (early \ {n}) \cup Asking

MayDispose == "hasty" \in Happens \/ calls = {}

Show(t) ==
  /\ t # shown /\ MayDispose
  /\ Mount(t)
  /\ UNCHANGED <<gets, mind, resync, channel, events, threads, subs, fanout, trouble>>

\* Mutant: the answer is taken by an effect that did not ask.
SubscribeAnsweredAny(c) ==
  /\ c.stage \in {"yes", "no"}
  /\ calls' = calls \ {c}
  /\ hook' = IF c.stage = "no" THEN hook ELSE [hook EXCEPT !.sub = c.n, !.state = "live"]
  /\ UNCHANGED <<shown, gets, mind, resync, channel, events, service, trouble, early>>

\* The answer comes to the effect that asked, or finds it disposed.
SubscribeAnswered(c) ==
  /\ c.stage \in {"yes", "no"}
  /\ calls' = calls \ {c}
  /\ hook' = IF c.n # hook.n THEN hook
             ELSE IF c.stage = "no" THEN [hook EXCEPT !.state = "fallback"]
             ELSE [hook EXCEPT !.sub = c.n, !.state = IF hook.open THEN "live" ELSE "syncing"]
  /\ UNCHANGED <<shown, gets, mind, resync, channel, events, service, trouble, early>>

\* Live events of other threads are ignored.
LiveEvent(e) ==
  /\ hook' = IF e.thread # shown THEN hook
             ELSE [hook EXCEPT !.state = IF e.kind = "detached" THEN "fallback" ELSE "live",
                               !.timer = CASE e.kind = "detached" -> "detached"
                                           [] e.kind = "patched" -> "update"
                                           [] OTHER -> @]
  /\ UNCHANGED mind

TurnEvent(e) ==
  /\ mind' = [mind EXCEPT ![e.thread] = [busy |-> e.kind = "started", turn |-> e.kind = "started"]]
  /\ UNCHANGED hook

Receive ==
  /\ channel = "open" /\ events # <<>>
  /\ LET e == Head(events) IN IF IsTransient(e) THEN LiveEvent(e) ELSE TurnEvent(e)
  /\ events' = Tail(events)
  /\ UNCHANGED <<shown, calls, gets, resync, channel, service, trouble, early>>

HearsFailure == IF hook.n = 0 THEN hook ELSE [hook EXCEPT !.open = FALSE, !.state = "fallback"]

StreamFails ==
  /\ "stream" \in Happens /\ channel = "open" /\ trouble < MaxTrouble
  /\ channel' = "down" /\ trouble' = trouble + 1
  /\ events' = Replayable(events)
  /\ hook' = HearsFailure
  /\ UNCHANGED <<shown, calls, gets, mind, resync, service, early>>

\* The hook hears that the stream is open again, and so does useRuntimeResyncRefresh.
StreamOpens ==
  /\ channel = "down" /\ channel' = "open"
  /\ hook' = IF hook.n = 0 THEN hook
             ELSE [hook EXCEPT !.open = TRUE,
                               !.state = IF hook.sub # 0 THEN "live" ELSE "syncing"]
  /\ resync' = TRUE
  /\ UNCHANGED <<shown, calls, gets, mind, events, service, trouble, early>>

-----------------------------------------------------------------------------
(* Refreshes.  A request remembers what was rendered when it was made.     *)

Get(kind, t, replace, was) ==
  [kind |-> kind, thread |-> t, replace |-> replace, was |-> was,
   answer |-> "none", seen |-> {}, found |-> {}]

List == Get("list", NoThread, FALSE, {t \in Thread : mind[t].turn})
Resume(t, replace) == Get("resume", t, replace, {u \in {t} : mind[u].busy \/ mind[u].turn})
Catalog == Get("workspaces", NoThread, FALSE, {})

\* Adds requests to those under way, up to the bound.
Requested(set) == gets' = gets \cup set /\ Cardinality(gets \cup set) <= MaxGets

\* scheduleRefresh's timer
RefreshTimer ==
  /\ hook.timer # "off"
  /\ hook' = [hook EXCEPT !.timer = "off"]
  /\ Requested({List, Resume(shown, hook.timer = "detached")})
  /\ UNCHANGED <<shown, calls, mind, resync, channel, events, service, trouble, early>>

ResyncTimer ==
  /\ resync /\ resync' = FALSE
  /\ Requested({Catalog} \cup
               IF shown = NoThread THEN {} ELSE {List, Resume(shown, TRUE)})
  /\ UNCHANGED <<shown, hook, calls, mind, channel, events, service, trouble, early>>

\* listThreadsForWorkspace: a thread listed idle that has an active turn is left alone.
Listed(g) ==
  mind' = [t \in Thread |->
            IF t \notin g.seen THEN mind[t]
            ELSE IF t \in g.found THEN [mind[t] EXCEPT !.busy = TRUE]
            ELSE IF t \notin g.was THEN AtRest ELSE mind[t]]

\* resumeThreadForWorkspace: no turns are reported, so the thread looks idle.
Resumed(g) ==
  mind' = IF g.replace /\ g.was = {} THEN [mind EXCEPT ![g.thread] = AtRest] ELSE mind

Done(g) == g.answer # "none" /\ gets' = gets \ {g}

Refreshed(g) ==
  /\ Done(g) /\ g.kind # "workspaces"
  /\ IF g.answer = "no" THEN UNCHANGED mind
     ELSE IF g.kind = "list" THEN Listed(g) ELSE Resumed(g)
  /\ UNCHANGED <<shown, hook, calls, resync, channel, events, service, trouble, early>>

\* Every list of workspaces makes new workspace objects, and the effect is mounted again.
Reloaded(g) ==
  /\ Done(g) /\ g.kind = "workspaces"
  /\ IF g.answer = "no" \/ shown = NoThread THEN UNCHANGED <<shown, hook, calls, jobs, early>>
     ELSE MayDispose /\ Mount(shown)
  /\ UNCHANGED <<mind, resync, channel, events, threads, subs, fanout, trouble>>

-----------------------------------------------------------------------------
(* The service: reads and turns.                                           *)

Of(t) == {s \in subs : s.thread = t}

\* The reads; handle_thread_resume then tells the thread's subscribers.
Read(g) ==
  /\ g.answer = "none"
  /\ LET missing == g.kind = "resume" /\ g.thread \notin alive
     IN gets' = (gets \ {g}) \cup
                {[g EXCEPT !.answer = IF missing THEN "no" ELSE "yes",
                           !.seen = IF g.kind = "list" THEN alive ELSE {},
                           !.found = IF g.kind = "list" THEN {t \in alive : Running(t)} ELSE {}]}
  /\ fanout' = IF g.kind = "resume" /\ g.thread \in alive THEN fanout \cup Of(g.thread)
               ELSE fanout
  /\ UNCHANGED <<shown, hook, calls, mind, resync, channel, events, threads, subs, jobs>>
  /\ UNCHANGED <<trouble, early>>

\* A turn of the thread starts, here or in another client, or ends ...
TurnChanges(t) ==
  /\ turns[t] < MaxTurn /\ changing[t] = "none"
  /\ turns' = [turns EXCEPT ![t] = @ + 1] /\ alive' = alive \cup {t}
  /\ changing' = [changing EXCEPT ![t] = "written"]
  /\ UNCHANGED <<client, channel, events, archived, subs, fanout, jobs, trouble, early>>

\* ... its subscribers are told ...
PublishUpdate(t) ==
  /\ changing[t] = "written"
  /\ changing' = [changing EXCEPT ![t] = "published"]
  /\ fanout' = fanout \cup Of(t)
  /\ UNCHANGED <<client, channel, events, alive, archived, turns, subs, jobs, trouble, early>>

\* ... and everybody.
PublishTurn(t) ==
  /\ changing[t] = "published"
  /\ changing' = [changing EXCEPT ![t] = "none"]
  /\ events' = Sent(events, Event(IF Running(t) THEN "started" ELSE "completed", t))
  /\ UNCHANGED <<client, channel, alive, archived, turns, subs, fanout, jobs, trouble, early>>

\* drain_thread_live_update_fanout_frames, a task of its own
Drain(s) ==
  /\ s \in fanout /\ fanout' = fanout \ {s}
  /\ HasRoom
  /\ events' = Sent(events, Event("patched", s.thread))
  /\ UNCHANGED <<client, channel, threads, subs, jobs, trouble, early>>

-----------------------------------------------------------------------------
(* The service: subscriptions.                                             *)

\* handle_thread_live_subscribe looks for the thread ...
SubscribeChecks(c) ==
  /\ c.stage = "sent"
  /\ calls' = (calls \ {c}) \cup
              {[c EXCEPT !.stage = IF c.thread \in alive THEN "checked" ELSE "no"]}
  /\ UNCHANGED <<shown, hook, gets, mind, resync, channel, events, service, trouble, early>>

\* ... and, no longer holding the lock, inserts the subscription.
SubscribeInserts(c) ==
  /\ c.stage = "checked" /\ HasRoom
  /\ calls' = (calls \ {c}) \cup {[c EXCEPT !.stage = "yes"]}
  /\ subs' = subs \cup {[id |-> c.n, thread |-> c.thread]}
  /\ events' = Sent(events, Event("heartbeat", c.thread))
  /\ UNCHANGED <<shown, hook, gets, mind, resync, channel, threads, fanout, jobs, trouble, early>>

\* Mutant: the task ends because its subscription is registered.
HeartbeatNever(s) == s \notin subs /\ UNCHANGED vars

Heartbeat(s) ==
  /\ s \in subs
  /\ events = <<>>   \* bound: the stream keeps up with the heartbeats
  /\ events' = Sent(events, Event("heartbeat", s.thread))
  /\ UNCHANGED <<client, channel, service, trouble, early>>

\* Subscriptions are removed; when their tasks have stopped, the end is published.
Remove(gone, job) ==
  /\ subs' = subs \ gone
  /\ jobs' = (jobs \ {job}) \cup {[kind |-> "detach", id |-> s.id, thread |-> s.thread] : s \in gone}

Unsubscribe(j) ==
  /\ j.kind = "unsubscribe"
  /\ Remove({s \in subs : s.id = j.id}, j)
  /\ UNCHANGED <<client, channel, events, threads, fanout, trouble, early>>

Detach(j) ==
  /\ j.kind = "detach" /\ HasRoom
  /\ jobs' = jobs \ {j}
  /\ events' = Sent(events, Event("detached", j.thread))
  /\ UNCHANGED <<client, channel, threads, subs, fanout, trouble, early>>

\* handle_thread_archive: the thread goes, and in a second step its subscriptions.
Archive(t) ==
  /\ "archive" \in Happens /\ t \in alive /\ trouble < MaxTrouble /\ trouble' = trouble + 1
  /\ changing[t] = "none" /\ ~Running(t)
  /\ alive' = alive \ {t} /\ archived' = archived \cup {t}
  /\ jobs' = jobs \cup {[kind |-> "archive", id |-> 0, thread |-> t]}
  /\ UNCHANGED <<client, channel, events, turns, changing, subs, fanout, early>>

DetachAll(j) ==
  /\ j.kind = "archive"
  /\ Remove(Of(j.thread), j)
  /\ UNCHANGED <<client, channel, events, threads, fanout, trouble, early>>

\* Threads and subscriptions are kept in memory; turns die with the service.
Restart ==
  /\ "restart" \in Happens /\ trouble < MaxTrouble /\ trouble' = trouble + 1
  /\ alive' = {} /\ subs' = {} /\ fanout' = {}
  /\ jobs' = {j \in jobs : j.kind = "unsubscribe"}
  /\ turns' = [t \in Thread |-> IF Running(t) THEN turns[t] + 1 ELSE turns[t]]
  /\ changing' = [t \in Thread |-> "none"]
  /\ channel' = "down" /\ events' = <<>>
  /\ calls' = {IF c.stage = "yes" THEN c ELSE [c EXCEPT !.stage = "no"] : c \in calls}
  /\ gets' = {IF g.answer = "yes" THEN g ELSE [g EXCEPT !.answer = "no"] : g \in gets}
  /\ hook' = HearsFailure
  /\ UNCHANGED <<shown, mind, resync, archived, early>>

-----------------------------------------------------------------------------
Next ==
  \/ \E t \in Thread \cup {NoThread} : Show(t)
  \/ \E c \in calls : SubscribeAnswered(c) \/ SubscribeChecks(c) \/ SubscribeInserts(c)
  \/ Receive \/ StreamFails \/ StreamOpens \/ RefreshTimer \/ ResyncTimer
  \/ \E g \in gets : Read(g) \/ Refreshed(g) \/ Reloaded(g)
  \/ \E t \in Thread : TurnChanges(t) \/ PublishUpdate(t) \/ PublishTurn(t) \/ Archive(t)
  \/ \E s \in fanout : Drain(s)
  \/ \E s \in subs : Heartbeat(s)
  \/ \E j \in jobs : Unsubscribe(j) \/ Detach(j) \/ DetachAll(j)
  \/ Restart

Spec == Init /\ [][Next]_vars

\* Requests are answered, timers expire, tasks run, the stream is opened again
\* and what it carries is received.  Strong fairness undoes what HasRoom, a
\* bound of the model, makes wait.
Fairness ==
  /\ WF_vars(\E c \in calls : SubscribeAnswered(c))
  /\ SF_vars(\E c \in calls : SubscribeChecks(c) \/ SubscribeInserts(c))
  /\ WF_vars(Receive) /\ WF_vars(StreamOpens) /\ WF_vars(RefreshTimer) /\ WF_vars(ResyncTimer)
  /\ \A kind \in {"list", "resume", "workspaces"} :
       /\ WF_vars(\E g \in gets : g.kind = kind /\ Read(g))
       /\ WF_vars(\E g \in gets : g.kind = kind /\ (Refreshed(g) \/ Reloaded(g)))
  /\ \A t \in Thread : WF_vars(PublishUpdate(t)) /\ WF_vars(PublishTurn(t))
  /\ SF_vars(\E s \in fanout : Drain(s)) /\ SF_vars(\E s \in subs : Heartbeat(s))
  /\ SF_vars(\E j \in jobs : Unsubscribe(j) \/ Detach(j) \/ DetachAll(j))
FairSpec == Spec /\ Fairness

-----------------------------------------------------------------------------
(* Properties.                                                             *)

TypeOK ==
  /\ shown \in Thread \cup {NoThread} /\ resync \in BOOLEAN /\ trouble \in 0 .. MaxTrouble
  /\ hook \in [n : 0 .. MaxMount, state : {"offline", "syncing", "live", "fallback"},
               open : BOOLEAN, sub : 0 .. MaxMount, timer : {"off", "update", "detached"}]
  /\ calls \subseteq [n : 1 .. MaxMount, thread : Thread,
                      stage : {"sent", "checked", "yes", "no"}]
  /\ gets \subseteq [kind : {"list", "resume", "workspaces"}, thread : Thread \cup {NoThread},
                     replace : BOOLEAN, was : SUBSET Thread, answer : {"none", "yes", "no"},
                     seen : SUBSET Thread, found : SUBSET Thread]
  /\ mind \in [Thread -> [busy : BOOLEAN, turn : BOOLEAN]]
  /\ channel \in {"open", "down"}
  /\ \A i \in DOMAIN events :
       events[i] \in [kind : {"patched", "heartbeat", "detached", "started", "completed"},
                      thread : Thread]
  /\ alive \cup archived \subseteq Thread /\ early \subseteq 1 .. MaxMount
  /\ turns \in [Thread -> 0 .. MaxTurn + 1]
  /\ changing \in [Thread -> {"none", "written", "published"}]
  /\ subs \cup fanout \subseteq [id : 1 .. MaxMount, thread : Thread]
  /\ jobs \subseteq [kind : {"unsubscribe", "detach", "archive"}, id : 0 .. MaxMount,
                     thread : Thread \cup {NoThread}]

Settled == calls = {} /\ jobs = {} /\ fanout = {} /\ events = <<>> /\ ~resync /\ gets = {}
             /\ hook.timer = "off"

\* When nothing is under way, a hook that says "live" is registered with the
\* service for the thread it shows: the user is never told that the view is
\* live while no update can come (setLive is called from six places).  It may
\* be an earlier effect's subscription that makes it say so, if that effect was
\* disposed too early.  Not so for a thread that was archived: an update that
\* waits to be sent then comes after the end of its subscription.
LiveMeansSubscribed ==
  Settled /\ hook.state = "live" /\ shown \notin archived =>
    \E s \in Of(shown) : s.id \in {hook.sub} \cup early

\* Of the subscriptions that no effect will ever end, so that their heartbeats
\* go on for ever, the service keeps only those of effects that were disposed
\* before they were told of them: a stream or a service that fails, or a thread
\* that is archived, leaves none.
NothingLeaks ==
  calls = {} /\ jobs = {} => \A s \in subs : s.id \in {hook.sub} \cup early

\* No answer to a list or a resume, however late, hides from the client a turn
\* that it knows of and that runs.
RunningTurnsStay ==
  [][\A t \in Thread : mind[t].turn /\ Running(t) => mind'[t].turn]_vars

\* A thread that stays shown on an open stream is live in the end, whatever
\* ends of earlier subscriptions to it and failures of the stream came before.
LiveInTheEnd ==
  \A t \in Thread : <>[](shown = t /\ channel = "open") => <>[](hook.state = "live")

\* Refreshes come to rest when nothing changes any more.
RefreshesEnd == <>[](hook.timer = "off" /\ gets = {})
=============================================================================
