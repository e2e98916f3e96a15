---------------------------- MODULE ThreadTurns ----------------------------
(***************************************************************************)
(* Sending messages to threads and stopping their turns: the composer's    *)
(* queue (useQueuedSend), the requests (useThreadMessaging), the turn      *)
(* events (useThreadTurnEvents) and the service that runs the turns        *)
(* (turn_send_handler.rs, handle_turn_interrupt).  Steering is off and no  *)
(* review is under way.  A turn is named by the message it answers.        *)
(* React: `status` is what was dispatched, `view` what was last rendered;  *)
(* callbacks and effects see `view`, refs are seen at once.                *)
(***************************************************************************)
EXTENDS Naturals, Sequences, FiniteSets

CONSTANTS
  Thread, UserMessage,
  Command,  \* the messages that are local slash commands, such as /status
  Happens,  \* what may happen: a subset of Incident
  MaxStop,  \* bound: interrupt requests of the user under way at one time
  NoThread, NoMessage

Incident == {"switch", "stop", "connect", "refuse", "throw", "reject", "fail",
             "delta", "quick", "remove"}

ThreadAssumption == /\ Command \subseteq UserMessage /\ Happens \subseteq Incident
                    /\ MaxStop \in Nat /\ NoThread \notin Thread /\ NoMessage \notin UserMessage

VARIABLES
  active,     \* activeThreadIdRef
  connected,  \* whether the workspace is connected
  status,     \* threadStatusById and activeTurnIdByThread
  view,       \* the same, as last rendered
  box,        \* per thread: queuedByThread, inFlightByThread, hasStartedByThread
  optimistic, \* optimisticInFlightByThreadRef
  pending,    \* pendingInterruptsRef
  sends,      \* calls of sendUserMessage and of commands under way
  stops,      \* interrupt requests under way
  turns,      \* the service: the phase of each turn and its thread
  events,     \* the stream of turn events
  written,    \* the messages written so far, each with its thread, in order
  served      \* the messages whose turns the service accepted, in order

client == <<active, connected, status, view, box, optimistic, pending, written>>
vars == <<client, sends, stops, turns, events, served>>

Idle == [processing |-> FALSE, turn |-> NoMessage]
Empty == [queue |-> <<>>, inFlight |-> NoMessage, started |-> FALSE]

Init ==
  /\ active \in Thread
  /\ connected \in {"connect" \notin Happens, TRUE}
  /\ status = [t \in Thread |-> Idle] /\ view = status
  /\ box = [t \in Thread |-> Empty]
  /\ optimistic = {} /\ pending = {} /\ sends = {} /\ stops = {}
  /\ turns = [m \in UserMessage |-> [phase |-> "none", thread |-> NoThread]]
  /\ events = <<>> /\ served = <<>>
  /\ written = <<>>

-----------------------------------------------------------------------------
(* Writing a message.                                                      *)

Send(m, thread, to, from, stage) ==
  [msg |-> m, thread |-> thread, to |-> to, from |-> from, stage |-> stage]

\* The part of a send or command that runs at once; it reads activeThreadIdRef.
Called(m, thread, from) ==
  Send(m, thread, active, from, IF m \in Command THEN "command" ELSE "ensure")

Processing(t) == view[t].processing

\* Mutant: it is never dropped.
TrackedForever(b) == [b EXCEPT !.started = b.inFlight # NoMessage]

\* The first of the effects that follow a render looks after the message in flight.
Tracked(b) ==
  IF b.inFlight = NoMessage THEN b
  ELSE IF status[active].processing THEN [b EXCEPT !.started = TRUE]
  ELSE IF b.started THEN [b EXCEPT !.inFlight = NoMessage, !.started = FALSE]
  ELSE b

\* Clicks, answers and events usually come after what was dispatched was rendered.
Rendered == "quick" \in Happens \/ (view = status /\ Tracked(box[active]) = box[active])

\* What a click changed is rendered, and its effects have run, before the next.
Flushed(b) == ~Processing(active) /\ b.inFlight = NoMessage => b.queue = <<>>
Clicked == Rendered /\ Flushed(box[active])

Unwritten(m) == \A i \in DOMAIN written : written[i].msg # m
Write(m) == written' = Append(written, [msg |-> m, thread |-> active])

\* Mutant: the message goes to the front.
EnqueueFirst(m) ==
  /\ Clicked /\ Unwritten(m)
  /\ box' = [box EXCEPT ![active].queue = <<m>> \o @]
  /\ Write(m)
  /\ UNCHANGED <<active, connected, status, view, optimistic, pending, sends, stops,
                 turns, events, served>>

\* handleSend while the thread is busy, or queueMessage.
Enqueue(m) ==
  /\ Clicked /\ Unwritten(m)
  /\ box' = [box EXCEPT ![active].queue = Append(@, m)]
  /\ Write(m)
  /\ UNCHANGED <<active, connected, status, view, optimistic, pending, sends, stops,
                 turns, events, served>>

RemoveQueuedMessage(m) ==
  /\ "remove" \in Happens /\ Clicked
  /\ box' = [box EXCEPT ![active].queue = SelectSeq(@, LAMBDA n : n # m)] /\ box' # box
  /\ UNCHANGED <<active, connected, status, view, optimistic, pending, written, sends, stops,
                 turns, events, served>>

\* The rest of handleSend, once the workspace is connected.
SendDirect(m, t) ==
  IF m \in Command THEN UNCHANGED <<box, optimistic>>
  ELSE /\ optimistic' = optimistic \cup {t}
       /\ box' = [box EXCEPT ![t].inFlight = m, ![t].started = FALSE]

HandleSend(m) ==
  /\ Clicked /\ Unwritten(m) /\ ~Processing(active) /\ active \notin optimistic
  /\ Write(m)
  /\ IF connected
     THEN /\ SendDirect(m, active)
          /\ sends' = sends \cup {Called(m, active, "composer")}
     ELSE /\ sends' = sends \cup {Send(m, active, NoThread, "composer", "connect")}
          /\ UNCHANGED <<box, optimistic>>
  /\ UNCHANGED <<active, connected, status, view, pending, stops, turns, events, served>>

\* connectWorkspace returned.
Connected(s) ==
  /\ s.stage = "connect"
  /\ connected' = TRUE
  /\ SendDirect(s.msg, s.thread)
  /\ sends' = (sends \ {s}) \cup {Called(s.msg, s.thread, "composer")}
  /\ UNCHANGED <<active, status, view, pending, stops, turns, events, written, served>>

\* setActiveThreadId; it is rendered before anything is clicked again
SwitchThread(t) ==
  /\ "switch" \in Happens /\ Clicked /\ t # active
  /\ active' = t /\ view' = status
  /\ UNCHANGED <<connected, status, box, optimistic, pending, written, sends, stops,
                 turns, events, served>>

\* The second effect: the head of the queue is sent.
MayFlush(b) == ~status[active].processing /\ b.inFlight = NoMessage /\ b.queue # <<>>

Render ==
  LET b == box[active] IN
  /\ view' = status
  /\ IF MayFlush(b)
     THEN /\ box' = [box EXCEPT ![active] = [ queue |-> Tail(b.queue), started |-> FALSE,
                                              inFlight |-> Head(b.queue) ]]
          /\ optimistic' = optimistic \cup {active}
          /\ sends' = sends \cup {Called(Head(b.queue), active, "queue")}
     ELSE box' = [box EXCEPT ![active] = Tracked(b)] /\ UNCHANGED <<optimistic, sends>>
  /\ UNCHANGED <<active, connected, status, pending, written, stops, turns, events, served>>

-----------------------------------------------------------------------------
(* sendUserMessage.                                                        *)

\* There is a loaded thread: the message is marked and requested.
Ensured(s) ==
  /\ s.stage = "ensure"
  /\ status' = [status EXCEPT ![s.to].processing = TRUE]
  /\ sends' = (sends \ {s}) \cup {[s EXCEPT !.stage = "request"]}
  /\ UNCHANGED <<active, connected, view, box, optimistic, pending, written, stops,
                 turns, events, served>>

\* It returns early: a prompt that does not expand, no model, no thread.
Refused(s) ==
  /\ "refuse" \in Happens /\ s.stage = "ensure"
  /\ sends' = sends \ {s}
  /\ UNCHANGED <<client, stops, turns, events, served>>

\* It throws: clearInFlight, or the catch of the effect that flushes the queue.
Thrown(s) ==
  /\ "throw" \in Happens /\ s.stage \in {"ensure", "command"}
  /\ sends' = sends \ {s}
  /\ IF s.from = "queue"
     THEN /\ box' = [box EXCEPT ![s.thread] = [ queue |-> <<s.msg>> \o @.queue,
                                                inFlight |-> NoMessage, started |-> FALSE ]]
          /\ UNCHANGED optimistic
     ELSE IF s.stage = "ensure"
     THEN /\ box' = [box EXCEPT ![s.thread].inFlight = NoMessage, ![s.thread].started = FALSE]
          /\ optimistic' = optimistic \ {s.thread}
     ELSE UNCHANGED <<box, optimistic>>
  /\ UNCHANGED <<active, connected, status, view, pending, written, stops, turns, events,
                 served>>

\* markImmediateCompletion of /status and /mcp
CommandDone(s) ==
  /\ s.stage = "command"
  /\ sends' = sends \ {s}
  /\ status' = [status EXCEPT ![s.to].processing = FALSE]
  /\ UNCHANGED <<active, connected, view, box, optimistic, pending, written, stops, turns,
                 events, served>>

Answered(s) ==
  /\ s.stage = "accepted" /\ Rendered
  /\ sends' = sends \ {s}
  /\ status' = [status EXCEPT ![s.to].turn = s.msg]
  /\ UNCHANGED <<active, connected, view, box, optimistic, pending, written, stops, turns,
                 events, served>>

Failed(s) ==
  /\ s.stage = "failed" /\ Rendered
  /\ sends' = sends \ {s}
  /\ status' = [status EXCEPT ![s.to] = Idle]
  /\ UNCHANGED <<active, connected, view, box, optimistic, pending, written, stops, turns,
                 events, served>>

-----------------------------------------------------------------------------
(* interruptTurn.                                                          *)

Stop(t, turn, auto) ==
  [thread |-> t, turn |-> turn, auto |-> auto, answer |-> "none"]

InterruptTurn ==
  /\ "stop" \in Happens /\ Clicked /\ Processing(active)
  /\ LET stop == Stop(active, view[active].turn, FALSE) IN
     /\ stop \notin stops
     /\ Cardinality({p \in stops : ~p.auto}) < MaxStop
     /\ stops' = stops \cup {stop}
     /\ pending' = IF stop.turn = NoMessage THEN pending \cup {active} ELSE pending
  /\ UNCHANGED <<active, connected, status, view, box, optimistic, written, sends, turns,
                 events, served>>

Interrupted(p) ==
  /\ p.answer # "none" /\ Rendered
  /\ stops' = stops \ {p}
  /\ IF p.answer = "yes" /\ ~p.auto
     THEN /\ status' = [status EXCEPT ![p.thread] = Idle]
          /\ UNCHANGED pending
     ELSE /\ pending' = IF p.turn = NoMessage THEN pending \ {p.thread} ELSE pending
          /\ UNCHANGED status
  /\ UNCHANGED <<active, connected, view, box, optimistic, written, sends, turns, events,
                 served>>

-----------------------------------------------------------------------------
(* The turn events.                                                        *)

OnTurnStarted(e) ==
  IF e.thread \in pending
  THEN /\ pending' = pending \ {e.thread}
       /\ stops' = stops \cup {Stop(e.thread, e.turn, TRUE)}
       /\ UNCHANGED status
  ELSE /\ status' = [status EXCEPT ![e.thread] = [processing |-> TRUE, turn |-> e.turn]]
       /\ UNCHANGED <<pending, stops>>

OnTurnCompleted(e) ==
  /\ status' = [status EXCEPT ![e.thread] = Idle]
  /\ pending' = pending \ {e.thread}
  /\ UNCHANGED stops

OnTurnError(e) ==
  /\ status' = [status EXCEPT ![e.thread] = Idle]
  /\ UNCHANGED <<pending, stops>>

OnDelta(e) ==
  /\ status' = [status EXCEPT ![e.thread].processing = TRUE]
  /\ UNCHANGED <<pending, stops>>

Deliver ==
  /\ events # <<>> /\ Rendered
  /\ LET e == Head(events) IN
     \/ e.kind = "started" /\ OnTurnStarted(e)
     \/ e.kind = "completed" /\ OnTurnCompleted(e)
     \/ e.kind = "failed" /\ OnTurnError(e)
     \/ e.kind = "delta" /\ OnDelta(e)
  /\ events' = Tail(events)
  /\ UNCHANGED <<active, connected, view, box, optimistic, written, sends, turns, served>>

-----------------------------------------------------------------------------
(* The service.                                                            *)

Event(kind, m, t) == [kind |-> kind, turn |-> m, thread |-> t]

\* handle_turn_send: the waiter is registered and the turn spawned.
Accept(s) ==
  /\ s.stage = "request"
  /\ turns' = [turns EXCEPT ![s.msg] = [phase |-> "spawned", thread |-> s.to]]
  /\ events' = Append(events, Event("started", s.msg, s.to))
  /\ served' = Append(served, s.msg)
  /\ sends' = (sends \ {s}) \cup {[s EXCEPT !.stage = "accepted"]}
  /\ UNCHANGED <<client, stops>>

Reject(s) ==
  /\ "reject" \in Happens /\ s.stage = "request"
  /\ sends' = (sends \ {s}) \cup {[s EXCEPT !.stage = "failed"]}
  /\ UNCHANGED <<client, stops, turns, events, served>>

\* complete_turn_send reaches the select that listens to the waiter.
Listens(m) ==
  /\ turns[m].phase = "spawned"
  /\ turns' = [turns EXCEPT ![m].phase = "running"]
  /\ UNCHANGED <<client, sends, stops, events, served>>

Streams(m) ==
  /\ "delta" \in Happens /\ turns[m].phase = "running"
  /\ turns' = [turns EXCEPT ![m].phase = "streamed"]
  /\ events' = Append(events, Event("delta", m, turns[m].thread))
  /\ UNCHANGED <<client, sends, stops, served>>

\* The select is over: the waiter is cleared and the outcome published.
Ends(m) ==
  /\ turns[m].phase \in {"running", "streamed", "interrupted"}
  /\ turns' = [turns EXCEPT ![m].phase = "ended"]
  /\ \E kind \in {"completed", "failed"} :
       /\ kind = "failed" => turns[m].phase = "interrupted" \/ "fail" \in Happens
       /\ kind = "completed" => turns[m].phase # "interrupted"
       /\ events' = Append(events, Event(kind, m, turns[m].thread))
  /\ UNCHANGED <<client, sends, stops, served>>

\* Whom handle_turn_interrupt notifies: the turn of this id, or everybody.
Notified(p) ==
  {m \in UserMessage : /\ turns[m].phase \in {"spawned", "running", "streamed", "interrupted"}
                       /\ p.turn \in {m, NoMessage}}

\* notify_waiters wakes those that already listen; it leaves no permit behind.
HandleTurnInterrupt(p) ==
  /\ p.answer = "none"
  /\ turns' = [m \in UserMessage |->
                 IF m \in Notified(p) /\ turns[m].phase \in {"running", "streamed"}
                 THEN [turns[m] EXCEPT !.phase = "interrupted"] ELSE turns[m]]
  /\ stops' = (stops \ {p})
                \cup {[p EXCEPT !.answer = IF Notified(p) = {} THEN "no" ELSE "yes"]}
  /\ UNCHANGED <<client, sends, events, served>>

-----------------------------------------------------------------------------
User == \/ \E m \in UserMessage : Enqueue(m) \/ HandleSend(m) \/ RemoveQueuedMessage(m)
        \/ \E t \in Thread : SwitchThread(t)
        \/ InterruptTurn

Continue(s) == \/ Connected(s) \/ Ensured(s) \/ CommandDone(s) \/ Answered(s) \/ Failed(s)

Trouble == \E s \in sends : Refused(s) \/ Thrown(s) \/ Reject(s)

Next == \/ User \/ Render \/ Deliver \/ Trouble
        \/ \E s \in sends : Continue(s) \/ Accept(s)
        \/ \E p \in stops : HandleTurnInterrupt(p) \/ Interrupted(p)
        \/ \E m \in UserMessage : Listens(m) \/ Streams(m) \/ Ends(m)

Spec == Init /\ [][Next]_vars

(* What was begun goes on: renders, answers and events arrive, a turn ends. *)
Fairness ==
  /\ WF_vars(Render) /\ WF_vars(Deliver)
  /\ WF_vars(\E p \in stops : HandleTurnInterrupt(p)) /\ WF_vars(\E p \in stops : Interrupted(p))
  /\ \A m \in UserMessage :
       /\ WF_vars(\E s \in sends : s.msg = m /\ (Continue(s) \/ Accept(s)))
       /\ WF_vars(Listens(m)) /\ WF_vars(Ends(m))
FairSpec == Spec /\ Fairness

-----------------------------------------------------------------------------
TypeOK ==
  /\ active \in Thread /\ connected \in BOOLEAN
  /\ status \in [Thread -> [processing : BOOLEAN, turn : UserMessage \cup {NoMessage}]]
  /\ \A t \in Thread : /\ box[t].inFlight \in UserMessage \cup {NoMessage}
                        /\ box[t].started => box[t].inFlight # NoMessage
  /\ optimistic \subseteq Thread /\ pending \subseteq Thread
  /\ \A s \in sends : s.stage = "connect" <=> s.to = NoThread

Running == {m \in UserMessage : turns[m].phase \in {"spawned", "running", "streamed"}}

(* Every answer and event arrived and was rendered, and no effect has work. *)
Arrived == sends = {} /\ stops = {} /\ events = <<>>
Settled ==
  /\ Arrived /\ view = status
  /\ \A m \in UserMessage : turns[m].phase \in {"none", "ended"}
  /\ ~MayFlush(box[active]) /\ Tracked(box[active]) = box[active]

(* "Sends queued messages one at a time after processing completes": the    *)
(* composer never has two turns running in one thread.                     *)
OneTurn ==
  \A m, n \in Running : turns[m].thread = turns[n].thread => m = n

(* When everything came to rest, nothing waits in the active thread: no     *)
(* message is left in its queue or held as in flight.                      *)
QueueMoves == Settled => box[active] = Empty

(* The messages of a thread reach the service in the order they were        *)
(* written, whether they were sent at once, queued or put back.            *)
InOrder ==
  \A i, j \in DOMAIN written : \A k, l \in DOMAIN served :
    /\ i < j /\ written[i].thread = written[j].thread
    /\ served[k] = written[i].msg /\ served[l] = written[j].msg
    => k < l

(* A message is answered in the thread it was written in.                  *)
SentWhereWritten ==
  \A i \in DOMAIN written :
    turns[written[i].msg].thread \in {NoThread, written[i].thread}

(* When everything came to rest, no thread is shown as processing.         *)
SpinnerStops == Settled => \A t \in Thread : ~status[t].processing

(* A turn that runs is shown: its thread is processing, so that it can be   *)
(* stopped and nothing else is sent meanwhile.                             *)
TurnShown == Arrived => \A m \in Running : status[turns[m].thread].processing

(* "Clears pending interrupt and active turn on turn completed": a thread   *)
(* at rest has no active turn ...                                          *)
NoStaleTurn == Settled => \A t \in Thread : status[t].turn = NoMessage

(* ... and no interrupt that would stop the next turn as it starts.        *)
NoStaleStop == Settled => pending = {}

(* Stopping the session of one thread leaves the turns of others alone.    *)
StopsOnlyItsThread ==
  [][\A m \in UserMessage :
       turns'[m].phase = "interrupted" /\ turns[m].phase # "interrupted"
       => \E p \in stops : p.thread = turns[m].thread]_vars

(* Whatever is written is sent: in the end no thread holds a message.      *)
QueueDrains == <>[](\A t \in Thread : box[t] = Empty)
=============================================================================
