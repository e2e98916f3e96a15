---------------------------- MODULE EventBridge ----------------------------
(***************************************************************************)
(* The runtime event bridge of the web client (apps/code/src/services):    *)
(* the hub that starts one bridge for all listeners, the websocket         *)
(* subscription with its reconnect timer, the SSE fallback with its probe, *)
(* and the hook that refreshes the workspace when the stream recovers.     *)
(* JavaScript runs one callback at a time, so every callback is an action. *)
(* The server is outside: sockets open, fail and bring items in any order. *)
(* EventStream puts the real server (TurnEvents) on the other side.        *)
(***************************************************************************)
EXTENDS Naturals, Sequences, FiniteSets

CONSTANTS
  Listener,    \* the callbacks that may subscribe to app-server events
  HasWs,       \* whether the transport hints name a websocket endpoint
  HasSse,      \* whether they name an events (SSE) endpoint
  Item,        \* what a stream may bring: frames and resync signals
  IdOf(_),     \* the event id the client reads from an item, 0 for none
  IsSignal(_)  \* whether the item asks for a resync

EndpointAssumption == HasWs \in BOOLEAN /\ HasSse \in BOOLEAN

VARIABLES
  listeners,   \* the hub's set of listeners
  hub,         \* listenPromise, unlisten and the restart timer
  sub,         \* the closure of subscribeWebRuntimeWsEvents, or NoSub
  channel,     \* status of channel "app-server-events" as the hook last saw it
  pending,     \* the hook's debounce timer is armed
  heard,       \* history: the items this bridge handed to the listeners
  repeated,    \* history: it handed over an item with an id twice
  failed       \* history: the stream failed since it was last open

history == <<heard, repeated>>
bvars == <<listeners, hub, sub, channel, pending, heard, repeated, failed>>

NoSub == [ws |-> "none", opened |-> FALSE, fallback |-> FALSE, retry |-> FALSE,
          probe |-> FALSE, sse |-> "none", lastId |-> 0, cursor |-> 0,
          seen |-> {}, sseSeen |-> {}, signalled |-> FALSE]

Status == {"idle", "connecting", "open", "reconnecting", "error", "fallback", "stopped"}

BridgeInit ==
  /\ listeners = {} /\ sub = NoSub /\ channel = "idle"
  /\ hub = [starting |-> FALSE, bridged |-> FALSE, restart |-> FALSE]
  /\ pending = FALSE /\ heard = {} /\ repeated = FALSE /\ failed = FALSE

-----------------------------------------------------------------------------
(* The state channel and the hook that listens to it.                      *)

Recovering == {"fallback", "reconnecting", "error"}

\* The hook sees every update of the channel, in order.
Recovered(path) == \E i \in 1 .. Len(path) - 1 :
                      path[i] \in Recovering /\ path[i + 1] = "open"

Report(path) ==
  /\ channel' = IF path = <<>> THEN channel ELSE path[Len(path)]
  /\ pending' = (pending \/ Recovered(<<channel>> \o path))
  /\ failed' = (failed \/ \E i \in 1 .. Len(path) : path[i] \in Recovering)

\* The debounce timer fires: workspaces, threads and account are read again.
Refresh ==
  /\ pending /\ pending' = FALSE
  /\ UNCHANGED <<listeners, hub, sub, channel, failed, history>>

-----------------------------------------------------------------------------
(* The websocket subscription.  Each operator gives the closure after the  *)
(* call and the statuses the call reports.                                 *)

Outcome(s, path) == [sub |-> s, path |-> path]

TrackReplay(s) == [s EXCEPT !.lastId = IF @ < s.cursor THEN s.cursor ELSE @]

ScheduleReconnect(s) == Outcome([s EXCEPT !.retry = TRUE], <<"reconnecting">>)

\* Mutant: the fallback forgets its probe.
FallbackForGood(s) ==
  Outcome([s EXCEPT !.ws = "none", !.retry = FALSE, !.fallback = TRUE,
                    !.sse = "connecting", !.sseSeen = {}], <<"fallback">>)

\* A fresh EventSource has a deduper of its own.
ActivateFallback(s) ==
  IF HasSse
  THEN Outcome([s EXCEPT !.ws = "none", !.retry = FALSE, !.fallback = TRUE,
                         !.sse = "connecting", !.sseSeen = {}, !.probe = TRUE],
               <<"fallback">>)
  ELSE ScheduleReconnect([s EXCEPT !.ws = "none"])

Recover(s) == IF s.opened THEN ScheduleReconnect(s) ELSE ActivateFallback(s)

\* connect(): the constructor of WebSocket may throw.
Connect(s, throws) ==
  LET at == TrackReplay(s) IN
  IF throws
  THEN LET r == Recover(at) IN Outcome(r.sub, <<"connecting", "error">> \o r.path)
  ELSE Outcome([at EXCEPT !.ws = "connecting"], <<"connecting">>)

OpenSse == Outcome([NoSub EXCEPT !.sse = "connecting"], <<>>)

\* startAppServerBridge with the hints it resolved.
OpenSubscription(throws) ==
  IF HasWs THEN Connect(NoSub, throws) ELSE IF HasSse THEN OpenSse ELSE Outcome(NoSub, <<>>)

Become(o) == sub' = o.sub /\ Report(o.path)

\* socket.onopen.  The signal that the stream reconnected is throttled.
WsOpen ==
  /\ sub.ws = "connecting"
  /\ \E throttled \in {FALSE, sub.signalled} :
       LET signal == sub.opened /\ ~throttled IN
       /\ sub' = [sub EXCEPT !.ws = "open", !.opened = TRUE, !.signalled = @ \/ signal]
       /\ channel' = "open"
       /\ pending' = (pending \/ signal \/ channel \in Recovering)
       /\ failed' = FALSE
  /\ UNCHANGED <<listeners, hub, history>>

\* socket.onerror or socket.onclose.
WsFail ==
  /\ sub.ws # "none"
  /\ \E onerror \in BOOLEAN :
       LET r == Recover([sub EXCEPT !.ws = "none"]) IN
       Become(Outcome(r.sub, (IF onerror THEN <<"error">> ELSE <<>>) \o r.path))
  /\ UNCHANGED <<listeners, hub, history>>

RetryFires ==
  /\ sub.retry
  /\ \E throws \in BOOLEAN : Become(Connect([sub EXCEPT !.retry = FALSE], throws))
  /\ UNCHANGED <<listeners, hub, history>>

\* The probe gives the websocket another chance and drops the fallback.
ProbeFires ==
  /\ sub.probe /\ sub.fallback
  /\ \E throws \in BOOLEAN :
       Become(Connect([sub EXCEPT !.probe = FALSE, !.fallback = FALSE,
                                  !.sse = "none", !.retry = FALSE], throws))
  /\ UNCHANGED <<listeners, hub, history>>

\* The browser's EventSource: reconnects by itself, or gives up for good
\* when the answer is not an event stream.
SseOpen ==
  /\ sub.sse = "connecting"
  /\ sub' = [sub EXCEPT !.sse = "open"]
  /\ UNCHANGED <<listeners, hub, channel, pending, failed, history>>

SseFail ==
  /\ sub.sse \in {"connecting", "open"}
  /\ \E after \in {"connecting", "closed"} : sub' = [sub EXCEPT !.sse = after]
  /\ UNCHANGED <<listeners, hub, channel, pending, failed, history>>

\* What the listeners get, and the resync hook among them.
Hand(item, id, duplicate) ==
  /\ heard' = IF duplicate THEN heard ELSE heard \cup {item}
  /\ repeated' = (repeated \/ (~duplicate /\ id > 0 /\ item \in heard))
  /\ pending' = (pending \/ (~duplicate /\ IsSignal(item)))

\* socket.onmessage: the position moves before the deduper looks.
WsMessage(item) ==
  LET id == IdOf(item) IN
  /\ sub.ws = "open"
  /\ sub' = IF id = 0 THEN sub
            ELSE [sub EXCEPT !.lastId = id, !.cursor = id, !.seen = @ \cup {id}]
  /\ Hand(item, id, id \in sub.seen)
  /\ UNCHANGED <<listeners, hub, channel, failed>>

\* source.onmessage of the SSE stream.
SseMessage(item) ==
  LET id == IdOf(item) IN
  /\ sub.sse = "open"
  /\ sub' = IF id = 0 THEN sub
            ELSE [sub EXCEPT !.cursor = id, !.sseSeen = @ \cup {id}]
  /\ Hand(item, id, id \in sub.sseSeen)
  /\ UNCHANGED <<listeners, hub, channel, failed>>

Message(item) == WsMessage(item) \/ SseMessage(item)

-----------------------------------------------------------------------------
(* The hub.                                                                *)

\* start(): a no-op while a bridge exists or is being started.
Started(h, l) == IF h.bridged \/ l = {} THEN h ELSE [h EXCEPT !.starting = TRUE]

Subscribe(l) ==
  /\ l \notin listeners
  /\ listeners' = listeners \cup {l}
  /\ hub' = Started(hub, listeners')
  /\ UNCHANGED <<sub, channel, pending, failed, history>>

\* The last listener leaves: stop() cancels the restart and disposes the bridge.
Unsubscribe(l) ==
  /\ l \in listeners
  /\ listeners' = listeners \ {l}
  /\ IF listeners' # {} THEN UNCHANGED <<hub, sub, channel, failed>>
     ELSE /\ hub' = [hub EXCEPT !.restart = FALSE, !.bridged = FALSE]
          /\ sub' = NoSub
          /\ channel' = IF hub.bridged /\ HasWs THEN "stopped" ELSE channel
          /\ failed' = FALSE
  /\ UNCHANGED <<pending, history>>

\* listenPromise resolves.  With nobody left the new bridge is disposed at once.
StartDone ==
  /\ hub.starting
  /\ IF listeners = {}
     THEN /\ hub' = [hub EXCEPT !.starting = FALSE, !.restart = FALSE]
          /\ channel' = IF HasWs THEN "stopped" ELSE channel
          /\ UNCHANGED <<sub, pending, failed, history>>
     ELSE /\ hub' = [starting |-> FALSE, bridged |-> TRUE, restart |-> FALSE]
          /\ \E throws \in BOOLEAN : Become(OpenSubscription(throws))
          /\ heard' = {} /\ repeated' = FALSE
  /\ UNCHANGED listeners

\* listenPromise rejects.
StartFails ==
  /\ hub.starting
  /\ hub' = [hub EXCEPT !.starting = FALSE, !.restart = @ \/ listeners # {}]
  /\ UNCHANGED <<listeners, sub, channel, pending, failed, history>>

RestartFires ==
  /\ hub.restart
  /\ hub' = Started([hub EXCEPT !.restart = FALSE], listeners)
  /\ UNCHANGED <<listeners, sub, channel, pending, failed, history>>

BridgeNext ==
  \/ \E l \in Listener : Subscribe(l) \/ Unsubscribe(l)
  \/ StartDone \/ StartFails \/ RestartFires
  \/ WsOpen \/ WsFail \/ RetryFires \/ ProbeFires
  \/ SseOpen \/ SseFail \/ Refresh
  \/ \E item \in Item : Message(item)

BridgeSpec == BridgeInit /\ [][BridgeNext]_bvars

Connects == (RetryFires \/ ProbeFires) /\ sub'.ws = "connecting"

(* Timers fire; and of the attempts to start a bridge, to create a socket  *)
(* and to have it opened that recur for ever, one succeeds.                *)
BridgeFairness ==
  /\ WF_bvars(RetryFires) /\ WF_bvars(ProbeFires) /\ WF_bvars(RestartFires)
  /\ SF_bvars(StartDone) /\ SF_bvars(Connects) /\ SF_bvars(WsOpen)

FairBridgeSpec == BridgeSpec /\ BridgeFairness

-----------------------------------------------------------------------------
BridgeTypeOK ==
  /\ listeners \subseteq Listener
  /\ hub \in [starting : BOOLEAN, bridged : BOOLEAN, restart : BOOLEAN]
  /\ sub.ws \in {"none", "connecting", "open"}
  /\ sub.sse \in {"none", "connecting", "open", "closed"}
  /\ sub.retry \in BOOLEAN /\ sub.probe \in BOOLEAN /\ sub.fallback \in BOOLEAN
  /\ channel \in Status /\ pending \in BOOLEAN /\ repeated \in BOOLEAN

(* A bridge over the websocket always waits for exactly one thing: its     *)
(* socket, its reconnect timer, or the SSE fallback with the probe that    *)
(* ends it.  Two would be two streams at once; none, silence for ever.     *)
OneSource ==
  hub.bridged /\ HasWs =>
    /\ Cardinality({w \in {"socket", "timer", "fallback"} :
                      \/ w = "socket" /\ sub.ws # "none"
                      \/ w = "timer" /\ sub.retry
                      \/ w = "fallback" /\ sub.fallback}) = 1
    /\ sub.probe = sub.fallback /\ sub.fallback = (sub.sse # "none")

(* While anybody listens, a bridge stands, is being started, or waits for  *)
(* its restart timer: no failure or quick resubscribe abandons a listener. *)
NeverAbandoned == listeners # {} => hub.starting \/ hub.bridged \/ hub.restart

(* When nobody listens there is no bridge and no restart timer, and a      *)
(* disposed bridge leaves no socket, stream or timer behind.               *)
NothingLeaks ==
  /\ listeners = {} => ~hub.bridged /\ ~hub.restart
  /\ ~hub.bridged => sub = NoSub

(* A bridge is never started beside another one.                           *)
OneBridge == ~(hub.starting /\ hub.bridged)

(* With the websocket only (no fallback), one bridge never hands the same  *)
(* frame to the listeners twice, whatever a server replays.                *)
NoRepeat == ~repeated

(* A listener that stays is served: the websocket opens again and again    *)
(* after every failure, the fallback included.                             *)
Served == \A l \in Listener :
            <>[](l \in listeners) => []<>(sub.ws = "open")

(* What the hook's test expects: when the stream is open again after a     *)
(* failure, the workspace is refreshed.  (The signal that is throttled is  *)
(* left out: no signal was sent yet.)                                      *)
RecoveryRefreshes ==
  [][failed /\ ~sub.signalled /\ channel # "open" /\ channel' = "open" => pending']_bvars
=============================================================================
