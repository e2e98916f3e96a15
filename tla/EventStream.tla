---------------------------- MODULE EventStream ----------------------------
(***************************************************************************)
(* The event stream from end to end: the publishers and connections of the *)
(* runtime service (TurnEvents) and the web client's bridge (EventBridge)  *)
(* over a connection that may break at any time.                           *)
(***************************************************************************)
EXTENDS TurnEvents, EventBridge

CONSTANT MaxBreaks   \* bound: connections that break

VARIABLES
  known,   \* history: frames the client got, or that a later refresh read
  breaks   \* how often a connection broke

vars == <<bvars, svars, known, breaks>>

Init == BridgeInit /\ ServerInit /\ known = {} /\ breaks = 0

Quiet == UNCHANGED <<known, breaks>>
Server(action) == action /\ UNCHANGED bvars /\ Quiet

-----------------------------------------------------------------------------
(* Client and server together.                                             *)

\* The handshake.  The websocket names its position in the URL; the browser's
\* EventSource sends Last-Event-ID only when it reconnects, and the position
\* the client writes into the SSE URL is not read by the service.
OpenWs  == WsOpen /\ Accept("ws", sub.lastId) /\ Quiet
OpenSseStream ==
  /\ SseOpen /\ Quiet
  /\ Accept("sse", IF sub.sseSeen = {} THEN 0 ELSE sub.cursor)

\* The client reads the next item, or its debounced refresh reads the state.
Read == /\ wire # <<>> /\ Message(Head(wire))
        /\ wire' = Tail(wire) /\ UNCHANGED <<pubVars, conn, breaks>>
        /\ known' = known \cup heard'

DoRefresh == /\ Refresh /\ known' = known \cup issued
             /\ UNCHANGED <<svars, breaks>>

Break == /\ breaks < MaxBreaks /\ breaks' = breaks + 1
         /\ WsFail \/ SseFail
         /\ Hangup /\ UNCHANGED known

\* What the client does by itself; leaving a stream ends its connection.
Alone ==
  /\ \/ \E l \in Listener : Subscribe(l)
     \/ StartDone \/ RetryFires
  /\ UNCHANGED svars /\ Quiet

Leave ==
  /\ ProbeFires \/ \E l \in Listener : Unsubscribe(l)
  /\ IF sub'.ws = sub.ws /\ sub'.sse = sub.sse THEN UNCHANGED connVars
     ELSE conn' = NoConn /\ wire' = <<>>
  /\ UNCHANGED pubVars /\ Quiet

Next ==
  \/ Server(Publish) \/ Server(Serve) \/ Server(Restart)
  \/ OpenWs \/ OpenSseStream \/ Read \/ DoRefresh \/ Break \/ Alone \/ Leave

Spec == Init /\ [][Next]_vars

-----------------------------------------------------------------------------
TypeOK == BridgeTypeOK /\ ServerTypeOK /\ breaks \in 0 .. MaxBreaks

(* Nothing is on its way: the client reads a live stream to its end and no *)
(* publisher is in the middle of a frame.                                  *)
Settled ==
  /\ sub.ws = "open" \/ sub.sse = "open"
  /\ conn.phase = "live" /\ conn.pos = Len(bus) /\ wire = <<>> /\ ~pending
  /\ \A p \in Publisher : pub[p].pc = "idle"
  /\ fanout = NoFrame

(* "Subscription lag or disconnect causes a safe resync, not stale silent  *)
(* drift": a settled client has every turn frame of the service process it *)
(* is connected to, or refreshed on a signal after it was published.       *)
NoSilentLoss == Settled => {f \in issued : f.epoch = epoch} \subseteq known

(* A frame is handed to the listeners once, though a reconnect replays it. *)
HandedOnce == ~repeated
=============================================================================
