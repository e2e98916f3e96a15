------------------------------ MODULE MCClient ------------------------------
(***************************************************************************)
(* TLC instances of the client's runtime and of its transport, one of     *)
(* them in each scene, as explained in MCService: ThreadTurns, LiveThread, *)
(* CapabilitiesProbe, RunTruth, EventBridge, EventStream (the bridge on    *)
(* the service's TurnEvents) and RpcTransport, whose constants are those   *)
(* of the run.                                                             *)
(***************************************************************************)
EXTENDS RpcTransport

CONSTANTS
    Scene,                         \* the scenes of a run
    th1, th2, m1, m2, m3, l1, l2, e1, e2, c1, c2, p1, r1, r2, w1, w2,
    wr1, wr2, rd1, rd2, none

VARIABLES
    scene,
    \* ThreadTurns
    active, connected, status, view, box, optimistic, pending, sends, stops, turns, events,
    written, served,
    \* LiveThread
    threadShown, hook, calls, gets, mind, resync, stands, liveEvents, alive, archived,
    liveTurns, changing, subs, fanout, jobsDue, trouble, early,
    \* CapabilitiesProbe
    endpoint, caps, updates, dropped, key, snapshot, guard, aged, inFlight, probe, caller,
    spoiled,
    \* EventBridge and EventStream
    hearers, hub, feed, stream, refresh, heard, repeated, broken,
    epoch, nextId, pub, ring, latest, outbox, bus, conn, pushed, issued, known, breaks,
    \* RunTruth
    home, version, news, shown, priming, hint, snapWs, record, failed, sws, refs, call,
    queued, scheduled,
    \* RpcTransport over sockets
    wsPc, wsAttempt, wsLate, wsSock, wsState, wsWired, wsSocket, wsOpening, wsCooling,
    wsInflight, wsCached, wsWire, wsReplies, wsRuns

turnVars == <<active, connected, status, view, box, optimistic, pending, sends, stops,
              turns, events, written, served>>
liveVars == <<threadShown, hook, calls, gets, mind, resync, stands, liveEvents, alive,
              archived, liveTurns, changing, subs, fanout, jobsDue, trouble, early>>
probeVars == <<endpoint, caps, updates, dropped, key, snapshot, guard, aged, inFlight,
               probe, caller, spoiled>>
eventVars == <<hearers, hub, feed, stream, refresh, heard, repeated, broken>>
serverVars == <<epoch, nextId, pub, ring, latest, outbox, bus, conn, pushed, issued, known,
                breaks>>
truthVars == <<home, version, news, shown, priming, hint, snapWs, record, failed, sws, refs,
               call, queued, scheduled>>
wsVars == <<wsPc, wsAttempt, wsLate, wsSock, wsState, wsWired, wsSocket, wsOpening, wsCooling,
            wsInflight, wsCached, wsWire, wsReplies, wsRuns>>
rpcVars == <<wsVars, vars>>
transportVars == <<eventVars, serverVars, rpcVars>>

-----------------------------------------------------------------------------
(* ThreadTurns: three messages in one thread; switching between two; the   *)
(* user stops turns; the workspace is not connected and requests fail.     *)

Turns == INSTANCE ThreadTurns WITH
    Thread <- {th1}, UserMessage <- {m1, m2, m3}, Command <- {},
    Happens <- {"reject", "fail", "delta"}, MaxStop <- 1, NoThread <- none, NoMessage <- none
Switches == INSTANCE ThreadTurns WITH
    Thread <- {th1, th2}, UserMessage <- {m1, m2}, Command <- {},
    Happens <- {"switch", "reject", "quick"}, MaxStop <- 1,
    NoThread <- none, NoMessage <- none
Stops == INSTANCE ThreadTurns WITH
    Thread <- {th1}, UserMessage <- {m1, m2}, Command <- {}, Happens <- {"stop"},
    MaxStop <- 1, NoThread <- none, NoMessage <- none
Troubles == INSTANCE ThreadTurns WITH
    Thread <- {th1}, UserMessage <- {m1, m2, m3}, Command <- {m3},
    Happens <- {"connect", "refuse", "throw", "remove"}, MaxStop <- 1,
    NoThread <- none, NoMessage <- none

TurnsInit == CASE scene = "switches" -> Switches!Init
               [] scene = "stops" -> Stops!Init
               [] scene = "troubles" -> Troubles!Init
               [] scene = "turns" -> Turns!Init
               [] OTHER -> Turns!Init /\ active = th1 /\ connected
TurnsNext == /\ \/ scene = "turns" /\ Turns!Next
                \/ scene = "switches" /\ Switches!Next
                \/ scene = "stops" /\ Stops!Next
                \/ scene = "troubles" /\ Troubles!Next
             /\ UNCHANGED <<liveVars, probeVars, transportVars, truthVars>>

-----------------------------------------------------------------------------
(* LiveThread: a service that restarts; threads that are archived.  The    *)
(* effects may be disposed before their subscribe calls are answered.      *)

Restarts == INSTANCE LiveThread WITH
    Thread <- {th1, th2}, NoThread <- none, Happens <- {"hasty", "restart"}, MaxMount <- 2,
    MaxTurn <- 0, MaxTrouble <- 1, MaxBacklog <- 1, MaxGets <- 2,
    shown <- threadShown, events <- liveEvents, turns <- liveTurns, jobs <- jobsDue,
    channel <- stands
Archives == INSTANCE LiveThread WITH
    Thread <- {th1}, NoThread <- none, Happens <- {"hasty", "archive", "restart"},
    MaxMount <- 2, MaxTurn <- 1, MaxTrouble <- 1, MaxBacklog <- 1, MaxGets <- 1,
    shown <- threadShown, events <- liveEvents, turns <- liveTurns, jobs <- jobsDue,
    channel <- stands

LiveInit == IF scene = "archives" THEN Archives!Init ELSE Restarts!Init
LiveNext == /\ \/ scene = "restarts" /\ Restarts!Next
               \/ scene = "archives" /\ Archives!Next
            /\ UNCHANGED <<turnVars, probeVars, transportVars, truthVars>>

-----------------------------------------------------------------------------
(* CapabilitiesProbe: two endpoints of a browser; the desktop, which hears *)
(* of updates.                                                             *)

Web == INSTANCE CapabilitiesProbe WITH
    Endpoint <- {e1, e2}, NoEndpoint <- none, Caller <- {c1, c2}, NoCaller <- none,
    MaxVersion <- 2, Keyed <- TRUE, Events <- FALSE, news <- updates
Desktop == INSTANCE CapabilitiesProbe WITH
    Endpoint <- {e1}, NoEndpoint <- none, Caller <- {c1, c2}, NoCaller <- none,
    MaxVersion <- 3, Keyed <- FALSE, Events <- TRUE, news <- updates

ProbeInit == CASE scene = "web" -> Web!Init
               [] scene = "desktop" -> Desktop!Init
               [] OTHER -> Desktop!Init /\ caps[e1].kind = "ok"
ProbeNext == /\ \/ scene = "web" /\ Web!Next
                \/ scene = "desktop" /\ Desktop!Next
             /\ UNCHANGED <<turnVars, liveVars, transportVars, truthVars>>

-----------------------------------------------------------------------------
(* RunTruth: a view that knows no workspace of its runs, or another, and   *)
(* opens runs nobody subscribed to.  Which workspace is the first run's    *)
(* makes no difference.                                                    *)

Rejoining == INSTANCE RunTruth WITH
    Run <- {r1, r2}, Workspace <- {w1, w2}, NoWs <- none, View <- {th1},
    MaxVersion <- 1, MayFail <- FALSE, Hints <- "any", Rejoins <- TRUE

TruthInit == /\ Rejoining!Init
             /\ home[r1] = w1 /\ home[r2] = w2
TruthNext == /\ scene = "rejoins" /\ Rejoining!Next
             /\ UNCHANGED <<turnVars, liveVars, probeVars, transportVars>>

-----------------------------------------------------------------------------
(* EventBridge: a bridge with a fallback, and one that has none and gets   *)
(* numbered frames.                                                        *)

BridgeId(item) == item
BridgeSignal(item) == item = 0
Bridge == INSTANCE EventBridge WITH
    Listener <- {l1, l2}, HasWs <- TRUE, HasSse <- TRUE, Item <- 0 .. 1,
    IdOf <- BridgeId, IsSignal <- BridgeSignal,
    listeners <- hearers, sub <- feed, channel <- stream, pending <- refresh,
    failed <- broken
BridgeWs == INSTANCE EventBridge WITH
    Listener <- {l1, l2}, HasWs <- TRUE, HasSse <- FALSE, Item <- 0 .. 3,
    IdOf <- BridgeId, IsSignal <- BridgeSignal,
    listeners <- hearers, sub <- feed, channel <- stream, pending <- refresh,
    failed <- broken

(* EventStream: frames of every kind over server-sent events; frames over  *)
(* the websocket of a service that restarts.                               *)

FrameId(item) == item.id
FrameSignal(item) == item.kind \in {"gap", "lagged"}
Signals == [epoch : {0}, id : {0}, kind : {"gap", "lagged"}]
Sse == INSTANCE EventStream WITH
    Listener <- {l1}, HasWs <- FALSE, HasSse <- TRUE, Publisher <- {p1},
    Kind <- {"turn", "state", "live", "big"}, MaxId <- 3, MaxEpoch <- 0,
    RingCap <- 2, BusCap <- 2, WireCap <- 2, MaxBreaks <- 1,
    Item <- [epoch : {0}, id : 1 .. 3, kind : {"turn", "state", "live", "big"}] \cup Signals,
    IdOf <- FrameId, IsSignal <- FrameSignal,
    listeners <- hearers, sub <- feed, channel <- stream, pending <- refresh,
    failed <- broken, fanout <- outbox, wire <- pushed
Ws == INSTANCE EventStream WITH
    Listener <- {l1}, HasWs <- TRUE, HasSse <- FALSE, Publisher <- {p1},
    Kind <- {"turn"}, MaxId <- 2, MaxEpoch <- 1,
    RingCap <- 1, BusCap <- 1, WireCap <- 1, MaxBreaks <- 1,
    Item <- [epoch : 0 .. 1, id : 1 .. 2, kind : {"turn"}] \cup Signals,
    IdOf <- FrameId, IsSignal <- FrameSignal,
    listeners <- hearers, sub <- feed, channel <- stream, pending <- refresh,
    failed <- broken, fanout <- outbox, wire <- pushed

EventsInit == Sse!Init
EventsNext == /\ \/ /\ scene = "bridge" /\ Bridge!BridgeNext
                    /\ UNCHANGED serverVars
                 \/ /\ scene = "bridge, ws" /\ BridgeWs!BridgeNext
                    /\ UNCHANGED serverVars
                 \/ scene = "sse" /\ Sse!Next
                 \/ scene = "ws" /\ Ws!Next
              /\ UNCHANGED <<turnVars, liveVars, probeVars, rpcVars, truthVars>>

-----------------------------------------------------------------------------
(* RpcTransport: equal reads and a write over one socket and over http, as *)
(* the constants of the run say; a read and a write when everything        *)
(* happens: sockets are refused and dropped, and others opened.            *)

Sockets == INSTANCE RpcTransport WITH
    Mutation <- {wr1}, Query <- {rd1},
    Happens <- {"ws", "refused", "dropped", "cool", "failed", "late"},
    MaxPending <- 2, MaxRetry <- 1, MaxSocket <- 2, Nobody <- none,
    pc <- wsPc, attempt <- wsAttempt, late <- wsLate, sock <- wsSock, state <- wsState,
    wired <- wsWired, socket <- wsSocket, opening <- wsOpening, cooling <- wsCooling,
    inflight <- wsInflight, cached <- wsCached, wire <- wsWire, replies <- wsReplies,
    runs <- wsRuns

RpcNext == /\ \/ scene = "rpc" /\ Next /\ UNCHANGED wsVars
              \/ scene = "rpc, sockets" /\ Sockets!Next /\ UNCHANGED vars
           /\ UNCHANGED <<turnVars, liveVars, probeVars, eventVars, serverVars,
                          truthVars>>

-----------------------------------------------------------------------------
ClientInit == /\ scene \in Scene
              /\ TurnsInit /\ LiveInit /\ ProbeInit
              /\ TruthInit /\ EventsInit /\ Init /\ Sockets!Init
ClientNext == /\ \/ TurnsNext \/ LiveNext \/ ProbeNext \/ TruthNext
                 \/ EventsNext \/ RpcNext
              /\ UNCHANGED scene
clientVars == <<scene, turnVars, liveVars, probeVars, transportVars, truthVars>>
ClientSpec == ClientInit /\ [][ClientNext]_clientVars

ASSUME /\ Turns!ThreadAssumption /\ Switches!ThreadAssumption
       /\ Stops!ThreadAssumption /\ Troubles!ThreadAssumption
       /\ Restarts!LiveAssumption /\ Archives!LiveAssumption
       /\ Web!NonesAreNone /\ Web!VersionsAreCounted /\ Web!EventsAreOfOne
       /\ Desktop!NonesAreNone /\ Desktop!VersionsAreCounted /\ Desktop!EventsAreOfOne
       /\ Bridge!EndpointAssumption /\ BridgeWs!EndpointAssumption
       /\ Sse!CapAssumption /\ Ws!CapAssumption
       /\ TransportAssumption /\ Sockets!TransportAssumption

-----------------------------------------------------------------------------
(* The properties.  Their parts are stated and explained in the modules,   *)
(* whose type invariants come along; AtMostOnce and OneReadAtATime stand   *)
(* in RpcTransport.                                                        *)

\* A thread has one turn at a time, its messages reach the service in the order they were
\* written, and each is answered in the thread it was written in.
TurnsInOrder ==
    /\ scene = "turns" => Turns!TypeOK /\ Turns!OneTurn /\ Turns!InOrder
    /\ scene = "switches" => Switches!OneTurn /\ Switches!SentWhereWritten

\* When everything came to rest, no message waits in the active thread and no thread is
\* shown as processing; and a turn that runs is shown.
NothingStuck ==
    /\ scene = "turns" => Turns!QueueMoves /\ Turns!TurnShown
    /\ scene = "switches" => Switches!SpinnerStops
    /\ scene = "stops" => Stops!SpinnerStops
    /\ scene = "troubles" => Troubles!SpinnerStops

\* A thread shown as live is subscribed to, once nothing is under way, and the service
\* keeps no subscription that no effect will ever end, but for those of effects disposed
\* before they were told of them.  Workspaces are subscribed to for exactly the runs on
\* show, though views know no workspace of theirs, or another one.
LiveMeansSubscribed ==
    /\ scene = "restarts" =>
         Restarts!TypeOK /\ Restarts!LiveMeansSubscribed /\ Restarts!NothingLeaks
    /\ scene = "archives" => Archives!LiveMeansSubscribed /\ Archives!NothingLeaks
    /\ scene = "rejoins" => Rejoining!SubscriptionsRight

\* A caller who waited for a probe learns about the runtime it is going to call, and nothing
\* older than the last update event before it asked, though the endpoint changes and events
\* come while probes are under way; the cache is as right until a probe that was disowned
\* ends; and what callers share is a probe under way.
NothingStale ==
    /\ scene = "web" => /\ Web!TypeOK /\ Web!ProbedIsRight /\ Web!CachedIsRight
                        /\ Web!SharedIsUnderWay
    /\ scene = "desktop" => /\ Desktop!ProbedIsRight /\ Desktop!CachedIsRight
                            /\ Desktop!SharedIsUnderWay

\* A bridge is there while anybody listens, never beside another one, and waits for exactly
\* one of socket, timer and fallback; a disposed one leaves nothing behind.  No request waits
\* on a socket whose events nobody hears, when sockets are refused,
\* dropped and opened again.
ConnectionsHeld ==
    /\ scene = "bridge" => /\ Bridge!BridgeTypeOK /\ Bridge!OneSource /\ Bridge!NeverAbandoned
                           /\ Bridge!NothingLeaks /\ Bridge!OneBridge
    /\ scene = "rpc" => TypeOK
    /\ scene = "rpc, sockets" => Sockets!TypeOK /\ Sockets!NoneForgotten

\* A settled client has, or refreshed after, every turn frame the service kept, and none is
\* handed to the listeners twice, though reconnects and servers replay them.
FramesArriveOnce ==
    /\ scene = "sse" => Sse!TypeOK /\ Sse!NoSilentLoss /\ Sse!HandedOnce
    /\ scene = "ws" => Ws!TypeOK /\ Ws!HandedOnce
    /\ scene = "bridge, ws" => BridgeWs!NoRepeat
=============================================================================
