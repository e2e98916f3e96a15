---------------------------- MODULE MCClientEnds ----------------------------
(***************************************************************************)
(* TLC instances of the client and its transport for the liveness          *)
(* properties, one in each scene, as explained in MCService.  They are     *)
(* smaller than those of MCClient: the fairness of every scene is          *)
(* evaluated for every step.  The scene of RunTruth, whose constants are   *)
(* those of the run, has views that know the workspace of their run.       *)
(***************************************************************************)
EXTENDS RunTruth

CONSTANTS Scene, th1, th2, m1, m2, m3, l1, l2, e1, e2, c1, c2, wr1, rd1, none

VARIABLES
    scene,
    \* ThreadTurns
    active, connected, status, view, box, optimistic, pending, sends, stops, turns, events,
    written, served,
    \* LiveThread
    threadShown, hook, calls, gets, mind, resync, channel, liveEvents, alive, archived,
    liveTurns, changing, subs, fanout, jobsDue, trouble, early,
    \* CapabilitiesProbe
    endpoint, caps, updates, dropped, key, snapshot, guard, aged, inFlight, probe, caller,
    spoiled, probe2, caller2,      \* the last two: of the scene of two callers
    \* EventBridge
    listeners, hub, sub, stream, refresh, heard, repeated, broken,
    \* RpcTransport
    pc, attempt, late, sock, state, wired, socket, opening, cooling, inflight, cached,
    wire, replies, runs

turnVars == <<active, connected, status, view, box, optimistic, pending, sends, stops,
              turns, events, written, served>>
liveVars == <<threadShown, hook, calls, gets, mind, resync, channel, liveEvents, alive,
              archived, liveTurns, changing, subs, fanout, jobsDue, trouble, early>>
probeVars == <<endpoint, caps, updates, dropped, key, snapshot, guard, aged, inFlight,
               probe, caller, spoiled, probe2, caller2>>
bridgeVars == <<listeners, hub, sub, stream, refresh, heard, repeated, broken>>
rpcVars == <<pc, attempt, late, sock, state, wired, socket, opening, cooling, inflight,
             cached, wire, replies, runs>>

-----------------------------------------------------------------------------
Turns == INSTANCE ThreadTurns WITH
    Thread <- {th1}, UserMessage <- {m1, m2, m3}, Command <- {},
    Happens <- {"reject", "fail", "delta"},
    MaxStop <- 1, NoThread <- none, NoMessage <- none
Live == INSTANCE LiveThread WITH
    Thread <- {th1}, NoThread <- none, Happens <- {"stream"}, MaxMount <- 1,
    MaxTurn <- 0, MaxTrouble <- 1, MaxBacklog <- 1, MaxGets <- 2,
    shown <- threadShown, events <- liveEvents, turns <- liveTurns, jobs <- jobsDue
Remount == INSTANCE LiveThread WITH
    Thread <- {th1}, NoThread <- none, Happens <- {"stream"}, MaxMount <- 2,
    MaxTurn <- 0, MaxTrouble <- 1, MaxBacklog <- 1, MaxGets <- 1,
    shown <- threadShown, events <- liveEvents, turns <- liveTurns, jobs <- jobsDue
Probe == INSTANCE CapabilitiesProbe WITH
    Endpoint <- {e1, e2}, NoEndpoint <- none, Caller <- {c1}, NoCaller <- none,
    MaxVersion <- 2, Keyed <- TRUE, Events <- FALSE, news <- updates
Desktop == INSTANCE CapabilitiesProbe WITH
    Endpoint <- {e1}, NoEndpoint <- none, Caller <- {c1, c2}, NoCaller <- none,
    MaxVersion <- 2, Keyed <- FALSE, Events <- TRUE, news <- updates,
    probe <- probe2, caller <- caller2
BridgeId(item) == item
BridgeSignal(item) == item = 0
Bridge == INSTANCE EventBridge WITH
    Listener <- {l1, l2}, HasWs <- TRUE, HasSse <- TRUE, Item <- 0 .. 1,
    IdOf <- BridgeId, IsSignal <- BridgeSignal,
    channel <- stream, pending <- refresh, failed <- broken
Rpc == INSTANCE RpcTransport WITH
    Mutation <- {wr1}, Query <- {rd1}, Happens <- {"ws", "refused", "dropped", "failed", "late"},
    MaxPending <- 2, MaxRetry <- 1, MaxSocket <- 1, Nobody <- none

-----------------------------------------------------------------------------
ProbeInit ==
    \/ /\ scene = "desktop" /\ Desktop!Init
       /\ probe = [c \in {c1} |-> Probe!NoProbe] /\ caller = [c \in {c1} |-> Probe!Idle]
    \/ /\ scene # "desktop" /\ Probe!Init
       /\ scene # "probe" => endpoint = e1 /\ \A e \in {e1, e2} : caps[e].kind = "ok"
       /\ probe2 = [c \in {c1, c2} |-> Desktop!NoProbe]
       /\ caller2 = [c \in {c1, c2} |-> Desktop!Idle]
ClientInit == /\ scene \in Scene
              /\ Turns!Init /\ Live!Init /\ Init /\ Bridge!BridgeInit /\ Rpc!Init
              /\ ProbeInit
ClientNext ==
    /\ \/ /\ scene = "turns" /\ Turns!Next
          /\ UNCHANGED <<liveVars, probeVars, vars, bridgeVars, rpcVars>>
       \/ /\ \/ scene = "live" /\ Live!Next
             \/ scene = "remount" /\ Remount!Next
          /\ UNCHANGED <<turnVars, probeVars, vars, bridgeVars, rpcVars>>
       \/ /\ \/ scene = "probe" /\ Probe!Next /\ UNCHANGED <<probe2, caller2>>
             \/ scene = "desktop" /\ Desktop!Next /\ UNCHANGED <<probe, caller>>
          /\ UNCHANGED <<turnVars, liveVars, vars, bridgeVars, rpcVars>>
       \/ /\ scene = "truth" /\ Next
          /\ UNCHANGED <<turnVars, liveVars, probeVars, bridgeVars, rpcVars>>
       \/ /\ scene = "bridge" /\ Bridge!BridgeNext
          /\ UNCHANGED <<turnVars, liveVars, probeVars, vars, rpcVars>>
       \/ /\ scene = "rpc" /\ Rpc!Next
          /\ UNCHANGED <<turnVars, liveVars, probeVars, vars, bridgeVars>>
    /\ UNCHANGED scene
clientVars == <<scene, turnVars, liveVars, probeVars, vars, bridgeVars, rpcVars>>
ClientSpec == ClientInit /\ [][ClientNext]_clientVars

\* The fairness of the scene's module.
FairClientSpec ==
    /\ ClientSpec
    /\ \/ scene = "turns" /\ Turns!Fairness
       \/ scene = "live" /\ Live!Fairness
       \/ scene = "remount" /\ Remount!Fairness
       \/ scene = "probe" /\ Probe!Fairness
       \/ scene = "desktop" /\ Desktop!Fairness
       \/ scene = "truth" /\ Fairness
       \/ scene = "bridge" /\ Bridge!BridgeFairness
       \/ scene = "rpc" /\ Rpc!Fairness

ASSUME /\ Turns!ThreadAssumption /\ Live!LiveAssumption /\ Remount!LiveAssumption
       /\ Probe!NonesAreNone /\ Probe!VersionsAreCounted /\ Probe!EventsAreOfOne
       /\ Desktop!NonesAreNone /\ Desktop!VersionsAreCounted /\ Desktop!EventsAreOfOne
       /\ Bridge!EndpointAssumption /\ Rpc!TransportAssumption

-----------------------------------------------------------------------------
(* The properties; their parts are stated and explained in the modules.    *)

\* Whatever is written in a thread is sent, and a thread that stays on show is live in
\* the end.
ThreadsSettle == /\ scene = "turns" => Turns!QueueDrains
                 /\ scene = "live" => Live!LiveInTheEnd
                 /\ scene = "remount" => Remount!LiveInTheEnd

\* A client that stays with a runtime learns what it can do now, and a run that stays on
\* show is shown as it is, or with an error, again and again.
ViewsCatchUp == /\ scene = "probe" => Probe!Noticed
                /\ scene = "desktop" => Desktop!Noticed
                /\ scene = "truth" => WatchersCatchUp

\* A listener that stays is served again and again, and a call ends, though the service
\* may never answer.
TransportRecovers == /\ scene = "bridge" => Bridge!Served
                     /\ scene = "rpc" => Rpc!EveryCallEnds
=============================================================================
