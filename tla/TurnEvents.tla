----------------------------- MODULE TurnEvents -----------------------------
(***************************************************************************)
(* The event stream of the runtime service                                 *)
(* (code-runtime-service-rs/src/runtime_events.rs, lib_transport_rpc.rs):  *)
(* publishers number a frame, keep it for replay and broadcast it in       *)
(* separate steps; a connection replays what a client missed and then      *)
(* forwards the broadcast.  Frames of kind "turn" enter the replay ring;   *)
(* "big" ones are refused by it; of "state" frames only the latest counts  *)
(* and a task of its own broadcasts it; "live" ones are never kept.        *)
(***************************************************************************)
EXTENDS Naturals, Sequences, FiniteSets

CONSTANTS
  Publisher,   \* the tasks that publish
  Kind,        \* the kinds of frames they publish
  MaxId,       \* bound: frames numbered by one service process
  MaxEpoch,    \* bound: restarts of the service
  RingCap,     \* TURN_EVENTS_REPLAY_BUFFER
  BusCap,      \* TURN_EVENTS_BUFFER of the broadcast channel
  WireCap      \* bound: items on their way to the client

CapAssumption == /\ RingCap \in Nat \ {0} /\ BusCap \in Nat \ {0}
                 /\ MaxId \in Nat /\ MaxEpoch \in Nat /\ WireCap \in Nat \ {0}

VARIABLES
  epoch,    \* the service process, counted from 0
  nextId,   \* turn_event_next_id
  pub,      \* each publisher: its frame and how far it got
  ring,     \* the replay buffer
  latest,   \* latest_runtime_state_fabric_event
  fanout,   \* runtime_state_fabric_fanout_pending
  bus,      \* every frame broadcast by this process, in order
  conn,     \* the connection's task
  wire,     \* what it sent and the client has not read
  issued    \* history: the frames kept for replay, of all processes

svars == <<epoch, nextId, pub, ring, latest, fanout, bus, conn, wire, issued>>
connVars == <<conn, wire>>
pubVars == <<epoch, nextId, pub, ring, latest, fanout, bus, issued>>

Frame == [epoch : 0 .. MaxEpoch, id : 1 .. MaxId, kind : Kind]
NoFrame == [epoch |-> 0, id |-> 0, kind |-> "none"]
Gap == [epoch |-> 0, id |-> 0, kind |-> "gap"]
Lagged == [epoch |-> 0, id |-> 0, kind |-> "lagged"]
Signal == {Gap, Lagged}
Idle == [pc |-> "idle", frame |-> NoFrame]
NoConn == [kind |-> "none", phase |-> "none", last |-> 0, mark |-> 0, pos |-> 0, lagged |-> FALSE]

ServerInit ==
  /\ epoch = 0 /\ nextId = 0 /\ pub = [p \in Publisher |-> Idle]
  /\ ring = <<>> /\ latest = NoFrame /\ fanout = NoFrame /\ bus = <<>>
  /\ conn = NoConn /\ wire = <<>> /\ issued = {}

-----------------------------------------------------------------------------
(* Publishing: publish_turn_event.                                         *)

Receiving == conn.phase \in {"subscribed", "live"}

\* build_turn_event_frame takes the number; a transient frame is not built
\* when nobody receives.
Build(p, k) ==
  /\ pub[p].pc = "idle" /\ nextId < MaxId
  /\ k = "live" => Receiving
  /\ nextId' = nextId + 1
  /\ pub' = [pub EXCEPT ![p] = [pc |-> "built",
                                frame |-> [epoch |-> epoch, id |-> nextId + 1, kind |-> k]]]
  /\ UNCHANGED <<epoch, ring, latest, fanout, bus, issued, connVars>>

\* TurnEventReplayBuffer::push, or the cache of the latest state frame.
Push(r, f) == LET all == Append(r, f) IN
              IF Len(all) > RingCap THEN Tail(all) ELSE all

Store(p) ==
  LET f == pub[p].frame IN
  /\ pub[p].pc = "built"
  /\ ring' = IF f.kind = "turn" THEN Push(ring, f) ELSE ring
  /\ latest' = IF f.kind = "state" THEN f ELSE latest
  /\ issued' = IF f.kind = "turn" THEN issued \cup {f} ELSE issued
  /\ pub' = [pub EXCEPT ![p].pc = "stored"]
  /\ UNCHANGED <<epoch, nextId, fanout, bus, connVars>>

\* turn_events.send, or the slot of the fan-out task, which coalesces.
Emit(p) ==
  LET f == pub[p].frame IN
  /\ pub[p].pc = "stored"
  /\ pub' = [pub EXCEPT ![p] = Idle]
  /\ IF f.kind = "state"
     THEN fanout' = f /\ bus' = bus
     ELSE fanout' = fanout /\ bus' = Append(bus, f)
  /\ UNCHANGED <<epoch, nextId, ring, latest, issued, connVars>>

DrainFanout ==
  /\ fanout # NoFrame
  /\ bus' = Append(bus, fanout) /\ fanout' = NoFrame
  /\ UNCHANGED <<epoch, nextId, pub, ring, latest, issued, connVars>>

-----------------------------------------------------------------------------
\* collect_since: what the ring has with higher numbers, in the order of the ring.
CollectSince(last) ==
  LET at == {i \in DOMAIN ring : ring[i].id > last}
      nth(i) == Cardinality({j \in at : j <= i})
  IN [k \in 1 .. Cardinality(at) |-> ring[CHOOSE i \in at : nth(i) = k]]

\* Mutant: the gap of one evicted frame is not noticed.
ReplayNoGap(last) ==
  [ frames |-> CollectSince(last), gap |-> ring # <<>> /\ last + 2 < Head(ring).id ]

(* resolve_turn_event_replay_frames_for_last_event_id.  A client that      *)
(* names no event asks from 0 and is not sent the latest state frame.      *)
Replay(last) ==
  LET kept   == CollectSince(last)
      newest == last > 0 /\ latest.id > last
      older  == Cardinality({i \in DOMAIN kept : kept[i].id < latest.id})
      there  == older < Len(kept) /\ kept[older + 1].id = latest.id
  IN [ frames |-> IF ~newest \/ there THEN kept
                  ELSE SubSeq(kept, 1, older) \o <<latest>> \o SubSeq(kept, older + 1, Len(kept)),
       gap    |-> \/ ring # <<>> /\ last + 1 < Head(ring).id
                  \/ kept = <<>> /\ newest /\ latest.id > last + 1 ]

Sent(r) == (IF r.gap THEN <<Gap>> ELSE <<>>) \o r.frames
Mark(r) == IF r.frames = <<>> THEN 0 ELSE r.frames[Len(r.frames)].id

Accept(kind, last) ==
  /\ conn' = [NoConn EXCEPT !.kind = kind, !.phase = "accepted", !.last = last]
  /\ wire' = <<>>
  /\ UNCHANGED pubVars

Hangup ==
  /\ conn' = NoConn /\ wire' = <<>> /\ UNCHANGED pubVars

\* turn_events.subscribe: the receiver starts behind the last frame sent.
Listen == /\ conn' = [conn EXCEPT !.phase = "subscribed", !.pos = Len(bus)]
          /\ UNCHANGED <<pubVars, wire>>

\* resolve the replay and send it
SendReplay(phase) ==
  LET r == Replay(conn.last) IN
  /\ conn' = [conn EXCEPT !.phase = phase, !.mark = Mark(r)]
  /\ wire' = wire \o Sent(r)
  /\ UNCHANGED pubVars

\* events_handler subscribes and then resolves the replay.
SseSubscribe == conn.kind = "sse" /\ conn.phase = "accepted" /\ Listen
SseReplay    == conn.kind = "sse" /\ conn.phase = "subscribed" /\ SendReplay("live")

\* ws_connection_handler resolves and sends the replay and then subscribes.
WsReplay    == conn.kind = "ws" /\ conn.phase = "accepted" /\ SendReplay("replayed")
WsSubscribe ==
  /\ conn.kind = "ws" /\ conn.phase = "replayed"
  /\ conn' = [conn EXCEPT !.phase = "live", !.pos = Len(bus)]
  /\ UNCHANGED <<pubVars, wire>>

Behind == Len(bus) - conn.pos

\* The next frame of the broadcast; a frame the replay covered is dropped.
Forward ==
  /\ conn.phase = "live" /\ 0 < Behind /\ Behind <= BusCap /\ Len(wire) < WireCap
  /\ LET f == bus[conn.pos + 1] IN
     wire' = IF f.id <= conn.mark THEN wire ELSE Append(wire, f)
  /\ conn' = [conn EXCEPT !.pos = @ + 1]
  /\ UNCHANGED pubVars

\* The receiver fell behind: it skips what the channel no longer holds and
\* says so once per connection, with the latest state frame.
Lag ==
  /\ conn.phase = "live" /\ Behind > BusCap /\ Len(wire) < WireCap
  /\ wire' = wire \o (IF conn.lagged THEN <<>>
                      ELSE IF latest = NoFrame THEN <<Lagged>> ELSE <<Lagged, latest>>)
  /\ conn' = [conn EXCEPT !.pos = Len(bus) - BusCap, !.lagged = TRUE]
  /\ UNCHANGED pubVars

\* The service process ends and another starts; numbers begin again at 1.
Restart ==
  /\ epoch < MaxEpoch
  /\ epoch' = epoch + 1 /\ nextId' = 0 /\ pub' = [p \in Publisher |-> Idle]
  /\ ring' = <<>> /\ latest' = NoFrame /\ fanout' = NoFrame /\ bus' = <<>>
  /\ conn' = NoConn
  /\ UNCHANGED <<wire, issued>>

Publish == \/ \E p \in Publisher : (\E k \in Kind : Build(p, k)) \/ Store(p) \/ Emit(p)
           \/ DrainFanout
Serve == SseSubscribe \/ SseReplay \/ WsReplay \/ WsSubscribe \/ Forward \/ Lag

ServerTypeOK ==
  /\ epoch \in 0 .. MaxEpoch /\ nextId \in 0 .. MaxId
  /\ pub \in [Publisher -> [pc : {"idle", "built", "stored"}, frame : Frame \cup {NoFrame}]]
  /\ ring \in Seq(Frame) /\ Len(ring) <= RingCap
  /\ latest \in Frame \cup {NoFrame} /\ fanout \in Frame \cup {NoFrame}
  /\ bus \in Seq(Frame) /\ wire \in Seq(Frame \cup Signal)
  /\ conn.phase \in {"none", "accepted", "subscribed", "replayed", "live"}
  /\ conn.pos \in 0 .. Len(bus)
=============================================================================
