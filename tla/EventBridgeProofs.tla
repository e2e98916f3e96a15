------------------------- MODULE EventBridgeProofs -------------------------
(***************************************************************************)
(* Proofs about the event bridge of the web client: whatever a server does *)
(* and whenever listeners come and go, a bridge waits for exactly one of   *)
(* socket, timer and fallback, nobody who listens is abandoned, nothing is *)
(* left behind for nobody, and over one endpoint no frame comes twice.     *)
(* Then the same of the bridge over the real server (EventStream), which   *)
(* is shown to implement the bridge over any server.                       *)
(* At the end, what the client does with the turns of its threads          *)
(* (ThreadTurns), which those events are about.                            *)
(***************************************************************************)
EXTENDS EventStream, FiniteSetTheorems, TLAPS

(* What the client reads as the id of an event is a number, 0 for none.    *)
IdsAreNumbers == \A item \in Item : IdOf(item) \in Nat

SubType == [ws : {"none", "connecting", "open"}, opened : BOOLEAN, fallback : BOOLEAN,
            retry : BOOLEAN, probe : BOOLEAN, sse : {"none", "connecting", "open", "closed"},
            lastId : Nat, cursor : Nat, seen : SUBSET Nat, sseSeen : SUBSET Nat,
            signalled : BOOLEAN]

(* A closure that waits for nothing: between the end of one wait and the   *)
(* begin of the next.                                                      *)
Bare(s) ==
  s.ws = "none" /\ ~s.retry /\ ~s.fallback /\ ~s.probe /\ s.sse = "none"

(* A closure that waits for exactly one thing. *)
Waits(s) ==
  \/ s.ws # "none" /\ ~s.retry /\ ~s.fallback /\ ~s.probe /\ s.sse = "none"
  \/ s.ws = "none" /\ s.retry /\ ~s.fallback /\ ~s.probe /\ s.sse = "none"
  \/ HasSse /\ s.ws = "none" /\ ~s.retry /\ s.fallback /\ s.probe /\ s.sse # "none"

(* One that has no websocket to wait for. *)
StreamsOnly(s) == s.ws = "none" /\ ~s.retry /\ ~s.fallback /\ ~s.probe

Typed ==
  /\ listeners \subseteq Listener
  /\ hub \in [starting : BOOLEAN, bridged : BOOLEAN, restart : BOOLEAN]
  /\ sub \in SubType
  /\ channel \in Status /\ pending \in BOOLEAN /\ repeated \in BOOLEAN

Held ==
  /\ hub.bridged => IF HasWs THEN Waits(sub) ELSE StreamsOnly(sub)
  /\ sub.sse # "none" => HasSse

Inv == Typed /\ Held /\ NeverAbandoned /\ NothingLeaks /\ OneBridge

(* The transport hints name one endpoint only, so there is one deduper: the websocket's  *)
(* or that of the one EventSource.                                                       *)
OneWay == ~(HasWs /\ HasSse)
SeenBy(s) == IF HasWs THEN s.seen ELSE s.sseSeen

(* What was handed on and has an id is known to the deduper. *)
HeardIsSeen ==
  /\ ~repeated
  /\ hub.bridged => \A item \in heard : IdOf(item) # 0 => IdOf(item) \in SeenBy(sub)

-----------------------------------------------------------------------------
(* What the closure's operators return. *)

(* A closure that lost what it waited for waits for one thing again: its   *)
(* reconnect timer or the fallback (recover, activateFallback).            *)
LEMMA RecoverWaits ==
  ASSUME NEW s \in SubType, Bare(s), HasSse \in BOOLEAN
  PROVE  /\ Recover(s).sub \in SubType /\ Waits(Recover(s).sub)
         /\ Recover(s).path \in Seq(Status) /\ Recover(s).path # <<>>
         /\ Recover(s).sub.seen = s.seen
<1>1. CASE s.opened \/ ~HasSse
  <2>1. Recover(s).sub = [s EXCEPT !.retry = TRUE]
    <3>1. s = [s EXCEPT !.ws = "none"]
      BY DEF Bare, SubType
    <3> QED BY <1>1, <3>1 DEF Recover, ScheduleReconnect, ActivateFallback, Outcome
  <2>2. Recover(s).path = <<"reconnecting">>
    BY <1>1 DEF Recover, ScheduleReconnect, ActivateFallback, Outcome
  <2>3. Recover(s).sub \in SubType /\ Waits(Recover(s).sub) /\ Recover(s).sub.seen = s.seen
    BY <2>1 DEF SubType, Bare, Waits
  <2> QED BY <2>2, <2>3 DEF Status
<1>2. CASE ~s.opened /\ HasSse
  <2>1. Recover(s).sub = [s EXCEPT !.ws = "none", !.retry = FALSE, !.fallback = TRUE,
                                   !.sse = "connecting", !.sseSeen = {}, !.probe = TRUE]
    BY <1>2 DEF Recover, ActivateFallback, Outcome
  <2>2. Recover(s).path = <<"fallback">>
    BY <1>2 DEF Recover, ActivateFallback, Outcome
  <2>3. Recover(s).sub \in SubType /\ Waits(Recover(s).sub) /\ Recover(s).sub.seen = s.seen
    BY <2>1, <1>2 DEF SubType, Bare, Waits
  <2> QED BY <2>2, <2>3 DEF Status
<1> QED BY <1>1, <1>2

(* An attempt to connect ends in a socket that opens or, if it throws, as  *)
(* any loss does (connect).                                                *)
LEMMA ConnectWaits ==
  ASSUME NEW s \in SubType, Bare(s), HasSse \in BOOLEAN, NEW throws \in BOOLEAN
  PROVE  /\ Connect(s, throws).sub \in SubType /\ Waits(Connect(s, throws).sub)
         /\ Connect(s, throws).path \in Seq(Status) /\ Connect(s, throws).path # <<>>
         /\ Connect(s, throws).sub.seen = s.seen
<1> DEFINE at == TrackReplay(s)
<1>1. at \in SubType /\ Bare(at) /\ at.seen = s.seen
  BY DEF TrackReplay, SubType, Bare
<1> HIDE DEF at
<1>2. CASE throws
  <2>1. /\ Connect(s, throws).sub = Recover(at).sub
        /\ Connect(s, throws).path = <<"connecting", "error">> \o Recover(at).path
    BY <1>2 DEF Connect, Outcome, at
  <2>2. <<"connecting", "error">> \in Seq(Status)
    BY DEF Status
  <2>3. /\ Recover(at).sub \in SubType /\ Waits(Recover(at).sub)
        /\ Recover(at).path \in Seq(Status) /\ Recover(at).path # <<>>
        /\ Recover(at).sub.seen = at.seen
    BY <1>1, RecoverWaits
  <2>4. Connect(s, throws).path \in Seq(Status) /\ Connect(s, throws).path # <<>>
    BY <2>1, <2>2, <2>3
  <2> QED BY <2>1, <2>3, <2>4, <1>1
<1>3. CASE ~throws
  <2>1. /\ Connect(s, throws).sub = [at EXCEPT !.ws = "connecting"]
        /\ Connect(s, throws).path = <<"connecting">>
    BY <1>3 DEF Connect, Outcome, at
  <2> QED BY <2>1, <1>1 DEF SubType, Bare, Waits, Status
<1> QED BY <1>2, <1>3

(* What is reported leaves a status of the channel behind. *)
LEMMA ReportTyped ==
  ASSUME Typed, NEW path \in Seq(Status), Report(path)
  PROVE  channel' \in Status /\ pending' \in BOOLEAN
<1>1. path # <<>> => path[Len(path)] \in Status
  OBVIOUS
<1> QED BY <1>1 DEF Report, Typed

-----------------------------------------------------------------------------
(* The invariant. *)

(* With no listener, no socket and no timer the invariants hold. *)
LEMMA InitHolds == BridgeInit => Inv /\ HeardIsSeen
<1> SUFFICES ASSUME BridgeInit PROVE Inv /\ HeardIsSeen
  OBVIOUS
<1>1. sub \in SubType
  BY DEF BridgeInit, NoSub, SubType
<1>2. sub.sse = "none" /\ ~hub.bridged
  BY DEF BridgeInit, NoSub
<1> QED BY <1>1, <1>2 DEF BridgeInit, Inv, Typed, Held, NeverAbandoned, NothingLeaks,
                          OneBridge, HeardIsSeen, Status

(* A bridge that stands goes on waiting for one thing: what the callbacks  *)
(* of socket, timers and stream do to the closure.                         *)
LEMMA WaitGoesOn ==
  ASSUME Inv, HasSse \in BOOLEAN, HasWs \in BOOLEAN, WsFail \/ RetryFires \/ ProbeFires
  PROVE  /\ hub.bridged /\ HasWs /\ sub' \in SubType /\ Waits(sub')
         /\ channel' \in Status /\ pending' \in BOOLEAN /\ sub'.seen = sub.seen
         /\ UNCHANGED <<listeners, hub, history>>
<1> USE DEF Inv
<1>1. hub.bridged /\ HasWs /\ Waits(sub) /\ sub \in SubType
  BY DEF WsFail, RetryFires, ProbeFires, NothingLeaks, NoSub, Held, StreamsOnly, Typed
<1>2. ASSUME WsFail PROVE /\ sub' \in SubType /\ Waits(sub') /\ sub'.seen = sub.seen
                          /\ channel' \in Status /\ pending' \in BOOLEAN
  <2> DEFINE s == [sub EXCEPT !.ws = "none"]
  <2>1. s \in SubType /\ Bare(s) /\ s.seen = sub.seen
    BY <1>1, <1>2 DEF SubType, Bare, Waits, WsFail
  <2>2. PICK onerror \in BOOLEAN :
          Become(Outcome(Recover(s).sub,
                         (IF onerror THEN <<"error">> ELSE <<>>) \o Recover(s).path))
    BY <1>2 DEF WsFail
  <2> HIDE DEF s
  <2>3. /\ Recover(s).sub \in SubType /\ Waits(Recover(s).sub)
        /\ Recover(s).path \in Seq(Status) /\ Recover(s).sub.seen = sub.seen
    BY <2>1, RecoverWaits
  <2> DEFINE path == (IF onerror THEN <<"error">> ELSE <<>>) \o Recover(s).path
  <2>4. path \in Seq(Status)
    <3>1. <<"error">> \in Seq(Status) /\ <<>> \in Seq(Status)
      BY DEF Status
    <3>2. CASE onerror
      <4>1. path = <<"error">> \o Recover(s).path
        BY <3>2
      <4> HIDE DEF path
      <4> QED BY <2>3, <3>1, <4>1
    <3>3. CASE ~onerror
      <4>1. path = <<>> \o Recover(s).path
        BY <3>3
      <4> HIDE DEF path
      <4> QED BY <2>3, <3>1, <4>1
    <3> QED BY <3>2, <3>3
  <2>5. sub' = Recover(s).sub /\ Report(path)
    BY <2>2 DEF Become, Outcome
  <2> HIDE DEF path
  <2> QED BY <2>3, <2>4, <2>5, ReportTyped
<1>3. ASSUME RetryFires PROVE /\ sub' \in SubType /\ Waits(sub') /\ sub'.seen = sub.seen
                              /\ channel' \in Status /\ pending' \in BOOLEAN
  <2> DEFINE s == [sub EXCEPT !.retry = FALSE]
  <2>1. s \in SubType /\ Bare(s) /\ s.seen = sub.seen
    BY <1>1, <1>3 DEF SubType, Bare, Waits, RetryFires
  <2>2. PICK throws \in BOOLEAN : Become(Connect(s, throws))
    BY <1>3 DEF RetryFires
  <2> HIDE DEF s
  <2> QED BY <2>1, <2>2, ConnectWaits, ReportTyped DEF Become
<1>4. ASSUME ProbeFires PROVE /\ sub' \in SubType /\ Waits(sub') /\ sub'.seen = sub.seen
                              /\ channel' \in Status /\ pending' \in BOOLEAN
  <2> DEFINE s == [sub EXCEPT !.probe = FALSE, !.fallback = FALSE,
                              !.sse = "none", !.retry = FALSE]
  <2>1. s \in SubType /\ Bare(s) /\ s.seen = sub.seen
    BY <1>1, <1>4 DEF SubType, Bare, Waits, ProbeFires
  <2>2. PICK throws \in BOOLEAN : Become(Connect(s, throws))
    BY <1>4 DEF ProbeFires
  <2> HIDE DEF s
  <2> QED BY <2>1, <2>2, ConnectWaits, ReportTyped DEF Become
<1>5. UNCHANGED <<listeners, hub, history>>
  BY DEF WsFail, RetryFires, ProbeFires
<1> QED BY <1>1, <1>2, <1>3, <1>4, <1>5

(* A bridge that was started waits for one thing, or streams. *)
LEMMA OpenWaits ==
  ASSUME HasSse \in BOOLEAN, HasWs \in BOOLEAN, NEW throws \in BOOLEAN
  PROVE  LET o == OpenSubscription(throws) IN
         /\ o.sub \in SubType /\ o.path \in Seq(Status)
         /\ IF HasWs THEN Waits(o.sub) ELSE StreamsOnly(o.sub)
         /\ o.sub.sse # "none" => HasSse
<1>1. NoSub \in SubType /\ Bare(NoSub)
  BY DEF NoSub, SubType, Bare
<1>2. CASE HasWs
  <2>1. OpenSubscription(throws) = Connect(NoSub, throws)
    BY <1>2 DEF OpenSubscription
  <2>2. \A s : Waits(s) /\ s.sse # "none" => HasSse
    BY DEF Waits
  <2> QED BY <1>1, <1>2, <2>1, <2>2, ConnectWaits
<1>3. CASE ~HasWs /\ HasSse
  <2>1. /\ OpenSubscription(throws).sub = [NoSub EXCEPT !.sse = "connecting"]
        /\ OpenSubscription(throws).path = <<>>
    BY <1>3 DEF OpenSubscription, OpenSse, Outcome
  <2> QED BY <1>1, <1>3, <2>1 DEF SubType, Bare, StreamsOnly
<1>4. CASE ~HasWs /\ ~HasSse
  <2>1. OpenSubscription(throws).sub = NoSub /\ OpenSubscription(throws).path = <<>>
    BY <1>4 DEF OpenSubscription, Outcome
  <2> QED BY <1>1, <1>4, <2>1 DEF Bare, StreamsOnly
<1> QED BY <1>2, <1>3, <1>4

(* Every step keeps the invariant: one step for each action. *)
LEMMA StepHolds ==
  ASSUME Inv, BridgeNext, IdsAreNumbers, EndpointAssumption
  PROVE  Inv'
<1> USE DEF Inv
<1>e. HasSse \in BOOLEAN /\ HasWs \in BOOLEAN
  BY DEF EndpointAssumption
<1>1. ASSUME NEW l \in Listener, Subscribe(l) PROVE Inv'
  <2>1. listeners' = listeners \cup {l} /\ hub' = Started(hub, listeners')
    BY <1>1 DEF Subscribe
  <2>2. hub' = IF hub.bridged THEN hub ELSE [hub EXCEPT !.starting = TRUE]
    BY <2>1 DEF Started
  <2>3. /\ hub' \in [starting : BOOLEAN, bridged : BOOLEAN, restart : BOOLEAN]
        /\ hub'.bridged = hub.bridged /\ hub'.restart = hub.restart
        /\ hub'.starting = (hub.starting \/ ~hub.bridged)
    BY <2>2 DEF Typed, OneBridge
  <2>4. UNCHANGED <<sub, channel, pending, repeated>>
    BY <1>1 DEF Subscribe, history
  <2>5. Typed' /\ Held'
    BY <2>1, <2>3, <2>4 DEF Typed, Held
  <2>6. NeverAbandoned' /\ NothingLeaks' /\ OneBridge'
    BY <2>1, <2>3, <2>4 DEF NeverAbandoned, NothingLeaks, OneBridge
  <2> QED BY <2>5, <2>6
<1>2. ASSUME NEW l \in Listener, Unsubscribe(l) PROVE Inv'
  <2>1. CASE listeners' # {}
    <3>1. UNCHANGED <<hub, sub, channel, pending, repeated>> /\ listeners' = listeners \ {l}
      BY <1>2, <2>1 DEF Unsubscribe, history
    <3>2. listeners # {}
      BY <1>2 DEF Unsubscribe
    <3> QED BY <2>1, <3>1, <3>2 DEF Typed, Held, NeverAbandoned, NothingLeaks, OneBridge
  <2>2. CASE listeners' = {}
    <3>1. /\ hub' = [hub EXCEPT !.restart = FALSE, !.bridged = FALSE] /\ sub' = NoSub
          /\ channel' = IF hub.bridged /\ HasWs THEN "stopped" ELSE channel
          /\ UNCHANGED <<pending, repeated>>
      BY <1>2, <2>2 DEF Unsubscribe, history
    <3>2. /\ hub' \in [starting : BOOLEAN, bridged : BOOLEAN, restart : BOOLEAN]
          /\ ~hub'.bridged /\ ~hub'.restart
      BY <3>1 DEF Typed
    <3>3. sub' \in SubType /\ sub'.sse = "none"
      BY <3>1 DEF NoSub, SubType
    <3>4. channel' \in Status
      BY <3>1 DEF Status, Typed
    <3> QED BY <2>2, <3>1, <3>2, <3>3, <3>4
            DEF Typed, Held, NeverAbandoned, NothingLeaks, OneBridge
  <2> QED BY <2>1, <2>2
<1>3. ASSUME StartDone PROVE Inv'
  <2>0. hub.starting /\ ~hub.bridged /\ UNCHANGED listeners
    BY <1>3 DEF StartDone, OneBridge
  <2>1. CASE listeners = {}
    <3>1. /\ hub' = [hub EXCEPT !.starting = FALSE, !.restart = FALSE]
          /\ channel' = IF HasWs THEN "stopped" ELSE channel
          /\ UNCHANGED <<sub, pending, repeated>>
      BY <1>3, <2>1 DEF StartDone, history
    <3>2. /\ hub' \in [starting : BOOLEAN, bridged : BOOLEAN, restart : BOOLEAN]
          /\ ~hub'.bridged /\ ~hub'.restart
      BY <2>0, <3>1 DEF Typed
    <3> QED BY <2>0, <2>1, <3>1, <3>2
            DEF Typed, Held, NeverAbandoned, NothingLeaks, OneBridge, Status
  <2>2. CASE listeners # {}
    <3>1. PICK throws \in BOOLEAN : Become(OpenSubscription(throws))
      BY <1>3, <2>2 DEF StartDone
    <3>2. /\ hub' = [starting |-> FALSE, bridged |-> TRUE, restart |-> FALSE]
          /\ repeated' = FALSE
      BY <1>3, <2>2 DEF StartDone
    <3>3. /\ sub' \in SubType
          /\ sub'.sse # "none" => HasSse
          /\ IF HasWs THEN Waits(sub') ELSE StreamsOnly(sub')
          /\ OpenSubscription(throws).path \in Seq(Status)
          /\ Report(OpenSubscription(throws).path)
      BY <1>e, <3>1, OpenWaits DEF Become
    <3>4. channel' \in Status /\ pending' \in BOOLEAN
      BY <3>3, ReportTyped
    <3>5. /\ hub' \in [starting : BOOLEAN, bridged : BOOLEAN, restart : BOOLEAN]
          /\ hub'.bridged /\ ~hub'.starting /\ ~hub'.restart
      BY <3>2
    <3>6. Typed'
      BY <2>0, <3>2, <3>3, <3>4, <3>5 DEF Typed
    <3> QED BY <2>0, <2>2, <3>3, <3>5, <3>6
            DEF Held, NeverAbandoned, NothingLeaks, OneBridge
  <2> QED BY <2>1, <2>2
<1>4. ASSUME StartFails PROVE Inv'
  <2>1. /\ hub.starting
        /\ hub' = [hub EXCEPT !.starting = FALSE, !.restart = @ \/ listeners # {}]
        /\ UNCHANGED <<listeners, sub, channel, pending, repeated>>
    BY <1>4 DEF StartFails, history
  <2>2. /\ hub' \in [starting : BOOLEAN, bridged : BOOLEAN, restart : BOOLEAN]
        /\ hub'.bridged = hub.bridged /\ ~hub'.starting
        /\ hub'.restart = (hub.restart \/ listeners # {})
    BY <2>1 DEF Typed
  <2> QED BY <2>1, <2>2 DEF Typed, Held, NeverAbandoned, NothingLeaks, OneBridge
<1>5. ASSUME RestartFires PROVE Inv'
  <2>1. /\ hub.restart /\ hub' = Started([hub EXCEPT !.restart = FALSE], listeners)
        /\ UNCHANGED <<listeners, sub, channel, pending, repeated>>
    BY <1>5 DEF RestartFires, history
  <2>2. listeners # {}
    BY <2>1 DEF NothingLeaks
  <2>3. hub' = IF hub.bridged THEN [hub EXCEPT !.restart = FALSE]
               ELSE [hub EXCEPT !.restart = FALSE, !.starting = TRUE]
    BY <2>1, <2>2 DEF Started, Typed
  <2>4. /\ hub' \in [starting : BOOLEAN, bridged : BOOLEAN, restart : BOOLEAN]
        /\ hub'.bridged = hub.bridged /\ ~hub'.restart
        /\ hub'.starting = (hub.starting \/ ~hub.bridged)
    BY <2>3 DEF Typed, OneBridge
  <2> QED BY <2>1, <2>2, <2>4 DEF Typed, Held, NeverAbandoned, NothingLeaks, OneBridge
<1>6. ASSUME WsOpen PROVE Inv'
  <2>1. /\ sub.ws = "connecting" /\ channel' = "open" /\ UNCHANGED <<listeners, hub, repeated>>
        /\ pending' \in BOOLEAN
    BY <1>6 DEF WsOpen, history
  <2>2. PICK signal \in BOOLEAN :
          sub' = [sub EXCEPT !.ws = "open", !.opened = TRUE, !.signalled = @ \/ signal]
    BY <1>6 DEF WsOpen
  <2>3. sub' \in SubType /\ sub'.ws = "open" /\ sub'.sse = sub.sse
        /\ sub'.retry = sub.retry /\ sub'.fallback = sub.fallback /\ sub'.probe = sub.probe
    BY <2>2 DEF Typed, SubType
  <2>4. hub.bridged
    BY <2>1 DEF NothingLeaks, NoSub
  <2>5. HasWs /\ Waits(sub')
    BY <2>1, <2>3, <2>4 DEF Held, Waits, StreamsOnly
  <2> QED BY <2>1, <2>3, <2>4, <2>5
          DEF Typed, Held, NeverAbandoned, NothingLeaks, OneBridge, Status
<1>7. ASSUME WsFail \/ RetryFires \/ ProbeFires PROVE Inv'
  <2>1. /\ hub.bridged /\ HasWs /\ sub' \in SubType /\ Waits(sub')
        /\ channel' \in Status /\ pending' \in BOOLEAN
        /\ UNCHANGED <<listeners, hub, repeated>>
    BY <1>e, <1>7, WaitGoesOn DEF history
  <2>2. sub'.sse # "none" => HasSse
    BY <2>1 DEF Waits
  <2> QED BY <2>1, <2>2 DEF Typed, Held, NeverAbandoned, NothingLeaks, OneBridge
<1>8. ASSUME SseOpen \/ SseFail PROVE Inv'
  <2>1. /\ sub.sse # "none"
        /\ UNCHANGED <<listeners, hub, channel, pending, repeated>>
    BY <1>8 DEF SseOpen, SseFail, history
  <2>2. PICK to \in {"connecting", "open", "closed"} : sub' = [sub EXCEPT !.sse = to]
    BY <1>8 DEF SseOpen, SseFail
  <2>3. /\ sub' \in SubType /\ sub'.ws = sub.ws /\ sub'.sse # "none"
        /\ sub'.retry = sub.retry /\ sub'.fallback = sub.fallback /\ sub'.probe = sub.probe
    BY <2>2 DEF Typed, SubType
  <2>4. hub.bridged /\ HasSse
    BY <2>1 DEF NothingLeaks, NoSub, Held
  <2>5. IF HasWs THEN Waits(sub') ELSE StreamsOnly(sub')
    BY <2>1, <2>3, <2>4 DEF Held, Waits, StreamsOnly
  <2> QED BY <2>1, <2>3, <2>4, <2>5 DEF Typed, Held, NeverAbandoned, NothingLeaks, OneBridge
<1>9. ASSUME Refresh PROVE Inv'
  BY <1>9 DEF Refresh, history, Typed, Held, NeverAbandoned, NothingLeaks, OneBridge
<1>10. ASSUME NEW item \in Item, Message(item) PROVE Inv'
  <2>1. /\ sub.ws = "open" \/ sub.sse = "open"
        /\ UNCHANGED <<listeners, hub, channel>>
        /\ pending' \in BOOLEAN /\ repeated' \in BOOLEAN
    BY <1>10 DEF Message, WsMessage, SseMessage, Hand
  <2>2. IdOf(item) \in Nat
    BY DEF IdsAreNumbers
  <2>3. /\ sub' \in SubType /\ sub'.ws = sub.ws /\ sub'.sse = sub.sse
        /\ sub'.retry = sub.retry /\ sub'.fallback = sub.fallback /\ sub'.probe = sub.probe
    <3>1. CASE sub' = sub
      BY <3>1 DEF Typed
    <3>2. CASE WsMessage(item) /\ IdOf(item) # 0
      <4>1. sub' = [sub EXCEPT !.lastId = IdOf(item), !.cursor = IdOf(item),
                               !.seen = @ \cup {IdOf(item)}]
        BY <3>2 DEF WsMessage
      <4> QED BY <2>2, <4>1 DEF Typed, SubType
    <3>3. CASE SseMessage(item) /\ IdOf(item) # 0
      <4>1. sub' = [sub EXCEPT !.cursor = IdOf(item), !.sseSeen = @ \cup {IdOf(item)}]
        BY <3>3 DEF SseMessage
      <4> QED BY <2>2, <4>1 DEF Typed, SubType
    <3> QED BY <1>10, <3>1, <3>2, <3>3 DEF Message, WsMessage, SseMessage
  <2>4. hub.bridged
    BY <2>1 DEF NothingLeaks, NoSub
  <2>5. IF HasWs THEN Waits(sub') ELSE StreamsOnly(sub')
    BY <2>3, <2>4 DEF Held, Waits, StreamsOnly
  <2> QED BY <2>1, <2>3, <2>4, <2>5 DEF Typed, Held, NeverAbandoned, NothingLeaks, OneBridge
<1> QED BY <1>1, <1>2, <1>3, <1>4, <1>5, <1>6, <1>7, <1>8, <1>9, <1>10 DEF BridgeNext

(* No step of a bridge and its listeners leaves the invariant. *)
LEMMA InvHolds ==
  ASSUME IdsAreNumbers, EndpointAssumption PROVE BridgeSpec => []Inv
<1>1. ASSUME Inv, UNCHANGED bvars PROVE Inv'
  BY <1>1 DEF bvars, history, Inv, Typed, Held, NeverAbandoned, NothingLeaks, OneBridge
<1>2. Inv /\ [BridgeNext]_bvars => Inv'
  BY <1>1, StepHolds
<1> QED BY <1>2, InitHolds, PTL DEF BridgeSpec

-----------------------------------------------------------------------------
(* The theorems. *)

(* Type correctness of the bridge, for every transport and server. *)
THEOREM TypeCorrect ==
  ASSUME IdsAreNumbers, EndpointAssumption PROVE BridgeSpec => []BridgeTypeOK
<1>1. Inv => BridgeTypeOK
  BY DEF Inv, Typed, SubType, BridgeTypeOK
<1> QED BY <1>1, InvHolds, PTL

(* A bridge over the websocket always waits for exactly one of socket,     *)
(* reconnect timer and fallback, whatever fails, throws or fires:          *)
(* runtimeEventBridge never has two streams at once, nor none for ever.    *)
THEOREM OneSourceAlways ==
  ASSUME IdsAreNumbers, EndpointAssumption PROVE BridgeSpec => []OneSource
<1>1. Inv => OneSource
  <2> SUFFICES ASSUME Inv, hub.bridged, HasWs PROVE OneSource
    BY DEF OneSource
  <2> DEFINE waits == {w \in {"socket", "timer", "fallback"} :
                         \/ w = "socket" /\ sub.ws # "none"
                         \/ w = "timer" /\ sub.retry
                         \/ w = "fallback" /\ sub.fallback}
  <2>1. Waits(sub) /\ sub \in SubType
    BY DEF Inv, Held, Typed
  <2>2. \E w : waits = {w}
    <3>1. CASE sub.ws # "none"
      <4>1. waits = {"socket"}
        BY <2>1, <3>1 DEF Waits
      <4> QED BY <4>1
    <3>2. CASE sub.retry
      <4>1. waits = {"timer"}
        BY <2>1, <3>2 DEF Waits
      <4> QED BY <4>1
    <3>3. CASE sub.fallback
      <4>1. waits = {"fallback"}
        BY <2>1, <3>3 DEF Waits
      <4> QED BY <4>1
    <3> QED BY <2>1, <3>1, <3>2, <3>3 DEF Waits
  <2>3. sub.probe = sub.fallback /\ sub.fallback = (sub.sse # "none")
    BY <2>1 DEF Waits, SubType
  <2> HIDE DEF waits
  <2>4. Cardinality(waits) = 1
    BY <2>2, FS_Singleton
  <2> QED BY <2>3, <2>4 DEF OneSource, waits
<1> QED BY <1>1, InvHolds, PTL

(* No failure, restart or quick resubscription abandons a listener: while  *)
(* anybody listens a bridge stands, is being started or will be (hub).     *)
THEOREM NobodyAbandoned ==
  ASSUME IdsAreNumbers, EndpointAssumption PROVE BridgeSpec => []NeverAbandoned
<1>1. Inv => NeverAbandoned
  BY DEF Inv
<1> QED BY <1>1, InvHolds, PTL

(* For nobody nothing is kept, and no bridge is started beside another     *)
(* one, though the last listener may leave while a start is under way.     *)
THEOREM NothingIsLeft ==
  ASSUME IdsAreNumbers, EndpointAssumption PROVE BridgeSpec => [](NothingLeaks /\ OneBridge)
<1>1. Inv => NothingLeaks /\ OneBridge
  BY DEF Inv
<1> QED BY <1>1, InvHolds, PTL

(* A step of a transport with one endpoint keeps HeardIsSeen: a reconnect  *)
(* keeps the deduper, and a new bridge begins with nothing heard.          *)
LEMMA StepHeard ==
  ASSUME Inv, HeardIsSeen, BridgeNext, IdsAreNumbers, EndpointAssumption, OneWay
  PROVE  HeardIsSeen'
<1>e. HasWs \in BOOLEAN /\ HasSse \in BOOLEAN /\ (HasWs => ~HasSse)
  BY DEF EndpointAssumption, OneWay
<1>k. ASSUME hub'.bridged => hub.bridged, UNCHANGED <<heard, repeated>>,
             hub.bridged => SeenBy(sub') = SeenBy(sub)
      PROVE  HeardIsSeen'
  BY <1>k DEF HeardIsSeen
<1>1. ASSUME \/ \E l \in Listener : Subscribe(l)
             \/ StartFails \/ RestartFires \/ SseOpen \/ SseFail \/ Refresh
      PROVE  HeardIsSeen'
  <2>1. hub'.bridged = hub.bridged /\ UNCHANGED <<heard, repeated>>
    BY <1>1 DEF Subscribe, StartFails, RestartFires, SseOpen, SseFail, Refresh, history,
                Started, Inv, Typed
  <2>2. sub' = sub \/ \E after : sub' = [sub EXCEPT !.sse = after]
    BY <1>1 DEF Subscribe, StartFails, RestartFires, SseOpen, SseFail, Refresh
  <2>3. sub'.seen = sub.seen /\ sub'.sseSeen = sub.sseSeen
    BY <2>2 DEF Inv, Typed, SubType
  <2> QED BY <1>k, <2>1, <2>3 DEF SeenBy
<1>2. ASSUME NEW l \in Listener, Unsubscribe(l) PROVE HeardIsSeen'
  <2>1. UNCHANGED <<heard, repeated>> /\ (UNCHANGED <<hub, sub>> \/ ~hub'.bridged)
    BY <1>2 DEF Unsubscribe, history, Inv, Typed
  <2> QED BY <2>1 DEF HeardIsSeen
<1>3. ASSUME StartDone PROVE HeardIsSeen'
  <2>1. CASE listeners = {}
    <3>1. ~hub'.bridged /\ repeated' = repeated
      BY <1>3, <2>1 DEF StartDone, history, Inv, Typed, OneBridge
    <3> QED BY <3>1 DEF HeardIsSeen
  <2>2. CASE listeners # {}
    BY <1>3, <2>2 DEF StartDone, HeardIsSeen
  <2> QED BY <2>1, <2>2
<1>4. ASSUME WsOpen PROVE HeardIsSeen'
  <2>1. UNCHANGED <<hub, heard, repeated>>
    BY <1>4 DEF WsOpen, history
  <2>2. sub'.seen = sub.seen /\ sub'.sseSeen = sub.sseSeen
    BY <1>4 DEF WsOpen, Inv, Typed, SubType
  <2> QED BY <1>k, <2>1, <2>2 DEF SeenBy
<1>5. ASSUME WsFail \/ RetryFires \/ ProbeFires PROVE HeardIsSeen'
  <2>1. sub'.seen = sub.seen /\ UNCHANGED <<hub, heard, repeated>>
    BY <1>5, WaitGoesOn DEF EndpointAssumption, history
  <2>2. sub.ws # "none" \/ sub.retry \/ sub.probe
    BY <1>5 DEF WsFail, RetryFires, ProbeFires
  <2>3. hub.bridged => HasWs
    BY <2>2 DEF Inv, Held, StreamsOnly
  <2> QED BY <1>k, <2>1, <2>3 DEF SeenBy
<1>6. ASSUME NEW item \in Item, Message(item) PROVE HeardIsSeen'
  <2> DEFINE id == IdOf(item)
  <2>1. hub.bridged /\ hub' = hub
    BY <1>6 DEF Message, WsMessage, SseMessage, Inv, NothingLeaks, NoSub
  <2>2. IF HasWs THEN WsMessage(item) ELSE SseMessage(item)
    BY <1>6, <1>e, <2>1 DEF Message, WsMessage, SseMessage, Inv, Held, StreamsOnly
  <2>3. \A i \in heard : IdOf(i) # 0 => IdOf(i) \in SeenBy(sub)
    BY <2>1 DEF HeardIsSeen
  <2>4. SeenBy(sub') = IF id = 0 THEN SeenBy(sub) ELSE SeenBy(sub) \cup {id}
    <3>1. CASE HasWs
      BY <2>2, <3>1 DEF WsMessage, Inv, Typed, SubType, SeenBy
    <3>2. CASE ~HasWs
      BY <2>2, <3>2 DEF SseMessage, Inv, Typed, SubType, SeenBy
    <3> QED BY <3>1, <3>2
  <2>5. Hand(item, id, id \in SeenBy(sub))
    BY <1>e, <2>2 DEF WsMessage, SseMessage, SeenBy
  <2>6. heard' \subseteq heard \cup {item}
    BY <2>5 DEF Hand
  <2>7. ~repeated'
    <3>1. ~(id \notin SeenBy(sub) /\ id > 0 /\ item \in heard)
      BY <2>3 DEF IdsAreNumbers
    <3> QED BY <2>5, <3>1 DEF Hand, HeardIsSeen
  <2>8. \A i \in heard' : IdOf(i) # 0 => IdOf(i) \in SeenBy(sub')
    BY <2>3, <2>4, <2>6
  <2> QED BY <2>7, <2>8 DEF HeardIsSeen
<1> QED BY <1>1, <1>2, <1>3, <1>4, <1>5, <1>6 DEF BridgeNext

(* Over one endpoint, no bridge hands a frame to the listeners twice,      *)
(* whatever a server replays after a reconnect and in whatever order.      *)
(* (With the fallback, a frame may come once by each way: each has its own *)
(* deduper.)                                                               *)
THEOREM NoFrameTwice ==
  ASSUME IdsAreNumbers, EndpointAssumption, OneWay PROVE BridgeSpec => []NoRepeat
<1>1. ASSUME HeardIsSeen, UNCHANGED bvars PROVE HeardIsSeen'
  BY <1>1 DEF bvars, history, HeardIsSeen
<1>2. Inv /\ HeardIsSeen /\ [BridgeNext]_bvars => HeardIsSeen'
  BY <1>1, StepHeard
<1>3. HeardIsSeen => NoRepeat
  BY DEF HeardIsSeen, NoRepeat
<1> QED BY <1>2, <1>3, InitHolds, InvHolds, PTL DEF BridgeSpec

-----------------------------------------------------------------------------
(***************************************************************************)
(* The bridge over the events of the service (EventStream): what it reads  *)
(* are frames and signals of TurnEvents, so it is a bridge as above.       *)
(***************************************************************************)

(* A stream brings whatever the service may send.                          *)
ServiceItems == Frame \cup Signal \subseteq Item

Pub == [pc : {"idle", "built", "stored"}, frame : Frame \cup {NoFrame}]
Conn == [kind : {"none", "ws", "sse"},
         phase : {"none", "accepted", "subscribed", "replayed", "live"},
         last : Nat, mark : Nat, pos : Nat, lagged : BOOLEAN]

(* A publisher that has begun has a frame; the receiver is not ahead of the bus. *)
ServerOK ==
  /\ epoch \in 0 .. MaxEpoch /\ nextId \in 0 .. MaxId
  /\ pub \in [Publisher -> Pub] /\ \A p \in Publisher : pub[p].pc # "idle" => pub[p].frame \in Frame
  /\ ring \in Seq(Frame) /\ Len(ring) <= RingCap
  /\ latest \in Frame \cup {NoFrame} /\ fanout \in Frame \cup {NoFrame}
  /\ bus \in Seq(Frame) /\ wire \in Seq(Frame \cup Signal)
  /\ conn \in Conn /\ conn.pos <= Len(bus)

(* The k-th of the positions that are kept is one of them: what is collected from the *)
(* ring are frames of the ring (collect_since).                                       *)
LEMMA CollectTyped ==
  ASSUME ring \in Seq(Frame), NEW last
  PROVE  CollectSince(last) \in Seq(Frame)
<1> DEFINE at == {i \in DOMAIN ring : ring[i].id > last}
           nth(i) == Cardinality({j \in at : j <= i})
           n == Cardinality(at)
<1>1. at \subseteq 1 .. Len(ring) /\ Len(ring) \in Nat
  OBVIOUS
<1>2. IsFiniteSet(at) /\ n \in Nat /\ at \subseteq Nat
  <2>1. IsFiniteSet(1 .. Len(ring)) /\ 1 .. Len(ring) \subseteq Nat
    BY <1>1, FS_Interval
  <2> HIDE DEF at
  <2> QED BY <1>1, <2>1, FS_Subset, FS_CardinalityType
<1>3. \A i \in at : ring[i] \in Frame
  BY <1>1
<1>4. CollectSince(last) = [k \in 1 .. n |-> ring[CHOOSE i \in at : nth(i) = k]]
  BY DEF CollectSince
<1> HIDE DEF at
<1>5. ASSUME NEW i \in at
      PROVE  /\ IsFiniteSet({j \in at : j <= i}) /\ nth(i) \in 1 .. n
             /\ \A k \in at : k < i => nth(k) # nth(i)
  <2> DEFINE S(k) == {j \in at : j <= k}
  <2>1. IsFiniteSet(S(i)) /\ nth(i) \in Nat /\ nth(i) <= n
    BY <1>2, FS_Subset, FS_CardinalityType
  <2>2. i \in S(i)
    BY <1>2
  <2>3. IsFiniteSet(S(i) \ {i}) /\ Cardinality(S(i) \ {i}) = nth(i) - 1
    BY <2>1, <2>2, FS_RemoveElement
  <2>4. Cardinality(S(i) \ {i}) \in Nat
    BY <2>3, FS_CardinalityType
  <2>5. ASSUME NEW k \in at, k < i
        PROVE  nth(k) # nth(i)
    <3>1. S(k) \subseteq S(i) \ {i}
      <4> HIDE DEF nth
      <4>1. k \in Nat /\ i \in Nat /\ \A j \in at : j \in Nat
        BY <1>2, <1>5, <2>5
      <4>2. \A j \in at : j <= k => j <= i /\ j # i
        BY <2>5, <4>1
      <4> QED BY <4>2, Zenon
    <3>2. nth(k) <= Cardinality(S(i) \ {i}) /\ nth(k) \in Nat
      BY <2>3, <3>1, FS_Subset, FS_CardinalityType
    <3> HIDE DEF S, nth
    <3> QED BY <2>1, <2>3, <3>2
  <2> HIDE DEF nth
  <2>6. nth(i) \in 1 .. n
    <3>1. nth(i) - 1 \in Nat
      BY <2>3, <2>4
    <3> QED BY <1>2, <2>1, <3>1
  <2> QED BY <2>1, <2>5, <2>6 DEF nth
<1> DEFINE F == [i \in at |-> nth(i)]
           T == {F[i] : i \in at}
<1>6. \A i \in at : nth(i) \in 1 .. n
  BY <1>5
<1>7. \A i, j \in at : nth(i) = nth(j) => i = j
  <2>1. \A i \in at : \A k \in at : k < i => nth(k) # nth(i)
    BY <1>5
  <2> HIDE DEF nth
  <2> QED BY <1>2, <2>1
<1> HIDE DEF nth
<1>8. F \in Surjection(at, T) /\ F \in Injection(at, T)
  BY <1>7 DEF Surjection, Injection, IsInjective
<1>9. T \subseteq 1 .. n
  BY <1>6
<1> HIDE DEF F, T
<1>10. Cardinality(T) = n
  BY <1>2, <1>8, FS_Surjection
<1>11. IsFiniteSet(1 .. n) /\ Cardinality(1 .. n) = n
  BY <1>2, FS_Interval
<1>12. T = 1 .. n
  BY <1>9, <1>10, <1>11, FS_Subset
<1>13. \A k \in 1 .. n : \E i \in at : nth(i) = k
  BY <1>12 DEF T, F
<1>14. \A k \in 1 .. n : ring[CHOOSE i \in at : nth(i) = k] \in Frame
  BY <1>3, <1>13
<1> DEFINE one(k) == ring[CHOOSE i \in at : nth(i) = k]
           len == n
<1>15. CollectSince(last) = [k \in 1 .. len |-> one(k)]
  BY <1>4
<1>16. len \in Nat /\ \A k \in 1 .. len : one(k) \in Frame
  BY <1>2, <1>14
<1> HIDE DEF one, len
<1> QED BY <1>15, <1>16

(* What a replay sends are frames and at most a signal, and its mark is the number of a *)
(* frame or 0.                                                                          *)
LEMMA ReplayTyped ==
  ASSUME CapAssumption, ServerOK, NEW last \in Nat
  PROVE  Sent(Replay(last)) \in Seq(Frame \cup Signal) /\ Mark(Replay(last)) \in Nat
<1> DEFINE kept == CollectSince(last)
           newest == last > 0 /\ latest.id > last
           older == Cardinality({i \in DOMAIN kept : kept[i].id < latest.id})
           there == older < Len(kept) /\ kept[older + 1].id = latest.id
           r == Replay(last)
<1>0. ring \in Seq(Frame) /\ latest \in Frame \cup {NoFrame}
  BY DEF ServerOK
<1>1. kept \in Seq(Frame)
  BY <1>0, CollectTyped
<1> HIDE DEF kept
<1>2. newest => latest \in Frame
  <2>1. NoFrame.id = 0
    BY DEF NoFrame
  <2> QED BY <1>0, <2>1
<1>3. older \in 0 .. Len(kept)
  <2> DEFINE S == {i \in DOMAIN kept : kept[i].id < latest.id}
  <2>1. S \subseteq 1 .. Len(kept) /\ Len(kept) \in Nat
    <3>1. DOMAIN kept = 1 .. Len(kept) /\ Len(kept) \in Nat
      BY <1>1
    <3> QED BY <3>1, Zenon
  <2>2. IsFiniteSet(1 .. Len(kept)) /\ Cardinality(1 .. Len(kept)) = Len(kept)
    <3> DEFINE len == Len(kept)
    <3>1. len \in Nat
      BY <2>1
    <3> HIDE DEF len
    <3>2. IsFiniteSet(1 .. len) /\ Cardinality(1 .. len) = len
      BY <3>1, FS_Interval
    <3> QED BY <3>2 DEF len
  <2> HIDE DEF S
  <2>3. IsFiniteSet(S) /\ Cardinality(S) <= Len(kept)
    BY <2>1, <2>2, FS_Subset
  <2>4. Cardinality(S) \in Nat
    BY <2>3, FS_CardinalityType
  <2>5. Cardinality(S) \in 0 .. Len(kept)
    BY <2>1, <2>3, <2>4
  <2> QED BY <2>5 DEF S
<1>4. /\ r.frames = IF ~newest \/ there THEN kept
                    ELSE SubSeq(kept, 1, older) \o <<latest>> \o SubSeq(kept, older + 1, Len(kept))
      /\ r.gap \in BOOLEAN
  BY DEF Replay, kept
<1> HIDE DEF older, there
<1>5. r.frames \in Seq(Frame)
  <2>1. CASE ~newest \/ there
    BY <1>1, <1>4, <2>1
  <2>2. CASE ~(~newest \/ there)
    <3>1. SubSeq(kept, 1, older) \in Seq(Frame) /\ SubSeq(kept, older + 1, Len(kept)) \in Seq(Frame)
      <4>1. /\ older \in Nat /\ Len(kept) \in Nat /\ older <= Len(kept)
            /\ \A i \in 1 .. Len(kept) : kept[i] \in Frame
        BY <1>1, <1>3
      <4> QED BY <1>1, <4>1
    <3>2. <<latest>> \in Seq(Frame)
      BY <1>2, <2>2
    <3>3. r.frames = SubSeq(kept, 1, older) \o <<latest>> \o SubSeq(kept, older + 1, Len(kept))
      BY <1>4, <2>2
    <3> QED BY <3>1, <3>2, <3>3
  <2> QED BY <2>1, <2>2
<1> HIDE DEF r
<1>6. Sent(r) \in Seq(Frame \cup Signal)
  <2>1. r.frames \in Seq(Frame \cup Signal) /\ <<Gap>> \in Seq(Frame \cup Signal)
        /\ <<>> \in Seq(Frame \cup Signal)
    BY <1>5 DEF Signal
  <2>2. CASE r.gap
    <3>1. Sent(r) = <<Gap>> \o r.frames
      BY <2>2 DEF Sent
    <3> QED BY <2>1, <3>1
  <2>3. CASE ~r.gap
    <3>1. Sent(r) = <<>> \o r.frames
      BY <1>4, <2>3 DEF Sent
    <3> QED BY <2>1, <3>1
  <2> QED BY <2>2, <2>3
<1>7. Mark(r) \in Nat
  <2>1. CASE r.frames = <<>>
    BY <2>1 DEF Mark
  <2>2. CASE r.frames # <<>>
    <3>1. Len(r.frames) \in 1 .. Len(r.frames)
      BY <1>5, <2>2
    <3>2. r.frames[Len(r.frames)] \in Frame
      BY <1>5, <3>1
    <3>3. \A f \in Frame : f.id \in Nat
      BY DEF Frame, CapAssumption
    <3> QED BY <2>2, <3>2, <3>3 DEF Mark
  <2> QED BY <2>1, <2>2
<1> QED BY <1>6, <1>7 DEF r

(* Numbering, keeping and broadcasting a frame keep the types.             *)
LEMMA PublishTyped ==
  ASSUME CapAssumption, ServerOK, Publish
  PROVE  ServerOK'
<1> USE DEF ServerOK
<1>1. ASSUME NEW p \in Publisher, NEW k \in Kind, Build(p, k)
      PROVE  ServerOK'
  <2> DEFINE f == [epoch |-> epoch, id |-> nextId + 1, kind |-> k]
             one == [pc |-> "built", frame |-> f]
  <2>1. /\ nextId < MaxId /\ nextId' = nextId + 1 /\ pub' = [pub EXCEPT ![p] = one]
        /\ UNCHANGED <<epoch, ring, latest, fanout, bus, conn, wire>>
    BY <1>1 DEF Build, connVars
  <2>2. nextId \in Nat /\ MaxId \in Nat /\ nextId + 1 \in 1 .. MaxId
    BY <2>1 DEF CapAssumption
  <2>3. f \in Frame
    BY <2>2 DEF Frame
  <2> HIDE DEF f
  <2>4. one \in Pub /\ one.frame = f
    BY <2>3 DEF Pub
  <2> HIDE DEF one
  <2>5. pub' \in [Publisher -> Pub] /\ \A q \in Publisher : pub'[q].pc # "idle" => pub'[q].frame \in Frame
    BY <2>1, <2>3, <2>4
  <2>6. nextId' \in 0 .. MaxId
    BY <2>1, <2>2
  <2> QED BY <2>1, <2>5, <2>6
<1>2. ASSUME NEW p \in Publisher, Store(p)
      PROVE  ServerOK'
  <2> DEFINE f == pub[p].frame
  <2>1. /\ pub[p].pc = "built" /\ pub' = [pub EXCEPT ![p].pc = "stored"]
        /\ ring' = Push(ring, f) \/ ring' = ring
        /\ latest' \in {f, latest}
        /\ UNCHANGED <<epoch, nextId, fanout, bus, conn, wire>>
    BY <1>2 DEF Store, connVars
  <2>2. f \in Frame
    BY <2>1
  <2> DEFINE one == [pub[p] EXCEPT !.pc = "stored"]
  <2>3. one \in Pub /\ one.frame = f
    BY DEF Pub
  <2>4. pub' = [pub EXCEPT ![p] = one]
    BY <2>1
  <2> HIDE DEF f, one
  <2>5. pub' \in [Publisher -> Pub] /\ \A q \in Publisher : pub'[q].pc # "idle" => pub'[q].frame \in Frame
    BY <2>2, <2>3, <2>4
  <2>6. Push(ring, f) \in Seq(Frame) /\ Len(Push(ring, f)) <= RingCap
    <3> DEFINE all == Append(ring, f)
    <3>1. all \in Seq(Frame) /\ Len(all) = Len(ring) + 1 /\ Len(ring) \in Nat
      BY <2>2
    <3>2. Push(ring, f) = IF Len(all) > RingCap THEN Tail(all) ELSE all
      BY DEF Push
    <3> HIDE DEF all
    <3>3. Tail(all) \in Seq(Frame) /\ Len(Tail(all)) = Len(ring)
      BY <3>1
    <3>4. RingCap \in Nat /\ Len(ring) <= RingCap
      BY DEF CapAssumption
    <3> QED BY <3>1, <3>2, <3>3, <3>4
  <2>7. ring' \in Seq(Frame) /\ Len(ring') <= RingCap /\ latest' \in Frame \cup {NoFrame}
    BY <2>1, <2>2, <2>6
  <2> QED BY <2>1, <2>5, <2>7
<1>3. ASSUME Len(bus') \in Nat, Len(bus) <= Len(bus')
      PROVE  conn.pos <= Len(bus')
  <2>1. conn.pos \in Nat /\ Len(bus) \in Nat /\ conn.pos <= Len(bus)
    BY DEF Conn
  <2> QED BY <1>3, <2>1
<1>4. ASSUME NEW f \in Frame, bus' = Append(bus, f)
      PROVE  bus' \in Seq(Frame) /\ conn.pos <= Len(bus')
  <2>1. bus' \in Seq(Frame) /\ Len(bus') = Len(bus) + 1 /\ Len(bus) \in Nat
    BY <1>4
  <2> QED BY <1>3, <2>1
<1>5. ASSUME NEW p \in Publisher, Emit(p)
      PROVE  ServerOK'
  <2> DEFINE f == pub[p].frame
  <2>1. /\ pub[p].pc = "stored" /\ pub' = [pub EXCEPT ![p] = Idle]
        /\ \/ fanout' = f /\ bus' = bus
           \/ fanout' = fanout /\ bus' = Append(bus, f)
        /\ UNCHANGED <<epoch, nextId, ring, latest, conn, wire>>
    BY <1>5 DEF Emit, connVars
  <2>2. f \in Frame
    BY <2>1
  <2> HIDE DEF f
  <2>3. Idle \in Pub /\ Idle.pc = "idle"
    BY DEF Idle, Pub
  <2>4. pub' \in [Publisher -> Pub] /\ \A q \in Publisher : pub'[q].pc # "idle" => pub'[q].frame \in Frame
    BY <2>1, <2>3
  <2>5. /\ fanout' \in Frame \cup {NoFrame} /\ bus' \in Seq(Frame) /\ conn.pos <= Len(bus')
    BY <1>4, <2>1, <2>2
  <2> QED BY <2>1, <2>4, <2>5
<1>6. ASSUME DrainFanout
      PROVE  ServerOK'
  <2>1. /\ fanout \in Frame /\ bus' = Append(bus, fanout) /\ fanout' = NoFrame
        /\ UNCHANGED <<epoch, nextId, pub, ring, latest, conn, wire>>
    BY <1>6 DEF DrainFanout, connVars
  <2>2. bus' \in Seq(Frame) /\ conn.pos <= Len(bus')
    BY <1>4, <2>1
  <2> QED BY <2>1, <2>2
<1> QED BY <1>1, <1>2, <1>5, <1>6 DEF Publish

(* What a connection's task sends and how far it has come keep the types.  *)
LEMMA ServeTyped ==
  ASSUME CapAssumption, ServerOK, Serve
  PROVE  ServerOK'
<1>0. /\ conn \in Conn /\ conn.pos \in Nat /\ Len(bus) \in Nat /\ conn.pos <= Len(bus)
      /\ conn.last \in Nat /\ bus \in Seq(Frame) /\ wire \in Seq(Frame \cup Signal)
      /\ latest \in Frame \cup {NoFrame}
  BY DEF ServerOK, Conn
<1>k. ASSUME UNCHANGED pubVars, conn' \in Conn, conn'.pos <= Len(bus),
             wire' \in Seq(Frame \cup Signal)
      PROVE  ServerOK'
  BY <1>k DEF ServerOK, pubVars
<1>1. ASSUME SseSubscribe \/ WsSubscribe
      PROVE  ServerOK'
  <2>1. /\ UNCHANGED <<pubVars, wire>>
        /\ \E s \in {"subscribed", "live"} : conn' = [conn EXCEPT !.phase = s, !.pos = Len(bus)]
    BY <1>1 DEF SseSubscribe, WsSubscribe, Listen
  <2>2. conn' \in Conn /\ conn'.pos = Len(bus)
    BY <1>0, <2>1 DEF Conn
  <2> QED BY <1>0, <1>k, <2>1, <2>2
<1>2. ASSUME SseReplay \/ WsReplay
      PROVE  ServerOK'
  <2> DEFINE r == Replay(conn.last)
  <2>1. /\ UNCHANGED pubVars /\ wire' = wire \o Sent(r)
        /\ \E s \in {"live", "replayed"} : conn' = [conn EXCEPT !.phase = s, !.mark = Mark(r)]
    BY <1>2 DEF SseReplay, WsReplay, SendReplay
  <2>2. Sent(r) \in Seq(Frame \cup Signal) /\ Mark(r) \in Nat
    BY <1>0, ReplayTyped
  <2> HIDE DEF r
  <2>3. conn' \in Conn /\ conn'.pos = conn.pos
    BY <1>0, <2>1, <2>2 DEF Conn
  <2>4. wire' \in Seq(Frame \cup Signal)
    BY <1>0, <2>1, <2>2
  <2> QED BY <1>0, <1>k, <2>1, <2>3, <2>4
<1>3. ASSUME Forward
      PROVE  ServerOK'
  <2>1. /\ UNCHANGED pubVars /\ 0 < Len(bus) - conn.pos /\ conn' = [conn EXCEPT !.pos = @ + 1]
        /\ wire' = wire \/ wire' = Append(wire, bus[conn.pos + 1])
    BY <1>3 DEF Forward, Behind
  <2>2. conn.pos + 1 \in 1 .. Len(bus)
    BY <1>0, <2>1
  <2>3. bus[conn.pos + 1] \in Frame \cup Signal
    BY <1>0, <2>2
  <2>4. conn' \in Conn /\ conn'.pos = conn.pos + 1
    <3>1. conn.pos + 1 \in Nat
      BY <1>0
    <3> QED BY <1>0, <2>1, <3>1 DEF Conn
  <2>5. conn'.pos <= Len(bus)
    BY <2>2, <2>4
  <2>6. wire' \in Seq(Frame \cup Signal)
    <3> DEFINE What == Frame \cup Signal
               next == bus[conn.pos + 1]
    <3>1. wire \in Seq(What) /\ next \in What /\ (wire' = wire \/ wire' = Append(wire, next))
      BY <1>0, <2>1, <2>3
    <3> HIDE DEF What, next
    <3>2. wire' \in Seq(What)
      BY <3>1
    <3> QED BY <3>2 DEF What
  <2> QED BY <1>k, <2>1, <2>4, <2>5, <2>6
<1>4. ASSUME Lag
      PROVE  ServerOK'
  <2> DEFINE sent == IF conn.lagged THEN <<>>
                     ELSE IF latest = NoFrame THEN <<Lagged>> ELSE <<Lagged, latest>>
             at == Len(bus) - BusCap
  <2>1. /\ UNCHANGED pubVars /\ Len(bus) - conn.pos > BusCap /\ wire' = wire \o sent
        /\ conn' = [conn EXCEPT !.pos = at, !.lagged = TRUE]
    BY <1>4 DEF Lag, Behind
  <2>2. at \in Nat /\ at <= Len(bus)
    BY <1>0, <2>1 DEF CapAssumption
  <2>3. sent \in Seq(Frame \cup Signal)
    <3> DEFINE What == Frame \cup Signal
    <3>1. Lagged \in What /\ (latest # NoFrame => latest \in What)
      BY <1>0 DEF Signal
    <3> HIDE DEF What
    <3>2. <<>> \in Seq(What) /\ <<Lagged>> \in Seq(What)
          /\ (latest # NoFrame => <<Lagged, latest>> \in Seq(What))
      BY <3>1
    <3>3. sent \in Seq(What)
      BY <3>2
    <3> QED BY <3>3 DEF What
  <2> HIDE DEF sent, at
  <2>4. conn' \in Conn /\ conn'.pos = at
    BY <1>0, <2>1, <2>2 DEF Conn
  <2>5. wire' \in Seq(Frame \cup Signal)
    BY <1>0, <2>1, <2>3
  <2> QED BY <1>k, <2>1, <2>2, <2>4, <2>5
<1> QED BY <1>1, <1>2, <1>3, <1>4 DEF Serve

(* Every step of client and server together keeps the types of the server. *)
LEMMA ServerStep ==
  ASSUME CapAssumption, ServerOK, Typed, [Next]_vars
  PROVE  ServerOK'
<1> USE DEF ServerOK
<1>k. ASSUME UNCHANGED pubVars, conn' \in Conn, conn'.pos <= Len(bus),
             wire' \in Seq(Frame \cup Signal)
      PROVE  ServerOK'
  BY <1>k DEF pubVars
<1>n. /\ NoConn \in Conn /\ NoConn.pos <= Len(bus) /\ <<>> \in Seq(Frame \cup Signal)
      /\ Len(bus) \in Nat
  <2>1. NoConn \in Conn /\ NoConn.pos = 0
    BY DEF NoConn, Conn
  <2> QED BY <2>1
<1>a. ASSUME NEW kind \in {"ws", "sse"}, NEW last \in Nat, Accept(kind, last)
      PROVE  ServerOK'
  <2>1. conn' = [NoConn EXCEPT !.kind = kind, !.phase = "accepted", !.last = last] /\ wire' = <<>>
        /\ UNCHANGED pubVars
    BY <1>a DEF Accept
  <2>2. conn' \in Conn /\ conn'.pos = 0
    BY <2>1 DEF NoConn, Conn
  <2> QED BY <1>k, <1>n, <2>1, <2>2
<1>s. sub.lastId \in Nat /\ sub.cursor \in Nat
  BY DEF Typed, SubType
<1>1. CASE UNCHANGED vars
  BY <1>1 DEF vars, svars
<1>2. CASE Server(Publish) \/ Server(Serve)
  BY <1>2, PublishTyped, ServeTyped DEF Server
<1>3. CASE Server(Restart)
  <2>1. /\ epoch < MaxEpoch /\ epoch' = epoch + 1 /\ nextId' = 0
        /\ pub' = [p \in Publisher |-> Idle] /\ ring' = <<>> /\ latest' = NoFrame
        /\ fanout' = NoFrame /\ bus' = <<>> /\ conn' = NoConn /\ wire' = wire
    BY <1>3 DEF Server, Restart
  <2>2. MaxEpoch \in Nat /\ MaxId \in Nat /\ RingCap \in Nat
    BY DEF CapAssumption
  <2>3. epoch' \in 0 .. MaxEpoch /\ nextId' \in 0 .. MaxId
    BY <2>1, <2>2
  <2>4. Idle \in Pub /\ Idle.pc = "idle"
    BY DEF Idle, Pub
  <2>5. pub' \in [Publisher -> Pub] /\ \A q \in Publisher : pub'[q].pc # "idle" => pub'[q].frame \in Frame
    BY <2>1, <2>4
  <2>6. NoConn.pos = 0 /\ Len(<<>>) = 0
    BY DEF NoConn
  <2>7. /\ ring' \in Seq(Frame) /\ Len(ring') <= RingCap /\ bus' \in Seq(Frame)
        /\ conn' \in Conn /\ conn'.pos <= Len(bus')
    BY <1>n, <2>1, <2>2, <2>6
  <2> QED BY <2>1, <2>3, <2>5, <2>7
<1>4. CASE OpenWs
  BY <1>4, <1>a, <1>s DEF OpenWs
<1>5. CASE OpenSseStream
  BY <1>5, <1>a, <1>s DEF OpenSseStream
<1>6. CASE Read
  <2>1. wire # <<>> /\ wire' = Tail(wire) /\ UNCHANGED <<pubVars, conn>>
    BY <1>6 DEF Read
  <2>2. wire' \in Seq(Frame \cup Signal)
    BY <2>1
  <2> QED BY <1>k, <2>1, <2>2
<1>7. CASE DoRefresh \/ Alone
  BY <1>7 DEF DoRefresh, Alone, svars
<1>8. CASE Break
  BY <1>8, <1>k, <1>n DEF Break, Hangup
<1>9. CASE Leave
  BY <1>9, <1>k, <1>n DEF Leave, connVars
<1> QED BY <1>1, <1>2, <1>3, <1>4, <1>5, <1>6, <1>7, <1>8, <1>9 DEF Next

(* Each step of client and server is one of the bridge, or leaves the bridge as it is. *)
LEMMA StepIsBridges ==
  ASSUME ServiceItems, ServerOK, [Next]_vars
  PROVE  [BridgeNext]_bvars
<1>1. CASE UNCHANGED vars
  BY <1>1 DEF vars
<1>2. CASE Server(Publish) \/ Server(Serve) \/ Server(Restart)
  BY <1>2 DEF Server
<1>3. CASE OpenWs \/ OpenSseStream \/ DoRefresh \/ Break \/ Alone \/ Leave
  BY <1>3 DEF OpenWs, OpenSseStream, DoRefresh, Break, Alone, Leave, BridgeNext
<1>4. CASE Read
  <2>1. Message(Head(wire)) /\ wire # <<>>
    BY <1>4 DEF Read
  <2>2. Head(wire) \in Item
    BY <2>1 DEF ServerOK, ServiceItems
  <2> QED BY <2>1, <2>2 DEF BridgeNext
<1> QED BY <1>1, <1>2, <1>3, <1>4 DEF Next

(* The server begins without frames and without a connection. *)
LEMMA ServerBegins == ASSUME CapAssumption, Init PROVE ServerOK
<1>1. NoConn \in Conn /\ NoConn.pos = 0 /\ Idle \in Pub /\ Idle.pc = "idle"
  BY DEF NoConn, Conn, Idle, Pub
<1>2. 0 \in 0 .. MaxEpoch /\ 0 \in 0 .. MaxId /\ 0 <= RingCap
  BY DEF CapAssumption
<1>3. /\ epoch = 0 /\ nextId = 0 /\ pub = [p \in Publisher |-> Idle]
      /\ ring = <<>> /\ latest = NoFrame /\ fanout = NoFrame /\ bus = <<>>
      /\ conn = NoConn /\ wire = <<>>
  BY DEF Init, ServerInit
<1> QED BY <1>1, <1>2, <1>3 DEF ServerOK

(* Client and server keep the invariants of both.                          *)
LEMMA StreamHolds ==
  ASSUME CapAssumption, ServiceItems, IdsAreNumbers, EndpointAssumption
  PROVE  Spec => [](Inv /\ ServerOK)
<1>1. Init => Inv /\ ServerOK
  BY InitHolds, ServerBegins DEF Init
<1>2. ASSUME Inv, UNCHANGED bvars PROVE Inv'
  BY <1>2 DEF bvars, history, Inv, Typed, Held, NeverAbandoned, NothingLeaks, OneBridge
<1>3. Inv /\ ServerOK /\ [Next]_vars => (Inv /\ ServerOK)'
  BY <1>2, StepHolds, ServerStep, StepIsBridges DEF Inv
<1> QED BY <1>1, <1>3, PTL DEF Spec

(* The bridge over the events of the service implements the bridge: connections that    *)
(* break, replays, gaps, lags and restarts of the service do nothing that the theorems   *)
(* above do not allow for.                                                               *)
THEOREM StreamImplementsBridge ==
  ASSUME CapAssumption, ServiceItems, IdsAreNumbers, EndpointAssumption
  PROVE  Spec => BridgeSpec
<1>1. Init => BridgeInit
  BY DEF Init
<1>2. Inv /\ ServerOK /\ [Next]_vars => [BridgeNext]_bvars
  BY StepIsBridges
<1> QED BY <1>1, <1>2, StreamHolds, PTL DEF Spec, BridgeSpec

(* So a frame of the service is handed to the listeners once over one endpoint, though a *)
(* reconnect replays it and a connection that lagged repeats the latest one.             *)
THEOREM FramesComeOnce ==
  ASSUME CapAssumption, ServiceItems, IdsAreNumbers, EndpointAssumption, OneWay
  PROVE  Spec => []HandedOnce
<1>1. NoRepeat => HandedOnce
  BY DEF NoRepeat, HandedOnce
<1> QED BY <1>1, StreamImplementsBridge, NoFrameTwice, PTL

(* The types of client and server together. *)
THEOREM StreamTypes ==
  ASSUME CapAssumption, ServiceItems, IdsAreNumbers, EndpointAssumption, MaxBreaks \in Nat
  PROVE  Spec => []TypeOK
<1>1. Init => breaks \in 0 .. MaxBreaks
  BY DEF Init
<1>2. breaks \in 0 .. MaxBreaks /\ [Next]_vars => (breaks \in 0 .. MaxBreaks)'
  <2> SUFFICES ASSUME breaks \in 0 .. MaxBreaks, [Next]_vars PROVE breaks' \in 0 .. MaxBreaks
    OBVIOUS
  <2>1. breaks' = breaks \/ (breaks < MaxBreaks /\ breaks' = breaks + 1)
    BY DEF Next, vars, Server, Quiet, OpenWs, OpenSseStream, Read, DoRefresh, Break, Alone, Leave
  <2> QED BY <2>1
<1>3. Inv => BridgeTypeOK
  BY DEF Inv, Typed, SubType, BridgeTypeOK
<1>4. ServerOK => ServerTypeOK
  <2> SUFFICES ASSUME ServerOK PROVE ServerTypeOK
    OBVIOUS
  <2>1. conn.pos \in 0 .. Len(bus) /\ conn.phase \in {"none", "accepted", "subscribed", "replayed", "live"}
    BY DEF ServerOK, Conn
  <2> QED BY <2>1 DEF ServerOK, ServerTypeOK, Pub
<1>5. Inv /\ ServerOK /\ breaks \in 0 .. MaxBreaks => TypeOK
  BY <1>3, <1>4 DEF TypeOK
<1> QED BY <1>1, <1>2, <1>5, StreamHolds, PTL DEF Spec

-----------------------------------------------------------------------------
(***************************************************************************)
(* What the client does with the turns of its threads (module ThreadTurns, *)
(* as Turns): every message has its turn once, in the order and the thread *)
(* it was written in, for any threads and messages.                        *)
(***************************************************************************)

CONSTANTS Thread, UserMessage, Command, Happens, MaxStop, NoThread, NoMessage

VARIABLES
  active, connected, status, view, box, optimistic, stopsDue, sends, stops, turns, events,
  written, served

Turns == INSTANCE ThreadTurns WITH pending <- stopsDue

TurnSend == [msg : UserMessage, thread : Thread, to : Thread, from : {"composer", "queue"},
             stage : {"ensure", "request", "accepted", "failed"}]
TurnEvent == [kind : {"started", "delta", "completed", "failed"}, turn : UserMessage,
              thread : Thread]
TurnStatus == [processing : BOOLEAN, turn : UserMessage \cup {NoMessage}]
TurnBox == [queue : Seq(UserMessage), inFlight : UserMessage \cup {NoMessage}, started : BOOLEAN]
Underway == {"spawned", "running", "streamed"}
ServiceTurn == [phase : {"none", "ended"} \cup Underway, thread : Thread \cup {NoThread}]
Line == [msg : UserMessage, thread : Thread]

\* The types of a client that is connected, whose user stops nothing and types no commands.
TurnShape ==
  /\ active \in Thread /\ connected /\ optimistic \subseteq Thread
  /\ status \in [Thread -> TurnStatus] /\ box \in [Thread -> TurnBox]
  /\ sends \subseteq TurnSend /\ stopsDue = {} /\ stops = {}
  /\ turns \in [UserMessage -> ServiceTurn] /\ events \in Seq(TurnEvent)
  /\ written \in Seq(Line) /\ served \in Seq(UserMessage)

\* A send waits until the service has accepted its message.
Unaccepted(s) == s.stage # "accepted"
Final(e) == e.kind \in {"completed", "failed"}
Coming(queue) == {queue[i] : i \in DOMAIN queue}

\* What waits is the message its thread holds as in flight, which has no turn yet.
SendRight(s) ==
  /\ s.to = s.thread
  /\ Unaccepted(s) => box[s.thread].inFlight = s.msg /\ turns[s.msg].phase = "none"
  /\ s.stage = "ensure" => ~status[s.thread].processing /\ ~box[s.thread].started
  /\ s.stage \in {"request", "failed"} => status[s.thread].processing

\* A turn under way is of the message in flight, and its thread is processing.
TurnRight(m) ==
  turns[m].phase \in Underway =>
    box[turns[m].thread].inFlight = m /\ status[turns[m].thread].processing

\* So is the turn of an event on its way; an event that ends it comes after the end.
EventRight(e) ==
  /\ turns[e.turn].phase # "none" /\ turns[e.turn].thread = e.thread
  /\ box[e.thread].inFlight = e.turn /\ status[e.thread].processing
  /\ Final(e) => turns[e.turn].phase = "ended"

\* A thread that is processing waits for the service, its turn or an event that ends it.
ProcessingRight(t) ==
  status[t].processing =>
    /\ box[t].inFlight # NoMessage
    /\ \/ \E s \in sends : s.thread = t /\ s.stage \in {"request", "failed"}
       \/ \E m \in UserMessage : turns[m].phase \in Underway /\ turns[m].thread = t
       \/ \E e \in Coming(events) : e.thread = t /\ Final(e)

\* A thread with a message in flight is claimed by the composer's ref, has one send that
\* waits at most, and all its sends, turns and events are right.
ThreadFlow(t) ==
  /\ \A s \in sends : s.thread = t => SendRight(s)
  /\ \A s, r \in sends : Unaccepted(s) /\ Unaccepted(r) /\ s.thread = t /\ r.thread = t => s = r
  /\ \A m \in UserMessage : turns[m].thread = t => TurnRight(m)
  /\ \A e \in Coming(events) : e.thread = t => EventRight(e)
  /\ ProcessingRight(t)
  /\ t \notin optimistic => box[t].inFlight = NoMessage

\* The order of the messages.
Before(m, n) ==
  \E i, j \in DOMAIN written : i < j /\ written[i].msg = m /\ written[j].msg = n
WrittenIn(m, t) == \E i \in DOMAIN written : written[i].msg = m /\ written[i].thread = t

\* What a thread holds was written in it; its queue is in order, after the message in flight,
\* which comes after all that had their turns.
ThreadOrder(t) ==
  /\ \A k \in DOMAIN box[t].queue : WrittenIn(box[t].queue[k], t)
  /\ \A k, l \in DOMAIN box[t].queue : k < l => Before(box[t].queue[k], box[t].queue[l])
  /\ box[t].inFlight # NoMessage =>
       /\ WrittenIn(box[t].inFlight, t)
       /\ \A k \in DOMAIN box[t].queue : Before(box[t].inFlight, box[t].queue[k])
  /\ \A n \in UserMessage : turns[n].thread = t =>
       /\ WrittenIn(n, t)
       /\ \A k \in DOMAIN box[t].queue : Before(n, box[t].queue[k])
       /\ box[t].inFlight \notin {n, NoMessage} => Before(n, box[t].inFlight)

\* A message is written once; what has a turn was served, and in order; an event that ends a
\* turn is the last of its thread.
Once == \A i, j \in DOMAIN written : written[i].msg = written[j].msg => i = j
Placed == \A m \in UserMessage : turns[m].phase = "none" <=> turns[m].thread = NoThread
EndsLast ==
  \A i, j \in DOMAIN events : i < j /\ Final(events[i]) => events[j].thread # events[i].thread
ServedInOrder ==
  /\ \A k \in DOMAIN served : turns[served[k]].phase # "none"
  /\ \A k, l \in DOMAIN served :
       k < l /\ turns[served[k]].thread = turns[served[l]].thread => Before(served[k], served[l])

TurnInv ==
  /\ TurnShape /\ Once /\ Placed /\ EndsLast /\ ServedInOrder
  /\ \A t \in Thread : ThreadFlow(t) /\ ThreadOrder(t)

\* What may happen: no stops, no commands, no wait for the workspace, nothing is removed.
Undisturbed ==
  /\ Command = {}
  /\ Happens \subseteq {"switch", "quick", "reject", "fail", "delta", "refuse", "throw"}

-----------------------------------------------------------------------------
\* What the operators on sequences return.
LEMMA AppendIs ==
  ASSUME NEW S, NEW q \in Seq(S), NEW e \in S
  PROVE  /\ Append(q, e) \in Seq(S) /\ Len(q) \in Nat /\ DOMAIN q = 1 .. Len(q)
         /\ Len(q) + 1 \in DOMAIN Append(q, e) /\ Append(q, e)[Len(q) + 1] = e
         /\ \A i \in DOMAIN q : /\ i \in Nat /\ i < Len(q) + 1
                                /\ i \in DOMAIN Append(q, e) /\ Append(q, e)[i] = q[i]
         /\ \A i \in DOMAIN Append(q, e) : i \in DOMAIN q \/ i = Len(q) + 1
<1>1. /\ Append(q, e) \in Seq(S) /\ Len(q) \in Nat
      /\ DOMAIN Append(q, e) = 1 .. Len(q) + 1 /\ DOMAIN q = 1 .. Len(q)
      /\ \A i \in 1 .. Len(q) : Append(q, e)[i] = q[i]
      /\ Append(q, e)[Len(q) + 1] = e
  OBVIOUS
<1> DEFINE all == Append(q, e)
           n == Len(q)
<1> HIDE DEF all, n
<1>2. all \in Seq(S) /\ n \in Nat /\ DOMAIN all = 1 .. n + 1 /\ DOMAIN q = 1 .. n
      /\ (\A i \in 1 .. n : all[i] = q[i]) /\ all[n + 1] = e
  BY <1>1 DEF all, n
<1>3. /\ all \in Seq(S) /\ n \in Nat /\ DOMAIN q = 1 .. n /\ n + 1 \in DOMAIN all
      /\ all[n + 1] = e
  BY <1>2
<1>4. ASSUME NEW i \in DOMAIN q
      PROVE  i \in Nat /\ i < n + 1 /\ i \in DOMAIN all /\ all[i] = q[i]
  BY <1>2
<1>5. ASSUME NEW i \in DOMAIN all
      PROVE  i \in DOMAIN q \/ i = n + 1
  BY <1>2
<1> QED BY <1>3, <1>4, <1>5 DEF all, n

LEMMA PrependIs ==
  ASSUME NEW S, NEW q \in Seq(S), NEW e \in S
  PROVE  /\ <<e>> \o q \in Seq(S) /\ 1 \in DOMAIN (<<e>> \o q) /\ (<<e>> \o q)[1] = e
         /\ \A i \in DOMAIN (<<e>> \o q) :
              /\ i \in Nat
              /\ i = 1 \/ (i > 1 /\ i - 1 \in DOMAIN q /\ (<<e>> \o q)[i] = q[i - 1])
<1> DEFINE all == <<e>> \o q
           n == Len(q)
<1>1. /\ all \in Seq(S) /\ n \in Nat /\ DOMAIN q = 1 .. n /\ DOMAIN all = 1 .. n + 1
      /\ all[1] = e /\ \A i \in 2 .. n + 1 : all[i] = q[i - 1]
  OBVIOUS
<1> HIDE DEF all, n
<1>2. ASSUME NEW i \in DOMAIN all
      PROVE  i \in Nat /\ (i = 1 \/ (i > 1 /\ i - 1 \in DOMAIN q /\ all[i] = q[i - 1]))
  <2>1. n \in Nat /\ DOMAIN all = 1 .. n + 1 /\ DOMAIN q = 1 .. n
    BY <1>1
  <2>2. i \in 1 .. n + 1
    BY <2>1
  <2>3. CASE i = 1
    BY <2>3
  <2>4. CASE i # 1
    <3>1. i \in 2 .. n + 1 /\ i - 1 \in 1 .. n /\ i \in Nat /\ i > 1
      BY <2>1, <2>2, <2>4
    <3> QED BY <1>1, <2>1, <3>1
  <2> QED BY <2>3, <2>4
<1>3. 1 \in DOMAIN all
  BY <1>1
<1> QED BY <1>1, <1>2, <1>3 DEF all

LEMMA TailIs ==
  ASSUME NEW S, NEW q \in Seq(S), q # <<>>
  PROVE  /\ Tail(q) \in Seq(S) /\ Head(q) \in S /\ Head(q) = q[1] /\ 1 \in DOMAIN q
         /\ \A i \in DOMAIN Tail(q) :
              i \in Nat /\ i + 1 \in DOMAIN q /\ 1 < i + 1 /\ Tail(q)[i] = q[i + 1]
         /\ \A i \in DOMAIN q : i = 1 \/ (i - 1 \in DOMAIN Tail(q) /\ Tail(q)[i - 1] = q[i])
<1> DEFINE rest == Tail(q)
           n == Len(q)
<1>1. /\ rest \in Seq(S) /\ n \in Nat /\ n >= 1
      /\ DOMAIN q = 1 .. n /\ DOMAIN rest = 1 .. n - 1
      /\ \A i \in 1 .. n - 1 : rest[i] = q[i + 1]
      /\ Head(q) = q[1] /\ Head(q) \in S
  OBVIOUS
<1> HIDE DEF rest, n
<1>2. ASSUME NEW i \in DOMAIN rest
      PROVE  i \in Nat /\ i + 1 \in DOMAIN q /\ 1 < i + 1 /\ rest[i] = q[i + 1]
  BY <1>1
<1>3. ASSUME NEW i \in DOMAIN q
      PROVE  i = 1 \/ (i - 1 \in DOMAIN rest /\ rest[i - 1] = q[i])
  <2>1. CASE i # 1
    <3>1. n \in Nat /\ DOMAIN q = 1 .. n /\ DOMAIN rest = 1 .. n - 1
      BY <1>1
    <3>2. i - 1 \in 1 .. n - 1 /\ (i - 1) + 1 = i
      BY <3>1, <2>1
    <3> QED BY <1>1, <3>1, <3>2
  <2> QED BY <2>1
<1>4. 1 \in DOMAIN q
  BY <1>1
<1> QED BY <1>1, <1>2, <1>3, <1>4 DEF rest

-----------------------------------------------------------------------------
\* What a step may be when nothing disturbs the threads.
LEMMA StepsAre ==
  ASSUME Turns!ThreadAssumption, Undisturbed, TurnShape, Turns!Next
  PROVE  \/ \E m \in UserMessage : \/ Turns!Enqueue(m) \/ Turns!HandleSend(m)
                                   \/ Turns!Listens(m) \/ Turns!Streams(m) \/ Turns!Ends(m)
         \/ "switch" \in Happens /\ \E t \in Thread : Turns!SwitchThread(t)
         \/ Turns!Render \/ Turns!Deliver
         \/ \E s \in sends : \/ Turns!Refused(s) \/ Turns!Thrown(s) \/ Turns!Reject(s)
                             \/ Turns!Ensured(s) \/ Turns!Answered(s) \/ Turns!Failed(s)
                             \/ Turns!Accept(s)
<1>1. ~Turns!InterruptTurn /\ \A m \in UserMessage : ~Turns!RemoveQueuedMessage(m)
  BY DEF Undisturbed, Turns!InterruptTurn, Turns!RemoveQueuedMessage
<1>2. \A s \in sends : ~Turns!Connected(s) /\ ~Turns!CommandDone(s)
  BY DEF TurnShape, TurnSend, Turns!Connected, Turns!CommandDone
<1>3. \A p \in stops : FALSE
  BY DEF TurnShape
<1>4. \A t \in Thread : Turns!SwitchThread(t) => "switch" \in Happens
  BY DEF Turns!SwitchThread
<1> QED BY <1>1, <1>2, <1>3, <1>4 DEF Turns!Next, Turns!User, Turns!Trouble, Turns!Continue

\* The types hold after every step.
LEMMA TurnShapeStep ==
  ASSUME Turns!ThreadAssumption, Undisturbed, TurnShape, Placed, Turns!Next
  PROVE  TurnShape'
<1>1. /\ \A m \in UserMessage : m # NoMessage
      /\ \A m \in UserMessage : m \notin Command
  BY DEF Turns!ThreadAssumption, Undisturbed
<1>2. ASSUME NEW m \in UserMessage, Turns!Enqueue(m)
      PROVE  TurnShape'
  <2>1. written' \in Seq(Line)
    BY <1>2, AppendIs DEF TurnShape, Turns!Enqueue, Turns!Write, Line
  <2>2. Append(box[active].queue, m) \in Seq(UserMessage)
    BY AppendIs DEF TurnShape, TurnBox
  <2>3. box' \in [Thread -> TurnBox]
    BY <1>2, <2>2 DEF TurnShape, TurnBox, Turns!Enqueue
  <2> QED BY <1>2, <2>1, <2>3 DEF TurnShape, Turns!Enqueue
<1>3. ASSUME NEW m \in UserMessage, Turns!HandleSend(m)
      PROVE  TurnShape'
  <2>1. written' \in Seq(Line)
    BY <1>3, AppendIs DEF TurnShape, Turns!HandleSend, Turns!Write, Line
  <2>2. /\ box' = [box EXCEPT ![active].inFlight = m, ![active].started = FALSE]
        /\ optimistic' = optimistic \cup {active}
        /\ sends' = sends \cup {Turns!Send(m, active, active, "composer", "ensure")}
    BY <1>1, <1>3 DEF TurnShape, Turns!HandleSend, Turns!SendDirect, Turns!Called
  <2>3. box' \in [Thread -> TurnBox]
    BY <2>2 DEF TurnShape, TurnBox
  <2>4. sends' \subseteq TurnSend
    BY <2>2 DEF TurnShape, TurnSend, Turns!Send
  <2> QED BY <1>3, <2>1, <2>2, <2>3, <2>4 DEF TurnShape, Turns!HandleSend
<1>4. ASSUME NEW t \in Thread, Turns!SwitchThread(t)
      PROVE  TurnShape'
  BY <1>4 DEF TurnShape, Turns!SwitchThread
<1>5. CASE Turns!Render
  <2>1. CASE Turns!MayFlush(box[active])
    <3> DEFINE m == Head(box[active].queue)
    <3>1. box[active].queue \in Seq(UserMessage) /\ box[active].queue # <<>>
      BY <2>1 DEF TurnShape, TurnBox, Turns!MayFlush
    <3>2. m \in UserMessage /\ Tail(box[active].queue) \in Seq(UserMessage)
      BY <3>1, TailIs
    <3>3. sends' = sends \cup {Turns!Send(m, active, active, "queue", "ensure")}
      BY <1>1, <1>5, <2>1, <3>2 DEF Turns!Render, Turns!Called
    <3>4. sends' \subseteq TurnSend
      BY <3>2, <3>3 DEF TurnShape, TurnSend, Turns!Send
    <3>5. [queue |-> Tail(box[active].queue), started |-> FALSE, inFlight |-> m] \in TurnBox
      BY <3>2 DEF TurnBox
    <3>6. box' = [box EXCEPT ![active] =
                   [queue |-> Tail(box[active].queue), started |-> FALSE, inFlight |-> m]]
      BY <1>5, <2>1 DEF Turns!Render
    <3>7. box' \in [Thread -> TurnBox]
      BY <3>5, <3>6 DEF TurnShape
    <3> QED BY <1>5, <2>1, <3>4, <3>7 DEF TurnShape, Turns!Render
  <2>2. CASE ~Turns!MayFlush(box[active])
    <3>1. Turns!Tracked(box[active]) \in TurnBox
      BY DEF TurnShape, TurnBox, Turns!Tracked
    <3>2. box' \in [Thread -> TurnBox]
      BY <1>5, <2>2, <3>1 DEF TurnShape, Turns!Render
    <3> QED BY <1>5, <2>2, <3>2 DEF TurnShape, Turns!Render
  <2> QED BY <2>1, <2>2
<1>6. CASE Turns!Deliver
  <2>1. Head(events) \in TurnEvent /\ Tail(events) \in Seq(TurnEvent)
    BY <1>6, TailIs DEF Turns!Deliver, TurnShape
  <2> DEFINE e == Head(events)
  <2>2. ~ (e.thread \in stopsDue)
    BY DEF TurnShape
  <2>3. status' \in [Thread -> TurnStatus] /\ stopsDue' = {} /\ stops' = {}
    <3> HIDE DEF e
    <3>1. e \in TurnEvent /\ stopsDue = {} /\ stops = {}
      BY <2>1 DEF e, TurnShape
    <3>2. CASE Turns!OnTurnStarted(e)
      <4>1. /\ status' = [status EXCEPT ![e.thread] = [processing |-> TRUE, turn |-> e.turn]]
            /\ stopsDue' = stopsDue /\ stops' = stops
        BY <3>1, <3>2 DEF Turns!OnTurnStarted
      <4>2. [processing |-> TRUE, turn |-> e.turn] \in TurnStatus /\ e.thread \in Thread
        BY <3>1 DEF TurnStatus, TurnEvent
      <4> QED BY <3>1, <4>1, <4>2 DEF TurnShape
    <3>3. CASE Turns!OnTurnCompleted(e)
      BY <3>1, <3>3 DEF Turns!OnTurnCompleted, TurnShape, TurnStatus, TurnEvent, Turns!Idle
    <3>4. CASE Turns!OnTurnError(e)
      BY <3>1, <3>4 DEF Turns!OnTurnError, TurnShape, TurnStatus, TurnEvent, Turns!Idle
    <3>5. CASE Turns!OnDelta(e)
      BY <3>1, <3>5 DEF Turns!OnDelta, TurnShape, TurnStatus, TurnEvent
    <3> QED BY <1>6, <3>2, <3>3, <3>4, <3>5 DEF Turns!Deliver, e
  <2> QED BY <1>6, <2>1, <2>3 DEF TurnShape, Turns!Deliver
<1>7. ASSUME NEW s \in sends,
             \/ Turns!Refused(s) \/ Turns!Thrown(s) \/ Turns!Reject(s) \/ Turns!Ensured(s)
             \/ Turns!Answered(s) \/ Turns!Failed(s) \/ Turns!Accept(s)
      PROVE  TurnShape'
  <2>1. /\ s \in TurnSend
        /\ [s EXCEPT !.stage = "request"] \in TurnSend
        /\ [s EXCEPT !.stage = "accepted"] \in TurnSend
        /\ [s EXCEPT !.stage = "failed"] \in TurnSend
    BY DEF TurnShape, TurnSend
  <2>2. s.thread \in Thread /\ s.to \in Thread /\ s.msg \in UserMessage
    BY <2>1 DEF TurnSend
  <2>3. CASE Turns!Refused(s)
    BY <2>3 DEF TurnShape, Turns!Refused, Turns!client
  <2>4. CASE Turns!Thrown(s)
    <3>1. <<s.msg>> \o box[s.thread].queue \in Seq(UserMessage)
      BY <2>2, PrependIs DEF TurnShape, TurnBox
    <3>2. box' \in [Thread -> TurnBox]
      <4> DEFINE back == [queue |-> <<s.msg>> \o box[s.thread].queue,
                          inFlight |-> NoMessage, started |-> FALSE]
      <4>1. back \in TurnBox
        BY <3>1 DEF TurnBox
      <4>2. CASE s.from = "queue"
        <5>1. box' = [box EXCEPT ![s.thread] = back]
          BY <2>4, <4>2 DEF Turns!Thrown
        <5> HIDE DEF back
        <5> QED BY <4>1, <5>1 DEF TurnShape
      <4>3. CASE s.from # "queue" /\ s.stage = "ensure"
        <5>1. box' = [box EXCEPT ![s.thread].inFlight = NoMessage, ![s.thread].started = FALSE]
          BY <2>4, <4>3 DEF Turns!Thrown
        <5> QED BY <2>2, <5>1 DEF TurnShape, TurnBox
      <4>4. CASE s.from # "queue" /\ s.stage # "ensure"
        BY <2>4, <4>4 DEF Turns!Thrown, TurnShape
      <4> QED BY <4>2, <4>3, <4>4
    <3>3. optimistic' \subseteq Thread
      BY <2>4 DEF TurnShape, Turns!Thrown
    <3> QED BY <2>4, <3>2, <3>3 DEF TurnShape, Turns!Thrown
  <2>5. CASE Turns!Reject(s)
    BY <2>1, <2>5 DEF TurnShape, Turns!Reject, Turns!client
  <2>6. CASE Turns!Ensured(s)
    <3>1. status' \in [Thread -> TurnStatus]
      BY <2>2, <2>6 DEF TurnShape, TurnStatus, Turns!Ensured
    <3> QED BY <2>1, <2>6, <3>1 DEF TurnShape, Turns!Ensured
  <2>7. CASE Turns!Answered(s)
    <3>1. status' \in [Thread -> TurnStatus]
      BY <2>2, <2>7 DEF TurnShape, TurnStatus, Turns!Answered
    <3> QED BY <2>7, <3>1 DEF TurnShape, Turns!Answered
  <2>8. CASE Turns!Failed(s)
    <3>1. status' \in [Thread -> TurnStatus]
      BY <2>2, <2>8 DEF TurnShape, TurnStatus, Turns!Failed, Turns!Idle
    <3> QED BY <2>8, <3>1 DEF TurnShape, Turns!Failed
  <2>9. CASE Turns!Accept(s)
    <3>1. Turns!Event("started", s.msg, s.to) \in TurnEvent
      BY <2>2 DEF Turns!Event, TurnEvent
    <3>2. events' \in Seq(TurnEvent) /\ served' \in Seq(UserMessage)
      BY <2>2, <2>9, <3>1, AppendIs DEF TurnShape, Turns!Accept
    <3>3. turns' \in [UserMessage -> ServiceTurn]
      BY <2>2, <2>9 DEF TurnShape, ServiceTurn, Underway, Turns!Accept
    <3> QED BY <2>1, <2>9, <3>2, <3>3 DEF TurnShape, Turns!Accept, Turns!client
  <2> QED BY <1>7, <2>3, <2>4, <2>5, <2>6, <2>7, <2>8, <2>9
<1>8. ASSUME NEW m \in UserMessage, Turns!Listens(m) \/ Turns!Streams(m) \/ Turns!Ends(m)
      PROVE  TurnShape'
  <2>1. m \in DOMAIN turns /\ turns[m].phase # "none" /\ turns[m].thread \in Thread
    BY <1>8 DEF TurnShape, ServiceTurn, Placed, Turns!Listens, Turns!Streams, Turns!Ends
  <2>2. \A kind \in {"delta", "completed", "failed"} :
          Append(events, Turns!Event(kind, m, turns[m].thread)) \in Seq(TurnEvent)
    BY <2>1, AppendIs DEF Turns!Event, TurnEvent, TurnShape
  <2>3. CASE Turns!Listens(m)
    <3>1. turns' \in [UserMessage -> ServiceTurn]
      BY <2>3 DEF TurnShape, ServiceTurn, Underway, Turns!Listens
    <3> QED BY <2>3, <3>1 DEF TurnShape, Turns!Listens, Turns!client
  <2>4. CASE Turns!Streams(m)
    <3>1. turns' \in [UserMessage -> ServiceTurn]
      BY <2>4 DEF TurnShape, ServiceTurn, Underway, Turns!Streams
    <3> QED BY <2>2, <2>4, <3>1 DEF TurnShape, Turns!Streams, Turns!client
  <2>5. CASE Turns!Ends(m)
    <3>1. turns' \in [UserMessage -> ServiceTurn]
      BY <2>5 DEF TurnShape, ServiceTurn, Underway, Turns!Ends
    <3>2. events' \in Seq(TurnEvent)
      BY <2>2, <2>5 DEF Turns!Ends
    <3> QED BY <2>5, <3>1, <3>2 DEF TurnShape, Turns!Ends, Turns!client
  <2> QED BY <1>8, <2>3, <2>4, <2>5
<1> QED BY <1>2, <1>3, <1>4, <1>5, <1>6, <1>7, <1>8, StepsAre

-----------------------------------------------------------------------------
\* The stream of events as a set.
LEMMA AppendComes ==
  ASSUME TurnShape, EndsLast, NEW e \in TurnEvent, events' = Append(events, e)
  PROVE  /\ Coming(events') = Coming(events) \cup {e}
         /\ (\A f \in Coming(events) : Final(f) => f.thread # e.thread) => EndsLast'
<1>1. events \in Seq(TurnEvent)
  BY DEF TurnShape
<1> DEFINE n == Len(events) + 1
<1>2. /\ n \in DOMAIN events' /\ events'[n] = e
      /\ \A i \in DOMAIN events : /\ i \in Nat /\ i < n
                                  /\ i \in DOMAIN events' /\ events'[i] = events[i]
      /\ \A i \in DOMAIN events' : i \in DOMAIN events \/ i = n
  BY <1>1, AppendIs
<1>3. n \in Nat
  BY <1>1
<1> HIDE DEF n
<1>4. Coming(events') = Coming(events) \cup {e}
  BY <1>2 DEF Coming
<1>5. ASSUME \A f \in Coming(events) : Final(f) => f.thread # e.thread,
             NEW i \in DOMAIN events', NEW j \in DOMAIN events', i < j, Final(events'[i])
      PROVE  events'[j].thread # events'[i].thread
  <2>1. i \in DOMAIN events /\ events'[i] = events[i]
    BY <1>2, <1>3, <1>5
  <2>2. CASE j \in DOMAIN events
    BY <1>2, <1>5, <2>1, <2>2 DEF EndsLast
  <2>3. CASE j = n
    <3>1. events[i] \in Coming(events)
      BY <2>1 DEF Coming
    <3> QED BY <1>2, <1>5, <2>1, <2>3, <3>1
  <2> QED BY <1>2, <2>2, <2>3
<1> QED BY <1>4, <1>5 DEF EndsLast, Final

LEMMA HeadComes ==
  ASSUME TurnShape, EndsLast, events # <<>>, events' = Tail(events)
  PROVE  /\ Head(events) \in Coming(events)
         /\ Coming(events) = Coming(events') \cup {Head(events)}
         /\ Final(Head(events)) => \A f \in Coming(events') : f.thread # Head(events).thread
         /\ EndsLast'
<1>1. events \in Seq(TurnEvent)
  BY DEF TurnShape
<1>2. /\ Head(events) = events[1] /\ 1 \in DOMAIN events
      /\ \A i \in DOMAIN events' :
           i \in Nat /\ i + 1 \in DOMAIN events /\ 1 < i + 1 /\ events'[i] = events[i + 1]
      /\ \A i \in DOMAIN events : i = 1 \/ (i - 1 \in DOMAIN events' /\ events'[i - 1] = events[i])
  BY <1>1, TailIs
<1>3. Head(events) \in Coming(events)
  BY <1>2 DEF Coming
<1>4. Coming(events) = Coming(events') \cup {Head(events)}
  <2> DEFINE e == Head(events)
  <2> HIDE DEF e
  <2>1. ASSUME NEW f \in Coming(events)
        PROVE  f \in Coming(events') \/ f = e
    <3>1. PICK i \in DOMAIN events : f = events[i]
      BY DEF Coming
    <3>2. CASE i = 1
      BY <1>2, <3>1, <3>2 DEF e
    <3>3. CASE i - 1 \in DOMAIN events' /\ events'[i - 1] = events[i]
      BY <3>1, <3>3 DEF Coming
    <3> QED BY <1>2, <3>2, <3>3
  <2>2. ASSUME NEW f \in Coming(events')
        PROVE  f \in Coming(events)
    <3>1. PICK i \in DOMAIN events' : f = events'[i]
      BY DEF Coming
    <3>2. i + 1 \in DOMAIN events /\ events'[i] = events[i + 1]
      BY <1>2
    <3> QED BY <3>1, <3>2 DEF Coming
  <2>3. e \in Coming(events)
    BY <1>3 DEF e
  <2> QED BY <2>1, <2>2, <2>3 DEF e
<1>5. ASSUME Final(Head(events)), NEW f \in Coming(events')
      PROVE  f.thread # Head(events).thread
  <2>1. PICK i \in DOMAIN events' : events'[i] = f
    BY DEF Coming
  <2> QED BY <1>2, <1>5, <2>1 DEF EndsLast
<1>6. ASSUME NEW i \in DOMAIN events', NEW j \in DOMAIN events', i < j, Final(events'[i])
      PROVE  events'[j].thread # events'[i].thread
  <2>1. /\ i + 1 \in DOMAIN events /\ j + 1 \in DOMAIN events /\ i + 1 < j + 1
        /\ events'[i] = events[i + 1] /\ events'[j] = events[j + 1]
    BY <1>2, <1>6
  <2> QED BY <1>6, <2>1 DEF EndsLast
<1> QED BY <1>3, <1>4, <1>5, <1>6 DEF EndsLast, Final

-----------------------------------------------------------------------------
\* The order of what was written.
LEMMA WrittenOnce ==
  ASSUME TurnShape, Once
  PROVE  /\ \A m, n : Before(m, n) => ~Before(n, m)
         /\ \A m : ~Before(m, m)
         /\ \A m : \A t, u : WrittenIn(m, t) /\ WrittenIn(m, u) => t = u
<1>1. \A i \in DOMAIN written : i \in Nat
  BY DEF TurnShape
<1>2. ASSUME NEW m, NEW n, Before(m, n), Before(n, m)
      PROVE  FALSE
  <2>1. PICK i, j \in DOMAIN written : i < j /\ written[i].msg = m /\ written[j].msg = n
    BY <1>2 DEF Before
  <2>2. PICK k, l \in DOMAIN written : k < l /\ written[k].msg = n /\ written[l].msg = m
    BY <1>2 DEF Before
  <2>3. i = l /\ j = k
    BY <2>1, <2>2 DEF Once
  <2> QED BY <1>1, <2>1, <2>2, <2>3
<1>3. ASSUME NEW m, NEW t, NEW u, WrittenIn(m, t), WrittenIn(m, u)
      PROVE  t = u
  BY <1>3 DEF WrittenIn, Once
<1> QED BY <1>2, <1>3

LEMMA WriteIs ==
  ASSUME TurnShape, Once, NEW m \in UserMessage, Turns!Unwritten(m), Turns!Write(m)
  PROVE  /\ Once'
         /\ \A a, b : Before(a, b) => Before(a, b)'
         /\ \A a, t : WrittenIn(a, t) => WrittenIn(a, t)' /\ Before(a, m)'
         /\ \A t : t = active => WrittenIn(m, t)'
         /\ \A t : ~WrittenIn(m, t)
<1> DEFINE e == [msg |-> m, thread |-> active]
           n == Len(written) + 1
<1>1. written \in Seq(Line) /\ e \in Line /\ written' = Append(written, e)
  BY DEF TurnShape, Line, Turns!Write
<1>2. /\ n \in DOMAIN written' /\ written'[n] = e
      /\ \A i \in DOMAIN written :
           i \in Nat /\ i < n /\ i \in DOMAIN written' /\ written'[i] = written[i]
      /\ \A i \in DOMAIN written' : i \in DOMAIN written \/ i = n
  BY <1>1, AppendIs
<1>3. e.msg = m /\ e.thread = active
  OBVIOUS
<1> HIDE DEF e, n
<1>4. Once'
  BY <1>2, <1>3 DEF Once, Turns!Unwritten
<1>5. \A a, b : Before(a, b) => Before(a, b)'
  BY <1>2 DEF Before
<1>6. ASSUME NEW a, NEW t, WrittenIn(a, t)
      PROVE  WrittenIn(a, t)' /\ Before(a, m)'
  <2>1. PICK i \in DOMAIN written : written[i].msg = a /\ written[i].thread = t
    BY <1>6 DEF WrittenIn
  <2>2. i \in DOMAIN written' /\ written'[i] = written[i] /\ i < n
    BY <1>2
  <2>3. written'[i].msg = a /\ written'[i].thread = t /\ written'[n].msg = m
    BY <1>2, <1>3, <2>1, <2>2
  <2>4. WrittenIn(a, t)'
    BY <2>2, <2>3 DEF WrittenIn
  <2>5. Before(a, m)'
    BY <1>2, <2>2, <2>3 DEF Before
  <2> QED BY <2>4, <2>5
<1>7. \A t : t = active => WrittenIn(m, t)'
  BY <1>2, <1>3 DEF WrittenIn
<1>8. \A t : ~WrittenIn(m, t)
  BY DEF WrittenIn, Turns!Unwritten
<1> QED BY <1>4, <1>5, <1>6, <1>7, <1>8

\* When nothing is written the order stays as it is.
LEMMA NothingWritten ==
  ASSUME Once, written' = written
  PROVE  /\ Once'
         /\ \A a, b : Before(a, b) => Before(a, b)'
         /\ \A a, t : WrittenIn(a, t) => WrittenIn(a, t)'
BY DEF Once, Before, WrittenIn

-----------------------------------------------------------------------------
\* A thread that a step leaves alone stays right.
LEMMA OtherFlow ==
  ASSUME TurnShape, NEW u \in Thread, ThreadFlow(u),
         box'[u].inFlight = box[u].inFlight, box'[u].started = box[u].started,
         status'[u].processing = status[u].processing,
         \A m \in UserMessage : \/ turns'[m] = turns[m]
                            \/ /\ turns'[m].thread # u /\ turns[m].thread # u
                               /\ box[u].inFlight # m,
         \A s : s.thread = u => (s \in sends <=> s \in sends'),
         \A e : e.thread = u => (e \in Coming(events) <=> e \in Coming(events')),
         u \in optimistic <=> u \in optimistic'
  PROVE  ThreadFlow(u)'
<1>1. \A s \in sends : s.thread = u => s.msg \in UserMessage
  BY DEF TurnShape, TurnSend
<1>2. \A e \in Coming(events) : e.turn \in UserMessage
  <2>1. \A i \in DOMAIN events : events[i] \in TurnEvent
    BY DEF TurnShape
  <2> QED BY <2>1 DEF TurnEvent, Coming
<1>3. ASSUME NEW s \in sends', s.thread = u
      PROVE  SendRight(s)'
  <2>1. s \in sends /\ SendRight(s) /\ s.msg \in UserMessage
    BY <1>1, <1>3 DEF ThreadFlow
  <2> QED BY <1>3, <2>1 DEF SendRight, Unaccepted
<1>4. ASSUME NEW s \in sends', NEW r \in sends', Unaccepted(s), Unaccepted(r),
             s.thread = u, r.thread = u
      PROVE  s = r
  BY <1>4 DEF ThreadFlow
<1>5. ASSUME NEW m \in UserMessage, turns'[m].thread = u
      PROVE  TurnRight(m)'
  BY <1>5 DEF ThreadFlow, TurnRight
<1>6. ASSUME NEW e \in Coming(events'), e.thread = u
      PROVE  EventRight(e)'
  <2>1. e \in Coming(events) /\ EventRight(e) /\ e.turn \in UserMessage
    BY <1>2, <1>6 DEF ThreadFlow
  <2> QED BY <1>6, <2>1 DEF EventRight, Final
<1>7. ProcessingRight(u)'
  <2> SUFFICES ASSUME status'[u].processing PROVE ProcessingRight(u)'
    BY DEF ProcessingRight
  <2>1. CASE \E s \in sends : s.thread = u /\ s.stage \in {"request", "failed"}
    BY <2>1 DEF ThreadFlow, ProcessingRight
  <2>2. CASE \E m \in UserMessage : turns[m].phase \in Underway /\ turns[m].thread = u
    BY <2>2 DEF ThreadFlow, ProcessingRight
  <2>3. CASE \E e \in Coming(events) : e.thread = u /\ Final(e)
    BY <2>3 DEF ThreadFlow, ProcessingRight, Final
  <2> QED BY <2>1, <2>2, <2>3 DEF ThreadFlow, ProcessingRight
<1>8. u \notin optimistic' => box'[u].inFlight = NoMessage
  BY DEF ThreadFlow
<1> QED BY <1>3, <1>4, <1>5, <1>6, <1>7, <1>8 DEF ThreadFlow, Unaccepted

LEMMA OtherOrder ==
  ASSUME NEW u \in Thread, ThreadOrder(u), box'[u] = box[u],
         \A n \in UserMessage : turns'[n].thread = u => turns[n].thread = u,
         \A a, b : Before(a, b) => Before(a, b)',
         \A a, t : WrittenIn(a, t) => WrittenIn(a, t)'
  PROVE  ThreadOrder(u)'
BY DEF ThreadOrder

\* While a send of a thread waits, no turn of the thread is under way and no event of it on its
\* way, and no other send of it waits.
LEMMA WaitsAlone ==
  ASSUME TurnShape, NEW s \in sends, Unaccepted(s), ThreadFlow(s.thread)
  PROVE  /\ s \in TurnSend /\ s.to = s.thread /\ s.thread \in Thread /\ s.msg \in UserMessage
         /\ box[s.thread].inFlight = s.msg /\ turns[s.msg].phase = "none"
         /\ \A r \in sends : Unaccepted(r) /\ r.thread = s.thread => r = s
         /\ \A m \in UserMessage : turns[m].thread = s.thread => turns[m].phase \notin Underway
         /\ \A e \in Coming(events) : e.thread # s.thread
<1>1. s \in TurnSend /\ s.thread \in Thread /\ s.msg \in UserMessage
  BY DEF TurnShape, TurnSend
<1>2. SendRight(s)
  BY DEF ThreadFlow
<1>3. /\ s.to = s.thread /\ box[s.thread].inFlight = s.msg /\ turns[s.msg].phase = "none"
  BY <1>2 DEF SendRight
<1>4. \A r \in sends : Unaccepted(r) /\ r.thread = s.thread => r = s
  BY DEF ThreadFlow
<1>5. ASSUME NEW m \in UserMessage, turns[m].thread = s.thread
      PROVE  turns[m].phase \notin Underway
  BY <1>3, <1>5 DEF ThreadFlow, TurnRight, Underway
<1>6. ASSUME NEW e \in Coming(events), e.thread = s.thread
      PROVE  FALSE
  BY <1>3, <1>6 DEF ThreadFlow, EventRight
<1> QED BY <1>1, <1>3, <1>4, <1>5, <1>6

\* A step that neither writes, queues nor serves leaves the order alone.
LEMMA StillInOrder ==
  ASSUME TurnInv, UNCHANGED <<box, turns, events, written, served>>
  PROVE  /\ Once' /\ Placed' /\ EndsLast' /\ ServedInOrder'
         /\ \A t \in Thread : ThreadOrder(t)'
<1>1. /\ box' = box /\ turns' = turns /\ events' = events /\ written' = written
      /\ served' = served /\ Once
  BY DEF TurnInv
<1>2. Once' /\ (\A a, b : Before(a, b) => Before(a, b)')
      /\ \A a, t : WrittenIn(a, t) => WrittenIn(a, t)'
  BY <1>1, NothingWritten
<1>3. ASSUME NEW t \in Thread
      PROVE  ThreadOrder(t)'
  BY <1>1, <1>2, OtherOrder DEF TurnInv
<1>4. Placed' /\ EndsLast'
  BY <1>1 DEF TurnInv, Placed, EndsLast, Final
<1>5. ServedInOrder'
  BY <1>1, <1>2 DEF TurnInv, ServedInOrder
<1> QED BY <1>2, <1>3, <1>4, <1>5

\* A step of a send that changes its stage or ends it, and the status of its thread at most.
LEMMA RequestKeeps ==
  ASSUME TurnInv, TurnShape', NEW s \in sends,
         UNCHANGED <<box, optimistic, turns, events, written, served>>,
         \A r : r.thread # s.thread => (r \in sends <=> r \in sends'),
         \A u \in Thread : u # s.thread => status'[u] = status[u],
         ThreadFlow(s.thread)'
  PROVE  TurnInv'
<1> DEFINE t == s.thread
<1>1. /\ box' = box /\ turns' = turns /\ events' = events /\ optimistic' = optimistic
      /\ TurnShape
  BY DEF TurnInv
<1> HIDE DEF t
<1>2. ASSUME NEW u \in Thread, u # t
      PROVE  ThreadFlow(u)'
  BY <1>1, <1>2, OtherFlow DEF t, TurnInv
<1>3. \A u \in Thread : ThreadFlow(u)'
  BY <1>2 DEF t
<1> QED BY <1>3, StillInOrder DEF TurnInv

\* sendUserMessage goes on: the thread is processing, and the message requested.
LEMMA EnsuredKeeps ==
  ASSUME Turns!ThreadAssumption, TurnInv, TurnShape', NEW s \in sends, Turns!Ensured(s)
  PROVE  TurnInv'
<1> DEFINE next == [s EXCEPT !.stage = "request"]
           t == s.thread
<1>1. Unaccepted(s) /\ s.stage = "ensure" /\ TurnShape /\ t \in Thread
  BY DEF Turns!Ensured, Unaccepted, TurnInv, TurnShape, TurnSend
<1>2. ThreadFlow(t)
  BY <1>1 DEF TurnInv
<1>3. /\ s \in TurnSend /\ s.to = s.thread /\ s.msg \in UserMessage
      /\ box[t].inFlight = s.msg /\ turns[s.msg].phase = "none"
      /\ \A r \in sends : Unaccepted(r) /\ r.thread = t => r = s
      /\ \A m \in UserMessage : turns[m].thread = t => turns[m].phase \notin Underway
      /\ \A e \in Coming(events) : e.thread # t
  BY <1>1, <1>2, WaitsAlone
<1>4. next.thread = t /\ next.to = t /\ next.msg = s.msg /\ next.stage = "request"
  BY <1>3 DEF TurnSend
<1>5. /\ sends' = (sends \ {s}) \cup {next}
      /\ box' = box /\ turns' = turns /\ events' = events /\ optimistic' = optimistic
      /\ written' = written /\ served' = served
      /\ status'[t].processing = TRUE
      /\ \A u \in Thread : u # t => status'[u] = status[u]
  BY <1>1, <1>3 DEF Turns!Ensured, TurnShape, TurnStatus
<1> HIDE DEF next, t
<1>6. \A r : r.thread # t => (r \in sends <=> r \in sends')
  BY <1>4, <1>5 DEF t
<1>7. ThreadFlow(t)'
  <2>1. \A r \in sends' : r.thread = t => r = next \/ (r \in sends /\ ~Unaccepted(r))
    BY <1>3, <1>5
  <2>2. SendRight(next)'
    BY <1>3, <1>4, <1>5 DEF SendRight, Unaccepted
  <2>3. ASSUME NEW r \in sends', r.thread = t
        PROVE  SendRight(r)'
    <3>1. CASE r \in sends /\ ~Unaccepted(r)
      BY <1>2, <1>5, <2>3, <3>1 DEF ThreadFlow, SendRight, Unaccepted
    <3> QED BY <2>1, <2>2, <2>3, <3>1
  <2>4. ASSUME NEW m \in UserMessage, turns'[m].thread = t
        PROVE  TurnRight(m)'
    BY <1>3, <1>5, <2>4 DEF TurnRight
  <2>5. ProcessingRight(t)'
    <3>1. next \in sends' /\ box'[t].inFlight # NoMessage
      BY <1>3, <1>5 DEF Turns!ThreadAssumption
    <3> QED BY <1>4, <3>1 DEF ProcessingRight
  <2>6. \A e \in Coming(events') : e.thread # t
    BY <1>3, <1>5
  <2>7. t \notin optimistic' => box'[t].inFlight = NoMessage
    BY <1>2, <1>5 DEF ThreadFlow
  <2>8. \A r, q \in sends' : Unaccepted(r) /\ Unaccepted(q) /\ r.thread = t /\ q.thread = t => r = q
    BY <2>1
  <2> QED BY <2>3, <2>4, <2>5, <2>6, <2>7, <2>8 DEF ThreadFlow, Unaccepted
<1> QED BY <1>5, <1>6, <1>7, RequestKeeps DEF t

\* It returns early: the thread is not processing.
LEMMA RefusedKeeps ==
  ASSUME Turns!ThreadAssumption, TurnInv, TurnShape', NEW s \in sends, Turns!Refused(s)
  PROVE  TurnInv'
<1> DEFINE t == s.thread
<1>1. Unaccepted(s) /\ s.stage = "ensure" /\ TurnShape /\ t \in Thread
  BY DEF Turns!Refused, Unaccepted, TurnInv, TurnShape, TurnSend
<1>2. ThreadFlow(t)
  BY <1>1 DEF TurnInv
<1>3. /\ \A r \in sends : Unaccepted(r) /\ r.thread = t => r = s
      /\ \A m \in UserMessage : turns[m].thread = t => turns[m].phase \notin Underway
      /\ \A e \in Coming(events) : e.thread # t
  BY <1>1, <1>2, WaitsAlone
<1>4. /\ sends' = sends \ {s} /\ box' = box /\ turns' = turns /\ events' = events
      /\ optimistic' = optimistic /\ written' = written /\ served' = served
      /\ status' = status /\ ~status[t].processing
  BY <1>1, <1>2 DEF Turns!Refused, Turns!client, ThreadFlow, SendRight
<1> HIDE DEF t
<1>5. \A r : r.thread # t => (r \in sends <=> r \in sends')
  BY <1>4 DEF t
<1>6. ThreadFlow(t)'
  <2>1. ASSUME NEW r \in sends', r.thread = t
        PROVE  SendRight(r)'
    BY <1>2, <1>4, <2>1 DEF ThreadFlow, SendRight, Unaccepted
  <2>2. ASSUME NEW m \in UserMessage, turns'[m].thread = t
        PROVE  TurnRight(m)'
    BY <1>3, <1>4, <2>2 DEF TurnRight
  <2>3. ProcessingRight(t)'
    BY <1>4 DEF ProcessingRight
  <2>4. \A e \in Coming(events') : e.thread # t
    BY <1>3, <1>4
  <2>5. t \notin optimistic' => box'[t].inFlight = NoMessage
    BY <1>2, <1>4 DEF ThreadFlow
  <2>6. \A r, q \in sends' : Unaccepted(r) /\ Unaccepted(q) /\ r.thread = t /\ q.thread = t => r = q
    BY <1>3, <1>4
  <2> QED BY <2>1, <2>2, <2>3, <2>4, <2>5, <2>6 DEF ThreadFlow, Unaccepted
<1> QED BY <1>4, <1>5, <1>6, RequestKeeps DEF t

\* The service refuses the message: the thread is processing until the answer arrives.
LEMMA RejectKeeps ==
  ASSUME Turns!ThreadAssumption, TurnInv, TurnShape', NEW s \in sends, Turns!Reject(s)
  PROVE  TurnInv'
<1> DEFINE next == [s EXCEPT !.stage = "failed"]
           t == s.thread
<1>1. Unaccepted(s) /\ s.stage = "request" /\ TurnShape /\ t \in Thread
  BY DEF Turns!Reject, Unaccepted, TurnInv, TurnShape, TurnSend
<1>2. ThreadFlow(t)
  BY <1>1 DEF TurnInv
<1>3. /\ s \in TurnSend /\ s.to = s.thread /\ s.msg \in UserMessage
      /\ box[t].inFlight = s.msg /\ turns[s.msg].phase = "none"
      /\ \A r \in sends : Unaccepted(r) /\ r.thread = t => r = s
      /\ \A m \in UserMessage : turns[m].thread = t => turns[m].phase \notin Underway
      /\ \A e \in Coming(events) : e.thread # t
  BY <1>1, <1>2, WaitsAlone
<1>4. next.thread = t /\ next.to = t /\ next.msg = s.msg /\ next.stage = "failed"
  BY <1>3 DEF TurnSend
<1>5. /\ sends' = (sends \ {s}) \cup {next}
      /\ box' = box /\ turns' = turns /\ events' = events /\ optimistic' = optimistic
      /\ written' = written /\ served' = served
      /\ status' = status /\ status[t].processing
  BY <1>1, <1>2 DEF Turns!Reject, Turns!client, ThreadFlow, SendRight
<1> HIDE DEF next, t
<1>6. \A r : r.thread # t => (r \in sends <=> r \in sends')
  BY <1>4, <1>5 DEF t
<1>7. ThreadFlow(t)'
  <2>1. \A r \in sends' : r.thread = t => r = next \/ (r \in sends /\ ~Unaccepted(r))
    BY <1>3, <1>5
  <2>2. SendRight(next)'
    BY <1>3, <1>4, <1>5 DEF SendRight, Unaccepted
  <2>3. ASSUME NEW r \in sends', r.thread = t
        PROVE  SendRight(r)'
    <3>1. CASE r \in sends /\ ~Unaccepted(r)
      BY <1>2, <1>5, <2>3, <3>1 DEF ThreadFlow, SendRight, Unaccepted
    <3> QED BY <2>1, <2>2, <2>3, <3>1
  <2>4. ASSUME NEW m \in UserMessage, turns'[m].thread = t
        PROVE  TurnRight(m)'
    BY <1>3, <1>5, <2>4 DEF TurnRight
  <2>5. ProcessingRight(t)'
    <3>1. next \in sends' /\ box'[t].inFlight # NoMessage
      BY <1>3, <1>5 DEF Turns!ThreadAssumption
    <3> QED BY <1>4, <3>1 DEF ProcessingRight
  <2>6. \A e \in Coming(events') : e.thread # t
    BY <1>3, <1>5
  <2>7. t \notin optimistic' => box'[t].inFlight = NoMessage
    BY <1>2, <1>5 DEF ThreadFlow
  <2>8. \A r, q \in sends' : Unaccepted(r) /\ Unaccepted(q) /\ r.thread = t /\ q.thread = t => r = q
    BY <2>1
  <2> QED BY <2>3, <2>4, <2>5, <2>6, <2>7, <2>8 DEF ThreadFlow, Unaccepted
<1> QED BY <1>5, <1>6, <1>7, RequestKeeps DEF t

\* The answer names the turn; whether the thread is processing stays as it is.
LEMMA AnsweredKeeps ==
  ASSUME Turns!ThreadAssumption, TurnInv, TurnShape', NEW s \in sends, Turns!Answered(s)
  PROVE  TurnInv'
<1> DEFINE t == s.thread
<1>1. /\ ~Unaccepted(s) /\ s.stage = "accepted" /\ TurnShape /\ t \in Thread
      /\ s.msg \in UserMessage
  BY DEF Turns!Answered, Unaccepted, TurnInv, TurnShape, TurnSend
<1>2. ThreadFlow(t) /\ s.to = t
  BY <1>1 DEF TurnInv, ThreadFlow, SendRight
<1>3. /\ sends' = sends \ {s} /\ box' = box /\ turns' = turns /\ events' = events
      /\ optimistic' = optimistic /\ written' = written /\ served' = served
      /\ status'[t].processing = status[t].processing
      /\ \A u \in Thread : u # t => status'[u] = status[u]
  BY <1>1, <1>2 DEF Turns!Answered, TurnShape, TurnStatus
<1> HIDE DEF t
<1>4. \A r : r.thread # t => (r \in sends <=> r \in sends')
  BY <1>3 DEF t
<1>5. ThreadFlow(t)'
  <2>1. ASSUME NEW r \in sends', r.thread = t
        PROVE  SendRight(r)'
    BY <1>2, <1>3, <2>1 DEF ThreadFlow, SendRight, Unaccepted
  <2>2. ASSUME NEW m \in UserMessage, turns'[m].thread = t
        PROVE  TurnRight(m)'
    BY <1>2, <1>3, <2>2 DEF ThreadFlow, TurnRight
  <2>3. ProcessingRight(t)'
    <3>1. ASSUME NEW r \in sends, r.thread = t, r.stage \in {"request", "failed"}
          PROVE  r \in sends'
      BY <1>1, <1>3, <3>1
    <3> QED BY <1>2, <1>3, <3>1 DEF ThreadFlow, ProcessingRight, Final
  <2>4. ASSUME NEW e \in Coming(events'), e.thread = t
        PROVE  EventRight(e)'
    BY <1>2, <1>3, <2>4 DEF ThreadFlow, EventRight, Final
  <2>5. t \notin optimistic' => box'[t].inFlight = NoMessage
    BY <1>2, <1>3 DEF ThreadFlow
  <2>6. \A r, q \in sends' : Unaccepted(r) /\ Unaccepted(q) /\ r.thread = t /\ q.thread = t => r = q
    BY <1>2, <1>3 DEF ThreadFlow
  <2> QED BY <2>1, <2>2, <2>3, <2>4, <2>5, <2>6 DEF ThreadFlow, Unaccepted
<1> QED BY <1>3, <1>4, <1>5, RequestKeeps DEF t

\* The request failed: the thread is idle, and nothing of it is under way.
LEMMA FailedKeeps ==
  ASSUME Turns!ThreadAssumption, TurnInv, TurnShape', NEW s \in sends, Turns!Failed(s)
  PROVE  TurnInv'
<1> DEFINE t == s.thread
<1>1. Unaccepted(s) /\ s.stage = "failed" /\ TurnShape /\ t \in Thread
  BY DEF Turns!Failed, Unaccepted, TurnInv, TurnShape, TurnSend
<1>2. ThreadFlow(t)
  BY <1>1 DEF TurnInv
<1>3. /\ s.to = t /\ \A r \in sends : Unaccepted(r) /\ r.thread = t => r = s
      /\ \A m \in UserMessage : turns[m].thread = t => turns[m].phase \notin Underway
      /\ \A e \in Coming(events) : e.thread # t
  BY <1>1, <1>2, WaitsAlone
<1>4. /\ sends' = sends \ {s} /\ box' = box /\ turns' = turns /\ events' = events
      /\ optimistic' = optimistic /\ written' = written /\ served' = served
      /\ ~status'[t].processing
      /\ \A u \in Thread : u # t => status'[u] = status[u]
  BY <1>1, <1>3 DEF Turns!Failed, Turns!Idle, TurnShape, TurnStatus
<1> HIDE DEF t
<1>5. \A r : r.thread # t => (r \in sends <=> r \in sends')
  BY <1>4 DEF t
<1>6. ThreadFlow(t)'
  <2>1. ASSUME NEW r \in sends', r.thread = t
        PROVE  SendRight(r)'
    BY <1>2, <1>3, <1>4, <2>1 DEF ThreadFlow, SendRight, Unaccepted
  <2>2. ASSUME NEW m \in UserMessage, turns'[m].thread = t
        PROVE  TurnRight(m)'
    BY <1>3, <1>4, <2>2 DEF TurnRight
  <2>3. ProcessingRight(t)'
    BY <1>4 DEF ProcessingRight
  <2>4. \A e \in Coming(events') : e.thread # t
    BY <1>3, <1>4
  <2>5. t \notin optimistic' => box'[t].inFlight = NoMessage
    BY <1>2, <1>4 DEF ThreadFlow
  <2>6. \A r, q \in sends' : Unaccepted(r) /\ Unaccepted(q) /\ r.thread = t /\ q.thread = t => r = q
    BY <1>3, <1>4
  <2> QED BY <2>1, <2>2, <2>3, <2>4, <2>5, <2>6 DEF ThreadFlow, Unaccepted
<1> QED BY <1>4, <1>5, <1>6, RequestKeeps DEF t

-----------------------------------------------------------------------------
\* A message in flight, or with a turn, is of one thread only.
LEMMA OneHome ==
  ASSUME Turns!ThreadAssumption, TurnInv, NEW t \in Thread, NEW u \in Thread, u # t,
         NEW m \in UserMessage, box[t].inFlight = m \/ turns[m].thread = t
  PROVE  box[u].inFlight # m /\ turns[m].thread # u
<1>1. m # NoMessage
  BY DEF Turns!ThreadAssumption
<1>2. ThreadOrder(t) /\ ThreadOrder(u)
  BY DEF TurnInv
<1>3. WrittenIn(m, t)
  BY <1>1, <1>2 DEF ThreadOrder
<1>4. ~WrittenIn(m, u)
  BY <1>3, WrittenOnce DEF TurnInv
<1> QED BY <1>1, <1>2, <1>4 DEF ThreadOrder

\* A send that throws puts its message back at the front, or drops it.
LEMMA ThrownKeeps ==
  ASSUME Turns!ThreadAssumption, TurnInv, TurnShape', NEW s \in sends, Turns!Thrown(s)
  PROVE  TurnInv'
<1> DEFINE t == s.thread
           q == box[t].queue
<1>1. Unaccepted(s) /\ s.stage = "ensure" /\ TurnShape /\ t \in Thread
  BY DEF Turns!Thrown, Unaccepted, TurnInv, TurnShape, TurnSend
<1>2. ThreadFlow(t) /\ ThreadOrder(t)
  BY <1>1 DEF TurnInv
<1>3. /\ s.msg \in UserMessage /\ box[t].inFlight = s.msg /\ turns[s.msg].phase = "none"
      /\ \A r \in sends : Unaccepted(r) /\ r.thread = t => r = s
      /\ \A m \in UserMessage : turns[m].thread = t => turns[m].phase \notin Underway
      /\ \A e \in Coming(events) : e.thread # t
  BY <1>1, <1>2, WaitsAlone
<1>4. /\ sends' = sends \ {s} /\ turns' = turns /\ events' = events
      /\ written' = written /\ served' = served /\ status' = status
      /\ ~status[t].processing
  BY <1>1, <1>2 DEF Turns!Thrown, ThreadFlow, SendRight
<1>5. /\ box'[t].inFlight = NoMessage /\ ~box'[t].started
      /\ box'[t].queue \in {q, <<s.msg>> \o q}
      /\ \A u \in Thread : u # t => box'[u] = box[u] /\ (u \in optimistic <=> u \in optimistic')
  <2>1. CASE s.from = "queue"
    BY <1>1, <2>1 DEF Turns!Thrown, TurnShape, TurnBox
  <2>2. CASE s.from # "queue"
    BY <1>1, <2>2 DEF Turns!Thrown, TurnShape, TurnBox
  <2> QED BY <2>1, <2>2
<1>6. /\ Once' /\ (\A a, b : Before(a, b) => Before(a, b)')
      /\ \A a, u : WrittenIn(a, u) => WrittenIn(a, u)'
  BY <1>4, NothingWritten DEF TurnInv
<1>7. q \in Seq(UserMessage)
  BY <1>1 DEF TurnShape, TurnBox
<1> HIDE DEF t, q
<1>8. ASSUME NEW u \in Thread, u # t
      PROVE  ThreadFlow(u)' /\ ThreadOrder(u)'
  <2>1. \A r : r.thread = u => (r \in sends <=> r \in sends')
    BY <1>4, <1>8 DEF t
  <2>2. ThreadFlow(u)'
    BY <1>1, <1>4, <1>5, <1>8, <2>1, OtherFlow DEF TurnInv
  <2> QED BY <1>4, <1>5, <1>6, <1>8, <2>2, OtherOrder DEF TurnInv
<1>9. ThreadFlow(t)'
  <2>1. ASSUME NEW r \in sends', r.thread = t
        PROVE  SendRight(r)' /\ ~Unaccepted(r)
    <3>1. r \in sends /\ ~Unaccepted(r)
      BY <1>3, <1>4, <2>1
    <3> QED BY <1>2, <1>4, <2>1, <3>1 DEF ThreadFlow, SendRight, Unaccepted
  <2>2. ASSUME NEW m \in UserMessage, turns'[m].thread = t
        PROVE  TurnRight(m)'
    BY <1>3, <1>4, <2>2 DEF TurnRight
  <2>3. ProcessingRight(t)'
    BY <1>4 DEF ProcessingRight
  <2>4. \A e \in Coming(events') : e.thread # t
    BY <1>3, <1>4
  <2> QED BY <1>5, <2>1, <2>2, <2>3, <2>4 DEF ThreadFlow, Unaccepted
<1>10. ThreadOrder(t)'
  <2>1. turns[s.msg].thread = NoThread /\ NoThread # t /\ s.msg # NoMessage
    BY <1>1, <1>3 DEF TurnInv, Placed, Turns!ThreadAssumption
  <2>2. CASE box'[t].queue = q
    BY <1>2, <1>4, <1>5, <1>6, <2>2 DEF ThreadOrder, q
  <2>3. CASE box'[t].queue = <<s.msg>> \o q
    <3> DEFINE all == <<s.msg>> \o q
    <3>1. /\ 1 \in DOMAIN all /\ all[1] = s.msg
          /\ \A k \in DOMAIN all :
               k \in Nat /\ (k = 1 \/ (k > 1 /\ k - 1 \in DOMAIN q /\ all[k] = q[k - 1]))
      BY <1>3, <1>7, PrependIs
    <3> HIDE DEF all
    <3>2. /\ WrittenIn(s.msg, t)
          /\ \A k \in DOMAIN q : WrittenIn(q[k], t) /\ Before(s.msg, q[k])
          /\ \A k, l \in DOMAIN q : k < l => Before(q[k], q[l])
      BY <1>2, <1>3, <2>1 DEF ThreadOrder, q
    <3>3. \A n \in UserMessage : turns[n].thread = t =>
            WrittenIn(n, t) /\ Before(n, s.msg) /\ \A k \in DOMAIN q : Before(n, q[k])
      BY <1>2, <1>3, <2>1 DEF ThreadOrder, q
    <3>4. ASSUME NEW k \in DOMAIN all
          PROVE  /\ WrittenIn(all[k], t)
                 /\ \A n \in UserMessage : turns[n].thread = t => Before(n, all[k])
      BY <3>1, <3>2, <3>3
    <3>5. ASSUME NEW k \in DOMAIN all, NEW l \in DOMAIN all, k < l
          PROVE  Before(all[k], all[l])
      <4>1. l > 1 /\ l - 1 \in DOMAIN q /\ all[l] = q[l - 1]
        BY <3>1, <3>5
      <4>2. CASE k = 1
        BY <3>1, <3>2, <4>1, <4>2
      <4>3. CASE k > 1 /\ k - 1 \in DOMAIN q /\ all[k] = q[k - 1]
        <5>1. k - 1 < l - 1
          BY <3>1, <3>5
        <5> QED BY <3>2, <4>1, <4>3, <5>1
      <4> QED BY <3>1, <4>2, <4>3
    <3>6. box'[t].queue = all
      BY <2>3 DEF all
    <3> QED BY <1>4, <1>5, <1>6, <3>3, <3>4, <3>5, <3>6 DEF ThreadOrder
  <2> QED BY <1>5, <2>2, <2>3
<1>11. Placed' /\ EndsLast'
  BY <1>4 DEF TurnInv, Placed, EndsLast, Final
<1>12. ServedInOrder'
  BY <1>4, <1>6 DEF TurnInv, ServedInOrder
<1> QED BY <1>6, <1>8, <1>9, <1>10, <1>11, <1>12 DEF TurnInv

-----------------------------------------------------------------------------
\* The service accepts a message: its turn is the next of its thread.
LEMMA AcceptKeeps ==
  ASSUME Turns!ThreadAssumption, TurnInv, TurnShape', NEW s \in sends, Turns!Accept(s)
  PROVE  TurnInv'
<1> DEFINE t == s.thread
           m == s.msg
           next == [s EXCEPT !.stage = "accepted"]
           e == Turns!Event("started", m, t)
<1>1. Unaccepted(s) /\ s.stage = "request" /\ TurnShape /\ t \in Thread
  BY DEF Turns!Accept, Unaccepted, TurnInv, TurnShape, TurnSend
<1>2. ThreadFlow(t) /\ ThreadOrder(t)
  BY <1>1 DEF TurnInv
<1>3. /\ s \in TurnSend /\ s.to = t /\ m \in UserMessage /\ box[t].inFlight = m
      /\ turns[m].phase = "none"
      /\ \A r \in sends : Unaccepted(r) /\ r.thread = t => r = s
      /\ \A n \in UserMessage : turns[n].thread = t => turns[n].phase \notin Underway
      /\ \A f \in Coming(events) : f.thread # t
  BY <1>1, <1>2, WaitsAlone
<1>4. /\ next.thread = t /\ next.to = t /\ next.msg = m /\ ~Unaccepted(next)
      /\ next.stage = "accepted"
      /\ e \in TurnEvent /\ e.thread = t /\ e.turn = m /\ ~Final(e)
  BY <1>1, <1>3 DEF TurnSend, Unaccepted, Turns!Event, TurnEvent, Final
<1>5. /\ sends' = (sends \ {s}) \cup {next} /\ events' = Append(events, e)
      /\ served' = Append(served, m)
      /\ box' = box /\ optimistic' = optimistic /\ written' = written /\ status' = status
      /\ status[t].processing
      /\ turns'[m].phase = "spawned" /\ turns'[m].thread = t
      /\ \A n \in UserMessage : n # m => turns'[n] = turns[n]
  BY <1>1, <1>2, <1>3 DEF Turns!Accept, Turns!client, ThreadFlow, SendRight, TurnShape, ServiceTurn
<1>6. /\ Once' /\ (\A a, b : Before(a, b) => Before(a, b)')
      /\ \A a, u : WrittenIn(a, u) => WrittenIn(a, u)'
  BY <1>5, NothingWritten DEF TurnInv
<1>7. Coming(events') = Coming(events) \cup {e} /\ EndsLast'
  BY <1>3, <1>4, <1>5, AppendComes DEF TurnInv
<1>8. turns[m].thread = NoThread /\ NoThread \notin Thread /\ m # NoMessage
  BY <1>3 DEF TurnInv, Placed, Turns!ThreadAssumption
<1>9. served \in Seq(UserMessage)
  BY <1>1 DEF TurnShape
<1> HIDE DEF t, m, next, e
<1>10. ASSUME NEW u \in Thread, u # t
       PROVE  ThreadFlow(u)' /\ ThreadOrder(u)'
  <2>1. \A r : r.thread = u => (r \in sends <=> r \in sends')
    BY <1>4, <1>5, <1>10 DEF t
  <2>2. \A f : f.thread = u => (f \in Coming(events) <=> f \in Coming(events'))
    BY <1>4, <1>7, <1>10
  <2>3. box[u].inFlight # m /\ turns[m].thread # u
    BY <1>1, <1>3, <1>10, OneHome
  <2>4. \A n \in UserMessage : \/ turns'[n] = turns[n]
                           \/ /\ turns'[n].thread # u /\ turns[n].thread # u
                              /\ box[u].inFlight # n
    BY <1>5, <1>10, <2>3
  <2>5. ThreadFlow(u)'
    BY <1>1, <1>5, <2>1, <2>2, <2>4, OtherFlow DEF TurnInv
  <2>6. \A n \in UserMessage : turns'[n].thread = u => turns[n].thread = u
    BY <2>4
  <2> QED BY <1>5, <1>6, <2>5, <2>6, OtherOrder DEF TurnInv
<1>11. ThreadFlow(t)'
  <2>1. \A r \in sends' : r.thread = t => r = next \/ (r \in sends /\ ~Unaccepted(r))
    BY <1>3, <1>5
  <2>2. ASSUME NEW r \in sends', r.thread = t
        PROVE  SendRight(r)' /\ ~Unaccepted(r)
    <3>1. CASE r = next
      BY <1>4, <1>5, <3>1 DEF SendRight, Unaccepted
    <3>2. CASE r \in sends /\ ~Unaccepted(r)
      BY <1>2, <1>5, <2>2, <3>2 DEF ThreadFlow, SendRight, Unaccepted
    <3> QED BY <2>1, <2>2, <3>1, <3>2
  <2>3. ASSUME NEW n \in UserMessage, turns'[n].thread = t
        PROVE  TurnRight(n)'
    <3>1. CASE n = m
      BY <1>3, <1>5, <3>1 DEF TurnRight
    <3>2. CASE n # m
      BY <1>3, <1>5, <2>3, <3>2 DEF TurnRight
    <3> QED BY <3>1, <3>2
  <2>4. ASSUME NEW f \in Coming(events'), f.thread = t
        PROVE  EventRight(f)'
    <3>1. f = e
      BY <1>3, <1>7, <2>4
    <3> QED BY <1>3, <1>4, <1>5, <3>1 DEF EventRight, Final
  <2>5. ProcessingRight(t)'
    BY <1>3, <1>5, <1>8 DEF ProcessingRight, Underway
  <2>6. t \notin optimistic' => box'[t].inFlight = NoMessage
    BY <1>2, <1>5 DEF ThreadFlow
  <2> QED BY <2>2, <2>3, <2>4, <2>5, <2>6 DEF ThreadFlow, Unaccepted
<1>12. ThreadOrder(t)'
  <2>1. \A n \in UserMessage : turns'[n].thread = t => n = m \/ turns[n].thread = t
    BY <1>5
  <2>2. ASSUME NEW n \in UserMessage, turns'[n].thread = t
        PROVE  /\ WrittenIn(n, t)
               /\ \A k \in DOMAIN box[t].queue : Before(n, box[t].queue[k])
               /\ box[t].inFlight \notin {n, NoMessage} => Before(n, box[t].inFlight)
    BY <1>2, <1>3, <1>8, <2>1, <2>2 DEF ThreadOrder
  <2>3. /\ \A k \in DOMAIN box[t].queue : WrittenIn(box[t].queue[k], t)
        /\ \A k, l \in DOMAIN box[t].queue : k < l => Before(box[t].queue[k], box[t].queue[l])
        /\ box[t].inFlight # NoMessage =>
             /\ WrittenIn(box[t].inFlight, t)
             /\ \A k \in DOMAIN box[t].queue : Before(box[t].inFlight, box[t].queue[k])
    BY <1>2 DEF ThreadOrder
  <2> QED BY <1>5, <1>6, <2>2, <2>3 DEF ThreadOrder
<1>13. Placed'
  BY <1>1, <1>5, <1>8 DEF TurnInv, Placed
<1>14. ServedInOrder'
  <2> DEFINE n == Len(served) + 1
  <2>1. /\ n \in DOMAIN served' /\ served'[n] = m
        /\ \A i \in DOMAIN served : /\ i \in Nat /\ i < n /\ i \in DOMAIN served'
                                    /\ served'[i] = served[i]
        /\ \A i \in DOMAIN served' : i \in DOMAIN served \/ i = n
    BY <1>3, <1>5, <1>9, AppendIs DEF m
  <2>2. n \in Nat
    BY <1>9
  <2> HIDE DEF n
  <2>3. \A k \in DOMAIN served : served[k] \in UserMessage /\ turns[served[k]].phase # "none"
    BY <1>9 DEF TurnInv, ServedInOrder
  <2>4. \A k \in DOMAIN served : served[k] # m /\ turns'[served[k]] = turns[served[k]]
    BY <1>3, <1>5, <2>3
  <2>5. ASSUME NEW k \in DOMAIN served', NEW l \in DOMAIN served', k < l,
               turns'[served'[k]].thread = turns'[served'[l]].thread
        PROVE  Before(served'[k], served'[l])
    <3>1. k \in DOMAIN served /\ served'[k] = served[k]
      BY <2>1, <2>2, <2>5
    <3>2. CASE l \in DOMAIN served
      BY <2>1, <2>4, <2>5, <3>1, <3>2 DEF TurnInv, ServedInOrder
    <3>3. CASE l = n
      <4>1. turns[served[k]].thread = t /\ served[k] \in UserMessage /\ served[k] # m
        BY <1>5, <2>1, <2>3, <2>4, <2>5, <3>1, <3>3
      <4>2. Before(served[k], m)
        BY <1>2, <1>3, <1>8, <4>1 DEF ThreadOrder
      <4> QED BY <2>1, <3>1, <3>3, <4>2
    <3> QED BY <2>1, <3>2, <3>3
  <2>6. \A k \in DOMAIN served' : turns'[served'[k]].phase # "none"
    BY <1>5, <2>1, <2>3, <2>4
  <2> QED BY <1>6, <2>5, <2>6 DEF ServedInOrder
<1> QED BY <1>6, <1>7, <1>10, <1>11, <1>12, <1>13, <1>14 DEF TurnInv

\* A turn goes on: its phase changes and an event of it is sent at most.
LEMMA TurnGoesOn ==
  ASSUME Turns!ThreadAssumption, TurnInv, TurnShape', NEW m \in UserMessage,
         turns[m].phase \in Underway, turns'[m].phase \in {"ended"} \cup Underway,
         turns'[m].thread = turns[m].thread,
         \A n \in UserMessage : n # m => turns'[n] = turns[n],
         UNCHANGED <<status, box, optimistic, sends, written, served>>,
         \/ events' = events /\ turns'[m].phase # "ended"
         \/ \E e \in TurnEvent : /\ events' = Append(events, e) /\ e.turn = m
                                 /\ e.thread = turns[m].thread
                                 /\ Final(e) <=> turns'[m].phase = "ended"
  PROVE  TurnInv'
<1>1. /\ TurnShape /\ turns[m].phase # "none" /\ turns'[m].phase # "none"
      /\ NoThread \notin Thread /\ NoMessage \notin UserMessage
  BY DEF TurnInv, Underway, Turns!ThreadAssumption
<1>2. PICK t \in Thread : t = turns[m].thread
  BY <1>1 DEF TurnShape, ServiceTurn, TurnInv, Placed
<1>3. ThreadFlow(t) /\ ThreadOrder(t)
  BY <1>2 DEF TurnInv
<1>4. box[t].inFlight = m /\ status[t].processing
  BY <1>2, <1>3 DEF ThreadFlow, TurnRight
<1>5. /\ box' = box /\ status' = status /\ optimistic' = optimistic /\ sends' = sends
      /\ written' = written /\ served' = served
  OBVIOUS
<1>6. ASSUME NEW f \in Coming(events), f.thread = t
      PROVE  ~Final(f)
  BY <1>3, <1>4, <1>6 DEF ThreadFlow, EventRight, Underway
<1>7. /\ EndsLast'
      /\ \A f \in Coming(events) : f \in Coming(events')
      /\ \A f \in Coming(events') :
           f \in Coming(events) \/ (f.turn = m /\ f.thread = t
                                    /\ (Final(f) <=> turns'[m].phase = "ended"))
      /\ turns'[m].phase = "ended" =>
           \E f \in Coming(events') : f.thread = t /\ Final(f)
  <2>1. CASE events' = events /\ turns'[m].phase # "ended"
    BY <2>1 DEF TurnInv, EndsLast, Final
  <2>2. CASE \E e \in TurnEvent : /\ events' = Append(events, e) /\ e.turn = m
                                  /\ e.thread = turns[m].thread
                                  /\ Final(e) <=> turns'[m].phase = "ended"
    <3>1. PICK e \in TurnEvent : /\ events' = Append(events, e) /\ e.turn = m
                                 /\ e.thread = t
                                 /\ Final(e) <=> turns'[m].phase = "ended"
      BY <1>2, <2>2
    <3>2. Coming(events') = Coming(events) \cup {e} /\ EndsLast'
      BY <1>1, <1>6, <3>1, AppendComes DEF TurnInv
    <3> QED BY <3>1, <3>2
  <2> QED BY <2>1, <2>2
<1>8. /\ Once' /\ (\A a, b : Before(a, b) => Before(a, b)')
      /\ \A a, u : WrittenIn(a, u) => WrittenIn(a, u)'
  BY <1>5, NothingWritten DEF TurnInv
<1>9. \A n \in UserMessage : turns'[n].thread = turns[n].thread
  OBVIOUS
<1>10. \A n \in UserMessage : turns'[n].phase = "none" <=> turns[n].phase = "none"
  BY <1>1
<1>11. ASSUME NEW u \in Thread, u # t
       PROVE  ThreadFlow(u)'
  <2>1. \A f : f.thread = u => (f \in Coming(events) <=> f \in Coming(events'))
    BY <1>7, <1>11
  <2>2. box[u].inFlight # m /\ turns[m].thread # u
    BY <1>2, <1>4, <1>11, OneHome
  <2>3. \A n \in UserMessage : \/ turns'[n] = turns[n]
                           \/ /\ turns'[n].thread # u /\ turns[n].thread # u
                              /\ box[u].inFlight # n
    BY <2>2
  <2> QED BY <1>1, <1>5, <2>1, <2>3, OtherFlow DEF TurnInv
<1>12. \A u \in Thread : ThreadOrder(u)'
  BY <1>5, <1>8, <1>9, OtherOrder DEF TurnInv
<1>13. ThreadFlow(t)'
  <2>1. ASSUME NEW r \in sends', r.thread = t
        PROVE  SendRight(r)' /\ ~Unaccepted(r)
    <3>1. ~Unaccepted(r)
      BY <1>1, <1>3, <1>4, <1>5, <2>1 DEF ThreadFlow, SendRight
    <3> QED BY <1>3, <1>5, <2>1, <3>1 DEF ThreadFlow, SendRight, Unaccepted
  <2>2. ASSUME NEW n \in UserMessage, turns'[n].thread = t
        PROVE  TurnRight(n)'
    <3>1. CASE n = m
      BY <1>2, <1>4, <1>5, <1>9, <3>1 DEF TurnRight
    <3>2. CASE n # m
      BY <1>3, <1>5, <2>2, <3>2 DEF ThreadFlow, TurnRight
    <3> QED BY <3>1, <3>2
  <2>3. ASSUME NEW f \in Coming(events'), f.thread = t
        PROVE  EventRight(f)'
    <3>1. f.turn = m
      BY <1>3, <1>4, <1>7, <2>3 DEF ThreadFlow, EventRight
    <3>2. Final(f) => turns'[m].phase = "ended"
      BY <1>6, <1>7, <2>3
    <3> QED BY <1>1, <1>2, <1>4, <1>5, <1>9, <2>3, <3>1, <3>2 DEF EventRight, Final
  <2>4. ProcessingRight(t)'
    <3>1. CASE turns'[m].phase = "ended"
      BY <1>1, <1>4, <1>5, <1>7, <3>1 DEF ProcessingRight, Final
    <3>2. CASE turns'[m].phase # "ended"
      <4>1. turns'[m].phase \in Underway /\ turns'[m].thread = t /\ box'[t].inFlight # NoMessage
        BY <1>1, <1>2, <1>4, <1>5, <1>9, <3>2
      <4> QED BY <4>1 DEF ProcessingRight
    <3> QED BY <3>1, <3>2
  <2>5. t \notin optimistic' => box'[t].inFlight = NoMessage
    BY <1>3, <1>5 DEF ThreadFlow
  <2> QED BY <2>1, <2>2, <2>3, <2>4, <2>5 DEF ThreadFlow, Unaccepted
<1>14. Placed'
  BY <1>9, <1>10 DEF TurnInv, Placed
<1>15. ServedInOrder'
  <2>1. \A k \in DOMAIN served : served[k] \in UserMessage
    BY <1>1 DEF TurnShape
  <2>2. \A k \in DOMAIN served : turns'[served[k]].phase # "none"
    BY <1>10, <2>1 DEF TurnInv, ServedInOrder
  <2>3. ASSUME NEW k \in DOMAIN served, NEW l \in DOMAIN served, k < l,
               turns'[served[k]].thread = turns'[served[l]].thread
        PROVE  Before(served[k], served[l])'
    BY <1>8, <1>9, <2>1, <2>3 DEF TurnInv, ServedInOrder
  <2> QED BY <1>5, <2>2, <2>3 DEF ServedInOrder
<1> QED BY <1>7, <1>8, <1>11, <1>12, <1>13, <1>14, <1>15 DEF TurnInv

LEMMA ListensKeeps ==
  ASSUME Turns!ThreadAssumption, TurnInv, TurnShape', NEW m \in UserMessage,
         Turns!Listens(m) \/ Turns!Streams(m) \/ Turns!Ends(m)
  PROVE  TurnInv'
<1>1. turns \in [UserMessage -> ServiceTurn]
  BY DEF TurnInv, TurnShape
<1>2. UNCHANGED <<status, box, optimistic, sends, written, served>>
  BY DEF Turns!Listens, Turns!Streams, Turns!Ends, Turns!client
<1>3. turns[m].phase \in Underway
  BY <1>1 DEF Turns!Listens, Turns!Streams, Turns!Ends, Underway, ServiceTurn
<1>4. turns[m].thread \in Thread
  BY <1>1, <1>3 DEF TurnInv, Placed, ServiceTurn, Underway
<1>5. CASE Turns!Listens(m)
  <2>1. /\ turns'[m].phase = "running" /\ turns'[m].thread = turns[m].thread
        /\ \A n \in UserMessage : n # m => turns'[n] = turns[n]
        /\ events' = events
    BY <1>1, <1>5 DEF Turns!Listens, ServiceTurn
  <2> QED BY <1>2, <1>3, <2>1, TurnGoesOn DEF Underway
<1>6. CASE Turns!Streams(m)
  <2> DEFINE e == Turns!Event("delta", m, turns[m].thread)
  <2>1. /\ turns'[m].phase = "streamed" /\ turns'[m].thread = turns[m].thread
        /\ \A n \in UserMessage : n # m => turns'[n] = turns[n]
        /\ events' = Append(events, e)
    BY <1>1, <1>6 DEF Turns!Streams, ServiceTurn
  <2>2. e \in TurnEvent /\ e.turn = m /\ e.thread = turns[m].thread /\ ~Final(e)
    BY <1>4 DEF Turns!Event, TurnEvent, Final
  <2> HIDE DEF e
  <2> QED BY <1>2, <1>3, <2>1, <2>2, TurnGoesOn DEF Underway
<1>7. CASE Turns!Ends(m)
  <2>1. /\ turns'[m].phase = "ended" /\ turns'[m].thread = turns[m].thread
        /\ \A n \in UserMessage : n # m => turns'[n] = turns[n]
    BY <1>1, <1>7 DEF Turns!Ends, ServiceTurn
  <2>2. PICK kind \in {"completed", "failed"} :
          events' = Append(events, Turns!Event(kind, m, turns[m].thread))
    BY <1>7 DEF Turns!Ends
  <2> DEFINE e == Turns!Event(kind, m, turns[m].thread)
  <2>3. e \in TurnEvent /\ e.turn = m /\ e.thread = turns[m].thread /\ Final(e)
    BY <1>4 DEF Turns!Event, TurnEvent, Final
  <2>4. events' = Append(events, e)
    BY <2>2
  <2> HIDE DEF e
  <2> QED BY <1>2, <1>3, <2>1, <2>3, <2>4, TurnGoesOn DEF Underway
<1> QED BY <1>5, <1>6, <1>7

\* An event arrives; one that ends a turn leaves nothing of its thread under way.
LEMMA DeliverKeeps ==
  ASSUME Turns!ThreadAssumption, TurnInv, TurnShape', Turns!Deliver
  PROVE  TurnInv'
<1>1. TurnShape /\ events \in Seq(TurnEvent) /\ events # <<>> /\ events' = Tail(events)
  BY DEF TurnInv, TurnShape, Turns!Deliver
<1>2. PICK e \in TurnEvent : e = Head(events)
  BY <1>1, TailIs
<1> DEFINE t == e.thread
<1>3. /\ e \in Coming(events) /\ EndsLast'
      /\ Coming(events) = Coming(events') \cup {e}
      /\ Final(e) => \A f \in Coming(events') : f.thread # t
  BY <1>2, <1>1, HeadComes DEF TurnInv
<1>4. /\ t \in Thread /\ e.turn \in UserMessage
      /\ e.kind \in {"started", "delta", "completed", "failed"}
  BY DEF TurnEvent
<1>5. /\ box' = box /\ turns' = turns /\ optimistic' = optimistic /\ sends' = sends
      /\ written' = written /\ served' = served
  BY DEF Turns!Deliver
<1>6. ThreadFlow(t) /\ ThreadOrder(t) /\ EventRight(e)
  BY <1>3, <1>4 DEF TurnInv, ThreadFlow
<1>7. /\ turns[e.turn].phase # "none" /\ turns[e.turn].thread = t /\ box[t].inFlight = e.turn
      /\ status[t].processing
      /\ Final(e) => turns[e.turn].phase = "ended"
  BY <1>6 DEF EventRight
<1>8. /\ \A u \in Thread : u # t => status'[u] = status[u]
      /\ status'[t].processing <=> ~Final(e)
  <2>1. status \in [Thread -> TurnStatus] /\ stopsDue = {}
    BY <1>1 DEF TurnShape
  <2>2. CASE e.kind = "started"
    <3>1. status' = [status EXCEPT ![t] = [processing |-> TRUE, turn |-> e.turn]]
      BY <1>2, <2>1, <2>2 DEF Turns!Deliver, Turns!OnTurnStarted
    <3> QED BY <1>4, <2>1, <2>2, <3>1 DEF Final
  <2>3. CASE e.kind = "completed"
    <3>1. status' = [status EXCEPT ![t] = Turns!Idle]
      BY <1>2, <2>1, <2>3 DEF Turns!Deliver, Turns!OnTurnCompleted
    <3> QED BY <1>4, <2>1, <2>3, <3>1 DEF Final, Turns!Idle
  <2>4. CASE e.kind = "failed"
    <3>1. status' = [status EXCEPT ![t] = Turns!Idle]
      BY <1>2, <2>1, <2>4 DEF Turns!Deliver, Turns!OnTurnError
    <3> QED BY <1>4, <2>1, <2>4, <3>1 DEF Final, Turns!Idle
  <2>5. CASE e.kind = "delta"
    <3>1. status' = [status EXCEPT ![t].processing = TRUE]
      BY <1>2, <2>1, <2>5 DEF Turns!Deliver, Turns!OnDelta
    <3> QED BY <1>4, <2>1, <2>5, <3>1 DEF Final, TurnStatus
  <2> QED BY <1>4, <2>2, <2>3, <2>4, <2>5
<1>9. /\ Once' /\ (\A a, b : Before(a, b) => Before(a, b)')
      /\ \A a, u : WrittenIn(a, u) => WrittenIn(a, u)'
  BY <1>5, NothingWritten DEF TurnInv
<1> HIDE DEF t
<1>10. ASSUME NEW u \in Thread, u # t
       PROVE  ThreadFlow(u)'
  <2>1. \A f : f.thread = u => (f \in Coming(events) <=> f \in Coming(events'))
    BY <1>3, <1>10 DEF t
  <2> QED BY <1>1, <1>5, <1>8, <1>10, <2>1, OtherFlow DEF TurnInv
<1>11. \A u \in Thread : ThreadOrder(u)'
  BY <1>5, <1>9, OtherOrder DEF TurnInv
<1>12. ThreadFlow(t)'
  <2>1. ASSUME NEW r \in sends', r.thread = t
        PROVE  SendRight(r)' /\ ~Unaccepted(r)
    <3>1. ~Unaccepted(r)
      BY <1>5, <1>6, <1>7, <2>1 DEF ThreadFlow, SendRight
    <3> QED BY <1>5, <1>6, <2>1, <3>1 DEF ThreadFlow, SendRight, Unaccepted
  <2>2. ASSUME NEW n \in UserMessage, turns'[n].thread = t
        PROVE  TurnRight(n)'
    <3>1. turns[n].phase \in Underway => n = e.turn
      BY <1>5, <1>6, <1>7, <2>2 DEF ThreadFlow, TurnRight
    <3>2. turns[n].phase \in Underway => box[t].inFlight = n /\ ~Final(e)
      BY <1>7, <3>1 DEF Underway
    <3> QED BY <1>5, <1>8, <2>2, <3>2 DEF TurnRight
  <2>3. ASSUME NEW f \in Coming(events'), f.thread = t
        PROVE  EventRight(f)'
    <3>1. EventRight(f) /\ ~Final(e)
      BY <1>3, <1>6, <2>3 DEF ThreadFlow
    <3> QED BY <1>5, <1>8, <2>3, <3>1 DEF EventRight, Final
  <2>4. ProcessingRight(t)'
    <3> SUFFICES ASSUME ~Final(e) PROVE ProcessingRight(t)'
      BY <1>8 DEF ProcessingRight
    <3>1. CASE \E s \in sends : s.thread = t /\ s.stage \in {"request", "failed"}
      BY <1>5, <1>6, <1>7, <3>1 DEF ThreadFlow, ProcessingRight
    <3>2. CASE \E n \in UserMessage : turns[n].phase \in Underway /\ turns[n].thread = t
      BY <1>5, <1>6, <1>7, <3>2 DEF ThreadFlow, ProcessingRight
    <3>3. CASE \E f \in Coming(events) : f.thread = t /\ Final(f)
      <4>1. \E f \in Coming(events') : f.thread = t /\ Final(f)
        BY <1>3, <3>3
      <4> QED BY <1>5, <1>6, <1>7, <4>1 DEF ThreadFlow, ProcessingRight, Final
    <3> QED BY <1>6, <1>7, <3>1, <3>2, <3>3 DEF ThreadFlow, ProcessingRight
  <2>5. t \notin optimistic' => box'[t].inFlight = NoMessage
    BY <1>5, <1>6 DEF ThreadFlow
  <2> QED BY <2>1, <2>2, <2>3, <2>4, <2>5 DEF ThreadFlow, Unaccepted
<1>13. Placed' /\ ServedInOrder'
  BY <1>5, <1>9 DEF TurnInv, Placed, ServedInOrder
<1> QED BY <1>3, <1>9, <1>10, <1>11, <1>12, <1>13 DEF TurnInv

-----------------------------------------------------------------------------
\* A step of the user, or a render, that sends nothing leaves all threads as they are.
LEMMA SwitchKeeps ==
  ASSUME TurnInv, TurnShape',
         UNCHANGED <<status, box, optimistic, sends, turns, events, written, served>>
  PROVE  TurnInv'
<1>1. \A u \in Thread : ThreadFlow(u)'
  BY OtherFlow DEF TurnInv
<1> QED BY <1>1, StillInOrder DEF TurnInv

\* A message that is written goes to the end of the queue, after all that was written before.
LEMMA EnqueueKeeps ==
  ASSUME Turns!ThreadAssumption, TurnInv, TurnShape', NEW m \in UserMessage, Turns!Enqueue(m)
  PROVE  TurnInv'
<1>1. TurnShape /\ Turns!Unwritten(m) /\ Turns!Write(m) /\ Once
  BY DEF Turns!Enqueue, TurnInv
<1>2. PICK t \in Thread : t = active
  BY <1>1 DEF TurnShape
<1>3. PICK q \in Seq(UserMessage), f \in UserMessage \cup {NoMessage} :
        q = box[t].queue /\ f = box[t].inFlight
  BY <1>1 DEF TurnShape, TurnBox
<1>4. PICK all \in Seq(UserMessage) : all = Append(q, m)
  BY AppendIs
<1>5. /\ status' = status /\ optimistic' = optimistic /\ sends' = sends /\ turns' = turns
      /\ events' = events /\ served' = served
  BY DEF Turns!Enqueue
<1>6. /\ box'[t].queue = all /\ box'[t].inFlight = f /\ box'[t].started = box[t].started
      /\ \A u \in Thread : u # t => box'[u] = box[u]
  BY <1>1, <1>2, <1>3, <1>4 DEF Turns!Enqueue, TurnShape, TurnBox
<1>7. /\ Once'
      /\ \A a, b : Before(a, b) => Before(a, b)'
      /\ \A a, u : WrittenIn(a, u) => WrittenIn(a, u)' /\ Before(a, m)'
      /\ WrittenIn(m, t)'
  BY <1>1, <1>2, WriteIs
<1>8. \A u \in Thread : ThreadFlow(u)'
  BY <1>1, <1>3, <1>5, <1>6, OtherFlow DEF TurnInv
<1>9. ASSUME NEW u \in Thread, u # t
      PROVE  ThreadOrder(u)'
  BY <1>5, <1>6, <1>7, <1>9, OtherOrder DEF TurnInv
<1>10. ThreadOrder(t)'
  <2> DEFINE n == Len(q) + 1
  <2>1. /\ n \in DOMAIN all /\ all[n] = m /\ n \in Nat
        /\ \A i \in DOMAIN q : i \in Nat /\ i < n /\ i \in DOMAIN all /\ all[i] = q[i]
        /\ \A i \in DOMAIN all : i \in DOMAIN q \/ i = n
    BY <1>4, AppendIs
  <2> HIDE DEF n
  <2>2. /\ \A k \in DOMAIN q : WrittenIn(q[k], t)
        /\ \A k, l \in DOMAIN q : k < l => Before(q[k], q[l])
        /\ f # NoMessage => WrittenIn(f, t) /\ \A k \in DOMAIN q : Before(f, q[k])
        /\ \A a \in UserMessage : turns[a].thread = t =>
             /\ WrittenIn(a, t)
             /\ \A k \in DOMAIN q : Before(a, q[k])
             /\ f \notin {a, NoMessage} => Before(a, f)
    BY <1>3 DEF TurnInv, ThreadOrder
  <2>3. \A k \in DOMAIN all : WrittenIn(all[k], t)'
    BY <1>7, <2>1, <2>2
  <2>4. ASSUME NEW k \in DOMAIN all, NEW l \in DOMAIN all, k < l
        PROVE  Before(all[k], all[l])'
    <3>1. k \in DOMAIN q /\ all[k] = q[k]
      BY <2>1, <2>4
    <3>2. CASE l \in DOMAIN q
      BY <1>7, <2>1, <2>2, <2>4, <3>1, <3>2
    <3>3. CASE l = n
      BY <1>7, <2>1, <2>2, <3>1, <3>3
    <3> QED BY <2>1, <3>2, <3>3
  <2>5. ASSUME NEW a, WrittenIn(a, t), \A k \in DOMAIN q : Before(a, q[k]), NEW k \in DOMAIN all
        PROVE  Before(a, all[k])'
    BY <1>7, <2>1, <2>5
  <2>6. f # NoMessage => WrittenIn(f, t)' /\ \A k \in DOMAIN all : Before(f, all[k])'
    BY <1>7, <2>2, <2>5
  <2>7. \A a \in UserMessage : turns[a].thread = t =>
          /\ WrittenIn(a, t)'
          /\ \A k \in DOMAIN all : Before(a, all[k])'
          /\ f \notin {a, NoMessage} => Before(a, f)'
    BY <1>7, <2>2, <2>5
  <2> QED BY <1>5, <1>6, <2>3, <2>4, <2>6, <2>7 DEF ThreadOrder
<1>11. Placed' /\ EndsLast'
  BY <1>5 DEF TurnInv, Placed, EndsLast, Final
<1>12. ServedInOrder'
  BY <1>5, <1>7 DEF TurnInv, ServedInOrder
<1> QED BY <1>7, <1>8, <1>9, <1>10, <1>11, <1>12 DEF TurnInv

\* A thread that begins to send a message: from its queue, or at once.
LEMMA SendsNow ==
  ASSUME Turns!ThreadAssumption, TurnInv, TurnShape', NEW t \in Thread, NEW m \in UserMessage,
         NEW s \in TurnSend, s.msg = m, s.thread = t, s.to = t, s.stage = "ensure",
         turns[m].phase = "none", box[t].inFlight = NoMessage,
         box'[t].inFlight = m, ~box'[t].started,
         \A u \in Thread : u # t => box'[u] = box[u],
         sends' = sends \cup {s}, optimistic' = optimistic \cup {t},
         UNCHANGED <<status, turns, events, served>>
  PROVE  \A u \in Thread : ThreadFlow(u)'
<1>1. TurnShape /\ ThreadFlow(t) /\ NoMessage \notin UserMessage
  BY DEF TurnInv, Turns!ThreadAssumption
<1>2. \A r \in sends : r.msg \in UserMessage
  BY <1>1 DEF TurnShape, TurnSend
<1>3. /\ ~status[t].processing
      /\ \A r \in sends : r.thread = t => ~Unaccepted(r)
      /\ \A n \in UserMessage : turns[n].thread = t => turns[n].phase \notin Underway
      /\ \A e \in Coming(events) : e.thread # t
  <2>1. ~status[t].processing
    BY <1>1 DEF ThreadFlow, ProcessingRight
  <2>2. \A r \in sends : r.thread = t => ~Unaccepted(r)
    BY <1>1, <1>2 DEF ThreadFlow, SendRight
  <2>3. \A n \in UserMessage : turns[n].thread = t => turns[n].phase \notin Underway
    BY <1>1 DEF ThreadFlow, TurnRight
  <2>4. \A e \in Coming(events) : e.thread # t
    BY <1>1, <2>1 DEF ThreadFlow, EventRight
  <2> QED BY <2>1, <2>2, <2>3, <2>4
<1>4. ASSUME NEW u \in Thread, u # t
      PROVE  ThreadFlow(u)'
  <2>1. \A r : r.thread = u => (r \in sends <=> r \in sends')
    BY <1>4
  <2> QED BY <1>1, <1>4, <2>1, OtherFlow DEF TurnInv
<1>5. ThreadFlow(t)'
  <2>1. ASSUME NEW r \in sends', r.thread = t
        PROVE  SendRight(r)' /\ (Unaccepted(r) => r = s)
    <3>1. CASE r = s
      BY <1>3, <3>1 DEF SendRight, Unaccepted
    <3>2. CASE r # s
      <4>1. r \in sends /\ ~Unaccepted(r)
        BY <1>3, <2>1, <3>2
      <4> QED BY <1>1, <2>1, <4>1 DEF ThreadFlow, SendRight, Unaccepted
    <3> QED BY <3>1, <3>2
  <2>2. \A n \in UserMessage : turns'[n].thread = t => TurnRight(n)'
    BY <1>3 DEF TurnRight
  <2>3. \A e \in Coming(events') : e.thread # t
    BY <1>3
  <2>4. ProcessingRight(t)'
    BY <1>3 DEF ProcessingRight
  <2> QED BY <2>1, <2>2, <2>3, <2>4 DEF ThreadFlow, Unaccepted
<1> QED BY <1>4, <1>5

LEMMA HandleSendKeeps ==
  ASSUME Turns!ThreadAssumption, Undisturbed, TurnInv, TurnShape', NEW m \in UserMessage,
         Turns!HandleSend(m)
  PROVE  TurnInv'
<1>1. /\ TurnShape /\ Turns!Unwritten(m) /\ Turns!Write(m) /\ Once /\ m \notin Command
      /\ NoMessage \notin UserMessage /\ NoThread \notin Thread
  BY DEF Turns!HandleSend, TurnInv, Undisturbed, Turns!ThreadAssumption
<1>2. PICK t \in Thread : t = active
  BY <1>1 DEF TurnShape
<1>3. ThreadFlow(t) /\ ThreadOrder(t) /\ box[t] \in TurnBox
  BY <1>1 DEF TurnInv, TurnShape
<1>4. box[t].inFlight = NoMessage /\ box[t].queue = <<>>
  <2>1. box[t].inFlight = NoMessage
    BY <1>2, <1>3 DEF Turns!HandleSend, ThreadFlow
  <2> QED BY <1>2, <2>1 DEF Turns!HandleSend, Turns!Clicked, Turns!Flushed
<1> DEFINE s == Turns!Send(m, t, t, "composer", "ensure")
<1>5. /\ s \in TurnSend /\ s.msg = m /\ s.thread = t /\ s.to = t /\ s.stage = "ensure"
  BY DEF Turns!Send, TurnSend
<1>6. /\ sends' = sends \cup {s} /\ optimistic' = optimistic \cup {t}
      /\ box' = [box EXCEPT ![t].inFlight = m, ![t].started = FALSE]
      /\ status' = status /\ turns' = turns /\ events' = events /\ served' = served
  BY <1>1, <1>2 DEF TurnShape, Turns!HandleSend, Turns!SendDirect, Turns!Called
<1> HIDE DEF s
<1>7. /\ box'[t].inFlight = m /\ ~box'[t].started /\ box'[t].queue = <<>>
      /\ \A u \in Thread : u # t => box'[u] = box[u]
  BY <1>1, <1>3, <1>4, <1>6 DEF TurnShape, TurnBox
<1>8. /\ Once'
      /\ \A a, b : Before(a, b) => Before(a, b)'
      /\ \A a, u : WrittenIn(a, u) => WrittenIn(a, u)' /\ Before(a, m)'
      /\ WrittenIn(m, t)'
      /\ \A u : ~WrittenIn(m, u)
  BY <1>1, <1>2, WriteIs
<1>9. turns[m].phase = "none"
  <2>1. turns[m].thread \notin Thread
    BY <1>8 DEF TurnInv, ThreadOrder
  <2> QED BY <1>1, <2>1 DEF TurnInv, Placed, TurnShape, ServiceTurn
<1>10. \A u \in Thread : ThreadFlow(u)'
  BY <1>4, <1>5, <1>6, <1>7, <1>9, SendsNow
<1>11. ASSUME NEW u \in Thread, u # t
       PROVE  ThreadOrder(u)'
  BY <1>6, <1>7, <1>8, <1>11, OtherOrder DEF TurnInv
<1>12. ThreadOrder(t)'
  <2>1. DOMAIN box'[t].queue = {}
    BY <1>7
  <2>2. \A a \in UserMessage : turns[a].thread = t => WrittenIn(a, t)
    BY <1>3 DEF ThreadOrder
  <2>3. \A a \in UserMessage : turns[a].thread = t => WrittenIn(a, t)' /\ Before(a, m)'
    BY <1>8, <2>2
  <2> QED BY <1>6, <1>7, <1>8, <2>1, <2>3 DEF ThreadOrder
<1>13. Placed' /\ EndsLast'
  BY <1>6 DEF TurnInv, Placed, EndsLast, Final
<1>14. ServedInOrder'
  BY <1>6, <1>8 DEF TurnInv, ServedInOrder
<1> QED BY <1>8, <1>10, <1>11, <1>12, <1>13, <1>14 DEF TurnInv

\* The effect that flushes the queue: its head is the message in flight.
LEMMA FlushKeeps ==
  ASSUME Turns!ThreadAssumption, Undisturbed, TurnInv, TurnShape', Turns!Render,
         Turns!MayFlush(box[active])
  PROVE  TurnInv'
<1>1. /\ TurnShape /\ Once /\ NoMessage \notin UserMessage /\ NoThread \notin Thread
      /\ \A m \in UserMessage : m \notin Command
  BY DEF TurnInv, Undisturbed, Turns!ThreadAssumption
<1>2. PICK t \in Thread : t = active
  BY <1>1 DEF TurnShape
<1>3. ThreadFlow(t) /\ ThreadOrder(t) /\ box[t] \in TurnBox
  BY <1>1 DEF TurnInv, TurnShape
<1>4. PICK q \in Seq(UserMessage) : q = box[t].queue
  BY <1>3 DEF TurnBox
<1>5. q # <<>> /\ box[t].inFlight = NoMessage
  BY <1>2, <1>4 DEF Turns!MayFlush
<1>6. PICK m \in UserMessage, rest \in Seq(UserMessage) : m = Head(q) /\ rest = Tail(q)
  BY <1>5, TailIs
<1>7. /\ m = q[1] /\ 1 \in DOMAIN q
      /\ \A i \in DOMAIN rest :
           i \in Nat /\ i + 1 \in DOMAIN q /\ 1 < i + 1 /\ rest[i] = q[i + 1]
  BY <1>5, <1>6, TailIs
<1> DEFINE s == Turns!Send(m, t, t, "queue", "ensure")
<1>8. s \in TurnSend /\ s.msg = m /\ s.thread = t /\ s.to = t /\ s.stage = "ensure"
  BY DEF Turns!Send, TurnSend
<1>9. /\ sends' = sends \cup {s} /\ optimistic' = optimistic \cup {t}
      /\ box' = [box EXCEPT ![t] = [queue |-> rest, started |-> FALSE, inFlight |-> m]]
      /\ status' = status /\ turns' = turns /\ events' = events /\ served' = served
      /\ written' = written
  BY <1>1, <1>2, <1>4, <1>6 DEF Turns!Render, Turns!Called
<1> HIDE DEF s
<1>10. /\ box'[t].inFlight = m /\ ~box'[t].started /\ box'[t].queue = rest
       /\ \A u \in Thread : u # t => box'[u] = box[u]
  BY <1>1, <1>9 DEF TurnShape
<1>11. /\ Once' /\ (\A a, b : Before(a, b) => Before(a, b)')
       /\ \A a, u : WrittenIn(a, u) => WrittenIn(a, u)'
  BY <1>1, <1>9, NothingWritten
<1>12. /\ \A k \in DOMAIN q : WrittenIn(q[k], t)
       /\ \A k, l \in DOMAIN q : k < l => Before(q[k], q[l])
       /\ \A a \in UserMessage : turns[a].thread = t =>
            WrittenIn(a, t) /\ \A k \in DOMAIN q : Before(a, q[k])
  BY <1>3, <1>4 DEF ThreadOrder
<1>13. turns[m].phase = "none"
  <2>1. turns[m].thread # t
    BY <1>1, <1>7, <1>12, WrittenOnce
  <2>2. WrittenIn(m, t)
    BY <1>7, <1>12
  <2>3. \A u \in Thread : turns[m].thread # u
    <3> SUFFICES ASSUME NEW u \in Thread, turns[m].thread = u PROVE FALSE
      OBVIOUS
    <3>1. WrittenIn(m, u)
      BY DEF TurnInv, ThreadOrder
    <3> QED BY <1>1, <2>1, <2>2, <3>1, WrittenOnce
  <2> QED BY <1>1, <2>3 DEF TurnInv, Placed, TurnShape, ServiceTurn
<1>14. \A u \in Thread : ThreadFlow(u)'
  BY <1>5, <1>8, <1>9, <1>10, <1>13, SendsNow
<1>15. ASSUME NEW u \in Thread, u # t
       PROVE  ThreadOrder(u)'
  BY <1>9, <1>10, <1>11, <1>15, OtherOrder DEF TurnInv
<1>16. ThreadOrder(t)'
  <2>1. \A k \in DOMAIN rest : WrittenIn(rest[k], t) /\ Before(m, rest[k])
    BY <1>7, <1>12
  <2>2. ASSUME NEW k \in DOMAIN rest, NEW l \in DOMAIN rest, k < l
        PROVE  Before(rest[k], rest[l])
    <3>1. /\ k + 1 \in DOMAIN q /\ l + 1 \in DOMAIN q /\ k + 1 < l + 1
          /\ rest[k] = q[k + 1] /\ rest[l] = q[l + 1]
      BY <1>7, <2>2
    <3> QED BY <1>12, <3>1
  <2>3. \A a \in UserMessage : turns[a].thread = t =>
          WrittenIn(a, t) /\ Before(a, m) /\ \A k \in DOMAIN rest : Before(a, rest[k])
    BY <1>7, <1>12
  <2>4. WrittenIn(m, t)
    BY <1>7, <1>12
  <2> QED BY <1>9, <1>10, <1>11, <2>1, <2>2, <2>3, <2>4 DEF ThreadOrder
<1>17. Placed' /\ EndsLast'
  BY <1>9 DEF TurnInv, Placed, EndsLast, Final
<1>18. ServedInOrder'
  BY <1>9, <1>11 DEF TurnInv, ServedInOrder
<1> QED BY <1>11, <1>14, <1>15, <1>16, <1>17, <1>18 DEF TurnInv

\* The effect that looks after the message in flight: it drops the message of a thread that
\* was seen processing and is idle, of which nothing is under way any more.
LEMMA TrackKeeps ==
  ASSUME Turns!ThreadAssumption, TurnInv, TurnShape', Turns!Render, ~Turns!MayFlush(box[active])
  PROVE  TurnInv'
<1>1. TurnShape /\ Once /\ NoMessage \notin UserMessage
  BY DEF TurnInv, Turns!ThreadAssumption
<1>2. PICK t \in Thread : t = active
  BY <1>1 DEF TurnShape
<1>3. ThreadFlow(t) /\ ThreadOrder(t) /\ box[t] \in TurnBox /\ box'[t] \in TurnBox
  BY <1>1 DEF TurnInv, TurnShape
<1>4. /\ sends' = sends /\ optimistic' = optimistic
      /\ status' = status /\ turns' = turns /\ events' = events /\ served' = served
      /\ written' = written
      /\ box'[t] = Turns!Tracked(box[t])
      /\ \A u \in Thread : u # t => box'[u] = box[u]
  BY <1>1, <1>2 DEF Turns!Render, TurnShape
<1>5. /\ box'[t].queue = box[t].queue
      /\ \/ box'[t].inFlight = box[t].inFlight /\ box'[t].started = box[t].started
         \/ /\ status[t].processing
            /\ box'[t].inFlight = box[t].inFlight /\ box'[t].started = TRUE
         \/ /\ ~status[t].processing /\ box[t].started
            /\ box'[t].inFlight = NoMessage /\ box'[t].started = FALSE
  BY <1>2, <1>3, <1>4 DEF Turns!Tracked, TurnBox
<1>6. /\ Once' /\ (\A a, b : Before(a, b) => Before(a, b)')
      /\ \A a, u : WrittenIn(a, u) => WrittenIn(a, u)'
  BY <1>1, <1>4, NothingWritten
<1>7. ASSUME NEW u \in Thread, u # t
      PROVE  ThreadFlow(u)' /\ ThreadOrder(u)'
  <2>1. ThreadFlow(u)'
    BY <1>1, <1>4, <1>7, OtherFlow DEF TurnInv
  <2> QED BY <1>4, <1>6, <1>7, <2>1, OtherOrder DEF TurnInv
<1>8. ThreadOrder(t)'
  BY <1>3, <1>4, <1>5, <1>6 DEF ThreadOrder
<1>9. ThreadFlow(t)'
  <2>1. CASE box'[t].inFlight = box[t].inFlight /\ box'[t].started = box[t].started
    BY <1>1, <1>3, <1>4, <2>1, OtherFlow
  <2>2. CASE /\ status[t].processing
             /\ box'[t].inFlight = box[t].inFlight /\ box'[t].started = TRUE
    <3>1. ASSUME NEW r \in sends', r.thread = t
          PROVE  SendRight(r)'
      BY <1>3, <1>4, <2>2, <3>1 DEF ThreadFlow, SendRight, Unaccepted
    <3>2. \A n \in UserMessage : turns'[n].thread = t => TurnRight(n)'
      BY <1>3, <1>4, <2>2 DEF ThreadFlow, TurnRight
    <3>3. \A e \in Coming(events') : e.thread = t => EventRight(e)'
      BY <1>3, <1>4, <2>2 DEF ThreadFlow, EventRight, Final
    <3>4. ProcessingRight(t)'
      BY <1>3, <1>4, <2>2 DEF ThreadFlow, ProcessingRight, Final
    <3> QED BY <1>3, <1>4, <2>2, <3>1, <3>2, <3>3, <3>4 DEF ThreadFlow, Unaccepted
  <2>3. CASE /\ ~status[t].processing /\ box[t].started
             /\ box'[t].inFlight = NoMessage /\ box'[t].started = FALSE
    <3>1. ASSUME NEW r \in sends', r.thread = t
          PROVE  SendRight(r)' /\ ~Unaccepted(r)
      <4>1. r \in sends /\ SendRight(r)
        BY <1>3, <1>4, <3>1 DEF ThreadFlow
      <4>2. r.stage \in {"ensure", "request", "accepted", "failed"}
        BY <1>1, <4>1 DEF TurnShape, TurnSend
      <4>3. ~Unaccepted(r)
        BY <2>3, <3>1, <4>1, <4>2 DEF SendRight, Unaccepted
      <4> QED BY <4>1, <4>3, <1>4, <3>1 DEF SendRight, Unaccepted
    <3>2. \A n \in UserMessage : turns'[n].thread = t => TurnRight(n)'
      BY <1>3, <1>4, <2>3 DEF ThreadFlow, TurnRight
    <3>3. \A e \in Coming(events') : e.thread # t
      BY <1>3, <1>4, <2>3 DEF ThreadFlow, EventRight
    <3>4. ProcessingRight(t)'
      BY <1>4, <2>3 DEF ProcessingRight
    <3> QED BY <2>3, <3>1, <3>2, <3>3, <3>4 DEF ThreadFlow, Unaccepted
  <2> QED BY <1>5, <2>1, <2>2, <2>3
<1>10. Placed' /\ EndsLast'
  BY <1>4 DEF TurnInv, Placed, EndsLast, Final
<1>11. ServedInOrder'
  BY <1>4, <1>6 DEF TurnInv, ServedInOrder
<1> QED BY <1>6, <1>7, <1>8, <1>9, <1>10, <1>11 DEF TurnInv

-----------------------------------------------------------------------------
LEMMA TurnStart ==
  ASSUME Turns!ThreadAssumption, Undisturbed, Turns!Init
  PROVE  TurnInv
<1>1. TurnShape
  <2>1. connected
    BY DEF Turns!Init, Undisturbed
  <2>2. status \in [Thread -> TurnStatus] /\ box \in [Thread -> TurnBox]
    BY DEF Turns!Init, TurnStatus, TurnBox, Turns!Idle, Turns!Empty
  <2>3. turns \in [UserMessage -> ServiceTurn]
    BY DEF Turns!Init, ServiceTurn
  <2> QED BY <2>1, <2>2, <2>3 DEF Turns!Init, TurnShape
<1>2. /\ sends = {} /\ turns = [m \in UserMessage |-> [phase |-> "none", thread |-> NoThread]]
      /\ DOMAIN events = {} /\ DOMAIN written = {} /\ DOMAIN served = {}
      /\ \A t \in Thread : /\ ~status[t].processing /\ box[t].inFlight = NoMessage
                           /\ DOMAIN box[t].queue = {}
      /\ NoThread \notin Thread
  BY DEF Turns!Init, Turns!Idle, Turns!Empty, Turns!ThreadAssumption
<1>3. \A t \in Thread : \A m \in UserMessage : turns[m].thread # t /\ turns[m].phase = "none"
                                           /\ turns[m].thread = NoThread
  BY <1>2
<1>4. \A t \in Thread : ThreadFlow(t)
  BY <1>2, <1>3 DEF ThreadFlow, ProcessingRight, Coming
<1>5. \A t \in Thread : ThreadOrder(t)
  BY <1>2, <1>3 DEF ThreadOrder
<1>6. Once /\ EndsLast /\ ServedInOrder
  BY <1>2 DEF Once, EndsLast, ServedInOrder
<1>7. Placed
  BY <1>2 DEF Placed
<1> QED BY <1>1, <1>4, <1>5, <1>6, <1>7 DEF TurnInv

LEMMA TurnStep ==
  ASSUME Turns!ThreadAssumption, Undisturbed, TurnInv, [Turns!Next]_Turns!vars
  PROVE  TurnInv'
<1>1. CASE Turns!Next
  <2>1. TurnShape'
    BY <1>1, TurnShapeStep DEF TurnInv
  <2>2. ASSUME NEW m \in UserMessage, Turns!Enqueue(m) \/ Turns!HandleSend(m)
        PROVE  TurnInv'
    BY <2>1, <2>2, EnqueueKeeps, HandleSendKeeps
  <2>3. ASSUME NEW m \in UserMessage, Turns!Listens(m) \/ Turns!Streams(m) \/ Turns!Ends(m)
        PROVE  TurnInv'
    BY <2>1, <2>3, ListensKeeps
  <2>4. ASSUME NEW t \in Thread, Turns!SwitchThread(t)
        PROVE  TurnInv'
    BY <2>1, <2>4, SwitchKeeps DEF Turns!SwitchThread
  <2>5. CASE Turns!Render
    BY <2>1, <2>5, FlushKeeps, TrackKeeps
  <2>6. CASE Turns!Deliver
    BY <2>1, <2>6, DeliverKeeps
  <2>7. ASSUME NEW s \in sends,
               \/ Turns!Refused(s) \/ Turns!Thrown(s) \/ Turns!Reject(s) \/ Turns!Ensured(s)
               \/ Turns!Answered(s) \/ Turns!Failed(s) \/ Turns!Accept(s)
        PROVE  TurnInv'
    BY <2>1, <2>7, RefusedKeeps, ThrownKeeps, RejectKeeps, EnsuredKeeps, AnsweredKeeps,
       FailedKeeps, AcceptKeeps
  <2>8. TurnShape
    BY DEF TurnInv
  <2> QED BY <1>1, <2>2, <2>3, <2>4, <2>5, <2>6, <2>7, <2>8, StepsAre
<1>2. CASE UNCHANGED Turns!vars
  <2>1. /\ UNCHANGED <<status, box, optimistic, sends, turns, events, written, served>>
        /\ UNCHANGED <<active, connected, stopsDue, stops>>
    BY <1>2 DEF Turns!vars, Turns!client
  <2>2. TurnShape'
    BY <2>1 DEF TurnInv, TurnShape
  <2> QED BY <2>1, <2>2, SwitchKeeps
<1> QED BY <1>1, <1>2

LEMMA TurnsHold ==
  ASSUME Turns!ThreadAssumption, Undisturbed
  PROVE  Turns!Spec => []TurnInv
BY TurnStart, TurnStep, PTL DEF Turns!Spec

\* The composer never has two turns of a thread running, whatever is refused, fails, throws or
\* is written meanwhile in this thread or another.
THEOREM OneTurnAtATime ==
  ASSUME Turns!ThreadAssumption, Undisturbed
  PROVE  Turns!Spec => []Turns!OneTurn
<1>1. TurnInv => Turns!OneTurn
  <2> SUFFICES ASSUME TurnInv, NEW m \in Turns!Running, NEW n \in Turns!Running,
                      turns[m].thread = turns[n].thread
               PROVE  m = n
    BY DEF Turns!OneTurn
  <2>1. /\ m \in UserMessage /\ n \in UserMessage
        /\ turns[m].phase \in Underway /\ turns[n].phase \in Underway
    BY DEF Turns!Running, Underway
  <2>2. turns[m].thread \in Thread
    BY <2>1 DEF TurnInv, Placed, TurnShape, ServiceTurn, Underway
  <2> QED BY <2>1, <2>2 DEF TurnInv, ThreadFlow, TurnRight
<1> QED BY <1>1, TurnsHold, PTL

\* The messages of a thread are served in the order in which they were written, whether they
\* were sent at once, queued, or put back by a send that threw.
THEOREM ServedAsWritten ==
  ASSUME Turns!ThreadAssumption, Undisturbed
  PROVE  Turns!Spec => []Turns!InOrder
<1>1. TurnInv => Turns!InOrder
  <2> SUFFICES ASSUME TurnInv, NEW i \in DOMAIN written, NEW j \in DOMAIN written,
                      NEW k \in DOMAIN served, NEW l \in DOMAIN served, i < j,
                      written[i].thread = written[j].thread,
                      served[k] = written[i].msg, served[l] = written[j].msg
               PROVE  k < l
    BY DEF Turns!InOrder
  <2>1. /\ TurnShape /\ Once /\ i \in Nat /\ j \in Nat /\ k \in Nat /\ l \in Nat
        /\ written[i] \in Line /\ written[j] \in Line
    BY DEF TurnInv, TurnShape
  <2>2. \A m \in UserMessage : turns[m].phase # "none" =>
          turns[m].thread \in Thread /\ WrittenIn(m, turns[m].thread)
    BY DEF TurnInv, TurnShape, ServiceTurn, Placed, ThreadOrder
  <2>3. /\ served[k] \in UserMessage /\ turns[served[k]].phase # "none"
        /\ served[l] \in UserMessage /\ turns[served[l]].phase # "none"
    BY <2>1 DEF TurnInv, ServedInOrder, TurnShape
  <2>4. WrittenIn(served[k], written[i].thread) /\ WrittenIn(served[l], written[j].thread)
    BY DEF WrittenIn
  <2>5. turns[served[k]].thread = turns[served[l]].thread
    BY <2>1, <2>2, <2>3, <2>4, WrittenOnce
  <2>6. Before(served[k], served[l])
    BY DEF Before
  <2>7. ~Before(served[l], served[k]) /\ served[k] # served[l]
    BY <2>1, <2>6, WrittenOnce
  <2> QED BY <2>1, <2>5, <2>7 DEF TurnInv, ServedInOrder
<1> QED BY <1>1, TurnsHold, PTL

\* A message is answered in the thread it was written in, whatever thread is shown by then.
THEOREM AnsweredWhereWritten ==
  ASSUME Turns!ThreadAssumption, Undisturbed
  PROVE  Turns!Spec => []Turns!SentWhereWritten
<1>1. TurnInv => Turns!SentWhereWritten
  <2> SUFFICES ASSUME TurnInv, NEW i \in DOMAIN written,
                      turns[written[i].msg].thread # NoThread
               PROVE  turns[written[i].msg].thread = written[i].thread
    BY DEF Turns!SentWhereWritten
  <2>1. TurnShape /\ Once /\ written[i] \in Line
    BY DEF TurnInv, TurnShape
  <2>2. written[i].msg \in UserMessage /\ TurnShape /\ Once
    BY <2>1 DEF Line
  <2>3. turns[written[i].msg].thread \in Thread
    BY <2>2 DEF TurnInv, TurnShape, ServiceTurn
  <2>4. WrittenIn(written[i].msg, turns[written[i].msg].thread)
    BY <2>2, <2>3 DEF TurnInv, ThreadOrder
  <2>5. WrittenIn(written[i].msg, written[i].thread)
    BY DEF WrittenIn
  <2> QED BY <2>2, <2>4, <2>5, WrittenOnce
<1> QED BY <1>1, TurnsHold, PTL

\* A turn that runs is shown as processing, and when everything came to rest no thread is.
THEOREM TurnsAreShown ==
  ASSUME Turns!ThreadAssumption, Undisturbed
  PROVE  Turns!Spec => [](Turns!TurnShown /\ Turns!SpinnerStops)
<1>1. TurnInv => Turns!TurnShown
  <2> SUFFICES ASSUME TurnInv, NEW m \in Turns!Running
               PROVE  status[turns[m].thread].processing
    BY DEF Turns!TurnShown
  <2>1. m \in UserMessage /\ turns[m].phase \in Underway
    BY DEF Turns!Running, Underway
  <2>2. turns[m].thread \in Thread
    BY <2>1 DEF TurnInv, Placed, TurnShape, ServiceTurn, Underway
  <2> QED BY <2>1, <2>2 DEF TurnInv, ThreadFlow, TurnRight
<1>2. TurnInv => Turns!SpinnerStops
  <2> SUFFICES ASSUME TurnInv, Turns!Settled, NEW t \in Thread, status[t].processing
               PROVE  FALSE
    BY DEF Turns!SpinnerStops
  <2>1. /\ sends = {} /\ DOMAIN events = {}
        /\ \A m \in UserMessage : turns[m].phase \in {"none", "ended"}
    BY DEF Turns!Settled, Turns!Arrived
  <2>2. ProcessingRight(t)
    BY DEF TurnInv, ThreadFlow
  <2> QED BY <2>1, <2>2 DEF ProcessingRight, Coming, Underway
<1> QED BY <1>1, <1>2, TurnsHold, PTL

-----------------------------------------------------------------------------
\* What may happen when the user stays in one thread, all that is dispatched is rendered before
\* the next answer or event, and no send returns early.
Steady ==
  Undisturbed /\ "switch" \notin Happens /\ "quick" \notin Happens /\ "refuse" \notin Happens

\* The message in flight waits to be accepted, or its thread is or was seen processing.
Tracks ==
  /\ box[active].inFlight # NoMessage =>
       \/ \E s \in sends : s.thread = active /\ Unaccepted(s)
       \/ status[active].processing
       \/ box[active].started
  /\ box[active].started => box[active].inFlight # NoMessage

\* What is rendered is tracked.
LEMMA RenderedTracks ==
  ASSUME TurnShape, Steady, Turns!Rendered, status[active].processing
  PROVE  box[active].inFlight = NoMessage \/ box[active].started
<1>1. box[active] \in TurnBox /\ Turns!Tracked(box[active]) = box[active]
  BY DEF TurnShape, Steady, Turns!Rendered
<1>2. CASE box[active].inFlight # NoMessage
  <2>1. box[active] = [box[active] EXCEPT !.started = TRUE]
    BY <1>1, <1>2 DEF Turns!Tracked
  <2>2. [box[active] EXCEPT !.started = TRUE].started = TRUE
    BY <1>1 DEF TurnBox
  <2> QED BY <2>1, <2>2
<1> QED BY <1>2

LEMMA TracksStep ==
  ASSUME Turns!ThreadAssumption, Steady, TurnInv, Tracks, Turns!Next
  PROVE  Tracks'
<1>1. TurnShape /\ Undisturbed /\ NoMessage \notin UserMessage
  BY DEF TurnInv, Steady, Turns!ThreadAssumption
<1>2. PICK t \in Thread : t = active
  BY <1>1 DEF TurnShape
<1>3. ThreadFlow(t) /\ box[t] \in TurnBox
  BY <1>1 DEF TurnInv, TurnShape
<1>4. /\ box[t].inFlight # NoMessage =>
           \/ \E s \in sends : s.thread = t /\ Unaccepted(s)
           \/ status[t].processing
           \/ box[t].started
      /\ box[t].started => box[t].inFlight # NoMessage
  BY <1>2 DEF Tracks
<1> DEFINE After ==
      /\ box'[t].inFlight # NoMessage =>
           \/ \E s \in sends' : s.thread = t /\ Unaccepted(s)
           \/ status'[t].processing
           \/ box'[t].started
      /\ box'[t].started => box'[t].inFlight # NoMessage
<1>5. active' = t /\ After => Tracks'
  BY DEF Tracks, Unaccepted
<1>6. \A s \in sends : s.thread \in Thread /\ s \in TurnSend
  BY <1>1 DEF TurnShape, TurnSend
<1>7. ASSUME NEW m \in UserMessage, Turns!Enqueue(m)
      PROVE  active' = t /\ After
  <2>1. /\ box'[t].inFlight = box[t].inFlight /\ box'[t].started = box[t].started
        /\ sends' = sends /\ status' = status /\ active' = active
    BY <1>1, <1>2, <1>7 DEF Turns!Enqueue, TurnShape, TurnBox
  <2> QED BY <1>2, <1>4, <2>1
<1>8. ASSUME NEW m \in UserMessage, Turns!HandleSend(m)
      PROVE  active' = t /\ After
  <2> DEFINE s == Turns!Send(m, t, t, "composer", "ensure")
  <2>1. /\ s \in sends' /\ active' = t
        /\ box' = [box EXCEPT ![t].inFlight = m, ![t].started = FALSE]
    BY <1>1, <1>2, <1>8 DEF TurnShape, Turns!HandleSend, Turns!SendDirect, Turns!Called, Undisturbed
  <2>2. s.thread = t /\ Unaccepted(s)
    BY DEF Turns!Send, Unaccepted
  <2>3. ~box'[t].started
    BY <1>1, <2>1 DEF TurnShape, TurnBox
  <2> QED BY <2>1, <2>2, <2>3
<1>9. ASSUME NEW m \in UserMessage, Turns!Listens(m) \/ Turns!Streams(m) \/ Turns!Ends(m)
      PROVE  active' = t /\ After
  <2>1. box' = box /\ sends' = sends /\ status' = status /\ active' = active
    BY <1>9 DEF Turns!Listens, Turns!Streams, Turns!Ends, Turns!client
  <2> QED BY <1>2, <1>4, <2>1
<1>10. ASSUME Turns!Render
       PROVE  active' = t /\ After
  <2>1. status' = status /\ active' = t
    BY <1>2, <1>10 DEF Turns!Render
  <2>2. CASE Turns!MayFlush(box[active])
    <3> DEFINE m == Head(box[t].queue)
               s == Turns!Send(m, t, t, "queue", "ensure")
    <3>1. m \in UserMessage
      BY <1>2, <1>3, <2>2, TailIs DEF Turns!MayFlush, TurnBox
    <3>2. /\ s \in sends'
          /\ box'[t] = [queue |-> Tail(box[t].queue), started |-> FALSE, inFlight |-> m]
      BY <1>1, <1>2, <1>10, <2>2, <3>1 DEF Turns!Render, Turns!Called, Undisturbed, TurnShape
    <3>3. s.thread = t /\ Unaccepted(s) /\ ~box'[t].started
      BY <3>2 DEF Turns!Send, Unaccepted
    <3> QED BY <2>1, <3>2, <3>3
  <2>3. CASE ~Turns!MayFlush(box[active])
    <3>1. sends' = sends /\ box'[t] = Turns!Tracked(box[t])
      BY <1>1, <1>2, <1>10, <2>3 DEF Turns!Render, TurnShape
    <3>2. \/ box'[t] = box[t]
          \/ status[t].processing /\ box[t].inFlight # NoMessage
             /\ box'[t].inFlight = box[t].inFlight
          \/ box'[t].inFlight = NoMessage /\ ~box'[t].started
      BY <1>2, <1>3, <3>1 DEF Turns!Tracked, TurnBox
    <3> QED BY <1>4, <2>1, <3>1, <3>2
  <2> QED BY <2>2, <2>3
<1>11. ASSUME Turns!Deliver
       PROVE  active' = t /\ After
  <2>1. box' = box /\ sends' = sends /\ active' = t /\ Turns!Rendered
    BY <1>2, <1>11 DEF Turns!Deliver
  <2>2. CASE status[t].processing
    BY <1>1, <1>2, <1>4, <2>1, <2>2, RenderedTracks
  <2>3. CASE ~status[t].processing
    BY <1>4, <2>1, <2>3
  <2> QED BY <2>2, <2>3
<1>12. ASSUME NEW s \in sends,
              \/ Turns!Thrown(s) \/ Turns!Reject(s) \/ Turns!Ensured(s)
              \/ Turns!Answered(s) \/ Turns!Failed(s) \/ Turns!Accept(s)
       PROVE  active' = t /\ After
  <2>1. active' = t
    BY <1>2, <1>12
       DEF Turns!Thrown, Turns!Reject, Turns!Ensured, Turns!Answered, Turns!Failed, Turns!Accept,
           Turns!client
  <2>2. SendRight(s)
    BY <1>6 DEF TurnInv, ThreadFlow
  <2>3. CASE Turns!Thrown(s)
    <3>1. CASE s.thread = t
      <4>1. s.stage = "ensure"
        BY <1>6, <2>3 DEF Turns!Thrown, TurnSend
      <4>2. box'[t].inFlight = NoMessage /\ ~box'[t].started
        <5>1. CASE s.from = "queue"
          BY <1>1, <2>3, <3>1, <5>1 DEF Turns!Thrown, TurnShape, TurnBox
        <5>2. CASE s.from # "queue"
          BY <1>1, <2>3, <3>1, <4>1, <5>2 DEF Turns!Thrown, TurnShape, TurnBox
        <5> QED BY <5>1, <5>2
      <4> QED BY <2>1, <4>2
    <3>2. CASE s.thread # t
      <4>1. box'[t] = box[t] /\ status' = status /\ sends' = sends \ {s}
        BY <1>1, <1>6, <2>3, <3>2 DEF Turns!Thrown, TurnShape
      <4>2. \A r \in sends : r.thread = t => r \in sends'
        BY <3>2, <4>1
      <4> QED BY <1>4, <2>1, <4>1, <4>2
    <3> QED BY <3>1, <3>2
  <2>4. CASE Turns!Reject(s) \/ Turns!Ensured(s)
    <3> DEFINE stage == IF Turns!Reject(s) THEN "failed" ELSE "request"
               next == [s EXCEPT !.stage = stage]
    <3>1. /\ sends' = (sends \ {s}) \cup {next} /\ box' = box
          /\ status' = status \/ status' = [status EXCEPT ![s.to].processing = TRUE]
      BY <2>4 DEF Turns!Reject, Turns!Ensured, Turns!client
    <3>2. next.thread = s.thread /\ Unaccepted(next)
      BY <1>6 DEF TurnSend, Unaccepted
    <3> HIDE DEF next
    <3>3. status[t].processing => status'[t].processing
      BY <1>1, <3>1 DEF TurnShape, TurnStatus
    <3>4. (\E r \in sends : r.thread = t /\ Unaccepted(r))
          => \E r \in sends' : r.thread = t /\ Unaccepted(r)
      BY <3>1, <3>2
    <3> QED BY <1>4, <2>1, <3>1, <3>3, <3>4
  <2>5. CASE Turns!Answered(s)
    <3>1. sends' = sends \ {s} /\ box' = box /\ ~Unaccepted(s)
      BY <2>5 DEF Turns!Answered, Unaccepted
    <3>2. status'[t].processing = status[t].processing
      BY <1>1, <2>5 DEF Turns!Answered, TurnShape, TurnStatus
    <3> QED BY <1>4, <2>1, <3>1, <3>2
  <2>6. CASE Turns!Failed(s)
    <3>1. sends' = sends \ {s} /\ box' = box /\ Turns!Rendered /\ s.to = s.thread
          /\ status[s.thread].processing
          /\ status' = [status EXCEPT ![s.thread] = Turns!Idle]
      BY <2>2, <2>6 DEF Turns!Failed, SendRight
    <3>2. CASE s.thread = t
      BY <1>1, <1>2, <1>4, <2>1, <3>1, <3>2, RenderedTracks
    <3>3. CASE s.thread # t
      <4>1. status'[t] = status[t]
        BY <1>1, <3>1, <3>3 DEF TurnShape
      <4>2. \A r \in sends : r.thread = t => r \in sends'
        BY <3>1, <3>3
      <4> QED BY <1>4, <2>1, <3>1, <4>1, <4>2
    <3> QED BY <3>2, <3>3
  <2>7. CASE Turns!Accept(s)
    <3>1. /\ \A r \in sends : r # s => r \in sends'
          /\ box' = box /\ status' = status /\ status[s.thread].processing
      BY <2>2, <2>7 DEF Turns!Accept, Turns!client, SendRight
    <3> QED BY <1>4, <2>1, <3>1
  <2> QED BY <1>12, <2>3, <2>4, <2>5, <2>6, <2>7
<1>13. ("switch" \notin Happens) /\ \A s \in sends : ~Turns!Refused(s)
  BY DEF Steady, Turns!Refused
<1> HIDE DEF After
<1> QED BY <1>1, <1>5, <1>7, <1>8, <1>9, <1>10, <1>11, <1>12, <1>13, StepsAre

\* When everything came to rest the queue of the thread is empty and no message is held as in
\* flight, whatever was refused, failed or threw, as long as the user stays in the thread,
\* what is dispatched is rendered first, and no send returns early.
THEOREM QueueIsEmptied ==
  ASSUME Turns!ThreadAssumption, Steady
  PROVE  Turns!Spec => []Turns!QueueMoves
<1>1. Undisturbed
  BY DEF Steady
<1>2. Turns!Init => Tracks
  BY DEF Turns!Init, Tracks, Turns!Empty
<1>3. TurnInv /\ Tracks /\ [Turns!Next]_Turns!vars => Tracks'
  <2>1. UNCHANGED Turns!vars /\ Tracks => Tracks'
    BY DEF Turns!vars, Turns!client, Tracks, Unaccepted
  <2> QED BY <2>1, TracksStep
<1>4. TurnInv /\ Tracks => Turns!QueueMoves
  <2> SUFFICES ASSUME TurnInv, Tracks, Turns!Settled
               PROVE  box[active] = Turns!Empty
    BY DEF Turns!QueueMoves
  <2>1. box[active] \in TurnBox /\ active \in Thread
    BY DEF TurnInv, TurnShape
  <2>2. /\ sends = {} /\ DOMAIN events = {}
        /\ \A m \in UserMessage : turns[m].phase \in {"none", "ended"}
    BY DEF Turns!Settled, Turns!Arrived
  <2>3. ~status[active].processing
    BY <2>1, <2>2 DEF TurnInv, ThreadFlow, ProcessingRight, Coming, Underway
  <2>4. box[active].inFlight = NoMessage
    <3> SUFFICES ASSUME box[active].inFlight # NoMessage PROVE FALSE
      OBVIOUS
    <3>1. box[active].started
      BY <2>2, <2>3 DEF Tracks
    <3>2. [box[active] EXCEPT !.inFlight = NoMessage, !.started = FALSE] = box[active]
      BY <2>3, <3>1 DEF Turns!Settled, Turns!Tracked
    <3>3. [box[active] EXCEPT !.inFlight = NoMessage, !.started = FALSE].started = FALSE
      BY <2>1 DEF TurnBox
    <3> QED BY <3>1, <3>2, <3>3
  <2>5. box[active].queue = <<>>
    BY <2>3, <2>4 DEF Turns!Settled, Turns!MayFlush
  <2>6. box[active].started = FALSE
    BY <2>1, <2>4 DEF Tracks, TurnBox
  <2> QED BY <2>1, <2>4, <2>5, <2>6 DEF TurnBox, Turns!Empty
<1> QED BY <1>1, <1>2, <1>3, <1>4, TurnsHold, PTL DEF Turns!Spec
=============================================================================
