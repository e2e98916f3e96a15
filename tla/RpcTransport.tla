---------------------------- MODULE RpcTransport ----------------------------
(***************************************************************************)
(* Calls of the web client to the runtime service                          *)
(* (runtimeClientWebTransport.ts): first over a WebSocket that all calls   *)
(* share, then over HTTP, with a deadline for the whole call, retries for  *)
(* reads, one request at a time for equal reads and a short cache.         *)
(* A socket keeps its number; what JavaScript does in one task is one step. *)
(***************************************************************************)
EXTENDS Naturals, FiniteSets

CONSTANTS
  Mutation,   \* calls that change the service's state
  Query,      \* equal reads: same method, parameters, endpoint and token
  Happens,    \* what may happen: a subset of Incident
  MaxPending, \* WEB_RUNTIME_WS_MAX_PENDING_REQUESTS
  MaxRetry,   \* WEB_RUNTIME_MAX_RETRY_ATTEMPTS
  MaxSocket,  \* bound: sockets that are ever opened
  Nobody      \* no call

Call == Mutation \cup Query

\* ws: the service offers a WebSocket.  refused: it does not open.  dropped: it
\* closes.  cool: a second passes.  failed: requests are answered with an error, and those
\* over HTTP fail in other ways too.  late: a deadline passes.
Incident == {"ws", "refused", "dropped", "cool", "failed", "late"}

TransportAssumption ==
  /\ Happens \subseteq Incident /\ Mutation \cap Query = {} /\ Nobody \notin Call
  /\ {MaxPending, MaxRetry, MaxSocket} \subseteq Nat

VARIABLES
  pc,       \* per call: where invokeWebRuntimeRaw is
  attempt,  \* per call: retries so far
  late,     \* the calls whose deadline has passed
  sock,     \* per call: the socket it waits for or was sent on
  state,    \* per socket: new, connecting, open, closing (its close event is to come), closed
  wired,    \* sockets whose events the channel hears
  socket,   \* WebRuntimeWsRpcChannel.socket; 0 is null
  opening,  \* the socket of openPromise; 0 is null
  cooling,  \* the WebSocket endpoint is marked unavailable
  inflight, \* webRuntimeReadInFlight: the call that runs the read
  cached,   \* webRuntimeReadCache has an entry that is not a second old
  wire,     \* requests the service may still execute
  replies,  \* answers under way
  runs      \* how often the service executed each call, by the way it came

client == <<pc, attempt, late, sock, inflight, cached, cooling>>
channel == <<state, wired, socket, opening>>
network == <<wire, replies, runs>>
vars == <<client, channel, network>>

Socket == 1 .. MaxSocket
Way == {"ws", "http"}

Init ==
  /\ pc = [c \in Call |-> "idle"] /\ attempt = [c \in Call |-> 0] /\ late = {}
  /\ sock = [c \in Call |-> 0]
  /\ state = [s \in Socket |-> "new"] /\ wired = {} /\ socket = 0 /\ opening = 0
  /\ cooling = FALSE /\ inflight = Nobody /\ cached = FALSE
  /\ wire = {} /\ replies = {} /\ runs = [c \in Call |-> [w \in Way |-> 0]]

Pending == {c \in Call : pc[c] = "sent"}
Request(c, s, n) == [call |-> c, sock |-> s, try |-> n]
By(m) == IF m.sock = 0 THEN "http" ELSE "ws"

-----------------------------------------------------------------------------
(* Where calls go next, as updates of pc.                                  *)

\* The end of a call, and of the reads that wait for the same request.
Settled(p, c, end) ==
  [x \in Call |-> IF x = c \/ (inflight = c /\ p[x] = "shared") THEN end ELSE p[x]]

\* A set of calls leaves the WebSocket for HTTP: those whose deadline has
\* passed fail, the others are sent again.
LeaveWs(calls) ==
  LET gone == calls \cap late
      over(c) == c \in gone \/ (inflight \in gone /\ pc[c] = "shared")
  IN /\ pc' = [c \in Call |-> IF over(c) THEN "failed" ELSE IF c \in calls THEN "http" ELSE pc[c]]
     /\ inflight' = IF inflight \in gone THEN Nobody ELSE inflight
     /\ wire' = wire \cup {Request(c, 0, attempt[c]) : c \in calls \ gone}

-----------------------------------------------------------------------------
(* Starting a call.                                                        *)

\* Sent over socket s; with too many requests pending on the channel, over HTTP.
SendOver(s, c) ==
  /\ inflight' = IF c \in Query THEN c ELSE inflight
  /\ \/ /\ Cardinality(Pending) < MaxPending
        /\ pc' = [pc EXCEPT ![c] = "sent"] /\ sock' = [sock EXCEPT ![c] = s]
        /\ wire' = wire \cup {Request(c, s, 0)} /\ UNCHANGED cooling
     \/ /\ Cardinality(Pending) >= MaxPending
        /\ pc' = [pc EXCEPT ![c] = "http"] /\ wire' = wire \cup {Request(c, 0, 0)}
        /\ cooling' = TRUE /\ UNCHANGED sock

\* ensureSocket: the open socket, the one being opened, or a new one.
ViaWs(c) ==
  \/ /\ socket # 0 /\ state[socket] = "open"
     /\ SendOver(socket, c)
     /\ UNCHANGED channel
  \/ /\ ~(socket # 0 /\ state[socket] = "open")
     /\ pc' = [pc EXCEPT ![c] = "opening"]
     /\ inflight' = IF c \in Query THEN c ELSE inflight
     /\ \/ /\ opening # 0 /\ sock' = [sock EXCEPT ![c] = opening]
           /\ UNCHANGED channel
        \/ \E s \in Socket :
             /\ opening = 0 /\ state[s] = "new" /\ \A t \in 1 .. s - 1 : state[t] # "new"
             /\ sock' = [sock EXCEPT ![c] = s]
             /\ state' = [state EXCEPT ![s] = "connecting"] /\ wired' = wired \cup {s}
             /\ opening' = s /\ UNCHANGED socket
     /\ UNCHANGED <<wire, cooling>>

ViaHttp(c) ==
  /\ pc' = [pc EXCEPT ![c] = "http"]
  /\ inflight' = IF c \in Query THEN c ELSE inflight
  /\ wire' = wire \cup {Request(c, 0, 0)}
  /\ UNCHANGED <<sock, cooling, channel>>

\* Mutant: equal reads do not wait for each other.
InvokeEach(c) ==
  /\ pc[c] = "idle"
  /\ IF c \in Query /\ cached
     THEN /\ pc' = [pc EXCEPT ![c] = "done"]
          /\ UNCHANGED <<inflight, wire, sock, cooling, channel>>
     ELSE IF "ws" \in Happens /\ ~cooling THEN ViaWs(c) ELSE ViaHttp(c)
  /\ UNCHANGED <<attempt, late, cached, replies, runs>>

\* invokeWebRuntimeRaw
Invoke(c) ==
  /\ pc[c] = "idle"
  /\ IF c \in Query /\ (cached \/ inflight # Nobody)
     THEN /\ pc' = [pc EXCEPT ![c] = IF cached THEN "done" ELSE "shared"]
          /\ UNCHANGED <<inflight, wire, sock, cooling, channel>>
     ELSE IF "ws" \in Happens /\ ~cooling THEN ViaWs(c) ELSE ViaHttp(c)
  /\ UNCHANGED <<attempt, late, cached, replies, runs>>

-----------------------------------------------------------------------------
(* The WebSocket.                                                          *)

\* settle({ok: true}): those who waited for this socket send.  The channel
\* then holds this socket, whatever it held before.
OnOpen(s) ==
  LET waiting == {c \in Call : pc[c] = "opening" /\ sock[c] = s}
      room == MaxPending - Cardinality(Pending)
  IN /\ state[s] = "connecting"
     /\ state' = [state EXCEPT ![s] = "open"]
     /\ socket' = s /\ opening' = 0
     /\ Cardinality(waiting) <= room   \* bound: no more wait than may be pending
     /\ pc' = [c \in Call |-> IF c \in waiting THEN "sent" ELSE pc[c]]
     /\ wire' = wire \cup {Request(c, s, 0) : c \in waiting}
     /\ UNCHANGED <<attempt, late, sock, inflight, cached, cooling, wired, replies, runs>>

\* settle({ok: false})
OnRefused(s) ==
  /\ "refused" \in Happens /\ state[s] = "connecting"
  /\ state' = [state EXCEPT ![s] = "closed"] /\ wired' = wired \ {s}
  /\ opening' = 0 /\ cooling' = TRUE
  /\ LeaveWs({c \in Call : pc[c] = "opening" /\ sock[c] = s})
  /\ UNCHANGED <<attempt, late, sock, cached, socket, replies, runs>>

\* The connection is lost; its close event comes later.
Drops(s) ==
  /\ "dropped" \in Happens /\ state[s] = "open"
  /\ state' = [state EXCEPT ![s] = "closing"]
  /\ UNCHANGED <<client, wired, socket, opening, network>>

\* handleSocketRuntimeFailure: whichever socket the event is of, all pending
\* requests fail and the socket the channel holds is torn down.
OnDown(s) ==
  /\ state[s] = "closing" /\ s \in wired
  /\ cooling' = TRUE
  /\ LeaveWs(Pending)
  /\ wired' = wired \ {socket} /\ socket' = 0
  /\ opening' = IF socket = 0 THEN opening ELSE 0
  /\ state' = [x \in Socket |-> IF x \in {s, socket} THEN "closed" ELSE state[x]]
  /\ UNCHANGED <<attempt, late, sock, cached, replies, runs>>

\* handleSocketMessage: an answer without a pending request is dropped; an error ends the
\* call, which is not tried again over HTTP.
OnMessage(m) ==
  /\ m.sock # 0 /\ replies' = replies \ {m}
  /\ IF state[m.sock] = "open" /\ m.sock \in wired /\ pc[m.call] = "sent"
     THEN /\ inflight' = IF inflight = m.call THEN Nobody ELSE inflight
          /\ \/ /\ pc' = Settled(pc, m.call, "done") /\ cooling' = FALSE
                /\ cached' = (cached \/ m.call \in Query)
             \/ /\ "failed" \in Happens /\ pc' = Settled(pc, m.call, "failed")
                /\ UNCHANGED <<cooling, cached>>
     ELSE UNCHANGED <<pc, cooling, inflight, cached>>
  /\ UNCHANGED <<attempt, late, sock, channel, wire, runs>>

\* Mutant: the timer of a request does not reject it.
TimeoutQuietly(c) == pc[c] = "sent" /\ c \in late /\ UNCHANGED vars

\* The timer of a request sent over the WebSocket
Timeout(c) ==
  /\ pc[c] = "sent" /\ c \in late
  /\ LeaveWs({c}) /\ cooling' = TRUE
  /\ UNCHANGED <<attempt, late, sock, cached, channel, replies, runs>>

\* The second of markWebRuntimeWsUnavailable is over.
CoolDown ==
  /\ "cool" \in Happens /\ cooling /\ cooling' = FALSE
  /\ UNCHANGED <<pc, attempt, late, sock, inflight, cached, channel, network>>

-----------------------------------------------------------------------------
(* HTTP.                                                                   *)

HttpAnswered(m) ==
  /\ m.sock = 0 /\ replies' = replies \ {m}
  /\ IF pc[m.call] = "http" /\ attempt[m.call] = m.try
     THEN /\ pc' = Settled(pc, m.call, "done")
          /\ inflight' = IF inflight = m.call THEN Nobody ELSE inflight
          /\ cached' = (cached \/ m.call \in Query)
     ELSE UNCHANGED <<pc, inflight, cached>>
  /\ UNCHANGED <<attempt, late, sock, cooling, channel, wire, runs>>

GiveUp(c) ==
  /\ pc' = Settled(pc, c, "failed")
  /\ inflight' = IF inflight = c THEN Nobody ELSE inflight

\* Mutant: every method is retried.
MayRetryAll(c) == attempt[c] < MaxRetry /\ c \notin late

\* shouldRetryWebRuntimeInvocation, and a delay that fits in the budget
MayRetry(c) == c \in Query /\ attempt[c] < MaxRetry /\ c \notin late

\* The request fails or times out, before or after the service executed it.
HttpFails(c) ==
  /\ pc[c] = "http" /\ ("failed" \in Happens \/ c \in late)
  /\ IF MayRetry(c) THEN pc' = [pc EXCEPT ![c] = "sleep"] /\ UNCHANGED inflight ELSE GiveUp(c)
  /\ attempt' = [attempt EXCEPT ![c] = IF MayRetry(c) THEN @ + 1 ELSE @]
  /\ UNCHANGED <<late, sock, cached, cooling, channel, network>>

WakesUp(c) ==
  /\ pc[c] = "sleep"
  /\ IF c \in late THEN GiveUp(c) /\ UNCHANGED wire
     ELSE /\ pc' = [pc EXCEPT ![c] = "http"] /\ wire' = wire \cup {Request(c, 0, attempt[c])}
          /\ UNCHANGED inflight
  /\ UNCHANGED <<attempt, late, sock, cached, cooling, channel, replies, runs>>

-----------------------------------------------------------------------------
(* Time and the service.                                                   *)

DeadlinePasses(c) ==
  /\ "late" \in Happens /\ pc[c] \notin {"idle", "done", "failed"} /\ late' = late \cup {c}
  /\ UNCHANGED <<pc, attempt, sock, inflight, cached, cooling, channel, network>>

CacheExpires ==
  /\ cached /\ cached' = FALSE
  /\ UNCHANGED <<pc, attempt, late, sock, inflight, cooling, channel, network>>

\* The service executes a request; an answer on a lost connection is lost.
Execute(m) ==
  /\ wire' = wire \ {m} /\ runs' = [runs EXCEPT ![m.call][By(m)] = @ + 1]
  /\ replies' = replies \cup {m}
  /\ UNCHANGED <<client, channel>>

Next ==
  \/ \E c \in Call : Invoke(c) \/ Timeout(c) \/ HttpFails(c) \/ WakesUp(c) \/ DeadlinePasses(c)
  \/ \E s \in Socket : OnOpen(s) \/ OnRefused(s) \/ Drops(s) \/ OnDown(s)
  \/ \E m \in replies : OnMessage(m) \/ HttpAnswered(m)
  \/ \E m \in wire : Execute(m)
  \/ CoolDown \/ CacheExpires

Spec == Init /\ [][Next]_vars

\* Time passes, timers and events of the browser come; the service need not answer.
Fairness ==
  /\ \A c \in Call :
       WF_vars(DeadlinePasses(c)) /\ WF_vars(Timeout(c)) /\ WF_vars(WakesUp(c))
         /\ WF_vars(c \in late /\ HttpFails(c))
  /\ \A s \in Socket : WF_vars(OnOpen(s) \/ OnRefused(s)) /\ WF_vars(OnDown(s))
FairSpec == Spec /\ Fairness

-----------------------------------------------------------------------------
(* Properties.                                                             *)

TypeOK ==
  /\ pc \in [Call -> {"idle", "shared", "opening", "sent", "http", "sleep", "done", "failed"}]
  /\ attempt \in [Call -> 0 .. MaxRetry] /\ late \subseteq Call
  /\ sock \in [Call -> 0 .. MaxSocket]
  /\ state \in [Socket -> {"new", "connecting", "open", "closing", "closed"}]
  /\ wired \subseteq Socket /\ {socket, opening} \subseteq 0 .. MaxSocket
  /\ {cooling, cached} \subseteq BOOLEAN /\ inflight \in Query \cup {Nobody}
  /\ wire \cup replies \subseteq [call : Call, sock : 0 .. MaxSocket, try : 0 .. MaxRetry]
  /\ runs \in [Call -> [Way -> Nat]]

\* A call that changes the service's state is executed at most once by each way, whatever
\* fails: a turn that is sent twice is answered twice.  It is executed both ways only where
\* connections are lost, as a call that waits for its answer then is sent again over HTTP.
AtMostOnce ==
  \A c \in Mutation : /\ \A w \in Way : runs[c][w] <= 1
                      /\ runs[c]["ws"] + runs[c]["http"] = 2 => "dropped" \in Happens

Running == {"opening", "sent", "http", "sleep"}

\* Equal reads share one request: the one that is in flight, and only that,
\* runs, and those that wait for it always wait for one that runs.
OneReadAtATime ==
  /\ \A c \in Query : pc[c] \in Running <=> inflight = c
  /\ \A c \in Query : pc[c] = "shared" => inflight # Nobody

\* No request waits on a socket whose events nobody hears: the end of its
\* connection would never reach it.
NoneForgotten == \A c \in Pending : sock[c] \in wired

\* The client holds one connection: no second one is opened beside it.
OneSocket == Cardinality({s \in wired : state[s] \in {"connecting", "open"}}) <= 1

\* Nothing is sent for a call whose deadline has passed.
NothingSentLate == [][\A m \in wire' \ wire : m.call \notin late]_vars

\* A call ends, though the service may never answer.
EveryCallEnds == \A c \in Call : pc[c] # "idle" ~> pc[c] \in {"done", "failed"}
=============================================================================
