------------------------- MODULE RpcTransportProofs -------------------------
(***************************************************************************)
(* Calls of the web client: equal reads share one request, no request      *)
(* waits on a socket that is not heard any more, and a write is executed   *)
(* at most once over the WebSocket and at most once over HTTP, whatever is *)
(* lost under it.  For any calls, sockets, limits and failures.            *)
(*                                                                         *)
(* After them, the probe the transport is chosen by (module                *)
(* CapabilitiesProbe, as Probe): what is learnt of the runtime behind an   *)
(* endpoint, by any callers, over any changes of endpoint and version.     *)
(***************************************************************************)
EXTENDS RpcTransport, TLAPS, FiniteSetTheorems

Pc == {"idle", "shared", "opening", "sent", "http", "sleep", "done", "failed"}
Message == [call : Call, sock : 0 .. MaxSocket, try : 0 .. MaxRetry]

\* The types; what is not running yet is not late and was not tried.
Shape ==
  /\ pc \in [Call -> Pc] /\ attempt \in [Call -> 0 .. MaxRetry] /\ late \subseteq Call
  /\ sock \in [Call -> 0 .. MaxSocket]
  /\ state \in [Socket -> {"new", "connecting", "open", "closing", "closed"}]
  /\ wired \subseteq Socket /\ socket \in 0 .. MaxSocket /\ opening \in 0 .. MaxSocket
  /\ cooling \in BOOLEAN /\ cached \in BOOLEAN /\ inflight \in Query \cup {Nobody}
  /\ wire \subseteq Message /\ replies \subseteq Message
  /\ runs \in [Call -> [Way -> Nat]]
  /\ \A c \in Call : pc[c] = "idle" => c \notin late /\ attempt[c] = 0
  /\ \A c \in Mutation : pc[c] \notin {"shared", "sleep"}

\* A socket that may open or is open is heard, and so is the one a request was sent on.
Heard ==
  /\ \A s \in Socket : state[s] \in {"connecting", "open"} => s \in wired
  /\ \A c \in Pending : sock[c] \in wired /\ state[sock[c]] \notin {"new", "connecting"}

Inv == Shape /\ OneReadAtATime /\ Heard

\* Where a call is that was not sent by a way yet.
Before(w) == IF w = "ws" THEN {"idle", "opening"} ELSE {"idle", "opening", "sent"}

\* By each way a write is on its way or was executed, at most once, from the moment it is
\* sent, and nothing that was sent over the WebSocket before came over HTTP.
Each ==
  /\ \A w \in Way : \A c \in Mutation : pc[c] \in Before(w) =>
       runs[c][w] = 0 /\ \A m \in wire : m.call = c => By(m) # w
  /\ \A w \in Way : \A c \in Mutation :
       runs[c][w] \in {0, 1} /\ (runs[c][w] = 1 => \A m \in wire : m.call = c => By(m) # w)
  /\ \A m, n \in wire : m.call = n.call /\ By(m) = By(n) /\ m.call \in Mutation => m = n

\* Whatever the way.
Total(c) == runs[c]["ws"] + runs[c]["http"]

\* A write is on its way or was executed, at most once, from the moment it is sent; and no
\* connection is lost.
Once ==
  /\ \A c \in Mutation : pc[c] \in {"idle", "opening"} =>
       Total(c) = 0 /\ \A m \in wire : m.call # c
  /\ \A c \in Mutation : Total(c) \in {0, 1} /\ (Total(c) = 1 => \A m \in wire : m.call # c)
  /\ \A m, n \in wire : m.call = n.call /\ m.call \in Mutation => m = n
  /\ \A s \in Socket : state[s] # "closing"

\* What the assumption says, and what is a request.
LEMMA Constants ==
  ASSUME TransportAssumption
  PROVE  /\ MaxPending \in Nat /\ MaxRetry \in Nat /\ MaxSocket \in Nat
         /\ Socket \subseteq 0 .. MaxSocket /\ 0 \notin Socket /\ 0 \in 0 .. MaxSocket
         /\ Mutation \cap Query = {} /\ Nobody \notin Call /\ Call = Mutation \cup Query
         /\ \A c \in Call, s \in 0 .. MaxSocket, n \in 0 .. MaxRetry : Request(c, s, n) \in Message
         /\ 0 \in 0 .. MaxRetry
  BY DEF TransportAssumption, Socket, Call, Request, Message

\* Nobody has called at the start.
LEMMA InitInv ==
  ASSUME TransportAssumption, Init
  PROVE  Inv /\ Once /\ Each
<1>1. /\ pc = [c \in Call |-> "idle"] /\ attempt = [c \in Call |-> 0] /\ late = {}
      /\ sock = [c \in Call |-> 0]
      /\ state = [s \in Socket |-> "new"] /\ wired = {} /\ socket = 0 /\ opening = 0
      /\ cooling = FALSE /\ inflight = Nobody /\ cached = FALSE
      /\ wire = {} /\ replies = {} /\ runs = [c \in Call |-> [w \in Way |-> 0]]
  BY DEF Init
<1>2. Shape
  BY <1>1, Constants DEF Shape, Pc, Way
<1>3. OneReadAtATime
  BY <1>1, Constants DEF OneReadAtATime, Running
<1>4. Heard
  BY <1>1, Constants DEF Heard, Pending
<1>5. \A c \in Call : Total(c) = 0
  BY <1>1 DEF Total, Way
<1>6. Once
  BY <1>1, <1>5, Constants DEF Once
<1>7. Each
  BY <1>1, Constants DEF Each
<1> QED BY <1>2, <1>3, <1>4, <1>6, <1>7 DEF Inv

\* What is sent by a way for the first time: no step but the execution of a request breaks Each.
LEMMA SendsEach ==
  ASSUME Each, UNCHANGED runs,
         \A w \in Way : \A c \in Mutation : pc'[c] \in Before(w) => pc[c] \in Before(w),
         \A m \in wire' : m \in wire \/ m.call \notin Mutation
                         \/ (pc[m.call] \in Before(By(m)) /\ pc'[m.call] \notin Before(By(m))),
         \A m, n \in wire' : m \notin wire /\ n \notin wire /\ m.call = n.call
                             /\ m.call \in Mutation => m = n
  PROVE  Each'
<1>1. \A m : By(m)' = By(m) /\ By(m) \in Way
  BY DEF By, Way
<1>2. \A w \in Way : Before(w)' = Before(w)
  BY DEF Before
<1>3. \A w \in Way : \A c \in Mutation : pc'[c] \in Before(w) =>
        runs'[c][w] = 0 /\ \A m \in wire' : m.call = c => By(m) # w
  BY DEF Each
<1>4. \A w \in Way : \A c \in Mutation :
        runs'[c][w] \in {0, 1} /\ (runs'[c][w] = 1 => \A m \in wire' : m.call = c => By(m) # w)
  BY <1>1 DEF Each
<1>5. \A m, n \in wire' : m.call = n.call /\ By(m) = By(n) /\ m.call \in Mutation => m = n
  <2> SUFFICES ASSUME NEW m \in wire', NEW n \in wire', m.call = n.call, By(m) = By(n),
                      m.call \in Mutation
               PROVE  m = n
    OBVIOUS
  <2>1. CASE m \in wire /\ n \in wire
    BY <2>1 DEF Each
  <2>2. CASE m \notin wire /\ n \notin wire
    BY <2>2
  <2>3. CASE m \in wire /\ n \notin wire
    BY <1>1, <2>3 DEF Each
  <2>4. CASE m \notin wire /\ n \in wire
    BY <1>1, <2>4 DEF Each
  <2> QED BY <2>1, <2>2, <2>3, <2>4
<1> QED BY <1>3, <1>4, <1>5 DEF Each, By

-----------------------------------------------------------------------------
(* Calls that leave the WebSocket, and calls that end.                     *)

\* Calls that run leave: those that are late fail, and who waited for them.
LEMMA LeaveKeeps ==
  ASSUME TransportAssumption, Shape, OneReadAtATime, NEW calls \in SUBSET Call,
         \A c \in calls : pc[c] \in Running, LeaveWs(calls)
  PROVE  /\ pc' \in [Call -> Pc] /\ OneReadAtATime' /\ wire' \subseteq Message
         /\ inflight' \in Query \cup {Nobody}
         /\ \A c \in Call : pc'[c] # "idle" \/ pc[c] = "idle"
         /\ \A c \in Mutation : pc'[c] \notin {"shared", "sleep"}
         /\ \A c \in Call : pc'[c] = "sent" => pc[c] = "sent" /\ c \notin calls
         /\ \A c \in Call : pc'[c] = "opening" => pc[c] = "opening" /\ c \notin calls
         /\ \A m \in wire' : m \in wire \/ \E c \in calls \ late : m = Request(c, 0, attempt[c])
<1> DEFINE gone == calls \cap late
           over(c) == c \in gone \/ (inflight \in gone /\ pc[c] = "shared")
<1>1. /\ pc' = [c \in Call |-> IF over(c) THEN "failed" ELSE IF c \in calls THEN "http" ELSE pc[c]]
      /\ inflight' = IF inflight \in gone THEN Nobody ELSE inflight
      /\ wire' = wire \cup {Request(c, 0, attempt[c]) : c \in calls \ gone}
  BY DEF LeaveWs
<1>2. \A c \in calls : attempt[c] \in 0 .. MaxRetry /\ Request(c, 0, attempt[c]) \in Message
  BY Constants DEF Shape
<1>3. pc' \in [Call -> Pc] /\ wire' \subseteq Message /\ inflight' \in Query \cup {Nobody}
  BY <1>1, <1>2 DEF Shape, Pc
<1>4. OneReadAtATime'
  <2>1. \A c \in Query : pc'[c] \in Running <=> inflight' = c
    <3> SUFFICES ASSUME NEW c \in Query PROVE pc'[c] \in Running <=> inflight' = c
      OBVIOUS
    <3>0. c \in Call /\ c # Nobody
      BY Constants
    <3>1. pc[c] \in Running <=> inflight = c
      BY DEF OneReadAtATime
    <3>2. CASE c \in gone
      BY <1>1, <3>0, <3>1, <3>2 DEF Running
    <3>3. CASE c \notin gone /\ inflight \in gone
      BY <1>1, <3>0, <3>1, <3>3 DEF Running
    <3>4. CASE c \notin gone /\ inflight \notin gone
      BY <1>1, <3>0, <3>1, <3>4 DEF Running
    <3> QED BY <3>2, <3>3, <3>4
  <2>2. \A c \in Query : pc'[c] = "shared" => inflight' # Nobody
    BY <1>1, Constants DEF OneReadAtATime
  <2> QED BY <2>1, <2>2 DEF OneReadAtATime
<1>5. \A c \in Call : /\ pc'[c] # "idle" \/ pc[c] = "idle"
                      /\ pc'[c] \in {"shared", "sleep", "sent", "opening"} => pc'[c] = pc[c] /\ c \notin calls
  BY <1>1
<1>6. \A c \in Mutation : pc'[c] \notin {"shared", "sleep"}
  BY <1>5, Constants DEF Shape
<1>7. \A m \in wire' : m \in wire \/ \E c \in calls \ late : m = Request(c, 0, attempt[c])
  BY <1>1
<1> QED BY <1>3, <1>4, <1>5, <1>6, <1>7

\* A call that runs ends, and who waited for it.
LEMMA EndKeeps ==
  ASSUME TransportAssumption, Shape, OneReadAtATime, NEW c \in Call, pc[c] \in Running,
         NEW end \in {"done", "failed"}, pc' = Settled(pc, c, end),
         inflight' = IF inflight = c THEN Nobody ELSE inflight
  PROVE  /\ pc' \in [Call -> Pc] /\ OneReadAtATime' /\ inflight' \in Query \cup {Nobody}
         /\ \A x \in Call : pc'[x] \in {"shared", "sleep", "sent", "opening", "http", "idle"}
                            => pc'[x] = pc[x]
         /\ pc'[c] = end
<1>1. pc' = [x \in Call |-> IF x = c \/ (inflight = c /\ pc[x] = "shared") THEN end ELSE pc[x]]
  BY DEF Settled
<1>2. pc' \in [Call -> Pc] /\ inflight' \in Query \cup {Nobody}
  BY <1>1 DEF Shape, Pc
<1>3. \A x \in Query : pc'[x] \in Running <=> inflight' = x
  <2> SUFFICES ASSUME NEW x \in Query PROVE pc'[x] \in Running <=> inflight' = x
    OBVIOUS
  <2>1. x \in Call /\ x # Nobody /\ (pc[x] \in Running <=> inflight = x)
    BY Constants DEF OneReadAtATime
  <2>2. end \notin Running /\ "shared" \notin Running
    BY DEF Running
  <2> QED BY <1>1, <2>1, <2>2
<1>4. \A x \in Query : pc'[x] = "shared" => inflight' # Nobody
  BY <1>1, Constants DEF OneReadAtATime
<1>5. \A x \in Call : pc'[x] = pc[x] \/ pc'[x] = end
  BY <1>1
<1> QED BY <1>1, <1>2, <1>3, <1>4, <1>5 DEF OneReadAtATime

-----------------------------------------------------------------------------
(* Starting a call.                                                        *)

\* A read that starts is the one that is in flight.
LEMMA StartKeeps ==
  ASSUME TransportAssumption, Shape, OneReadAtATime, NEW c \in Call, pc[c] = "idle",
         NEW p \in {"opening", "sent", "http"}, pc' = [pc EXCEPT ![c] = p],
         c \in Query => inflight = Nobody,
         inflight' = IF c \in Query THEN c ELSE inflight
  PROVE  /\ pc' \in [Call -> Pc] /\ OneReadAtATime' /\ inflight' \in Query \cup {Nobody}
         /\ pc'[c] = p /\ \A x \in Call \ {c} : pc'[x] = pc[x]
<1>1. /\ pc'[c] = p /\ \A x \in Call \ {c} : pc'[x] = pc[x]
      /\ pc' \in [Call -> Pc] /\ inflight' \in Query \cup {Nobody}
  BY DEF Shape, Pc
<1>2. p \in Running /\ p # "shared" /\ "idle" \notin Running
  BY DEF Running
<1>3. \A x \in Query : x \in Call /\ x # Nobody
  BY Constants
<1> QED BY <1>1, <1>2, <1>3 DEF OneReadAtATime

\* A call that starts over the WebSocket, or over HTTP.
LEMMA InvokeInv ==
  ASSUME TransportAssumption, Inv, NEW c \in Call, Invoke(c)
  PROVE  Inv' /\ (Once => Once') /\ (Each => Each')
<1> USE DEF Inv
<1>1. pc[c] = "idle" /\ c \notin late /\ attempt[c] = 0 /\ UNCHANGED <<attempt, late, cached, replies, runs>>
  BY DEF Invoke, Shape
<1>2. CASE /\ c \in Query /\ (cached \/ inflight # Nobody)
           /\ pc' = [pc EXCEPT ![c] = IF cached THEN "done" ELSE "shared"]
           /\ UNCHANGED <<inflight, wire, sock, cooling, channel>>
  <2>1. /\ pc'[c] \in {"done", "shared"} /\ (pc'[c] = "shared" => inflight # Nobody)
        /\ \A x \in Call \ {c} : pc'[x] = pc[x]
        /\ pc' \in [Call -> Pc]
    BY <1>1, <1>2 DEF Shape, Pc
  <2>2. c \notin Mutation /\ UNCHANGED <<state, wired, socket, opening>>
    BY <1>2, Constants DEF channel
  <2>3. Shape'
    BY <1>1, <1>2, <2>1, <2>2 DEF Shape
  <2>4. OneReadAtATime'
    BY <1>1, <1>2, <2>1, Constants DEF OneReadAtATime, Running
  <2>5. Heard'
    BY <1>2, <2>1, <2>2 DEF Heard, Pending
  <2>6. Once => Once'
    BY <1>1, <1>2, <2>1, <2>2, Constants DEF Once, Total
  <2>7. Each => Each'
    <3>1. \A w \in Way : \A x \in Mutation : pc'[x] \in Before(w) => pc[x] \in Before(w)
      BY <2>1, <2>2, Constants
    <3> QED BY <1>1, <1>2, <3>1, SendsEach
  <2> QED BY <2>3, <2>4, <2>5, <2>6, <2>7
<1>3. ASSUME NEW p \in {"opening", "sent", "http"}, pc' = [pc EXCEPT ![c] = p],
             c \in Query => inflight = Nobody,
             inflight' = IF c \in Query THEN c ELSE inflight,
             sock' \in [Call -> 0 .. MaxSocket], \A x \in Call \ {c} : sock'[x] = sock[x],
             p = "sent" => sock'[c] \in wired' /\ state'[sock'[c]] \notin {"new", "connecting"},
             p = "opening" => wire' = wire,
             p # "opening" => \E s \in 0 .. MaxSocket : (p = "sent" => s # 0)
                                                       /\ wire' = wire \cup {Request(c, s, 0)},
             cooling' \in BOOLEAN,
             state' \in [Socket -> {"new", "connecting", "open", "closing", "closed"}],
             wired' \subseteq Socket, wired \subseteq wired',
             socket' \in 0 .. MaxSocket, opening' \in 0 .. MaxSocket,
             \A s \in Socket : state'[s] = state[s]
                               \/ (state[s] = "new" /\ state'[s] = "connecting" /\ s \in wired')
      PROVE  Inv' /\ (Once => Once') /\ (Each => Each')
  <2>1. /\ pc' \in [Call -> Pc] /\ OneReadAtATime' /\ inflight' \in Query \cup {Nobody}
        /\ pc'[c] = p /\ \A x \in Call \ {c} : pc'[x] = pc[x]
    BY <1>1, <1>3, StartKeeps
  <2>2. \A m \in wire' : m \in wire \/ (p # "opening" /\ m.call = c /\ m \in Message
                                        /\ \A n \in wire' : n \in wire \/ n = m)
    <3>1. CASE p = "opening"
      BY <1>3, <3>1
    <3>2. CASE p # "opening"
      <4>1. PICK s \in 0 .. MaxSocket : (p = "sent" => s # 0) /\ wire' = wire \cup {Request(c, s, 0)}
        BY <1>3, <3>2
      <4>2. Request(c, s, 0) \in Message /\ Request(c, s, 0).call = c
        BY Constants DEF Request
      <4> QED BY <3>2, <4>1, <4>2
    <3> QED BY <3>1, <3>2
  <2>3. Shape'
    BY <1>1, <1>3, <2>1, <2>2 DEF Shape
  <2>4. Heard'
    <3>1. \A s \in Socket : state'[s] \in {"connecting", "open"} => s \in wired'
      BY <1>3 DEF Heard
    <3>2. \A x \in Call : pc'[x] = "sent" =>
            sock'[x] \in wired' /\ state'[sock'[x]] \notin {"new", "connecting"}
      <4>1. CASE p = "sent"
        BY <1>3, <2>1, <4>1 DEF Heard, Pending, Shape
      <4>2. CASE p # "sent"
        BY <1>3, <2>1, <4>2 DEF Heard, Pending, Shape
      <4> QED BY <4>1, <4>2
    <3> QED BY <3>1, <3>2 DEF Heard, Pending
  <2>5. Once => Once'
    <3> SUFFICES ASSUME Once PROVE Once'
      OBVIOUS
    <3>1. \A x \in Mutation : pc'[x] \in {"idle", "opening"} =>
            Total(x)' = 0 /\ \A m \in wire' : m.call # x
      BY <1>1, <1>3, <2>1, <2>2 DEF Once, Call, Total
    <3>2. \A x \in Mutation : Total(x)' \in {0, 1} /\ (Total(x)' = 1 => \A m \in wire' : m.call # x)
      BY <1>1, <2>1, <2>2 DEF Once, Total
    <3>3. \A m, n \in wire' : m.call = n.call /\ m.call \in Mutation => m = n
      BY <1>1, <2>2 DEF Once
    <3>4. \A s \in Socket : state'[s] # "closing"
      BY <1>3 DEF Once
    <3> QED BY <3>1, <3>2, <3>3, <3>4 DEF Once
  <2>6. Each => Each'
    <3>1. \A w \in Way : pc[c] \in Before(w)
      BY <1>1 DEF Before
    <3>2. \A w \in Way : \A x \in Mutation : pc'[x] \in Before(w) => pc[x] \in Before(w)
      BY <2>1, <3>1, Constants
    <3>3. \A m \in wire' : m \in wire \/ pc'[m.call] \notin Before(By(m))
      <4> SUFFICES ASSUME NEW m \in wire', m \notin wire PROVE pc'[m.call] \notin Before(By(m))
        OBVIOUS
      <4>1. p # "opening" /\ m.call = c /\ pc'[c] = p
        BY <2>1, <2>2
      <4>2. PICK s \in 0 .. MaxSocket : (p = "sent" => s # 0) /\ wire' = wire \cup {Request(c, s, 0)}
        BY <1>3, <4>1
      <4>3. m = Request(c, s, 0)
        BY <4>2
      <4> QED BY <4>1, <4>2, <4>3 DEF Before, By, Request
    <3> QED BY <1>1, <2>2, <3>1, <3>2, <3>3, SendsEach DEF By, Way
  <2> QED BY <2>1, <2>3, <2>4, <2>5, <2>6
<1>4. CASE ~(c \in Query /\ (cached \/ inflight # Nobody)) /\ ViaHttp(c)
  <2>1. UNCHANGED <<state, wired, socket, opening>>
    BY <1>4 DEF ViaHttp, channel
  <2>2. 0 \in 0 .. MaxSocket
    BY Constants
  <2> QED BY <1>3, <1>4, <2>1, <2>2 DEF ViaHttp, Shape
<1>5. CASE /\ ~(c \in Query /\ (cached \/ inflight # Nobody))
           /\ socket # 0 /\ state[socket] = "open" /\ SendOver(socket, c) /\ UNCHANGED channel
  <2>1. /\ UNCHANGED <<state, wired, socket, opening>> /\ socket \in 0 .. MaxSocket
        /\ socket \in Socket /\ socket \in wired /\ 0 \in 0 .. MaxSocket
    <3>1. socket \in 1 .. MaxSocket
      BY <1>5, Constants DEF Shape
    <3> QED BY <1>5, <3>1, Constants DEF channel, Heard, Shape, Socket
  <2>2. inflight' = IF c \in Query THEN c ELSE inflight
    BY <1>5 DEF SendOver
  <2>3. CASE /\ pc' = [pc EXCEPT ![c] = "sent"] /\ sock' = [sock EXCEPT ![c] = socket]
             /\ wire' = wire \cup {Request(c, socket, 0)} /\ UNCHANGED cooling
    BY <1>3, <1>5, <2>1, <2>2, <2>3 DEF Shape
  <2>4. CASE /\ pc' = [pc EXCEPT ![c] = "http"] /\ wire' = wire \cup {Request(c, 0, 0)}
             /\ cooling' = TRUE /\ UNCHANGED sock
    BY <1>3, <1>5, <2>1, <2>2, <2>4 DEF Shape
  <2> QED BY <1>5, <2>3, <2>4 DEF SendOver
<1>6. CASE /\ ~(c \in Query /\ (cached \/ inflight # Nobody))
           /\ pc' = [pc EXCEPT ![c] = "opening"]
           /\ inflight' = (IF c \in Query THEN c ELSE inflight)
           /\ opening # 0 /\ sock' = [sock EXCEPT ![c] = opening]
           /\ UNCHANGED channel /\ UNCHANGED <<wire, cooling>>
  BY <1>3, <1>6 DEF channel, Shape
<1>7. ASSUME ~(c \in Query /\ (cached \/ inflight # Nobody)),
             pc' = [pc EXCEPT ![c] = "opening"],
             inflight' = (IF c \in Query THEN c ELSE inflight),
             NEW s \in Socket, state[s] = "new", sock' = [sock EXCEPT ![c] = s],
             state' = [state EXCEPT ![s] = "connecting"], wired' = wired \cup {s},
             opening' = s, UNCHANGED socket, UNCHANGED <<wire, cooling>>
      PROVE  Inv' /\ (Once => Once') /\ (Each => Each')
  BY <1>3, <1>7, Constants DEF Shape
<1> QED BY <1>2, <1>4, <1>5, <1>6, <1>7 DEF Invoke, ViaWs

-----------------------------------------------------------------------------
(* The WebSocket.                                                          *)

\* Those who waited for a socket send over it.
LEMMA OpenInv ==
  ASSUME TransportAssumption, Inv, NEW s \in Socket, OnOpen(s)
  PROVE  Inv' /\ (Once => Once') /\ (Each => Each')
<1> USE DEF Inv
<1> DEFINE waiting == {c \in Call : pc[c] = "opening" /\ sock[c] = s}
<1>1. /\ state[s] = "connecting" /\ state' = [state EXCEPT ![s] = "open"]
      /\ socket' = s /\ opening' = 0
      /\ pc' = [c \in Call |-> IF c \in waiting THEN "sent" ELSE pc[c]]
      /\ wire' = wire \cup {Request(c, s, 0) : c \in waiting}
      /\ UNCHANGED <<attempt, late, sock, inflight, cached, cooling, wired, replies, runs>>
  BY DEF OnOpen
<1>2. \A c \in waiting : c \in Call /\ pc[c] = "opening" /\ sock[c] = s
  OBVIOUS
<1> HIDE DEF waiting
<1>3. \A c \in Call : pc'[c] = (IF c \in waiting THEN "sent" ELSE pc[c])
  BY <1>1
<1>4. \A m \in wire' : m \in wire \/ \E c \in waiting : m = Request(c, s, 0)
  BY <1>1
<1>5. Shape'
  <2>1. pc' \in [Call -> Pc]
    BY <1>1 DEF Shape, Pc
  <2>2. wire' \subseteq Message /\ s \in 0 .. MaxSocket /\ 0 \in 0 .. MaxSocket
    <3>1. s \in 0 .. MaxSocket /\ 0 \in 0 .. MaxSocket /\ 0 \in 0 .. MaxRetry
      BY Constants
    <3>2. \A m \in wire' : m \in Message
      BY <1>2, <1>4, <3>1, Constants DEF Shape
    <3> QED BY <3>1, <3>2
  <2>3. state' \in [Socket -> {"new", "connecting", "open", "closing", "closed"}]
    BY <1>1 DEF Shape
  <2>4. \A c \in Call : pc'[c] = "idle" => pc[c] = "idle"
    BY <1>2, <1>3
  <2>5. \A c \in Mutation : pc'[c] \notin {"shared", "sleep"}
    BY <1>3, Constants DEF Shape
  <2>6. \A c \in Call : pc'[c] = "idle" => c \notin late' /\ attempt'[c] = 0
    BY <1>1, <2>4 DEF Shape
  <2> QED BY <1>1, <2>1, <2>2, <2>3, <2>5, <2>6 DEF Shape
<1>6. OneReadAtATime'
  BY <1>1, <1>2, <1>3, Constants DEF OneReadAtATime, Running
<1>7. Heard'
  <2>1. \A t \in Socket : state'[t] = (IF t = s THEN "open" ELSE state[t])
    BY <1>1 DEF Shape
  <2>2. s \in wired
    BY <1>1 DEF Heard
  <2>3. \A c \in Call : pc'[c] = "sent" => sock[c] \in wired /\ state'[sock[c]] \notin {"new", "connecting"}
    <3> SUFFICES ASSUME NEW c \in Call, pc'[c] = "sent"
                 PROVE  sock[c] \in wired /\ state'[sock[c]] \notin {"new", "connecting"}
      OBVIOUS
    <3>1. CASE c \in waiting
      BY <1>2, <2>1, <2>2, <3>1
    <3>2. CASE c \notin waiting
      <4>1. sock[c] \in wired /\ state[sock[c]] \notin {"new", "connecting"} /\ sock[c] \in Socket
        BY <1>3, <3>2 DEF Heard, Pending, Shape
      <4> QED BY <2>1, <4>1
    <3> QED BY <3>1, <3>2
  <2> QED BY <1>1, <2>1, <2>2, <2>3 DEF Heard, Pending
<1>8. Once => Once'
  <2> SUFFICES ASSUME Once PROVE Once'
    OBVIOUS
  <2>1. \A m \in wire' : m \in wire \/ (m.call \in waiting /\ m = Request(m.call, s, 0))
    BY <1>4 DEF Request
  <2>2. \A c \in Mutation : pc'[c] \in {"idle", "opening"} =>
          c \notin waiting /\ pc[c] \in {"idle", "opening"}
    BY <1>3 DEF Call
  <2>3. \A c \in Mutation : c \in waiting => Total(c) = 0 /\ \A m \in wire : m.call # c
    BY <1>2 DEF Once
  <2>4. \A c \in Mutation : pc'[c] \in {"idle", "opening"} => Total(c)' = 0 /\ \A m \in wire' : m.call # c
    BY <1>1, <2>1, <2>2 DEF Once, Total
  <2>5. \A c \in Mutation : Total(c)' \in {0, 1} /\ (Total(c)' = 1 => \A m \in wire' : m.call # c)
    BY <1>1, <2>1, <2>3 DEF Once, Total
  <2>6. \A m, n \in wire' : m.call = n.call /\ m.call \in Mutation => m = n
    <3> SUFFICES ASSUME NEW m \in wire', NEW n \in wire', m.call = n.call, m.call \in Mutation
                 PROVE  m = n
      OBVIOUS
    <3>1. CASE m.call \in waiting
      BY <2>1, <2>3, <3>1
    <3>2. CASE m.call \notin waiting
      BY <2>1, <3>2 DEF Once
    <3> QED BY <3>1, <3>2
  <2>7. \A t \in Socket : state'[t] # "closing"
    BY <1>1 DEF Once, Shape
  <2> QED BY <2>4, <2>5, <2>6, <2>7 DEF Once
<1>9. Each => Each'
  <2>1. s # 0
    BY Constants
  <2>2. \A m \in wire' : m \in wire \/ (m.call \in waiting /\ m = Request(m.call, s, 0) /\ m.sock # 0)
    BY <1>4, <2>1 DEF Request
  <2>3. \A m \in wire' : m \in wire \/ (pc[m.call] \in Before(By(m)) /\ pc'[m.call] \notin Before(By(m)))
    BY <1>2, <1>3, <2>2 DEF Before, By
  <2>4. \A w \in Way : \A c \in Mutation : pc'[c] \in Before(w) => pc[c] \in Before(w)
    BY <1>2, <1>3 DEF Before, Call
  <2>5. \A m, n \in wire' : m \notin wire /\ n \notin wire /\ m.call = n.call => m = n
    BY <2>2
  <2> QED BY <1>1, <2>3, <2>4, <2>5, SendsEach
<1> QED BY <1>5, <1>6, <1>7, <1>8, <1>9

\* What a set of requests that leave the WebSocket does to the invariants, when only calls
\* that were not sent yet go on.
LEMMA LeaveInv ==
  ASSUME TransportAssumption, Inv, NEW calls \in SUBSET Call,
         \A c \in calls : pc[c] \in {"opening", "sent"}, LeaveWs(calls),
         UNCHANGED <<attempt, late, sock, cached, replies, runs>>, cooling' \in BOOLEAN,
         state' \in [Socket -> {"new", "connecting", "open", "closing", "closed"}],
         wired' \subseteq Socket, socket' \in 0 .. MaxSocket, opening' \in 0 .. MaxSocket,
         \A s \in Socket : state'[s] \in {"connecting", "open"} => s \in wired',
         \A c \in Call : pc[c] = "sent" /\ c \notin calls =>
           sock[c] \in wired' /\ state'[sock[c]] \notin {"new", "connecting"}
  PROVE  /\ Inv'
         /\ Once /\ (\A c \in calls : pc[c] = "opening" \/ c \in late)
                 /\ (\A s \in Socket : state'[s] # "closing") => Once'
         /\ Each => Each'
<1> USE DEF Inv
<1>1. /\ pc' \in [Call -> Pc] /\ OneReadAtATime' /\ wire' \subseteq Message
      /\ inflight' \in Query \cup {Nobody}
      /\ \A c \in Call : pc'[c] # "idle" \/ pc[c] = "idle"
      /\ \A c \in Mutation : pc'[c] \notin {"shared", "sleep"}
      /\ \A c \in Call : pc'[c] = "sent" => pc[c] = "sent" /\ c \notin calls
      /\ \A c \in Call : pc'[c] = "opening" => pc[c] = "opening" /\ c \notin calls
      /\ \A m \in wire' : m \in wire \/ \E c \in calls \ late : m = Request(c, 0, attempt[c])
  <2>1. \A c \in calls : pc[c] \in Running
    BY DEF Running
  <2> QED BY <2>1, LeaveKeeps
<1>2. Shape'
  BY <1>1 DEF Shape
<1>3. Heard'
  BY <1>1 DEF Heard, Pending
<1>4. ASSUME Once, \A c \in calls : pc[c] = "opening" \/ c \in late,
             \A s \in Socket : state'[s] # "closing"
      PROVE  Once'
  <2>1. \A m \in wire' : m \in wire \/ (m.call \in calls \ late /\ m = Request(m.call, 0, attempt[m.call]))
    BY <1>1 DEF Request
  <2>2. \A c \in Mutation : c \in calls \ late => Total(c) = 0 /\ \A m \in wire : m.call # c
    BY <1>4 DEF Once
  <2>3. \A c \in Mutation : pc'[c] \in {"idle", "opening"} =>
          pc[c] \in {"idle", "opening"} /\ c \notin calls
    BY <1>1 DEF Call
  <2>4. \A c \in Mutation : pc'[c] \in {"idle", "opening"} => Total(c)' = 0 /\ \A m \in wire' : m.call # c
    BY <1>4, <2>1, <2>3 DEF Once, Total
  <2>5. \A c \in Mutation : Total(c)' \in {0, 1} /\ (Total(c)' = 1 => \A m \in wire' : m.call # c)
    BY <1>4, <2>1, <2>2 DEF Once, Total
  <2>6. \A m, n \in wire' : m.call = n.call /\ m.call \in Mutation => m = n
    <3> SUFFICES ASSUME NEW m \in wire', NEW n \in wire', m.call = n.call, m.call \in Mutation
                 PROVE  m = n
      OBVIOUS
    <3>1. CASE m.call \in calls \ late
      BY <2>1, <2>2, <3>1
    <3>2. CASE m.call \notin calls \ late
      BY <1>4, <2>1, <3>2 DEF Once
    <3> QED BY <3>1, <3>2
  <2> QED BY <1>4, <2>4, <2>5, <2>6 DEF Once
<1>5. Each => Each'
  <2>1. \A m \in wire' : m \in wire \/ (/\ m.call \in calls \ late /\ m.sock = 0
                                       /\ m = Request(m.call, 0, attempt[m.call]))
    BY <1>1 DEF Request
  <2>2. \A c \in Call : pc'[c] \in {"idle", "opening", "sent"} => pc'[c] = pc[c]
    <3> SUFFICES ASSUME NEW c \in Call, pc'[c] \in {"idle", "opening", "sent"} PROVE pc'[c] = pc[c]
      OBVIOUS
    <3>1. pc' = [x \in Call |-> IF x \in calls \cap late \/ (inflight \in calls \cap late /\ pc[x] = "shared")
                               THEN "failed" ELSE IF x \in calls THEN "http" ELSE pc[x]]
      BY DEF LeaveWs
    <3> QED BY <3>1
  <2>3. \A w \in Way : \A c \in Mutation : pc'[c] \in Before(w) => pc[c] \in Before(w)
    BY <2>2 DEF Before, Call
  <2>4. \A m \in wire' : m \in wire \/ (pc[m.call] \in Before("http") /\ pc'[m.call] \notin Before("http"))
    <3> SUFFICES ASSUME NEW m \in wire', m \notin wire
                 PROVE  pc[m.call] \in Before("http") /\ pc'[m.call] \notin Before("http")
      OBVIOUS
    <3>1. m.call \in calls /\ m.call \in Call /\ pc[m.call] \in {"opening", "sent"}
      BY <2>1
    <3>2. pc'[m.call] \notin {"opening", "sent", "idle"}
      BY <1>1, <2>2, <3>1
    <3> QED BY <3>1, <3>2 DEF Before
  <2>5. \A m \in wire' : m \in wire \/ By(m) = "http"
    BY <2>1 DEF By
  <2>6. \A m, n \in wire' : m \notin wire /\ n \notin wire /\ m.call = n.call => m = n
    BY <2>1
  <2> QED BY <2>3, <2>4, <2>5, <2>6, SendsEach
<1> QED BY <1>1, <1>2, <1>3, <1>4, <1>5

\* A socket that does not open, one that goes down, and a timer that fires.
LEMMA FailInv ==
  ASSUME TransportAssumption, Inv,
         \/ \E s \in Socket : OnRefused(s) \/ OnDown(s)
         \/ \E c \in Call : Timeout(c)
  PROVE  Inv' /\ (Once => Once') /\ (Each => Each')
<1> USE DEF Inv
<1>0. \A c \in Call : pc[c] = "sent" => sock[c] \in Socket /\ sock[c] \in wired
                                        /\ state[sock[c]] \notin {"new", "connecting"}
  BY DEF Heard, Pending, Shape
<1>1. ASSUME NEW s \in Socket, OnRefused(s)
      PROVE  Inv' /\ (Once => Once') /\ (Each => Each')
  <2> DEFINE calls == {c \in Call : pc[c] = "opening" /\ sock[c] = s}
  <2>1. /\ state[s] = "connecting" /\ state' = [state EXCEPT ![s] = "closed"]
        /\ wired' = wired \ {s} /\ opening' = 0 /\ cooling' = TRUE /\ LeaveWs(calls)
        /\ UNCHANGED <<attempt, late, sock, cached, socket, replies, runs>>
    BY <1>1 DEF OnRefused
  <2>2. calls \in SUBSET Call /\ \A c \in calls : pc[c] = "opening"
    OBVIOUS
  <2> HIDE DEF calls
  <2>3. /\ state' \in [Socket -> {"new", "connecting", "open", "closing", "closed"}]
        /\ wired' \subseteq Socket /\ socket' \in 0 .. MaxSocket /\ opening' \in 0 .. MaxSocket
        /\ \A t \in Socket : state'[t] \in {"connecting", "open"} => t \in wired'
        /\ \A c \in Call : pc[c] = "sent" =>
             sock[c] \in wired' /\ state'[sock[c]] \notin {"new", "connecting"}
    BY <1>0, <2>1, Constants DEF Shape, Heard
  <2>4. Once => \A t \in Socket : state'[t] # "closing"
    BY <2>1 DEF Once, Shape
  <2> QED BY <2>1, <2>2, <2>3, <2>4, LeaveInv
<1>2. ASSUME NEW s \in Socket, OnDown(s)
      PROVE  Inv' /\ (Once => Once') /\ (Each => Each')
  <2>1. /\ state[s] = "closing" /\ cooling' = TRUE /\ LeaveWs(Pending)
        /\ wired' = wired \ {socket} /\ socket' = 0
        /\ opening' = (IF socket = 0 THEN opening ELSE 0)
        /\ state' = [x \in Socket |-> IF x \in {s, socket} THEN "closed" ELSE state[x]]
        /\ UNCHANGED <<attempt, late, sock, cached, replies, runs>>
    BY <1>2 DEF OnDown
  <2>2. /\ state' \in [Socket -> {"new", "connecting", "open", "closing", "closed"}]
        /\ wired' \subseteq Socket /\ socket' \in 0 .. MaxSocket /\ opening' \in 0 .. MaxSocket
        /\ \A t \in Socket : state'[t] \in {"connecting", "open"} => t \in wired'
    BY <2>1, Constants DEF Shape, Heard
  <2>3. /\ Pending \in SUBSET Call /\ \A c \in Pending : pc[c] = "sent"
        /\ \A c \in Call : pc[c] = "sent" => c \in Pending
    BY DEF Pending
  <2>4. Inv' /\ (Each => Each')
    BY <2>1, <2>2, <2>3, LeaveInv
  <2>5. ~ Once
    BY <2>1 DEF Once
  <2> QED BY <2>4, <2>5
<1>3. ASSUME NEW c \in Call, Timeout(c)
      PROVE  Inv' /\ (Once => Once') /\ (Each => Each')
  <2>1. /\ pc[c] = "sent" /\ c \in late /\ LeaveWs({c}) /\ cooling' = TRUE
        /\ UNCHANGED <<attempt, late, sock, cached, replies, runs, state, wired, socket, opening>>
    BY <1>3 DEF Timeout, channel
  <2>2. {c} \in SUBSET Call /\ \A x \in {c} : pc[x] = "sent" /\ x \in late
    BY <2>1
  <2>3. /\ \A t \in Socket : state'[t] \in {"connecting", "open"} => t \in wired'
        /\ \A x \in Call : pc[x] = "sent" =>
             sock[x] \in wired' /\ state'[sock[x]] \notin {"new", "connecting"}
    BY <1>0, <2>1 DEF Heard
  <2>4. Once => \A t \in Socket : state'[t] # "closing"
    BY <2>1 DEF Once
  <2> QED BY <2>1, <2>2, <2>3, <2>4, LeaveInv DEF Shape
<1> QED BY <1>1, <1>2, <1>3

-----------------------------------------------------------------------------
(* Answers, HTTP, time and the service.                                    *)

\* A call that runs ends, and nothing else happens but to the caches.
LEMMA EndInv ==
  ASSUME TransportAssumption, Inv, NEW c \in Call, pc[c] \in Running,
         NEW end \in {"done", "failed"}, pc' = Settled(pc, c, end),
         inflight' = IF inflight = c THEN Nobody ELSE inflight,
         UNCHANGED <<attempt, late, sock, channel, wire, runs>>,
         replies' \subseteq replies, cached' \in BOOLEAN, cooling' \in BOOLEAN
  PROVE  Inv' /\ (Once => Once') /\ (Each => Each')
<1> USE DEF Inv
<1>1. /\ pc' \in [Call -> Pc] /\ OneReadAtATime' /\ inflight' \in Query \cup {Nobody}
      /\ \A x \in Call : pc'[x] \in {"shared", "sleep", "sent", "opening", "http", "idle"}
                         => pc'[x] = pc[x]
  BY EndKeeps
<1>2. UNCHANGED <<state, wired, socket, opening>>
  BY DEF channel
<1>3. \A x \in Mutation : pc'[x] \notin {"shared", "sleep"}
  BY <1>1, Constants DEF Shape
<1>4. \A x \in Call : pc'[x] = "idle" => x \notin late' /\ attempt'[x] = 0
  BY <1>1 DEF Shape
<1>5. Shape'
  BY <1>1, <1>2, <1>3, <1>4 DEF Shape
<1>6. Heard'
  BY <1>1, <1>2 DEF Heard, Pending
<1>7. Once => Once'
  <2>1. \A x \in Mutation : pc'[x] \in {"idle", "opening"} => pc[x] \in {"idle", "opening"}
    BY <1>1, Constants
  <2> QED BY <1>2, <2>1 DEF Once, Total
<1>8. Each => Each'
  <2>1. \A w \in Way : \A x \in Mutation : pc'[x] \in Before(w) => pc[x] \in Before(w)
    BY <1>1, Constants DEF Before
  <2> QED BY <2>1, SendsEach
<1> QED BY <1>1, <1>5, <1>6, <1>7, <1>8

\* An answer comes, over the WebSocket or over HTTP.
LEMMA AnswerInv ==
  ASSUME TransportAssumption, Inv, NEW m \in replies, OnMessage(m) \/ HttpAnswered(m)
  PROVE  Inv' /\ (Once => Once') /\ (Each => Each')
<1> USE DEF Inv
<1>1. m.call \in Call
  BY DEF Shape, Message
<1>2. /\ UNCHANGED <<attempt, late, sock, channel, wire, runs>>
      /\ replies' \subseteq replies
  BY DEF OnMessage, HttpAnswered
<1>3. CASE /\ pc[m.call] \in {"sent", "http"}
           /\ \E end \in {"done", "failed"} : pc' = Settled(pc, m.call, end)
           /\ inflight' = (IF inflight = m.call THEN Nobody ELSE inflight)
           /\ cached' \in BOOLEAN /\ cooling' \in BOOLEAN
  <2>1. pc[m.call] \in Running
    BY <1>3 DEF Running
  <2>2. PICK end \in {"done", "failed"} : pc' = Settled(pc, m.call, end)
    BY <1>3
  <2> QED BY <1>1, <1>2, <1>3, <2>1, <2>2, EndInv
<1>4. CASE UNCHANGED <<pc, inflight, cached, cooling>>
  <2>1. UNCHANGED <<state, wired, socket, opening>>
    BY <1>2 DEF channel
  <2>2. Shape'
    BY <1>2, <1>4, <2>1 DEF Shape
  <2>3. OneReadAtATime' /\ Heard'
    BY <1>2, <1>4, <2>1 DEF OneReadAtATime, Heard, Pending
  <2>4. Once => Once'
    BY <1>2, <1>4, <2>1 DEF Once, Total
  <2>5. Each => Each'
    BY <1>2, <1>4, SendsEach
  <2> QED BY <2>2, <2>3, <2>4, <2>5
<1>5. cached \in BOOLEAN /\ cooling \in BOOLEAN
  BY DEF Shape
<1>6. CASE OnMessage(m)
  BY <1>3, <1>4, <1>5, <1>6 DEF OnMessage
<1>7. CASE HttpAnswered(m)
  BY <1>3, <1>4, <1>5, <1>7 DEF HttpAnswered
<1> QED BY <1>6, <1>7

\* A read that failed sleeps, or wakes up and is sent again.
LEMMA RetryInv ==
  ASSUME TransportAssumption, Inv, NEW c \in Query,
         NEW p \in {"sleep", "http"}, pc[c] \in {"sleep", "http"},
         pc' = [pc EXCEPT ![c] = p],
         attempt' \in [Call -> 0 .. MaxRetry], \A x \in Call \ {c} : attempt'[x] = attempt[x],
         wire' = wire \/ wire' = wire \cup {Request(c, 0, attempt[c])},
         UNCHANGED <<late, sock, inflight, cached, cooling, channel, replies, runs>>
  PROVE  Inv' /\ (Once => Once') /\ (Each => Each')
<1> USE DEF Inv
<1>1. c \in Call /\ c \notin Mutation
  BY Constants
<1>2. pc'[c] = p /\ (\A x \in Call \ {c} : pc'[x] = pc[x]) /\ pc' \in [Call -> Pc]
  BY <1>1 DEF Shape, Pc
<1>3. UNCHANGED <<state, wired, socket, opening>>
  BY DEF channel
<1>4. \A m \in wire' : m \in wire \/ (m.call = c /\ m \in Message)
  BY <1>1, Constants DEF Request, Shape
<1>5. \A x \in Call : pc'[x] = "idle" => x \notin late' /\ attempt'[x] = 0
  BY <1>2 DEF Shape
<1>6. \A x \in Mutation : pc'[x] \notin {"shared", "sleep"}
  BY <1>1, <1>2, Constants DEF Shape
<1>7. Shape'
  BY <1>2, <1>3, <1>4, <1>5, <1>6 DEF Shape
<1>8. OneReadAtATime'
  BY <1>1, <1>2, Constants DEF OneReadAtATime, Running
<1>9. Heard'
  BY <1>2, <1>3 DEF Heard, Pending
<1>10. Once => Once'
  <2>1. \A x \in Mutation : x # c /\ x \in Call /\ pc'[x] = pc[x]
    BY <1>1, <1>2, Constants
  <2> QED BY <1>1, <1>3, <1>4, <2>1 DEF Once, Total
<1>11. Each => Each'
  <2>1. \A x \in Mutation : x # c /\ x \in Call /\ pc'[x] = pc[x]
    BY <1>1, <1>2, Constants
  <2> QED BY <1>1, <1>4, <2>1, SendsEach
<1> QED BY <1>7, <1>8, <1>9, <1>10, <1>11

\* A request over HTTP fails, or the delay before the next one is over.
LEMMA HttpInv ==
  ASSUME TransportAssumption, Inv, NEW c \in Call, HttpFails(c) \/ WakesUp(c)
  PROVE  Inv' /\ (Once => Once') /\ (Each => Each')
<1> USE DEF Inv
<1>1. pc[c] \in {"sleep", "http"} /\ pc[c] \in Running
  BY DEF HttpFails, WakesUp, Running
<1>2. UNCHANGED <<late, sock, cached, cooling, channel, replies, runs>>
  BY DEF HttpFails, WakesUp, network
<1>3. CASE GiveUp(c) /\ UNCHANGED <<wire, attempt>>
  <2>1. cached \in BOOLEAN /\ cooling \in BOOLEAN /\ "failed" \in {"done", "failed"}
    BY DEF Shape
  <2> QED BY <1>1, <1>2, <1>3, <2>1, EndInv DEF GiveUp
<1>4. ASSUME MayRetry(c), pc' = [pc EXCEPT ![c] = "sleep"], UNCHANGED <<inflight, wire>>,
             attempt' = [attempt EXCEPT ![c] = @ + 1]
      PROVE  Inv' /\ (Once => Once') /\ (Each => Each')
  <2>1. c \in Query /\ attempt[c] \in 0 .. MaxRetry /\ attempt[c] < MaxRetry
    BY <1>4 DEF MayRetry, Shape
  <2>2. attempt[c] + 1 \in 0 .. MaxRetry
    BY <2>1, Constants
  <2>3. attempt' \in [Call -> 0 .. MaxRetry] /\ \A x \in Call \ {c} : attempt'[x] = attempt[x]
    BY <1>4, <2>2 DEF Shape
  <2> QED BY <1>1, <1>2, <1>4, <2>1, <2>3, RetryInv
<1>5. ASSUME pc[c] = "sleep", pc' = [pc EXCEPT ![c] = "http"],
             wire' = wire \cup {Request(c, 0, attempt[c])}, UNCHANGED <<inflight, attempt>>
      PROVE  Inv' /\ (Once => Once') /\ (Each => Each')
  <2>1. c \in Query
    BY <1>5, Constants DEF Shape
  <2> QED BY <1>1, <1>2, <1>5, <2>1, RetryInv DEF Shape
<1>6. CASE HttpFails(c)
  <2>1. CASE MayRetry(c)
    BY <1>4, <1>6, <2>1 DEF HttpFails, network
  <2>2. CASE ~MayRetry(c)
    <3>1. attempt' = [attempt EXCEPT ![c] = @]
      BY <1>6, <2>2 DEF HttpFails
    <3> QED BY <1>3, <1>6, <2>2, <3>1 DEF HttpFails, network, Shape
  <2> QED BY <2>1, <2>2
<1>7. CASE WakesUp(c)
  BY <1>3, <1>5, <1>7 DEF WakesUp
<1> QED BY <1>6, <1>7

\* A deadline passes, the cache expires, the WebSocket may be tried again.
LEMMA TimeInv ==
  ASSUME TransportAssumption, Inv,
         (\E c \in Call : DeadlinePasses(c)) \/ CoolDown \/ CacheExpires \/ UNCHANGED vars
  PROVE  Inv' /\ (Once => Once') /\ (Each => Each')
<1> USE DEF Inv
<1>1. /\ UNCHANGED <<pc, attempt, sock, inflight, channel, network>>
      /\ cooling' \in BOOLEAN /\ cached' \in BOOLEAN
      /\ late' \subseteq Call /\ \A c \in Call : pc[c] = "idle" => c \notin late'
  BY DEF DeadlinePasses, CoolDown, CacheExpires, vars, client, Shape
<1>2. UNCHANGED <<state, wired, socket, opening, wire, replies, runs>>
  BY <1>1 DEF channel, network
<1>3. Shape'
  BY <1>1, <1>2 DEF Shape
<1>4. OneReadAtATime' /\ Heard'
  BY <1>1, <1>2 DEF OneReadAtATime, Heard, Pending
<1>5. Once => Once'
  BY <1>1, <1>2 DEF Once, Total
<1>6. Each => Each'
  BY <1>1, <1>2, SendsEach
<1> QED BY <1>3, <1>4, <1>5, <1>6

\* The connection is lost.
LEMMA DropInv ==
  ASSUME TransportAssumption, Inv, NEW s \in Socket, Drops(s)
  PROVE  Inv' /\ (Each => Each')
<1> USE DEF Inv
<1>1. /\ state[s] = "open" /\ state' = [state EXCEPT ![s] = "closing"]
      /\ UNCHANGED <<pc, attempt, late, sock, inflight, cached, cooling, wired, socket, opening,
                     wire, replies, runs>>
  BY DEF Drops, client, network
<1>2. \A t \in Socket : state'[t] = (IF t = s THEN "closing" ELSE state[t])
  BY <1>1 DEF Shape
<1>3. Shape'
  BY <1>1 DEF Shape
<1>4. OneReadAtATime'
  BY <1>1 DEF OneReadAtATime
<1>5. Heard'
  <2>1. \A c \in Pending : sock[c] \in Socket /\ sock[c] \in wired
                           /\ state[sock[c]] \notin {"new", "connecting"}
    BY DEF Heard, Shape
  <2>2. Pending' = Pending
    BY <1>1 DEF Pending
  <2> QED BY <1>1, <1>2, <2>1, <2>2 DEF Heard
<1>6. Each => Each'
  BY <1>1, SendsEach
<1> QED BY <1>3, <1>4, <1>5, <1>6

\* The service executes a request.
LEMMA ExecuteInv ==
  ASSUME TransportAssumption, Inv, NEW m \in wire, Execute(m)
  PROVE  Inv' /\ (Once => Once') /\ (Each => Each')
<1> USE DEF Inv
<1>1. /\ wire' = wire \ {m} /\ runs' = [runs EXCEPT ![m.call][By(m)] = @ + 1]
      /\ replies' = replies \cup {m}
      /\ UNCHANGED <<pc, attempt, late, sock, inflight, cached, cooling, state, wired, socket, opening>>
  BY DEF Execute, client, channel
<1>2. m.call \in Call /\ m \in Message
  BY DEF Shape, Message
<1>3. runs' \in [Call -> [Way -> Nat]] /\ By(m) \in Way
  BY <1>1, <1>2 DEF Shape, By, Way
<1>4. Shape'
  BY <1>1, <1>2, <1>3 DEF Shape
<1>5. OneReadAtATime' /\ Heard'
  BY <1>1 DEF OneReadAtATime, Heard, Pending
<1>6. Once => Once'
  <2> SUFFICES ASSUME Once PROVE Once'
    OBVIOUS
  <2>1. \A c \in Call : Total(c)' = (IF c = m.call THEN Total(c) + 1 ELSE Total(c))
    BY <1>1, <1>2, <1>3 DEF Shape, Way, Total
  <2>2. m.call \in Mutation => Total(m.call) = 0 /\ \A n \in wire' : n.call # m.call
    BY <1>1 DEF Once
  <2>3. \A c \in Mutation : c \in Call /\ (pc[c] \in {"idle", "opening"} => m.call # c)
    BY Constants DEF Once
  <2>4. \A c \in Mutation : pc'[c] \in {"idle", "opening"} => Total(c)' = 0 /\ \A n \in wire' : n.call # c
    BY <1>1, <2>1, <2>3 DEF Once
  <2>5. \A c \in Mutation : Total(c)' \in {0, 1} /\ (Total(c)' = 1 => \A n \in wire' : n.call # c)
    <3> SUFFICES ASSUME NEW c \in Mutation
                 PROVE  Total(c)' \in {0, 1} /\ (Total(c)' = 1 => \A n \in wire' : n.call # c)
      OBVIOUS
    <3>1. CASE c = m.call
      BY <2>1, <2>2, <2>3, <3>1
    <3>2. CASE c # m.call
      BY <1>1, <2>1, <2>3, <3>2 DEF Once
    <3> QED BY <3>1, <3>2
  <2>6. \A n, k \in wire' : n.call = k.call /\ n.call \in Mutation => n = k
    BY <1>1 DEF Once
  <2>7. \A s \in Socket : state'[s] # "closing"
    BY <1>1 DEF Once
  <2> QED BY <2>4, <2>5, <2>6, <2>7 DEF Once
<1>7. Each => Each'
  <2> SUFFICES ASSUME Each PROVE Each'
    OBVIOUS
  <2>0. \A n : By(n)' = By(n)
    BY DEF By
  <2>1. \A c \in Call : \A w \in Way :
          runs'[c][w] = (IF c = m.call /\ w = By(m) THEN runs[c][w] + 1 ELSE runs[c][w])
    BY <1>1, <1>2, <1>3 DEF Shape
  <2>2. m.call \in Mutation => /\ runs[m.call][By(m)] = 0 /\ pc[m.call] \notin Before(By(m))
                               /\ \A n \in wire' : n.call = m.call => By(n) # By(m)
    BY <1>1, <1>3 DEF Each
  <2>3. \A w \in Way : \A c \in Mutation : pc'[c] \in Before(w) =>
          runs'[c][w] = 0 /\ \A n \in wire' : n.call = c => By(n) # w
    BY <1>1, <2>1, <2>2, Constants DEF Each
  <2>4. \A w \in Way : \A c \in Mutation :
          runs'[c][w] \in {0, 1} /\ (runs'[c][w] = 1 => \A n \in wire' : n.call = c => By(n) # w)
    <3> SUFFICES ASSUME NEW w \in Way, NEW c \in Mutation
                 PROVE  /\ runs'[c][w] \in {0, 1}
                        /\ runs'[c][w] = 1 => \A n \in wire' : n.call = c => By(n) # w
      OBVIOUS
    <3>1. CASE c = m.call /\ w = By(m)
      BY <2>1, <2>2, <3>1, Constants
    <3>2. CASE ~(c = m.call /\ w = By(m))
      BY <1>1, <2>1, <3>2, Constants DEF Each
    <3> QED BY <3>1, <3>2
  <2>5. \A n, k \in wire' : n.call = k.call /\ By(n) = By(k) /\ n.call \in Mutation => n = k
    BY <1>1 DEF Each
  <2> QED BY <2>0, <2>3, <2>4, <2>5 DEF Each, Before
<1> QED BY <1>4, <1>5, <1>6, <1>7

-----------------------------------------------------------------------------
(* Every step.                                                             *)

\* The invariants are inductive; Once needs that no connection is lost.
LEMMA NextInv ==
  ASSUME TransportAssumption, Inv, [Next]_vars
  PROVE  Inv' /\ (Each => Each') /\ ("dropped" \notin Happens /\ Once => Once')
<1>1. CASE \E c \in Call : Invoke(c)
  BY <1>1, InvokeInv
<1>2. CASE (\E s \in Socket : OnRefused(s) \/ OnDown(s)) \/ (\E c \in Call : Timeout(c))
  BY <1>2, FailInv
<1>3. CASE \E c \in Call : HttpFails(c) \/ WakesUp(c)
  BY <1>3, HttpInv
<1>4. CASE (\E c \in Call : DeadlinePasses(c)) \/ CoolDown \/ CacheExpires \/ UNCHANGED vars
  BY <1>4, TimeInv
<1>5. CASE \E s \in Socket : OnOpen(s)
  BY <1>5, OpenInv
<1>6. CASE \E s \in Socket : Drops(s)
  <2>1. "dropped" \in Happens
    BY <1>6 DEF Drops
  <2> QED BY <1>6, <2>1, DropInv
<1>7. CASE \E m \in replies : OnMessage(m) \/ HttpAnswered(m)
  BY <1>7, AnswerInv
<1>8. CASE \E m \in wire : Execute(m)
  BY <1>8, ExecuteInv
<1> QED BY <1>1, <1>2, <1>3, <1>4, <1>5, <1>6, <1>7, <1>8 DEF Next

\* Every reachable state has the invariants.
THEOREM InvHolds == ASSUME TransportAssumption PROVE Spec => []Inv
<1>1. Init => Inv
  BY InitInv
<1>2. Inv /\ [Next]_vars => Inv'
  BY NextInv
<1> QED BY <1>1, <1>2, PTL DEF Spec

\* The type invariant.
THEOREM TypeCorrect == ASSUME TransportAssumption PROVE Spec => []TypeOK
<1>1. Inv => TypeOK
  BY DEF Inv, Shape, TypeOK, Pc, Message
<1> QED BY <1>1, InvHolds, PTL

\* Equal reads share one request: webRuntimeReadInFlight always names the read that runs, and
\* a read that waits for another's answer always waits for one that runs.
THEOREM ReadsShare == ASSUME TransportAssumption PROVE Spec => []OneReadAtATime
<1>1. Inv => OneReadAtATime
  BY DEF Inv
<1> QED BY <1>1, InvHolds, PTL

\* No request waits on a socket whose events nobody hears any more, though a socket that
\* closes tears down another than itself (handleSocketRuntimeFailure).
THEOREM NoneIsForgotten == ASSUME TransportAssumption PROVE Spec => []NoneForgotten
<1>1. Inv => NoneForgotten
  BY DEF Inv, Heard, NoneForgotten
<1> QED BY <1>1, InvHolds, PTL

\* A call that changes the service's state is executed at most once over the WebSocket and at
\* most once over HTTP, whatever fails: refused and lost sockets, errors, passed deadlines, a
\* channel that is full.  It is executed by both ways only where connections are lost.
THEOREM WrittenOnce == ASSUME TransportAssumption PROVE Spec => []AtMostOnce
<1> DEFINE Written == Inv /\ Each /\ ("dropped" \notin Happens => Once)
<1>1. Init => Written
  BY InitInv
<1>2. Written /\ [Next]_vars => Written'
  BY NextInv
<1>3. Written => AtMostOnce
  <2> SUFFICES ASSUME Written, NEW c \in Mutation
               PROVE  /\ \A w \in Way : runs[c][w] <= 1
                      /\ runs[c]["ws"] + runs[c]["http"] = 2 => "dropped" \in Happens
    BY DEF AtMostOnce
  <2>1. \A w \in Way : runs[c][w] \in {0, 1}
    BY DEF Each
  <2>2. "dropped" \notin Happens => runs[c]["ws"] + runs[c]["http"] \in {0, 1}
    BY DEF Once, Total
  <2> QED BY <2>1, <2>2
<1> HIDE DEF Written
<1> QED BY <1>1, <1>2, <1>3, PTL DEF Spec

-----------------------------------------------------------------------------
(***************************************************************************)
(* The capability probe (module CapabilitiesProbe): for any endpoints,     *)
(* callers and versions, with or without a key and update events.          *)
(***************************************************************************)

CONSTANTS Endpoint, NoEndpoint, Caller, NoCaller, MaxVersion, Keyed, Events

VARIABLES
  endpoint, caps, news, dropped, key, snapshot, guard, aged, inFlight, probe, caller, spoiled

Probe == INSTANCE CapabilitiesProbe

AnyEndpoint == Endpoint \cup {NoEndpoint}
ProbeRecord == [at : {"none", "asked", "read"}, of : AnyEndpoint, got : Probe!Said]
CallerRecord == [at : {"idle", "waiting", "done"}, of : AnyEndpoint,
                 on : Caller \cup {NoCaller}, since : 0 .. MaxVersion, got : Probe!Said]

\* The types; a probe that was asked for is of an endpoint.
ProbeShape ==
  /\ endpoint \in Endpoint /\ key \in AnyEndpoint
  /\ caps \in [Endpoint -> [v : 1 .. MaxVersion, kind : Probe!Kind]]
  /\ news \in 0 .. MaxVersion /\ dropped \in 0 .. MaxVersion
  /\ snapshot \in Probe!Said /\ snapshot.kind \in {"none", "ok", "null"}
  /\ guard \in Probe!Said /\ guard.kind \in {"none", "bad"}
  /\ aged \subseteq {"snapshot", "guard"} /\ inFlight \in Caller \cup {NoCaller}
  /\ probe \in [Caller -> ProbeRecord] /\ caller \in [Caller -> CallerRecord]
  /\ \A c \in Caller : probe[c].at = "asked" => probe[c].of \in Endpoint
  /\ spoiled \in BOOLEAN

\* Whose the cache is: an endpoint's, when it has a key; else everybody's.
Home == IF Keyed THEN key ELSE endpoint

\* Whoever started a probe waits for it; everybody who waits does so for a probe of the
\* endpoint he asked about that is under way; and so is the probe that is shared, which is of
\* the endpoint whose the cache is.
ProbesAwaited ==
  /\ \A c \in Caller :
       /\ probe[c].at = "none" => probe[c] = Probe!NoProbe
       /\ probe[c].at # "none" => caller[c].at = "waiting" /\ caller[c].on = c
       /\ probe[c].at = "read" => probe[c].got.of = probe[c].of
  /\ \A c \in Caller : caller[c].at = "waiting" =>
       /\ caller[c].on \in Caller /\ probe[caller[c].on].at # "none"
       /\ probe[caller[c].on].of = caller[c].of
  /\ inFlight # NoCaller => probe[inFlight].at # "none" /\ probe[inFlight].of = Home

\* Versions only grow: from the event a caller has heard of before it asked to what the probe
\* it waits for has read, and to what the cache holds unless a disowned probe spoiled it.
ProbesRight ==
  /\ ~Events => news = 0 /\ dropped = 0
  /\ \A e \in Endpoint : news <= caps[e].v /\ dropped <= caps[e].v
  /\ news # 0 => dropped <= news
  /\ \A c \in Caller : caller[c].at # "idle" => caller[c].since <= dropped
  /\ \A c, d \in Caller : probe[c].at = "read" /\ caller[d].at = "waiting" /\ caller[d].on = c =>
       probe[c].got.v >= caller[d].since
  /\ inFlight # NoCaller /\ probe[inFlight].at = "read" => probe[inFlight].got.v >= dropped
  /\ Probe!ProbedIsRight /\ Probe!CachedIsRight

\* The values of a caller, a probe and a cache that a step produces.
Asked(at, on, got) ==
  [at |-> at, of |-> endpoint, on |-> on, since |-> dropped, got |-> got]

\* What is answered comes from the cache of the endpoint; who is not answered waits for a
\* probe of it, his own or the one that is shared.
LEMMA AskIs ==
  ASSUME NEW c \in Caller, Probe!Ask(c)
  PROVE  /\ UNCHANGED <<endpoint, caps, news, dropped>> /\ caller[c].at = "idle"
         /\ key' = IF Keyed THEN endpoint ELSE key
         /\ guard' # Probe!Nothing => guard' = guard /\ Probe!Keeps
         /\ snapshot' # Probe!Nothing => snapshot' = snapshot /\ Probe!Keeps
         /\ aged' \subseteq aged /\ spoiled' = (spoiled /\ Probe!Keeps)
         /\ \/ /\ inFlight' = Probe!SharedProbe /\ UNCHANGED probe /\ Probe!Keeps
               /\ \E got \in {snapshot, guard} : got # Probe!Nothing
                    /\ caller' = [caller EXCEPT ![c] = Asked("done", NoCaller, got)]
            \/ /\ inFlight # NoCaller /\ inFlight' = inFlight /\ UNCHANGED probe /\ Probe!Keeps
               /\ caller' = [caller EXCEPT ![c] = Asked("waiting", inFlight, Probe!Nothing)]
            \/ /\ Probe!SharedProbe = NoCaller /\ inFlight' = c
               /\ caller' = [caller EXCEPT ![c] = Asked("waiting", c, Probe!Nothing)]
               /\ probe' = [probe EXCEPT ![c] = [at |-> "asked", of |-> endpoint,
                                                 got |-> Probe!Nothing]]
<1>4. /\ UNCHANGED <<endpoint, caps, news, dropped>> /\ caller[c].at = "idle"
      /\ key' = IF Keyed THEN endpoint ELSE key
      /\ guard' = Probe!ValidGuard /\ aged' \subseteq aged /\ spoiled' = (spoiled /\ Probe!Keeps)
      /\ snapshot' = IF Probe!ValidGuard # Probe!Nothing /\ Probe!Keeps THEN snapshot
                     ELSE Probe!ValidSnapshot
  BY DEF Probe!Ask, Asked
<1>5. CASE Probe!ValidGuard # Probe!Nothing
  <2>1. /\ caller' = [caller EXCEPT ![c] = Asked("done", NoCaller, Probe!ValidGuard)]
        /\ inFlight' = Probe!SharedProbe /\ UNCHANGED probe
    BY <1>5 DEF Probe!Ask, Asked
  <2>2. Probe!Keeps /\ Probe!ValidGuard = guard
    BY <1>5 DEF Probe!ValidGuard
  <2> QED BY <1>4, <1>5, <2>1, <2>2 DEF Probe!ValidGuard, Probe!ValidSnapshot
<1>6. CASE Probe!ValidGuard = Probe!Nothing /\ Probe!ValidSnapshot # Probe!Nothing
  <2>1. /\ caller' = [caller EXCEPT ![c] = Asked("done", NoCaller, Probe!ValidSnapshot)]
        /\ inFlight' = Probe!SharedProbe /\ UNCHANGED probe
    BY <1>6 DEF Probe!Ask, Asked
  <2>2. Probe!Keeps /\ Probe!ValidSnapshot = snapshot
    BY <1>6 DEF Probe!ValidSnapshot
  <2> QED BY <1>4, <1>6, <2>1, <2>2
<1>7. CASE /\ Probe!ValidGuard = Probe!Nothing /\ Probe!ValidSnapshot = Probe!Nothing
           /\ Probe!SharedProbe # NoCaller
  <2>1. /\ caller' = [caller EXCEPT ![c] = Asked("waiting", Probe!SharedProbe, Probe!Nothing)]
        /\ inFlight' = Probe!SharedProbe /\ UNCHANGED probe
    BY <1>7 DEF Probe!Ask, Asked
  <2>2. Probe!Keeps /\ Probe!SharedProbe = inFlight
    BY <1>7 DEF Probe!SharedProbe
  <2> QED BY <1>4, <1>7, <2>1, <2>2
<1>8. CASE /\ Probe!ValidGuard = Probe!Nothing /\ Probe!ValidSnapshot = Probe!Nothing
           /\ Probe!SharedProbe = NoCaller
  <2>1. /\ caller' = [caller EXCEPT ![c] = Asked("waiting", c, Probe!Nothing)]
        /\ inFlight' = c
        /\ probe' = [probe EXCEPT ![c] = [at |-> "asked", of |-> endpoint, got |-> Probe!Nothing]]
    BY <1>8 DEF Probe!Ask, Asked
  <2> QED BY <1>4, <1>8, <2>1
<1> QED BY <1>5, <1>6, <1>7, <1>8

\* What a probe leaves: its answer for all who wait for it.
LEMMA EndIs ==
  ASSUME NEW c \in Caller, Probe!End(c)
  PROVE  /\ UNCHANGED <<endpoint, caps, news, dropped, key>> /\ inFlight' = NoCaller
         /\ probe[c].at = "read" /\ probe' = [probe EXCEPT ![c] = Probe!NoProbe]
         /\ aged' \subseteq aged /\ spoiled' = (spoiled \/ inFlight # c)
         /\ \/ snapshot' = snapshot
            \/ snapshot' = probe[c].got /\ probe[c].got.kind \in {"ok", "null"}
         /\ guard' = guard \/ (guard' = probe[c].got /\ probe[c].got.kind = "bad")
         /\ DOMAIN caller' = Caller
         /\ \A d \in Caller : caller[d].at = "waiting" /\ caller[d].on = c =>
              caller'[d] = [at |-> "done", of |-> caller[d].of, on |-> c,
                            since |-> caller[d].since, got |-> probe[c].got]
         /\ \A d \in Caller : ~(caller[d].at = "waiting" /\ caller[d].on = c) =>
              caller'[d] = caller[d]
  BY DEF Probe!End, Probe!Kept

\* The types hold at the start ...
LEMMA ProbeBegins ==
  ASSUME Probe!NonesAreNone, Probe!VersionsAreCounted, Probe!Init
  PROVE  ProbeShape /\ ProbesAwaited /\ ProbesRight
<1>1. Probe!Nothing \in Probe!Said
  BY DEF Probe!Nothing, Probe!Said, Probe!VersionsAreCounted
<1>2. ProbeShape
  <2>1. caps \in [Endpoint -> [v : 1 .. MaxVersion, kind : Probe!Kind]]
    BY DEF Probe!Init, Probe!VersionsAreCounted
  <2>2. probe \in [Caller -> ProbeRecord] /\ caller \in [Caller -> CallerRecord]
    BY <1>1 DEF Probe!Init, Probe!NoProbe, Probe!Idle, ProbeRecord, CallerRecord, AnyEndpoint,
                Probe!VersionsAreCounted
  <2>3. Probe!Nothing.kind = "none"
    BY DEF Probe!Nothing
  <2>4. \A c \in Caller : probe[c].at # "asked"
    BY DEF Probe!Init, Probe!NoProbe
  <2>5. /\ endpoint \in Endpoint /\ key = NoEndpoint /\ news = 0 /\ dropped = 0 /\ aged = {}
        /\ snapshot = Probe!Nothing /\ guard = Probe!Nothing /\ inFlight = NoCaller
        /\ 0 \in 0 .. MaxVersion /\ spoiled = FALSE
    BY DEF Probe!Init, Probe!VersionsAreCounted
  <2> QED BY <1>1, <2>1, <2>2, <2>3, <2>4, <2>5 DEF ProbeShape, AnyEndpoint
<1>3. \A c \in Caller : probe[c].at = "none" /\ caller[c].at = "idle" /\ probe[c] = Probe!NoProbe
  BY DEF Probe!Init, Probe!NoProbe, Probe!Idle
<1>4. /\ snapshot = Probe!Nothing /\ guard = Probe!Nothing /\ inFlight = NoCaller
      /\ news = 0 /\ dropped = 0
  BY DEF Probe!Init
<1>5. \A e \in Endpoint : caps[e].v \in Nat
  BY <1>2 DEF ProbeShape
<1>6. ProbesAwaited
  BY <1>3, <1>4 DEF ProbesAwaited
<1>7. ProbesRight
  BY <1>3, <1>4, <1>5 DEF ProbesRight, Probe!ProbedIsRight, Probe!CachedIsRight, Probe!Answered
<1> QED BY <1>2, <1>6, <1>7

\* ... and go on to.
LEMMA ProbeTypeStep ==
  ASSUME Probe!VersionsAreCounted, ProbeShape, [Probe!Next]_(Probe!vars)
  PROVE  ProbeShape'
<1> USE DEF Probe!VersionsAreCounted, Probe!cache
<1>0. /\ Probe!Nothing \in Probe!Said /\ Probe!Nothing.kind = "none"
      /\ Probe!NoProbe \in ProbeRecord /\ Probe!Idle \in CallerRecord
  BY DEF Probe!Nothing, Probe!NoProbe, Probe!Idle, Probe!Said, ProbeRecord, CallerRecord,
         AnyEndpoint
<1>1. ASSUME NEW c \in Caller, Probe!Ask(c)
      PROVE  ProbeShape'
  <2>1. /\ UNCHANGED <<endpoint, caps, news, dropped>> /\ key' \in {endpoint, key}
        /\ guard' \in {guard, Probe!Nothing} /\ snapshot' \in {snapshot, Probe!Nothing}
        /\ aged' \subseteq aged /\ spoiled' \in BOOLEAN
    BY <1>1, AskIs
  <2>2. inFlight' \in Caller \cup {NoCaller}
    BY <1>1, AskIs DEF Probe!SharedProbe, ProbeShape
  <2>3. /\ endpoint \in AnyEndpoint
        /\ \A at \in {"waiting", "done"}, on \in Caller \cup {NoCaller}, got \in Probe!Said :
             Asked(at, on, got) \in CallerRecord
    BY DEF ProbeShape, AnyEndpoint, Asked, CallerRecord
  <2>4. caller' \in [Caller -> CallerRecord]
    <3>1. \/ \E got \in {snapshot, guard} :
               caller' = [caller EXCEPT ![c] = Asked("done", NoCaller, got)]
          \/ \E on \in {inFlight, c} :
               caller' = [caller EXCEPT ![c] = Asked("waiting", on, Probe!Nothing)]
      BY <1>1, AskIs
    <3>2. (\A got \in {snapshot, guard} : Asked("done", NoCaller, got) \in CallerRecord)
          /\ \A on \in {inFlight, c} : Asked("waiting", on, Probe!Nothing) \in CallerRecord
      BY <1>0, <2>3 DEF ProbeShape
    <3> QED BY <3>1, <3>2 DEF ProbeShape
  <2>5. probe' \in [Caller -> ProbeRecord]
    <3>1. [at |-> "asked", of |-> endpoint, got |-> Probe!Nothing] \in ProbeRecord
      BY <1>0, <2>3 DEF ProbeRecord
    <3> QED BY <1>1, <3>1, AskIs DEF ProbeShape
  <2>6. \A d \in Caller : probe'[d].at = "asked" => probe'[d].of \in Endpoint
    BY <1>1, AskIs DEF ProbeShape
  <2> QED BY <1>0, <2>1, <2>2, <2>3, <2>4, <2>5, <2>6 DEF ProbeShape
<1>2. ASSUME NEW c \in Caller, Probe!End(c)
      PROVE  ProbeShape'
  <2>1. probe[c].got \in Probe!Said
    BY DEF ProbeShape, ProbeRecord
  <2>2. \A d \in Caller : caller'[d] \in CallerRecord
    <3> TAKE d \in Caller
    <3>1. caller[d] \in CallerRecord
      BY DEF ProbeShape
    <3>2. [at |-> "done", of |-> caller[d].of, on |-> c, since |-> caller[d].since,
           got |-> probe[c].got] \in CallerRecord
      BY <2>1, <3>1 DEF CallerRecord
    <3> QED BY <1>2, <3>1, <3>2, EndIs
  <2>3. caller' \in [Caller -> CallerRecord]
    <3>1. caller' = [d \in Caller |-> caller'[d]]
      BY <1>2 DEF Probe!End
    <3> QED BY <2>2, <3>1
  <2>4. probe' \in [Caller -> ProbeRecord]
    BY <1>0, <1>2, EndIs DEF ProbeShape
  <2>5. \A d \in Caller : probe'[d].at = "asked" => probe'[d].of \in Endpoint
    BY <1>2, EndIs DEF ProbeShape, Probe!NoProbe
  <2> QED BY <1>2, <2>1, <2>3, <2>4, <2>5, EndIs DEF ProbeShape
<1>3. ASSUME NEW c \in Caller, Probe!Serve(c)
      PROVE  ProbeShape'
  <2> DEFINE e == probe[c].of
             got == [of |-> e, v |-> caps[e].v, kind |-> caps[e].kind]
  <2>1. /\ UNCHANGED <<endpoint, caps, news, dropped, key, snapshot, guard, aged, inFlight, caller,
                     spoiled>>
        /\ probe' = [probe EXCEPT ![c] = [at |-> "read", of |-> e, got |-> got]]
    BY <1>3 DEF Probe!Serve
  <2>2. probe[c].at = "asked"
    BY <1>3 DEF Probe!Serve
  <2>3. e \in Endpoint /\ caps[e] \in [v : 1 .. MaxVersion, kind : Probe!Kind]
    BY <2>2 DEF ProbeShape
  <2>4. got \in Probe!Said
    BY <2>3 DEF Probe!Said
  <2> HIDE DEF got
  <2>5. [at |-> "read", of |-> e, got |-> got] \in ProbeRecord
    BY <2>3, <2>4 DEF ProbeRecord, AnyEndpoint
  <2> HIDE DEF e
  <2>6. probe' \in [Caller -> ProbeRecord]
    BY <2>1, <2>5 DEF ProbeShape
  <2>7. \A d \in Caller : probe'[d].at = "asked" => probe'[d].of \in Endpoint
    BY <2>1 DEF ProbeShape
  <2> QED BY <2>1, <2>6, <2>7 DEF ProbeShape
<1>4. ASSUME NEW c \in Caller, Probe!Return(c)
      PROVE  ProbeShape'
  BY <1>0, <1>4 DEF Probe!Return, ProbeShape
<1>5. ASSUME NEW e \in Endpoint, Probe!Change(e)
      PROVE  ProbeShape'
  <2>1. /\ UNCHANGED <<endpoint, dropped, key, snapshot, guard, aged, inFlight, probe, caller,
                     spoiled>>
        /\ caps[e].v < MaxVersion /\ news' \in {0, caps[e].v + 1}
        /\ \E kind \in Probe!Kind : caps' = [caps EXCEPT ![e] = [v |-> caps[e].v + 1, kind |-> kind]]
    BY <1>5 DEF Probe!Change
  <2>2. caps[e].v + 1 \in 1 .. MaxVersion
    BY <2>1 DEF ProbeShape
  <2> QED BY <2>1, <2>2 DEF ProbeShape
<1>6. ASSUME NEW e \in Endpoint, Probe!Switch(e)
      PROVE  ProbeShape'
  BY <1>6 DEF Probe!Switch, ProbeShape
<1>7. CASE Probe!Age
  BY <1>7 DEF Probe!Age, ProbeShape
<1>8. CASE Probe!Invalidate
  <2>1. /\ UNCHANGED <<endpoint, caps, probe, caller>> /\ dropped' = news /\ news' = 0
        /\ key' = NoEndpoint /\ spoiled' = FALSE
        /\ snapshot' = Probe!Nothing /\ guard' = Probe!Nothing /\ aged' = {} /\ inFlight' = NoCaller
    BY <1>8 DEF Probe!Invalidate, Probe!Drop
  <2>2. key' \in AnyEndpoint /\ spoiled' \in BOOLEAN
    BY <2>1 DEF AnyEndpoint
  <2>3. 0 \in 0 .. MaxVersion
    OBVIOUS
  <2> QED BY <1>0, <2>1, <2>2, <2>3 DEF ProbeShape
<1>9. CASE UNCHANGED Probe!vars
  BY <1>9 DEF Probe!vars, ProbeShape
<1> QED BY <1>1, <1>2, <1>3, <1>4, <1>5, <1>6, <1>7, <1>8, <1>9 DEF Probe!Next

\* The types of the probe, for any constants.
THEOREM ProbeTypes ==
  ASSUME Probe!NonesAreNone, Probe!VersionsAreCounted
  PROVE  Probe!Spec => []Probe!TypeOK
<1>1. Probe!Init => ProbeShape
  BY ProbeBegins
<1>2. ProbeShape /\ [Probe!Next]_(Probe!vars) => ProbeShape'
  BY ProbeTypeStep
<1>3. ProbeShape => Probe!TypeOK
  BY DEF ProbeShape, Probe!TypeOK, ProbeRecord, CallerRecord
<1> QED BY <1>1, <1>2, <1>3, PTL DEF Probe!Spec

\* Probes are awaited by those who started them, and joined while they are under way.
LEMMA AwaitedStep ==
  ASSUME Probe!NonesAreNone, ProbeShape, ProbesAwaited, [Probe!Next]_(Probe!vars)
  PROVE  ProbesAwaited'
<1> USE DEF Probe!cache
<1>1. ASSUME NEW c \in Caller, Probe!Ask(c)
      PROVE  ProbesAwaited'
  <2>1. /\ endpoint' = endpoint /\ key' = (IF Keyed THEN endpoint ELSE key) /\ Home' = endpoint
        /\ (Probe!Keeps => Home = endpoint) /\ caller[c].at = "idle"
    BY <1>1, AskIs DEF Home, Probe!Keeps
  <2>2. \A at, on, got : /\ Asked(at, on, got).at = at /\ Asked(at, on, got).on = on
                         /\ Asked(at, on, got).of = endpoint
    BY DEF Asked
  <2>3. probe[c].at = "none" /\ (\A d \in Caller : caller[d].at = "waiting" => caller[d].on # c)
        /\ inFlight # c
    BY <2>1 DEF ProbesAwaited, Probe!NonesAreNone
  <2>4. CASE inFlight' = Probe!SharedProbe /\ UNCHANGED probe /\ Probe!Keeps
             /\ \E got \in {snapshot, guard} : caller' = [caller EXCEPT ![c] = Asked("done", NoCaller, got)]
    <3>1. inFlight' = inFlight
      BY <2>4 DEF Probe!SharedProbe
    <3>2. caller'[c].at = "done" /\ \A d \in Caller : d # c => caller'[d] = caller[d]
      BY <2>2, <2>4 DEF ProbeShape
    <3> QED BY <2>1, <2>3, <2>4, <3>1, <3>2 DEF ProbesAwaited
  <2>5. CASE /\ inFlight # NoCaller /\ inFlight' = inFlight /\ UNCHANGED probe /\ Probe!Keeps
             /\ caller' = [caller EXCEPT ![c] = Asked("waiting", inFlight, Probe!Nothing)]
    <3>1. /\ caller'[c].at = "waiting" /\ caller'[c].on = inFlight /\ caller'[c].of = endpoint
          /\ \A d \in Caller : d # c => caller'[d] = caller[d]
      BY <2>2, <2>5 DEF ProbeShape
    <3>2. inFlight \in Caller
      BY <2>5 DEF ProbeShape
    <3> QED BY <2>1, <2>3, <2>5, <3>1, <3>2 DEF ProbesAwaited
  <2>6. CASE /\ inFlight' = c
             /\ caller' = [caller EXCEPT ![c] = Asked("waiting", c, Probe!Nothing)]
             /\ probe' = [probe EXCEPT ![c] = [at |-> "asked", of |-> endpoint,
                                               got |-> Probe!Nothing]]
    <3>1. /\ caller'[c].at = "waiting" /\ caller'[c].on = c /\ caller'[c].of = endpoint
          /\ \A d \in Caller : d # c => caller'[d] = caller[d]
      BY <2>2, <2>6 DEF ProbeShape
    <3>2. /\ probe'[c].at = "asked" /\ probe'[c].of = endpoint
          /\ \A d \in Caller : d # c => probe'[d] = probe[d]
      BY <2>6 DEF ProbeShape
    <3> QED BY <2>1, <2>3, <2>6, <3>1, <3>2 DEF ProbesAwaited
  <2> QED BY <1>1, <2>4, <2>5, <2>6, AskIs
<1>2. ASSUME NEW c \in Caller, Probe!End(c)
      PROVE  ProbesAwaited'
  <2>1. /\ probe'[c] = Probe!NoProbe /\ probe'[c].at = "none"
        /\ \A d \in Caller : d # c => probe'[d] = probe[d]
    BY <1>2, EndIs DEF ProbeShape, Probe!NoProbe
  <2>2. \A d \in Caller : \/ caller'[d] = caller[d] /\ ~(caller[d].at = "waiting" /\ caller[d].on = c)
                          \/ caller[d].at = "waiting" /\ caller[d].on = c /\ caller'[d].at = "done"
    <3> TAKE d \in Caller
    <3>1. CASE caller[d].at = "waiting" /\ caller[d].on = c
      <4>1. caller'[d] = [at |-> "done", of |-> caller[d].of, on |-> c,
                             since |-> caller[d].since, got |-> probe[c].got]
        BY <1>2, <3>1, EndIs
      <4>2. caller'[d].at = "done"
        BY <4>1
      <4> QED BY <3>1, <4>2
    <3>2. CASE ~(caller[d].at = "waiting" /\ caller[d].on = c)
      BY <1>2, <3>2, EndIs
    <3> QED BY <3>1, <3>2
  <2>3. inFlight' = NoCaller
    BY <1>2, EndIs
  <2> QED BY <2>1, <2>2, <2>3 DEF ProbesAwaited
<1>3. ASSUME NEW c \in Caller, Probe!Serve(c)
      PROVE  ProbesAwaited'
  <2>1. /\ UNCHANGED <<endpoint, key, inFlight, caller>> /\ probe[c].at = "asked"
        /\ \E got : got.of = probe[c].of
             /\ probe' = [probe EXCEPT ![c] = [at |-> "read", of |-> probe[c].of, got |-> got]]
    BY <1>3 DEF Probe!Serve
  <2>2. /\ probe'[c].at = "read" /\ probe'[c].of = probe[c].of /\ probe'[c].got.of = probe[c].of
        /\ \A d \in Caller : d # c => probe'[d] = probe[d]
    BY <2>1 DEF ProbeShape
  <2>3. Home' = Home
    BY <2>1 DEF Home
  <2> QED BY <2>1, <2>2, <2>3 DEF ProbesAwaited
<1>4. ASSUME NEW c \in Caller, Probe!Return(c)
      PROVE  ProbesAwaited'
  <2>1. /\ UNCHANGED <<endpoint, key, inFlight, probe>> /\ caller[c].at = "done"
        /\ caller'[c].at = "idle" /\ \A d \in Caller : d # c => caller'[d] = caller[d]
    BY <1>4 DEF Probe!Return, ProbeShape, Probe!Idle
  <2> QED BY <2>1 DEF ProbesAwaited, Home
<1>5. ASSUME NEW e \in Endpoint, Probe!Change(e)
      PROVE  ProbesAwaited'
  BY <1>5 DEF Probe!Change, ProbesAwaited, Home
<1>6. ASSUME NEW e \in Endpoint, Probe!Switch(e)
      PROVE  ProbesAwaited'
  BY <1>6 DEF Probe!Switch, ProbesAwaited, Home
<1>7. CASE Probe!Age
  BY <1>7 DEF Probe!Age, ProbesAwaited, Home
<1>8. CASE Probe!Invalidate
  BY <1>8 DEF Probe!Invalidate, Probe!Drop, ProbesAwaited
<1>9. CASE UNCHANGED Probe!vars
  BY <1>9 DEF Probe!vars, ProbesAwaited, Home
<1> QED BY <1>1, <1>2, <1>3, <1>4, <1>5, <1>6, <1>7, <1>8, <1>9 DEF Probe!Next

\* Nobody joins a probe that has ended, though the cache is dropped, another endpoint comes
\* into use and probes end in any order.
THEOREM SharedProbeRuns ==
  ASSUME Probe!NonesAreNone, Probe!VersionsAreCounted
  PROVE  Probe!Spec => []Probe!SharedIsUnderWay
<1>1. Probe!Init => ProbeShape /\ ProbesAwaited
  BY ProbeBegins
<1>2. ProbeShape /\ ProbesAwaited /\ [Probe!Next]_(Probe!vars) => (ProbeShape /\ ProbesAwaited)'
  BY ProbeTypeStep, AwaitedStep
<1>3. ProbesAwaited => Probe!SharedIsUnderWay
  BY DEF ProbesAwaited, Probe!SharedIsUnderWay, Probe!NoProbe
<1> QED BY <1>1, <1>2, <1>3, PTL DEF Probe!Spec

\* What a probe has read is newer than what those who wait for it have heard of before.
LEMMA RightStep ==
  ASSUME Probe!NonesAreNone, Probe!EventsAreOfOne, ProbeShape, ProbesAwaited, ProbesRight,
         [Probe!Next]_(Probe!vars)
  PROVE  ProbesRight'
<1> USE DEF Probe!cache
<1> DEFINE Fresh(c, d) == probe[c].at = "read" /\ caller[d].at = "waiting" /\ caller[d].on = c =>
                            probe[c].got.v >= caller[d].since
           Shared == inFlight # NoCaller /\ probe[inFlight].at = "read" =>
                       probe[inFlight].got.v >= dropped
           Told(c) == caller[c].at = "done" /\ caller[c].on # NoCaller =>
                        caller[c].got.of = caller[c].of /\ caller[c].got.v >= caller[c].since
           Good(said) == said.of = Home /\ said.v >= dropped
           Clock == /\ ~Events => news = 0 /\ dropped = 0
                    /\ \A e \in Endpoint : news <= caps[e].v /\ dropped <= caps[e].v
                    /\ news # 0 => dropped <= news
<1>0. /\ news \in Nat /\ dropped \in Nat /\ snapshot.v \in Nat /\ guard.v \in Nat
      /\ \A e \in Endpoint : caps[e].v \in Nat
      /\ \A c \in Caller : probe[c].got.v \in Nat /\ caller[c].since \in Nat /\ caller[c].got.v \in Nat
  <2>1. \A got \in Probe!Said : got.v \in Nat
    BY DEF Probe!Said
  <2>2. \A c \in Caller : probe[c] \in ProbeRecord /\ caller[c] \in CallerRecord
    BY DEF ProbeShape
  <2>3. \A c \in Caller : probe[c].got \in Probe!Said /\ caller[c].got \in Probe!Said
                          /\ caller[c].since \in Nat
    BY <2>2 DEF ProbeRecord, CallerRecord
  <2> QED BY <2>1, <2>3 DEF ProbeShape
<1>a. /\ Clock /\ Shared
      /\ \A c \in Caller : caller[c].at # "idle" => caller[c].since <= dropped
      /\ \A c, d \in Caller : Fresh(c, d)
      /\ \A c \in Caller : Told(c)
      /\ ~spoiled => /\ snapshot # Probe!Nothing => Good(snapshot)
                     /\ guard # Probe!Nothing => Good(guard)
  BY DEF ProbesRight, Probe!ProbedIsRight, Probe!CachedIsRight, Probe!Answered, Home
<1>b. ASSUME Clock', Shared',
             \A c \in Caller : caller'[c].at # "idle" => caller'[c].since <= dropped',
             \A c, d \in Caller : Fresh(c, d)',
             \A c \in Caller : Told(c)',
             ~spoiled' => /\ snapshot' # Probe!Nothing => Good(snapshot)'
                          /\ guard' # Probe!Nothing => Good(guard)'
      PROVE  ProbesRight'
  <2>1. Probe!Nothing' = Probe!Nothing
    BY DEF Probe!Nothing
  <2> QED BY <1>b, <2>1 DEF ProbesRight, Probe!ProbedIsRight, Probe!CachedIsRight, Probe!Answered, Home
<1>1. ASSUME NEW c \in Caller, Probe!Ask(c)
      PROVE  ProbesRight'
  <2>1. /\ UNCHANGED <<endpoint, caps, news, dropped>> /\ caller[c].at = "idle"
        /\ Home' = endpoint /\ (Probe!Keeps => Home = endpoint)
        /\ spoiled' = (spoiled /\ Probe!Keeps)
        /\ guard' # Probe!Nothing => guard' = guard /\ Probe!Keeps
        /\ snapshot' # Probe!Nothing => snapshot' = snapshot /\ Probe!Keeps
    BY <1>1, AskIs DEF Home, Probe!Keeps
  <2>2. /\ probe[c].at = "none" /\ inFlight # c
        /\ \A d \in Caller : caller[d].at = "waiting" => caller[d].on # c
    BY <2>1 DEF ProbesAwaited, Probe!NonesAreNone
  <2>3. Clock'
    BY <1>a, <2>1
  <2>4. ~spoiled' => /\ snapshot' # Probe!Nothing => Good(snapshot)'
                     /\ guard' # Probe!Nothing => Good(guard)'
    BY <1>a, <2>1
  <2>5. \A at, on, got : /\ Asked(at, on, got).at = at /\ Asked(at, on, got).on = on
                         /\ Asked(at, on, got).since = dropped
    BY DEF Asked
  <2>6. \A d \in Caller : d # c => caller'[d] = caller[d]
    BY <1>1, AskIs DEF ProbeShape
  <2>7. CASE inFlight' = Probe!SharedProbe /\ UNCHANGED probe /\ Probe!Keeps
             /\ \E got \in {snapshot, guard} : caller' = [caller EXCEPT ![c] = Asked("done", NoCaller, got)]
    <3>1. inFlight' = inFlight
      BY <2>7 DEF Probe!SharedProbe
    <3>2. caller'[c].at = "done" /\ caller'[c].on = NoCaller /\ caller'[c].since = dropped
      BY <2>5, <2>7 DEF ProbeShape
    <3>3. Shared' /\ (\A d, e \in Caller : Fresh(d, e)')
      BY <1>a, <2>1, <2>6, <2>7, <3>1, <3>2
    <3>4. \A d \in Caller : Told(d)' /\ (caller'[d].at # "idle" => caller'[d].since <= dropped')
      BY <1>0, <1>a, <2>1, <2>6, <3>2
    <3> QED BY <1>b, <2>3, <2>4, <3>3, <3>4
  <2>8. CASE /\ inFlight # NoCaller /\ inFlight' = inFlight /\ UNCHANGED probe /\ Probe!Keeps
             /\ caller' = [caller EXCEPT ![c] = Asked("waiting", inFlight, Probe!Nothing)]
    <3>1. caller'[c].at = "waiting" /\ caller'[c].on = inFlight /\ caller'[c].since = dropped
      BY <2>5, <2>8 DEF ProbeShape
    <3>2. Shared' /\ \A d, e \in Caller : Fresh(d, e)'
      BY <1>a, <2>1, <2>6, <2>8, <3>1
    <3>3. \A d \in Caller : Told(d)' /\ (caller'[d].at # "idle" => caller'[d].since <= dropped')
      BY <1>0, <1>a, <2>1, <2>6, <3>1
    <3> QED BY <1>b, <2>3, <2>4, <3>2, <3>3
  <2>9. CASE /\ inFlight' = c
             /\ caller' = [caller EXCEPT ![c] = Asked("waiting", c, Probe!Nothing)]
             /\ probe' = [probe EXCEPT ![c] = [at |-> "asked", of |-> endpoint,
                                               got |-> Probe!Nothing]]
    <3>1. caller'[c].at = "waiting" /\ caller'[c].on = c /\ caller'[c].since = dropped
      BY <2>5, <2>9 DEF ProbeShape
    <3>2. probe'[c].at = "asked" /\ \A d \in Caller : d # c => probe'[d] = probe[d]
      BY <2>9 DEF ProbeShape
    <3>3. Shared' /\ \A d, e \in Caller : Fresh(d, e)'
      BY <1>a, <2>1, <2>6, <2>9, <3>1, <3>2
    <3>4. \A d \in Caller : Told(d)' /\ (caller'[d].at # "idle" => caller'[d].since <= dropped')
      BY <1>0, <1>a, <2>1, <2>6, <3>1
    <3> QED BY <1>b, <2>3, <2>4, <3>3, <3>4
  <2> QED BY <1>1, <2>7, <2>8, <2>9, AskIs
<1>2. ASSUME NEW c \in Caller, Probe!End(c)
      PROVE  ProbesRight'
  <2>1. /\ UNCHANGED <<endpoint, caps, news, dropped, key>> /\ probe[c].at = "read"
        /\ inFlight' = NoCaller /\ spoiled' = (spoiled \/ inFlight # c)
        /\ snapshot' = snapshot \/ snapshot' = probe[c].got
        /\ guard' = guard \/ guard' = probe[c].got
    BY <1>2, EndIs
  <2>2. \A d \in Caller : d # c => probe'[d] = probe[d]
    BY <1>2, EndIs DEF ProbeShape
  <2>3. probe'[c].at = "none"
    BY <1>2, EndIs DEF ProbeShape, Probe!NoProbe
  <2>4. ~spoiled' => Good(probe[c].got)
    BY <1>a, <2>1 DEF ProbesAwaited, Probe!NonesAreNone
  <2>5. ~spoiled' => /\ snapshot' # Probe!Nothing => Good(snapshot)'
                     /\ guard' # Probe!Nothing => Good(guard)'
    BY <1>a, <2>1, <2>4 DEF Home
  <2>6. ASSUME NEW d \in Caller
        PROVE  /\ Told(d)' /\ (caller'[d].at # "idle" => caller'[d].since <= dropped')
               /\ caller'[d].at = "waiting" => caller'[d] = caller[d] /\ caller[d].on # c
    <3>1. CASE caller[d].at = "waiting" /\ caller[d].on = c
      <4>1. caller'[d] = [at |-> "done", of |-> caller[d].of, on |-> c,
                             since |-> caller[d].since, got |-> probe[c].got]
        BY <1>2, <3>1, EndIs
      <4>2. /\ caller'[d].of = caller[d].of /\ caller'[d].got = probe[c].got
            /\ caller'[d].since = caller[d].since /\ caller'[d].at = "done"
        BY <4>1
      <4>3. probe[c].got.of = caller[d].of
        BY <2>1, <3>1 DEF ProbesAwaited
      <4> QED BY <1>a, <2>1, <3>1, <4>2, <4>3
    <3>2. CASE ~(caller[d].at = "waiting" /\ caller[d].on = c)
      <4>1. caller'[d] = caller[d]
        BY <1>2, <3>2, EndIs
      <4> QED BY <1>a, <2>1, <3>2, <4>1
    <3> QED BY <3>1, <3>2
  <2>7. \A d, e \in Caller : Fresh(d, e)'
    BY <1>a, <2>2, <2>3, <2>6
  <2>8. Clock' /\ Shared'
    BY <1>a, <2>1
  <2> QED BY <1>b, <2>5, <2>6, <2>7, <2>8
<1>3. ASSUME NEW c \in Caller, Probe!Serve(c)
      PROVE  ProbesRight'
  <2>1. /\ UNCHANGED <<endpoint, caps, news, dropped, key, snapshot, guard, inFlight, caller, spoiled>>
        /\ probe[c].at = "asked"
        /\ \E got : got.v = caps[probe[c].of].v
             /\ probe' = [probe EXCEPT ![c] = [at |-> "read", of |-> probe[c].of, got |-> got]]
    BY <1>3 DEF Probe!Serve
  <2>2. probe[c].of \in Endpoint
    BY <2>1 DEF ProbeShape
  <2>3. /\ probe'[c].got.v = caps[probe[c].of].v
        /\ \A d \in Caller : d # c => probe'[d] = probe[d]
    BY <2>1 DEF ProbeShape
  <2>4. caps[probe[c].of].v >= dropped /\ dropped \in Nat /\ caps[probe[c].of].v \in Nat
    BY <1>0, <1>a, <2>2
  <2>5. \A d, e \in Caller : Fresh(d, e)'
    BY <1>0, <1>a, <2>1, <2>3, <2>4
  <2>6. Clock' /\ Shared' /\ Home' = Home
    BY <1>a, <2>1, <2>3, <2>4 DEF Home, ProbeShape
  <2> QED BY <1>a, <1>b, <2>1, <2>5, <2>6
<1>4. ASSUME NEW c \in Caller, Probe!Return(c)
      PROVE  ProbesRight'
  <2>1. /\ UNCHANGED <<endpoint, caps, news, dropped, key, snapshot, guard, inFlight, probe, spoiled>>
        /\ caller'[c].at = "idle" /\ \A d \in Caller : d # c => caller'[d] = caller[d]
    BY <1>4 DEF Probe!Return, ProbeShape, Probe!Idle
  <2> QED BY <1>a, <1>b, <2>1 DEF Home
<1>5. ASSUME NEW e \in Endpoint, Probe!Change(e)
      PROVE  ProbesRight'
  <2>1. /\ UNCHANGED <<endpoint, dropped, key, snapshot, guard, inFlight, probe, caller, spoiled>>
        /\ news' = (IF Events THEN caps[e].v + 1 ELSE 0)
        /\ caps'[e].v = caps[e].v + 1 /\ \A f \in Endpoint : f # e => caps'[f] = caps[f]
    BY <1>5 DEF Probe!Change, ProbeShape
  <2>2. Clock'
    BY <1>0, <1>a, <2>1 DEF Probe!EventsAreOfOne
  <2> QED BY <1>a, <1>b, <2>1, <2>2 DEF Home
<1>6. ASSUME NEW e \in Endpoint, Probe!Switch(e)
      PROVE  ProbesRight'
  <2>1. /\ UNCHANGED <<caps, news, dropped, key, snapshot, guard, inFlight, probe, caller, spoiled>>
        /\ Keyed
    BY <1>6 DEF Probe!Switch
  <2> QED BY <1>a, <1>b, <2>1 DEF Home
<1>7. CASE Probe!Age
  BY <1>7, <1>a, <1>b DEF Probe!Age, Home
<1>8. CASE Probe!Invalidate
  <2>1. /\ UNCHANGED <<endpoint, caps, probe, caller>> /\ news # 0 /\ Events
        /\ snapshot' = Probe!Nothing /\ guard' = Probe!Nothing /\ inFlight' = NoCaller
        /\ dropped' = news /\ news' = 0
    BY <1>8 DEF Probe!Invalidate, Probe!Drop
  <2>2. Clock' /\ Shared'
    BY <1>0, <1>a, <2>1
  <2>3. \A c \in Caller : caller'[c].at # "idle" => caller'[c].since <= dropped'
    BY <1>0, <1>a, <2>1
  <2> QED BY <1>a, <1>b, <2>1, <2>2, <2>3
<1>9. CASE UNCHANGED Probe!vars
  BY <1>9, <1>a, <1>b DEF Probe!vars, Home
<1> QED BY <1>1, <1>2, <1>3, <1>4, <1>5, <1>6, <1>7, <1>8, <1>9 DEF Probe!Next

\* Everything said of probes holds for ever.
LEMMA ProbesHold ==
  ASSUME Probe!NonesAreNone, Probe!VersionsAreCounted, Probe!EventsAreOfOne
  PROVE  Probe!Spec => []ProbesRight
<1>1. Probe!Init => ProbeShape /\ ProbesAwaited /\ ProbesRight
  BY ProbeBegins
<1>2. ProbeShape /\ ProbesAwaited /\ ProbesRight /\ [Probe!Next]_(Probe!vars)
        => (ProbeShape /\ ProbesAwaited /\ ProbesRight)'
  BY ProbeTypeStep, AwaitedStep, RightStep
<1> QED BY <1>1, <1>2, PTL DEF Probe!Spec

\* A caller that waited for a probe, its own or a shared one, learns of the runtime it is going
\* to call, and nothing older than the last update event before it asked: through changes of
\* endpoint and events while probes are under way, and ends of disowned probes in between.
THEOREM LearnsRight ==
  ASSUME Probe!NonesAreNone, Probe!VersionsAreCounted, Probe!EventsAreOfOne
  PROVE  Probe!Spec => []Probe!ProbedIsRight
<1>1. ProbesRight => Probe!ProbedIsRight
  BY DEF ProbesRight
<1> QED BY <1>1, ProbesHold, PTL

\* The cache is of the endpoint it is kept for, and not older than the last update event, as
\* long as no disowned probe has ended since it was reset: nothing else spoils it.
THEOREM CachesRight ==
  ASSUME Probe!NonesAreNone, Probe!VersionsAreCounted, Probe!EventsAreOfOne
  PROVE  Probe!Spec => []Probe!CachedIsRight
<1>1. ProbesRight => Probe!CachedIsRight
  BY DEF ProbesRight
<1> QED BY <1>1, ProbesHold, PTL
=============================================================================
