----------------------- MODULE KernelProjectionProofs -----------------------
(***************************************************************************)
(* What the kernel projection shows is never ahead of the service, a store *)
(* that is loading has a request under way, who listens is served and for  *)
(* nobody nothing is kept: for any scopes, readers and failures.  For      *)
(* readers that stay and ask for their scopes once, it implements the      *)
(* mirror, and what it shows as ready is what the service has, also when   *)
(* the socket is lost and the fallback takes over.                         *)
(***************************************************************************)
EXTENDS KernelProjection, TLAPS

Revision == 0 .. MaxRevision
States == [revision : Revision, slices : [Scope -> Revision \cup {Absent}],
           load : {"idle", "loading", "ready", "error"}]
Calls == [id : Nat, scopes : SUBSET Scope, then : {"start", "ensure", "none"},
          answer : Revision \cup {Pending, Failed}]
Deltas == [kind : {"replace", "resync_required"}, revision : Revision, scopes : SUBSET Scope]

-----------------------------------------------------------------------------
(* Invariants for all constants.                                           *)

Shape ==
  /\ revision \in Revision
  /\ peer \in [phase : {"none", "accepted", "subscribed"}, last : Revision, due : BOOLEAN]
  /\ wire \in Seq(Deltas)
  /\ state \in States
  /\ requested \subseteq Scope /\ listeners \subseteq Listener /\ started \in BOOLEAN
  /\ requestId \in 0 .. MaxCall
  /\ calls \subseteq Calls
  /\ sub \in [phase : {"none", "connecting", "open", "fallback"}, scopes : SUBSET Scope,
              last : Revision]
  /\ notices \in BOOLEAN

\* A slice that is shown, is on its way or was answered was there in the service.
Shown(s) == state.slices[s] # Absent
NeverAhead ==
  /\ \A s \in Scope : Shown(s) => state.slices[s] <= revision
  /\ \A i \in 1 .. Len(wire) : wire[i].revision <= revision
  /\ \A c \in calls : c.answer \in Revision => c.answer <= revision
  /\ peer.last <= revision

\* A request has one number, and the newest one is answered while the store is loading.
Numbered ==
  /\ \A c \in calls : c.id \in 1 .. requestId
  /\ \A c, d \in calls : c.id = d.id => c = d
  /\ state.load = "loading" => \E c \in calls : c.id = requestId

\* The store was started by its listeners.
Started == listeners # {} => started

Inv == Shape /\ NeverAhead /\ Numbered /\ StopsForGood /\ Started /\ ListenersServed

-----------------------------------------------------------------------------
(* Invariants for readers that stay: nobody leaves, nobody reads again by  *)
(* itself, one set of scopes is asked for, and the service does not lag.   *)

ReadersStay ==
  /\ Leaver = {} /\ Reread = {} /\ MayLag = FALSE
  /\ \A a, b \in Asked : a = b

\* Everything is asked for at once, and by one first request.
AskedOnce ==
  /\ requested \in Asked \cup {{}}
  /\ started => listeners # {}
  /\ \A c \in calls : c.scopes = requested
  /\ sub.phase = "none" =>
       /\ requestId \in {0, 1}
       /\ requestId = 0 => state.load = "idle" /\ (requested = {} \/ ~started)
       /\ requestId = 1 => started /\ requested # {} /\ \E c \in calls : c.then # "none"
       /\ wire = <<>> /\ peer = NoPeer
       /\ \A s \in Scope : ~Shown(s)
  /\ sub.phase # "none" =>
       /\ listeners # {} /\ requested # {} /\ sub.scopes = requested
       /\ \A c \in calls : c.then = "none"

\* A socket that holds is used while no request is under way.
SocketAlone ==
  sub.phase \in {"connecting", "open"} => calls = {} /\ ~notices

\* What is on its way is newer than what is shown, one after the other.
WireInOrder ==
  /\ \A i \in 1 .. Len(wire) : wire[i].kind = "replace" /\ wire[i].scopes = requested
  /\ \A i, j \in 1 .. Len(wire) : i <= j => wire[i].revision <= wire[j].revision
  /\ \A i \in 1 .. Len(wire), s \in Scope : Shown(s) => state.slices[s] <= wire[i].revision
  /\ sub.phase # "open" => wire = <<>>
  /\ peer.phase # "subscribed" => wire = <<>>

\* While the newest request is under way the store is loading, and its answer is no older
\* than what is shown.
AnswerIsNewer ==
  \A c \in calls : c.id = requestId =>
    /\ state.load = "loading"
    /\ c.answer \in Revision =>
         \A s \in Scope : Shown(s) => state.slices[s] <= c.answer

\* Everything that is asked for is shown at this revision.
ShowsAll(rev) == \A s \in requested : state.slices[s] = rev

\* The task of the socket knows what the client has, or what is on its way to it.
PeerKnows ==
  /\ (sub.phase = "connecting" \/ (sub.phase = "open" /\ peer.phase = "accepted")) =>
       state.load \in {"ready", "error"} /\ (state.load = "ready" => ShowsAll(sub.last))
  /\ sub.phase = "open" /\ peer.phase = "subscribed" =>
       /\ state.load \in {"ready", "error"}
       /\ peer.due \/ peer.last = revision
       /\ wire = <<>> /\ state.load = "ready" => ShowsAll(peer.last)
       /\ wire # <<>> => wire[Len(wire)].revision = peer.last
  /\ sub.phase # "open" => peer = NoPeer
  /\ sub.phase = "open" => peer.phase # "none"

\* The fallback reads what the service has, shows it, shows an error, or will read it.
FallbackKnows ==
  sub.phase = "fallback" =>
    \/ notices
    \/ \E c \in calls : c.id = requestId /\ c.answer \in {Pending, Failed, revision}
    \/ state.load = "error" \/ ShowsAll(revision)

StayInv == AskedOnce /\ SocketAlone /\ WireInOrder /\ AnswerIsNewer /\ PeerKnows /\ FallbackKnows

-----------------------------------------------------------------------------
\* What is not a revision is told apart from one.
LEMMA Revisions ==
  /\ MaxRevision \in Nat \ {0} /\ {0, 1} \subseteq Revision /\ Revision \subseteq Nat
  /\ Absent \notin Revision /\ Pending \notin Revision /\ Failed \notin Revision
  /\ Pending # Failed /\ MaxCall \in Nat
  BY ScopeAssumption DEF Revision, Absent, Pending, Failed

Sent(c, scopes, then) ==
  /\ c.id = requestId + 1 /\ c.scopes = scopes /\ c.then = then /\ c.answer = Pending

\* A request that is sent gets the next number and no answer yet.
LEMMA CallSent ==
  ASSUME Shape, Numbered, NEW scopes \in SUBSET Scope, NEW then \in {"start", "ensure", "none"},
         NEW st \in States, Call(scopes, then, st)
  PROVE  /\ requestId' \in 0 .. MaxCall /\ requestId' = requestId + 1
         /\ state' \in States /\ state'.slices = st.slices /\ state'.load = "loading"
         /\ calls' \subseteq Calls /\ Numbered'
         /\ \E c \in Calls : calls' = calls \cup {c} /\ Sent(c, scopes, then)
<1> DEFINE new == [id |-> requestId + 1, scopes |-> scopes, then |-> then, answer |-> Pending]
<1>1. requestId \in Nat /\ MaxCall \in Nat /\ requestId < MaxCall
  BY Revisions DEF Shape, Call
<1>2. new \in Calls
  BY <1>1 DEF Calls
<1>3. calls' = calls \cup {new} /\ requestId' = requestId + 1 /\ state' = [st EXCEPT !.load = "loading"]
  BY DEF Call
<1>4. state' \in States /\ state'.slices = st.slices /\ state'.load = "loading"
  BY <1>3 DEF States
<1>5. new.id = requestId + 1 /\ new.then = then /\ new.answer = Pending /\ new.scopes = scopes
  OBVIOUS
<1> HIDE DEF new
<1>6. Numbered'
  <2>1. \A c \in calls : c.id \in 1 .. requestId
    BY DEF Numbered
  <2>2. \A c \in calls' : c.id \in 1 .. requestId'
    BY <1>1, <1>3, <1>5, <2>1
  <2>3. ASSUME NEW c \in calls', NEW d \in calls', c.id = d.id PROVE c = d
    <3>1. \A x \in calls : x.id # new.id
      BY <1>1, <1>5, <2>1
    <3> QED BY <2>3, <3>1, <1>3 DEF Numbered
  <2>4. \E c \in calls' : c.id = requestId'
    BY <1>3, <1>5
  <2> QED BY <2>2, <2>3, <2>4 DEF Numbered
<1>7. requestId' \in 0 .. MaxCall
  BY <1>1, <1>3
<1>8. calls' \subseteq Calls
  BY <1>2, <1>3 DEF Shape
<1>9. Sent(new, scopes, then)
  BY <1>5 DEF Sent
<1> QED BY <1>2, <1>3, <1>4, <1>6, <1>7, <1>8, <1>9

\* A request changes nothing else that the invariant speaks of.
LEMMA CallKeeps ==
  ASSUME Shape, NeverAhead, Numbered, NEW scopes \in SUBSET Scope,
         NEW then \in {"start", "ensure", "none"}, NEW st \in States,
         st.slices = state.slices, Call(scopes, then, st)
  PROVE  /\ requestId' \in 0 .. MaxCall /\ state' \in States /\ calls' \subseteq Calls
         /\ Numbered' /\ state'.slices = state.slices
         /\ \A c \in calls' : c.answer \in Revision => c \in calls
         /\ \A c \in calls : c \in calls'
         /\ then # "none" => \E c \in calls' : c.then # "none"
<1>1. PICK c \in Calls :
        calls' = calls \cup {c} /\ Sent(c, scopes, then)
  BY CallSent
<1> QED BY <1>1, CallSent, Revisions DEF Sent

\* What was shown, on its way or answered stays behind a service that moves on.
LEMMA StaysBehind ==
  ASSUME Shape, NeverAhead, revision' \in Revision, revision <= revision',
         state'.slices = state.slices, peer'.last \in {0, peer.last, revision}, peer'.last \in Revision,
         \A i \in 1 .. Len(wire') : \/ wire'[i].revision = revision
                                  \/ \E j \in 1 .. Len(wire) : wire'[i] = wire[j],
         \A c \in calls' : c.answer \in Revision => c \in calls \/ c.answer = revision
  PROVE  NeverAhead'
<1>0. revision \in Nat /\ revision' \in Nat /\ peer.last \in Nat
  BY Revisions DEF Shape
<1>1. \A s \in Scope : Shown(s)' => state'.slices[s] <= revision'
  <2> SUFFICES ASSUME NEW s \in Scope, Shown(s)' PROVE state'.slices[s] <= revision'
    OBVIOUS
  <2>1. state.slices[s] \in Nat /\ state.slices[s] <= revision
    <3>1. state.slices[s] \in Revision \cup {Absent}
      BY DEF Shape, States
    <3> QED BY <3>1, Revisions DEF NeverAhead, Shown
  <2> QED BY <1>0, <2>1
<1>2. \A i \in 1 .. Len(wire') : wire'[i].revision <= revision'
  <2> SUFFICES ASSUME NEW i \in 1 .. Len(wire') PROVE wire'[i].revision <= revision'
    OBVIOUS
  <2>1. CASE wire'[i].revision = revision
    BY <2>1
  <2>2. ASSUME NEW j \in 1 .. Len(wire), wire'[i] = wire[j] PROVE wire'[i].revision <= revision'
    <3>1. wire[j].revision \in Nat /\ wire[j].revision <= revision
      <4>1. wire[j] \in Deltas
        BY DEF Shape
      <4> QED BY <4>1, Revisions DEF Deltas, NeverAhead
    <3> QED BY <1>0, <2>2, <3>1
  <2> QED BY <2>1, <2>2
<1>3. \A c \in calls' : c.answer \in Revision => c.answer <= revision'
  <2> SUFFICES ASSUME NEW c \in calls', c.answer \in Revision PROVE c.answer <= revision'
    OBVIOUS
  <2>0. c \in calls \/ c.answer = revision
    OBVIOUS
  <2>1. c.answer \in Nat
    BY Revisions
  <2>2. c.answer <= revision
    BY <1>0, <2>0, <2>1 DEF NeverAhead
  <2> QED BY <1>0, <2>1, <2>2
<1>4. peer'.last <= revision'
  BY <1>0, Revisions DEF NeverAhead
<1> QED BY <1>1, <1>2, <1>3, <1>4 DEF NeverAhead

\* What the service sends is put at the end of what is on its way.
LEMMA WireGrows ==
  ASSUME NEW q \in Seq(Deltas), NEW d \in Deltas
  PROVE  /\ q \o <<>> = q
         /\ q \o <<d>> = Append(q, d) /\ Append(q, d) \in Seq(Deltas)
         /\ Len(q) \in Nat /\ Len(Append(q, d)) = Len(q) + 1
         /\ \A j \in 1 .. Len(q) : Append(q, d)[j] = q[j]
         /\ Append(q, d)[Len(q) + 1] = d
  OBVIOUS

\* The first delta is taken from what is on its way.
LEMMA WireShrinks ==
  ASSUME NEW q \in Seq(Deltas), q # <<>>
  PROVE  /\ Tail(q) \in Seq(Deltas) /\ Head(q) = q[1] /\ Head(q) \in Deltas
         /\ Len(Tail(q)) = Len(q) - 1 /\ Len(q) \in Nat \ {0}
         /\ \A i \in 1 .. Len(Tail(q)) : i + 1 \in 1 .. Len(q) /\ Tail(q)[i] = q[i + 1]
  OBVIOUS

\* Nothing is asked for, shown or subscribed to in the beginning.
LEMMA InitInv == Init => Inv
<1> SUFFICES ASSUME Init PROVE Inv
  OBVIOUS
<1>1. revision \in Revision
  BY Revisions DEF Init, Revision
<1>2. /\ peer \in [phase : {"none", "accepted", "subscribed"}, last : Revision, due : BOOLEAN]
      /\ peer.last = 0
  BY Revisions DEF Init, NoPeer
<1>3. wire \in Seq(Deltas) /\ Len(wire) = 0
  BY DEF Init
<1>4. /\ state \in States /\ state.load = "idle"
      /\ \A s \in Scope : state.slices[s] = Absent
  BY Revisions DEF Init, States
<1>5. /\ sub \in [phase : {"none", "connecting", "open", "fallback"}, scopes : SUBSET Scope,
                  last : Revision]
      /\ sub.phase = "none"
  BY Revisions DEF Init, NoSubscription
<1>6. Shape
  <2>1. requestId \in 0 .. MaxCall
    BY Revisions DEF Init
  <2>2. requested = {} /\ listeners = {} /\ calls = {} /\ started = FALSE /\ notices = FALSE
    BY DEF Init
  <2> QED BY <1>1, <1>2, <1>3, <1>4, <1>5, <2>1, <2>2 DEF Shape
<1>7. NeverAhead
  BY <1>1, <1>2, <1>3, <1>4, Revisions DEF Init, NeverAhead, Shown
<1>8. Numbered /\ StopsForGood /\ Started /\ ListenersServed
  BY <1>4, <1>5 DEF Init, Numbered, StopsForGood, Started, ListenersServed
<1> QED BY <1>6, <1>7, <1>8 DEF Inv

-----------------------------------------------------------------------------
\* The state of the service changes.
LEMMA UpdateInv ==
  ASSUME Inv, Update
  PROVE  Inv'
<1> USE DEF Inv
<1>1. /\ UNCHANGED <<wire, state, requested, listeners, started, requestId, calls, sub>>
      /\ revision' = revision + 1 /\ revision' \in Revision /\ revision <= revision'
  BY Revisions DEF Update, storeVars, Shape, Revision
<1>2. /\ peer' \in [phase : {"none", "accepted", "subscribed"}, last : Revision, due : BOOLEAN]
      /\ peer'.last = peer.last /\ notices' \in BOOLEAN /\ peer.last \in Revision
  BY DEF Update, Shape
<1>3. Shape'
  BY <1>1, <1>2 DEF Shape
<1>4. NeverAhead'
  BY <1>1, <1>2, StaysBehind
<1> QED BY <1>1, <1>3, <1>4 DEF Numbered, StopsForGood, Started, ListenersServed

\* A request is answered with what the service has now, or fails.
LEMMA AnswerInv ==
  ASSUME Inv, NEW c \in calls, Answer(c)
  PROVE  Inv'
<1> USE DEF Inv
<1>1. UNCHANGED <<revision, peer, wire, state, requested, listeners, started, requestId, sub, notices>>
  BY DEF Answer, storeVars, serverVars
<1>2. PICK a \in {revision, Failed} : calls' = (calls \ {c}) \cup {[c EXCEPT !.answer = a]}
  BY DEF Answer
<1> DEFINE d == [c EXCEPT !.answer = a]
<1>3. d \in Calls /\ d.id = c.id /\ d.then = c.then /\ d.answer = a /\ c \in Calls
  BY DEF Shape, Calls
<1> HIDE DEF d
<1>4. calls' = (calls \ {c}) \cup {d}
  BY <1>2 DEF d
<1>5. Shape'
  BY <1>1, <1>3, <1>4 DEF Shape
<1>6. NeverAhead'
  <2>1. \A x \in calls' : x.answer \in Revision => x \in calls \/ x.answer = revision
    BY <1>3, <1>4, Revisions
  <2>2. revision \in Nat /\ peer'.last = peer.last /\ peer.last \in Revision /\ revision \in Revision
    BY <1>1, Revisions DEF Shape
  <2> QED BY <1>1, <2>1, <2>2, StaysBehind
<1>7. Numbered'
  BY <1>1, <1>3, <1>4 DEF Numbered
<1>8. ListenersServed'
  BY <1>1, <1>3, <1>4 DEF ListenersServed
<1> QED BY <1>1, <1>5, <1>6, <1>7, <1>8 DEF StopsForGood, Started

\* The task of the socket: it is told of the subscription, forwards changes, or lags.
LEMMA PeerInv ==
  ASSUME Inv, PeerSubscribes \/ PeerForwards \/ PeerLags
  PROVE  Inv'
<1> USE DEF Inv
<1>1. UNCHANGED <<revision, state, requested, listeners, started, requestId, calls, sub, notices>>
  BY DEF PeerSubscribes, PeerForwards, PeerLags, storeVars
<1>2. \A kind \in {"replace", "resync_required"} :
        Delta(kind) \in Deltas /\ Delta(kind).revision = revision
  BY DEF Delta, Deltas, Shape
<1>3. /\ peer' \in [phase : {"none", "accepted", "subscribed"}, last : Revision, due : BOOLEAN]
      /\ peer'.last = revision
  BY DEF PeerSubscribes, PeerForwards, PeerLags, Shape
<1>4. wire' \in Seq(Deltas) /\ \A i \in 1 .. Len(wire') :
        wire'[i].revision = revision \/ \E j \in 1 .. Len(wire) : wire'[i] = wire[j]
  <2>0. wire \in Seq(Deltas)
    BY DEF Shape
  <2>1. wire' = wire \/ \E kind \in {"replace", "resync_required"} : wire' = Append(wire, Delta(kind))
    <3>1. wire \o <<>> = wire /\ wire \o <<Delta("replace")>> = Append(wire, Delta("replace"))
      BY <1>2, <2>0, WireGrows
    <3> QED BY <3>1 DEF PeerSubscribes, PeerForwards, PeerLags, Replacement
  <2>2. CASE wire' = wire
    BY <2>0, <2>2
  <2>3. ASSUME NEW d \in Deltas, d.revision = revision, wire' = Append(wire, d)
        PROVE  /\ wire' \in Seq(Deltas)
               /\ \A i \in 1 .. Len(wire') :
                    wire'[i].revision = revision \/ \E j \in 1 .. Len(wire) : wire'[i] = wire[j]
    <3>1. /\ wire' \in Seq(Deltas) /\ Len(wire) \in Nat /\ Len(wire') = Len(wire) + 1
          /\ \A j \in 1 .. Len(wire) : wire'[j] = wire[j]
          /\ wire'[Len(wire) + 1] = d
      BY <2>0, <2>3, WireGrows
    <3>2. ASSUME NEW i \in 1 .. Len(wire')
          PROVE  wire'[i].revision = revision \/ \E j \in 1 .. Len(wire) : wire'[i] = wire[j]
      <4>1. i = Len(wire) + 1 \/ i \in 1 .. Len(wire)
        BY <3>1
      <4> QED BY <2>3, <3>1, <4>1
    <3> QED BY <3>1, <3>2
  <2> QED BY <1>2, <2>1, <2>2, <2>3
<1>5. Shape'
  BY <1>1, <1>3, <1>4 DEF Shape
<1>6. NeverAhead'
  <2>1. revision \in Revision /\ revision \in Nat
    BY Revisions DEF Shape
  <2> QED BY <1>1, <1>3, <1>4, <2>1, StaysBehind
<1> QED BY <1>1, <1>5, <1>6 DEF Numbered, StopsForGood, Started, ListenersServed

\* What does not touch the wire and the task of the socket, or takes them away.
LEMMA CutOff ==
  ASSUME Shape,
         UNCHANGED <<peer, wire>> \/ (peer' = NoPeer /\ wire' = <<>>)
  PROVE  /\ peer' \in [phase : {"none", "accepted", "subscribed"}, last : Revision, due : BOOLEAN]
         /\ peer'.last \in {0, peer.last, revision} /\ peer'.last \in Revision
         /\ wire' \in Seq(Deltas)
         /\ \A i \in 1 .. Len(wire') : \E j \in 1 .. Len(wire) : wire'[i] = wire[j]
<1>1. CASE UNCHANGED <<peer, wire>>
  BY <1>1 DEF Shape
<1>2. CASE peer' = NoPeer /\ wire' = <<>>
  BY <1>2, Revisions DEF NoPeer
<1> QED BY <1>1, <1>2

\* A listener comes or goes, scopes are asked for or read again: a request may be sent.
LEMMA StoreInv ==
  ASSUME Inv,
         \/ \E l \in Listener : Subscribe(l) \/ Unsubscribe(l)
         \/ \E scopes \in Asked : EnsureScopes(scopes)
         \/ \E scopes \in Reread : Refresh(scopes)
  PROVE  Inv'
<1> USE DEF Inv
<1>0. revision \in Revision /\ revision \in Nat /\ state \in States
  BY Revisions DEF Shape
<1>1. ASSUME NEW scopes \in SUBSET Scope, NEW then \in {"start", "ensure", "none"},
             Call(scopes, then, state) \/ NoCall
      PROVE  /\ requestId' \in 0 .. MaxCall /\ state' \in States /\ calls' \subseteq Calls
             /\ Numbered' /\ state'.slices = state.slices
             /\ \A c \in calls' : c.answer \in Revision => c \in calls
             /\ \A c \in calls : c \in calls'
             /\ Call(scopes, then, state) /\ then # "none" => \E c \in calls' : c.then # "none"
  <2>1. CASE Call(scopes, then, state)
    BY <1>0, <2>1, CallKeeps
  <2>2. CASE NoCall /\ ~Call(scopes, then, state)
    BY <2>2 DEF NoCall, Shape, Numbered
  <2> QED BY <1>1, <2>1, <2>2
<1>2. ASSUME NEW l \in Listener, Subscribe(l) PROVE Inv'
  <2>1. /\ UNCHANGED <<revision, peer, wire, requested, sub, notices>>
        /\ listeners' = listeners \cup {l} /\ started' = TRUE
        /\ requested \in SUBSET Scope
        /\ Call(requested, "start", state) \/ NoCall
        /\ listeners = {} /\ requested # {} => Call(requested, "start", state)
    BY <1>2 DEF Subscribe, serverVars, Shape
  <2>2. /\ requestId' \in 0 .. MaxCall /\ state' \in States /\ calls' \subseteq Calls
        /\ Numbered' /\ state'.slices = state.slices
        /\ \A c \in calls' : c.answer \in Revision => c \in calls
        /\ \A c \in calls : c \in calls'
        /\ Call(requested, "start", state) => \E c \in calls' : c.then # "none"
    BY <1>1, <2>1
  <2>3. Shape'
    BY <2>1, <2>2 DEF Shape
  <2>4. NeverAhead'
    <3>1. peer.last \in Revision
      BY DEF Shape
    <3> QED BY <1>0, <2>1, <2>2, <3>1, StaysBehind
  <2>5. StopsForGood' /\ Started'
    BY <2>1 DEF StopsForGood, Started
  <2>6. ListenersServed'
    BY <2>1, <2>2 DEF ListenersServed
  <2> QED BY <2>2, <2>3, <2>4, <2>5, <2>6
<1>3. ASSUME NEW l \in Listener, Unsubscribe(l) PROVE Inv'
  <2>1. /\ UNCHANGED <<revision, requested, started, requestId, calls, state>>
        /\ listeners' = listeners \ {l}
        /\ \/ UNCHANGED <<peer, wire, sub, notices>> /\ listeners' # {}
           \/ /\ peer' = NoPeer /\ wire' = <<>> /\ sub' = NoSubscription /\ notices' = FALSE
              /\ listeners' = {}
    BY <1>3 DEF Unsubscribe
  <2>2. NoSubscription \in [phase : {"none", "connecting", "open", "fallback"},
                            scopes : SUBSET Scope, last : Revision]
    BY Revisions DEF NoSubscription
  <2>3. Shape'
    BY <2>1, <2>2, CutOff DEF Shape
  <2>4. NeverAhead'
    BY <1>0, <2>1, CutOff, StaysBehind
  <2>5. Numbered'
    BY <2>1 DEF Numbered
  <2>6. StopsForGood' /\ Started' /\ ListenersServed'
    BY <2>1 DEF StopsForGood, Started, ListenersServed, NoSubscription
  <2> QED BY <2>3, <2>4, <2>5, <2>6
<1>4. ASSUME NEW scopes \in Asked, EnsureScopes(scopes) PROVE Inv'
  <2>1. /\ UNCHANGED <<revision, peer, wire, listeners, started, sub, notices>>
        /\ requested' = requested \cup scopes /\ scopes \in SUBSET Scope
        /\ Call(scopes, "ensure", state) \/ NoCall
        /\ started => Call(scopes, "ensure", state)
    BY <1>4, ScopeAssumption DEF EnsureScopes, serverVars
  <2>2. /\ requestId' \in 0 .. MaxCall /\ state' \in States /\ calls' \subseteq Calls
        /\ Numbered' /\ state'.slices = state.slices
        /\ \A c \in calls' : c.answer \in Revision => c \in calls
        /\ \A c \in calls : c \in calls'
        /\ Call(scopes, "ensure", state) => \E c \in calls' : c.then # "none"
    BY <1>1, <2>1
  <2>3. Shape'
    BY <2>1, <2>2 DEF Shape
  <2>4. NeverAhead'
    <3>1. peer.last \in Revision
      BY DEF Shape
    <3> QED BY <1>0, <2>1, <2>2, <3>1, StaysBehind
  <2>5. StopsForGood' /\ Started'
    BY <2>1 DEF StopsForGood, Started
  <2>6. ListenersServed'
    BY <2>1, <2>2 DEF ListenersServed, Started
  <2> QED BY <2>2, <2>3, <2>4, <2>5, <2>6
<1>5. ASSUME NEW scopes \in Reread, Refresh(scopes) PROVE Inv'
  <2>1. /\ UNCHANGED <<revision, peer, wire, requested, listeners, started, sub, notices>>
        /\ scopes \in SUBSET Scope /\ Call(scopes, "none", state)
    BY <1>5, ScopeAssumption DEF Refresh, serverVars, storeVars
  <2>2. /\ requestId' \in 0 .. MaxCall /\ state' \in States /\ calls' \subseteq Calls
        /\ Numbered' /\ state'.slices = state.slices
        /\ \A c \in calls' : c.answer \in Revision => c \in calls
        /\ \A c \in calls : c \in calls'
    BY <1>1, <2>1
  <2>3. Shape'
    BY <2>1, <2>2 DEF Shape
  <2>4. NeverAhead'
    <3>1. peer.last \in Revision
      BY DEF Shape
    <3> QED BY <1>0, <2>1, <2>2, <3>1, StaysBehind
  <2>5. StopsForGood' /\ Started' /\ ListenersServed'
    BY <2>1, <2>2 DEF StopsForGood, Started, ListenersServed
  <2> QED BY <2>2, <2>3, <2>4, <2>5
<1> QED BY <1>2, <1>3, <1>4, <1>5

\* What the newest answer makes of the state is no newer than the service.
LEMMA BootstrappedIs ==
  ASSUME Shape, NeverAhead, NEW c \in calls, c.answer # Pending
  PROVE  /\ Bootstrapped(c) \in States
         /\ \A s \in Scope : Bootstrapped(c).slices[s] # Absent => Bootstrapped(c).slices[s] <= revision
         /\ c.id # requestId => Bootstrapped(c) = state
         /\ c.id = requestId => Bootstrapped(c).load \in {"ready", "error"}
<1>1. c \in Calls /\ state \in States
  BY DEF Shape
<1>2. \A s \in Scope : state.slices[s] # Absent => state.slices[s] <= revision
  BY DEF NeverAhead, Shown
<1>3. CASE c.id # requestId
  BY <1>1, <1>2, <1>3 DEF Bootstrapped
<1>4. CASE c.id = requestId /\ c.answer = Failed
  <2>1. Bootstrapped(c) = [state EXCEPT !.load = "error"]
    BY <1>4 DEF Bootstrapped
  <2> QED BY <1>1, <1>2, <1>4, <2>1 DEF States
<1>5. CASE c.id = requestId /\ c.answer # Failed
  <2>1. c.answer \in Revision /\ c.answer <= revision
    <3>1. c.answer \in Revision
      BY <1>1, <1>5 DEF Calls
    <3> QED BY <3>1 DEF NeverAhead
  <2> DEFINE slices == [s \in Scope |-> IF s \in c.scopes THEN c.answer ELSE state.slices[s]]
  <2>2. Bootstrapped(c) = [revision |-> c.answer, load |-> "ready", slices |-> slices]
    BY <1>5 DEF Bootstrapped
  <2>3. slices \in [Scope -> Revision \cup {Absent}]
    BY <1>1, <2>1 DEF States
  <2>4. \A s \in Scope : slices[s] # Absent => slices[s] <= revision
    BY <1>2, <2>1
  <2> HIDE DEF slices
  <2> QED BY <1>5, <2>1, <2>2, <2>3, <2>4 DEF States
<1> QED BY <1>3, <1>4, <1>5

\* An answer is taken over if it is the newest, and what follows the request is done if
\* anybody listens.
LEMMA ReceiveInv ==
  ASSUME Inv, NEW c \in calls, Receive(c)
  PROVE  Inv'
<1> USE DEF Inv
<1>1. /\ UNCHANGED <<revision, requested, listeners, started, requestId>>
      /\ calls' = calls \ {c} /\ state' = Bootstrapped(c) /\ c.answer # Pending
      /\ \/ /\ c.then # "none" /\ listeners # {}
            /\ sub' = [phase |-> "connecting", scopes |-> requested, last |-> state'.revision]
            /\ peer' = NoPeer /\ wire' = <<>> /\ notices' = FALSE
         \/ /\ c.then = "none" \/ listeners = {}
            /\ UNCHANGED <<sub, peer, wire, notices>>
  BY DEF Receive, storeVars
<1>2. /\ state' \in States
      /\ \A s \in Scope : state'.slices[s] # Absent => state'.slices[s] <= revision
      /\ c.id # requestId => state' = state
      /\ c.id = requestId => state'.load \in {"ready", "error"}
  BY <1>1, BootstrappedIs
<1>3. UNCHANGED <<peer, wire>> \/ (peer' = NoPeer /\ wire' = <<>>)
  BY <1>1
<1>4. Shape'
  <2>1. state'.revision \in Revision
    BY <1>2 DEF States
  <2>2. /\ sub' \in [phase : {"none", "connecting", "open", "fallback"}, scopes : SUBSET Scope,
                      last : Revision]
        /\ notices' \in BOOLEAN
    <3>1. [phase |-> "connecting", scopes |-> requested, last |-> state'.revision]
            \in [phase : {"none", "connecting", "open", "fallback"}, scopes : SUBSET Scope,
                 last : Revision]
      BY <2>1 DEF Shape
    <3>2. CASE notices' = FALSE /\ sub' = [phase |-> "connecting", scopes |-> requested,
                                         last |-> state'.revision]
      BY <3>1, <3>2
    <3>3. CASE UNCHANGED <<sub, notices>>
      BY <3>3 DEF Shape
    <3> QED BY <1>1, <3>2, <3>3
  <2> QED BY <1>1, <1>2, <1>3, <2>2, CutOff DEF Shape
<1>5. NeverAhead'
  <2>1. /\ peer'.last <= revision
        /\ \A i \in 1 .. Len(wire') : wire'[i].revision <= revision
    <3>1. CASE UNCHANGED <<peer, wire>>
      BY <3>1 DEF NeverAhead
    <3>2. CASE peer' = NoPeer /\ wire' = <<>>
      BY <3>2, Revisions DEF NoPeer, Shape, Revision
    <3> QED BY <1>3, <3>1, <3>2
  <2> QED BY <1>1, <1>2, <2>1 DEF NeverAhead, Shown
<1>6. Numbered'
  <2>1. (\A d \in calls' : d.id \in 1 .. requestId') /\ \A d, e \in calls' : d.id = e.id => d = e
    BY <1>1 DEF Numbered
  <2>2. ASSUME state'.load = "loading" PROVE \E d \in calls' : d.id = requestId'
    <3>1. c.id # requestId /\ state' = state
      BY <1>2, <2>2
    <3> QED BY <1>1, <2>2, <3>1 DEF Numbered
  <2> QED BY <2>1, <2>2 DEF Numbered
<1>7. StopsForGood' /\ Started'
  BY <1>1 DEF StopsForGood, Started
<1>8. ListenersServed'
  BY <1>1 DEF ListenersServed
<1> QED BY <1>4, <1>5, <1>6, <1>7, <1>8

\* The socket opens.
LEMMA SocketOpensInv ==
  ASSUME Inv, SocketOpens
  PROVE  Inv'
<1> USE DEF Inv
<1>1. /\ UNCHANGED <<revision, wire, state, requested, listeners, started, requestId, calls, notices>>
      /\ sub' = [sub EXCEPT !.phase = "open"] /\ sub.phase = "connecting"
      /\ peer' = [NoPeer EXCEPT !.phase = "accepted"]
  BY DEF SocketOpens, storeVars
<1>2. /\ peer' \in [phase : {"none", "accepted", "subscribed"}, last : Revision, due : BOOLEAN]
      /\ peer'.last = 0
  BY <1>1, Revisions DEF NoPeer
<1>3. sub' \in [phase : {"none", "connecting", "open", "fallback"}, scopes : SUBSET Scope,
                last : Revision] /\ sub'.phase = "open"
  BY <1>1 DEF Shape
<1>4. Shape'
  BY <1>1, <1>2, <1>3 DEF Shape
<1>5. NeverAhead'
  <2>1. revision \in Revision /\ revision \in Nat
    BY Revisions DEF Shape
  <2> QED BY <1>1, <1>2, <2>1, Revisions, StaysBehind
<1>6. StopsForGood' /\ Started' /\ ListenersServed'
  BY <1>1, <1>3 DEF StopsForGood, Started, ListenersServed
<1> QED BY <1>1, <1>4, <1>5, <1>6 DEF Numbered

\* A resync takes a revision over and has everything that was asked for read again.
LEMMA ResyncKeeps ==
  ASSUME Shape, NeverAhead, Numbered, NEW rev \in Revision, Resync(rev)
  PROVE  /\ requestId' \in 0 .. MaxCall /\ state' \in States /\ calls' \subseteq Calls
         /\ Numbered' /\ state'.slices = state.slices
         /\ \A c \in calls' : c.answer \in Revision => c \in calls
         /\ \A c \in calls : c \in calls'
<1> DEFINE st == [state EXCEPT !.revision = rev]
<1>1. st \in States /\ st.slices = state.slices /\ requested \in SUBSET Scope
  BY DEF Shape, States
<1>2. Call(requested, "none", st)
  BY DEF Resync
<1> HIDE DEF st
<1> QED BY <1>1, <1>2, CallKeeps

\* A delta replaces the slices of the subscription, or has them read again.
LEMMA ApplyInv ==
  ASSUME Inv, Apply
  PROVE  Inv'
<1> USE DEF Inv
<1> DEFINE d == Head(wire)
<1>1. /\ UNCHANGED <<revision, peer, requested, listeners, started, sub, notices>>
      /\ wire # <<>> /\ wire' = Tail(wire)
  BY DEF Apply, storeVars
<1>2. /\ d = wire[1] /\ d \in Deltas /\ wire' \in Seq(Deltas) /\ 1 \in 1 .. Len(wire)
      /\ \A i \in 1 .. Len(wire') : \E j \in 1 .. Len(wire) : wire'[i] = wire[j]
  BY <1>1, WireShrinks DEF Shape
<1>3. d.revision \in Revision /\ d.revision <= revision
  BY <1>2 DEF Deltas, NeverAhead
<1>4. CASE d.kind = "resync_required"
  <2>1. Resync(d.revision)
    BY <1>4 DEF Apply
  <2> HIDE DEF d
  <2>2. /\ requestId' \in 0 .. MaxCall /\ state' \in States /\ calls' \subseteq Calls
        /\ Numbered' /\ state'.slices = state.slices
        /\ \A c \in calls' : c.answer \in Revision => c \in calls
        /\ \A c \in calls : c \in calls'
    BY <1>3, <2>1, ResyncKeeps
  <2>3. Shape'
    BY <1>1, <1>2, <2>2 DEF Shape
  <2>4. NeverAhead'
    <3>1. revision \in Nat /\ peer.last \in Revision /\ revision \in Revision
      BY Revisions DEF Shape
    <3> QED BY <1>1, <1>2, <2>2, <3>1, StaysBehind
  <2>5. StopsForGood' /\ Started' /\ ListenersServed'
    BY <1>1, <2>2 DEF StopsForGood, Started, ListenersServed
  <2> QED BY <2>2, <2>3, <2>4, <2>5
<1>5. CASE d.kind # "resync_required"
  <2> DEFINE slices == [s \in Scope |-> IF s \in d.scopes THEN d.revision ELSE state.slices[s]]
  <2>1. state' = [revision |-> d.revision, load |-> "ready", slices |-> slices]
        /\ UNCHANGED <<requestId, calls>>
    BY <1>5 DEF Apply
  <2>2. slices \in [Scope -> Revision \cup {Absent}]
    BY <1>3 DEF Shape, States
  <2>3. \A s \in Scope : slices[s] # Absent => slices[s] <= revision
    BY <1>3 DEF NeverAhead, Shown
  <2> HIDE DEF slices, d
  <2>4. state' \in States /\ state'.slices = slices /\ state'.load = "ready"
    BY <1>3, <2>1, <2>2 DEF States
  <2>5. Shape'
    BY <1>1, <1>2, <2>1, <2>4 DEF Shape
  <2>6. NeverAhead'
    <3>1. \A i \in 1 .. Len(wire') : wire'[i].revision <= revision
      BY <1>2 DEF NeverAhead
    <3> QED BY <1>1, <2>1, <2>3, <2>4, <3>1 DEF NeverAhead, Shown
  <2>7. Numbered' /\ StopsForGood' /\ Started' /\ ListenersServed'
    BY <1>1, <2>1, <2>4 DEF Numbered, StopsForGood, Started, ListenersServed
  <2> QED BY <2>5, <2>6, <2>7
<1> QED BY <1>4, <1>5

\* The fallback takes over, or hears of a change.
LEMMA FallbackInv ==
  ASSUME Inv, SocketFails \/ Notice
  PROVE  Inv'
<1> USE DEF Inv
<1>1. /\ UNCHANGED <<revision, requested, listeners, started>>
      /\ Resync(0)
      /\ \/ /\ peer' = NoPeer /\ wire' = <<>> /\ sub' = [sub EXCEPT !.phase = "fallback"]
            /\ UNCHANGED notices /\ sub.phase \in {"connecting", "open"}
         \/ UNCHANGED <<peer, wire, sub>> /\ notices' = FALSE
  BY DEF SocketFails, Notice, serverVars, storeVars
<1>2. /\ requestId' \in 0 .. MaxCall /\ state' \in States /\ calls' \subseteq Calls
      /\ Numbered' /\ state'.slices = state.slices
      /\ \A c \in calls' : c.answer \in Revision => c \in calls
      /\ \A c \in calls : c \in calls'
  BY <1>1, Revisions, ResyncKeeps
<1>3. /\ sub' \in [phase : {"none", "connecting", "open", "fallback"}, scopes : SUBSET Scope,
                   last : Revision]
      /\ sub'.phase = sub.phase \/ (sub'.phase = "fallback" /\ sub.phase # "none")
      /\ notices' \in BOOLEAN
  <2>1. CASE sub' = [sub EXCEPT !.phase = "fallback"] /\ UNCHANGED notices
             /\ sub.phase \in {"connecting", "open"}
    BY <2>1 DEF Shape
  <2>2. CASE UNCHANGED sub /\ notices' = FALSE
    BY <2>2 DEF Shape
  <2> QED BY <1>1, <2>1, <2>2
<1>4. UNCHANGED <<peer, wire>> \/ (peer' = NoPeer /\ wire' = <<>>)
  BY <1>1
<1>5. Shape'
  BY <1>1, <1>2, <1>3, <1>4, CutOff DEF Shape
<1>6. NeverAhead'
  <2>1. revision \in Nat /\ revision \in Revision
    BY Revisions DEF Shape
  <2> QED BY <1>1, <1>2, <1>4, <2>1, CutOff, StaysBehind
<1>7. StopsForGood' /\ Started' /\ ListenersServed'
  BY <1>1, <1>2, <1>3 DEF StopsForGood, Started, ListenersServed
<1> QED BY <1>2, <1>5, <1>6, <1>7

\* Every step keeps the invariant.
LEMMA NextInv == Inv /\ [Next]_vars => Inv'
<1> SUFFICES ASSUME Inv, [Next]_vars PROVE Inv'
  OBVIOUS
<1>1. CASE UNCHANGED vars
  BY <1>1 DEF vars, serverVars, storeVars, Inv, Shape, NeverAhead, Shown, Numbered, StopsForGood,
              Started, ListenersServed
<1> QED BY <1>1, UpdateInv, AnswerInv, PeerInv, StoreInv, ReceiveInv, SocketOpensInv, ApplyInv,
           FallbackInv DEF Next

\* The invariant holds of every behaviour.
THEOREM InvHolds == Spec => []Inv
  BY InitInv, NextInv, PTL DEF Spec

\* Type correctness.
THEOREM TypeCorrect == Spec => []TypeOK
<1>1. Inv => TypeOK
  BY Revisions DEF Inv, Shape, States, Revision, Absent, Numbered, Calls, TypeOK
<1> QED BY InvHolds, <1>1, PTL

\* A store never loads for ever by itself: while it is loading, a request is under way, whose
\* answer will end it, whatever is asked for, resynced or lost meanwhile.
THEOREM LoadingHasRequest == Spec => []LoadingEnds
<1>1. Inv => LoadingEnds
  BY DEF Inv, Numbered, LoadingEnds
<1> QED BY InvHolds, <1>1, PTL

\* For nobody no socket and no fallback is kept, and whoever listens has a subscription, or
\* a request that will make one: in whatever order listeners, scopes and answers come.
THEOREM ServesItsListeners == Spec => []StopsForGood /\ []ListenersServed
<1>1. Inv => StopsForGood /\ ListenersServed
  BY DEF Inv
<1> QED BY InvHolds, <1>1, PTL

\* No slice is shown that is newer than the service's.
THEOREM NothingAhead == Spec => [](\A s \in Scope : Shown(s) => state.slices[s] <= revision)
<1>1. Inv => \A s \in Scope : Shown(s) => state.slices[s] <= revision
  BY DEF Inv, NeverAhead
<1> QED BY InvHolds, <1>1, PTL

-----------------------------------------------------------------------------
(* Readers that stay: every step keeps their invariant.                    *)

\* Nothing is shown, sent or asked for at the start.
LEMMA StayInit == Init => StayInv
<1> SUFFICES ASSUME Init PROVE StayInv
  OBVIOUS
<1>1. /\ requested = {} /\ listeners = {} /\ calls = {} /\ requestId = 0 /\ started = FALSE
      /\ wire = <<>> /\ Len(wire) = 0 /\ peer = NoPeer /\ sub.phase = "none"
      /\ state.load = "idle" /\ \A s \in Scope : state.slices[s] = Absent
      /\ notices = FALSE
  BY DEF Init, NoSubscription
<1>2. AskedOnce
  BY <1>1 DEF AskedOnce, Shown
<1>3. SocketAlone /\ WireInOrder /\ AnswerIsNewer /\ PeerKnows /\ FallbackKnows
  BY <1>1 DEF SocketAlone, WireInOrder, AnswerIsNewer, PeerKnows, FallbackKnows, NoPeer
<1> QED BY <1>2, <1>3 DEF StayInv

\* A change makes the task of the socket, or the fallback, have something to do.
LEMMA UpdateStay ==
  ASSUME Inv, StayInv, Update
  PROVE  StayInv'
<1> USE DEF StayInv
<1>1. /\ UNCHANGED <<wire, state, requested, listeners, started, requestId, calls, sub>>
      /\ peer' = [peer EXCEPT !.due = (peer.phase # "none")]
      /\ notices' = (sub.phase = "fallback")
  BY DEF Update, storeVars
<1>2. /\ peer'.phase = peer.phase /\ peer'.last = peer.last
      /\ peer.phase # "none" => peer'.due
      /\ peer = NoPeer => peer' = NoPeer
  <2>1. CASE peer = NoPeer
    <3>1. peer' = [NoPeer EXCEPT !.due = FALSE]
      BY <1>1, <2>1 DEF NoPeer
    <3> QED BY <2>1, <3>1 DEF NoPeer
  <2>2. CASE peer # NoPeer
    BY <1>1, <2>2 DEF Inv, Shape
  <2> QED BY <2>1, <2>2
<1>3. AskedOnce'
  BY <1>1, <1>2 DEF AskedOnce, Shown
<1>4. SocketAlone' /\ FallbackKnows'
  BY <1>1 DEF SocketAlone, FallbackKnows
<1>5. WireInOrder'
  BY <1>1, <1>2 DEF WireInOrder, Shown
<1>6. AnswerIsNewer'
  BY <1>1 DEF AnswerIsNewer, Shown
<1>7. PeerKnows'
  BY <1>1, <1>2 DEF PeerKnows, ShowsAll
<1> QED BY <1>3, <1>4, <1>5, <1>6, <1>7

\* An answer is what the service has now: no older than anything that is shown.
LEMMA AnswerStay ==
  ASSUME Inv, StayInv, NEW c \in calls, Answer(c)
  PROVE  StayInv'
<1> USE DEF StayInv
<1>1. UNCHANGED <<revision, peer, wire, state, requested, listeners, started, requestId, sub, notices>>
  BY DEF Answer, storeVars, serverVars
<1>2. PICK a \in {revision, Failed} : calls' = (calls \ {c}) \cup {[c EXCEPT !.answer = a]}
  BY DEF Answer
<1> DEFINE d == [c EXCEPT !.answer = a]
<1>3. d.id = c.id /\ d.then = c.then /\ d.answer = a /\ d.scopes = c.scopes
  BY DEF Inv, Shape, Calls
<1> HIDE DEF d
<1>4. calls' = (calls \ {c}) \cup {d}
  BY <1>2 DEF d
<1>5. AskedOnce'
  <2>1. \A x \in calls' : x.scopes = requested /\ (sub.phase # "none" => x.then = "none")
    BY <1>3, <1>4 DEF AskedOnce
  <2>2. (\E x \in calls : x.then # "none") => (\E x \in calls' : x.then # "none")
    BY <1>3, <1>4
  <2> QED BY <1>1, <2>1, <2>2 DEF AskedOnce, Shown
<1>6. SocketAlone'
  BY <1>1, <1>4 DEF SocketAlone
<1>7. WireInOrder'
  BY <1>1 DEF WireInOrder, Shown
<1>8. AnswerIsNewer'
  <2>1. \A s \in Scope : Shown(s) => state.slices[s] <= revision
    BY DEF Inv, NeverAhead
  <2>2. ASSUME NEW x \in calls', x.id = requestId
        PROVE  /\ state.load = "loading"
               /\ x.answer \in Revision => \A s \in Scope : Shown(s) => state.slices[s] <= x.answer
    <3>1. CASE x \in calls
      BY <2>2, <3>1 DEF AnswerIsNewer
    <3>2. CASE x = d
      <4>1. state.load = "loading"
        BY <1>3, <2>2, <3>2 DEF AnswerIsNewer
      <4>2. x.answer \in Revision => x.answer = revision
        BY <1>3, <3>2, Revisions
      <4> QED BY <2>1, <4>1, <4>2
    <3> QED BY <1>4, <3>1, <3>2
  <2> QED BY <1>1, <2>2 DEF AnswerIsNewer, Shown
<1>9. PeerKnows'
  BY <1>1 DEF PeerKnows, ShowsAll
<1>10. FallbackKnows'
  <2>1. ASSUME NEW x \in calls, x.id = requestId, x.answer \in {Pending, Failed, revision}
        PROVE  \E y \in calls' : y.id = requestId /\ y.answer \in {Pending, Failed, revision}
    BY <1>3, <1>4, <2>1
  <2> QED BY <1>1, <2>1 DEF FallbackKnows, ShowsAll
<1> QED BY <1>5, <1>6, <1>7, <1>8, <1>9, <1>10

\* The task of the socket sends what the client does not have.
LEMMA PeerStay ==
  ASSUME ReadersStay, Inv, StayInv, PeerSubscribes \/ PeerForwards \/ PeerLags
  PROVE  StayInv'
<1> USE DEF StayInv
<1>1. /\ UNCHANGED <<revision, state, requested, listeners, started, requestId, calls, sub, notices>>
      /\ sub.phase = "open"
  BY DEF PeerSubscribes, PeerForwards, PeerLags, storeVars, PeerKnows, NoPeer
<1>2. /\ Delta("replace") \in Deltas /\ Delta("replace").revision = revision
      /\ Delta("replace").kind = "replace" /\ Delta("replace").scopes = requested
  BY <1>1 DEF Delta, Deltas, Inv, Shape, AskedOnce
<1>3. wire \in Seq(Deltas) /\ Len(wire) \in Nat
  BY DEF Inv, Shape
<1>4. /\ peer'.phase = "subscribed" /\ peer'.last = revision
  BY DEF PeerSubscribes, PeerForwards, PeerLags, ReadersStay, Inv, Shape
<1>5. /\ \/ wire' = wire /\ (wire = <<>> /\ state.load = "ready" => ShowsAll(revision))
         \/ wire' = Append(wire, Delta("replace"))
      /\ state.load \in {"ready", "error"}
      /\ wire # <<>> => wire' = Append(wire, Delta("replace")) \/ wire[Len(wire)].revision = revision
  <2>1. wire \o <<>> = wire /\ wire \o <<Delta("replace")>> = Append(wire, Delta("replace"))
    BY <1>2, <1>3, WireGrows
  <2>2. CASE PeerSubscribes
    BY <1>1, <2>1, <2>2 DEF PeerSubscribes, PeerKnows, WireInOrder
  <2>3. CASE PeerForwards
    BY <1>1, <2>1, <2>3 DEF PeerForwards, Replacement, PeerKnows, WireInOrder
  <2> QED BY <2>2, <2>3 DEF PeerLags, ReadersStay
<1>6. AskedOnce' /\ SocketAlone' /\ AnswerIsNewer' /\ FallbackKnows'
  BY <1>1 DEF AskedOnce, SocketAlone, AnswerIsNewer, FallbackKnows, Shown, ShowsAll
<1>7. ASSUME wire' = wire PROVE WireInOrder' /\ PeerKnows'
  <2>1. WireInOrder'
    BY <1>1, <1>4, <1>7 DEF WireInOrder, Shown
  <2>2. PeerKnows'
    BY <1>1, <1>4, <1>5, <1>7 DEF PeerKnows, ShowsAll
  <2> QED BY <2>1, <2>2
<1>8. ASSUME wire' = Append(wire, Delta("replace")) PROVE WireInOrder' /\ PeerKnows'
  <2>1. /\ Len(wire') = Len(wire) + 1 /\ wire' # <<>>
        /\ \A j \in 1 .. Len(wire) : wire'[j] = wire[j]
        /\ wire'[Len(wire) + 1] = Delta("replace")
    BY <1>2, <1>3, <1>8, WireGrows
  <2>2. \A i \in 1 .. Len(wire') : i \in 1 .. Len(wire) \/ i = Len(wire')
    BY <1>3, <2>1
  <2>3. \A i \in 1 .. Len(wire') : wire'[i].kind = "replace" /\ wire'[i].scopes = requested
    BY <1>2, <2>1, <2>2 DEF WireInOrder
  <2>4. \A i \in 1 .. Len(wire') : wire'[i].revision \in Revision /\ wire'[i].revision <= revision
    <3> SUFFICES ASSUME NEW i \in 1 .. Len(wire')
                 PROVE  wire'[i].revision \in Revision /\ wire'[i].revision <= revision
      OBVIOUS
    <3>1. revision \in Revision /\ revision <= revision
      BY Revisions DEF Inv, Shape
    <3>2. CASE i = Len(wire')
      BY <1>2, <2>1, <3>1, <3>2
    <3>3. CASE i \in 1 .. Len(wire)
      <4>1. wire[i] \in Deltas
        BY <1>3, <3>3
      <4> QED BY <2>1, <3>3, <4>1 DEF Inv, NeverAhead, Deltas
    <3> QED BY <2>2, <3>2, <3>3
  <2>5. \A i, j \in 1 .. Len(wire') : i <= j => wire'[i].revision <= wire'[j].revision
    <3> SUFFICES ASSUME NEW i \in 1 .. Len(wire'), NEW j \in 1 .. Len(wire'), i <= j
                 PROVE  wire'[i].revision <= wire'[j].revision
      OBVIOUS
    <3>1. CASE j = Len(wire')
      BY <1>2, <2>1, <2>4, <3>1
    <3>2. CASE j \in 1 .. Len(wire)
      <4>1. i \in 1 .. Len(wire)
        BY <1>3, <3>2
      <4> QED BY <2>1, <3>2, <4>1 DEF WireInOrder
    <3> QED BY <2>2, <3>1, <3>2
  <2>6. ASSUME NEW i \in 1 .. Len(wire'), NEW s \in Scope, Shown(s)
        PROVE  state.slices[s] <= wire'[i].revision
    <3>1. CASE i = Len(wire')
      BY <1>2, <2>1, <2>6, <3>1 DEF Inv, NeverAhead
    <3>2. CASE i \in 1 .. Len(wire)
      BY <2>1, <2>6, <3>2 DEF WireInOrder
    <3> QED BY <2>2, <3>1, <3>2
  <2>7. WireInOrder'
    BY <1>1, <1>4, <2>3, <2>5, <2>6 DEF WireInOrder, Shown
  <2>8. PeerKnows'
    BY <1>1, <1>2, <1>4, <1>5, <2>1 DEF PeerKnows
  <2> QED BY <2>7, <2>8
<1> QED BY <1>5, <1>6, <1>7, <1>8

\* The socket opens on what it was subscribed with.
LEMMA SocketOpensStay ==
  ASSUME Inv, StayInv, SocketOpens
  PROVE  StayInv'
<1> USE DEF StayInv
<1>1. /\ UNCHANGED <<revision, wire, state, requested, listeners, started, requestId, calls, notices>>
      /\ sub' = [sub EXCEPT !.phase = "open"] /\ sub.phase = "connecting"
      /\ peer' = [NoPeer EXCEPT !.phase = "accepted"]
  BY DEF SocketOpens, storeVars
<1>2. sub'.phase = "open" /\ sub'.scopes = sub.scopes /\ sub'.last = sub.last
  BY <1>1 DEF Inv, Shape
<1>3. peer'.phase = "accepted"
  BY <1>1 DEF NoPeer
<1>4. wire = <<>> /\ Len(wire) = 0
  BY <1>1 DEF WireInOrder
<1>5. AskedOnce'
  BY <1>1, <1>2 DEF AskedOnce
<1>6. SocketAlone' /\ FallbackKnows'
  BY <1>1, <1>2 DEF SocketAlone, FallbackKnows
<1>7. WireInOrder'
  BY <1>1, <1>2, <1>4 DEF WireInOrder
<1>8. AnswerIsNewer'
  BY <1>1 DEF AnswerIsNewer, Shown
<1>9. PeerKnows'
  BY <1>1, <1>2, <1>3 DEF PeerKnows, ShowsAll
<1> QED BY <1>5, <1>6, <1>7, <1>8, <1>9

\* A request that is sent is the newest, and not answered.
LEMMA CallNewest ==
  ASSUME Shape, Numbered, NEW scopes \in SUBSET Scope, NEW then \in {"start", "ensure", "none"},
         NEW st \in States, Call(scopes, then, st)
  PROVE  /\ AnswerIsNewer'
         /\ requestId' = requestId + 1 /\ state'.slices = st.slices /\ state'.load = "loading"
         /\ \E c \in Calls : calls' = calls \cup {c} /\ Sent(c, scopes, then)
<1>1. /\ requestId' = requestId + 1 /\ state'.slices = st.slices /\ state'.load = "loading"
      /\ \E c \in Calls : calls' = calls \cup {c} /\ Sent(c, scopes, then)
  BY CallSent
<1>2. PICK c \in Calls : calls' = calls \cup {c} /\ Sent(c, scopes, then)
  BY <1>1
<1>3. c.answer = Pending
  BY <1>2 DEF Sent
<1>4. \A d \in calls : d.id # requestId'
  <2>1. requestId \in Nat /\ \A d \in calls : d.id \in 1 .. requestId
    BY Revisions DEF Shape, Numbered
  <2> QED BY <1>1, <2>1
<1>5. AnswerIsNewer'
  BY <1>1, <1>2, <1>3, <1>4, Revisions DEF AnswerIsNewer
<1> QED BY <1>1, <1>5

\* The first listener, or the first scopes, send the first request.
LEMMA StoreStay ==
  ASSUME ReadersStay, Inv, StayInv,
         \/ \E l \in Listener : Subscribe(l) \/ Unsubscribe(l)
         \/ \E scopes \in Asked : EnsureScopes(scopes)
         \/ \E scopes \in Reread : Refresh(scopes)
  PROVE  StayInv'
<1> USE DEF StayInv
<1>0. state \in States /\ requested \in SUBSET Scope
  BY DEF Inv, Shape
<1>1. requestId = 0 => calls = {}
  BY DEF Inv, Numbered
<1>2. ASSUME sub.phase = "none", requestId = 0, sub' = sub, peer' = peer, wire' = wire,
             requested' \in Asked, requested' \in SUBSET Scope, requested' # {},
             started', listeners' # {},
             NEW then \in {"start", "ensure"}, Call(requested', then, state)
      PROVE  StayInv'
  <2>1. PICK c \in Calls : calls' = calls \cup {c} /\ Sent(c, requested', then)
    BY <1>0, <1>2, CallNewest DEF Inv
  <2>2. /\ AnswerIsNewer' /\ requestId' = 1 /\ state'.slices = state.slices
        /\ state'.load = "loading"
    <3>1. /\ AnswerIsNewer' /\ requestId' = requestId + 1 /\ state'.slices = state.slices
          /\ state'.load = "loading"
      BY <1>0, <1>2, CallNewest DEF Inv
    <3> QED BY <3>1, <1>2
  <2>3. calls' = {c} /\ c.scopes = requested' /\ c.then # "none"
    BY <1>1, <1>2, <2>1 DEF Sent
  <2>4. AskedOnce'
    BY <1>2, <2>2, <2>3 DEF AskedOnce, Shown
  <2>5. wire' = <<>> /\ Len(wire') = 0 /\ peer' = NoPeer
    BY <1>2 DEF AskedOnce
  <2>6. SocketAlone' /\ WireInOrder' /\ PeerKnows' /\ FallbackKnows'
    BY <1>2, <2>5 DEF SocketAlone, WireInOrder, PeerKnows, FallbackKnows, NoPeer
  <2> QED BY <2>2, <2>4, <2>6
<1>3. ASSUME NEW l \in Listener, Subscribe(l) PROVE StayInv'
  <2>1. /\ UNCHANGED <<revision, peer, wire, requested, sub, notices>>
        /\ listeners' = listeners \cup {l} /\ started' = TRUE
    BY <1>3 DEF Subscribe, serverVars
  <2>2. CASE listeners = {} /\ requested # {}
    <3>1. sub.phase = "none" /\ ~started
      BY <2>2 DEF Inv, StopsForGood, AskedOnce
    <3>2. requestId = 0 /\ requested \in Asked
      BY <2>2, <3>1 DEF AskedOnce
    <3>3. Call(requested, "start", state)
      BY <1>3, <2>2 DEF Subscribe
    <3> QED BY <1>0, <1>2, <2>1, <2>2, <3>1, <3>2, <3>3
  <2>3. CASE ~(listeners = {} /\ requested # {})
    <3>1. UNCHANGED <<requestId, calls, state>>
      BY <1>3, <2>3 DEF Subscribe, NoCall
    <3>2. AskedOnce'
      <4>1. sub.phase = "none" /\ requestId = 0 => requested = {} \/ started
        BY <2>3 DEF Inv, Started
      <4> QED BY <2>1, <3>1, <4>1 DEF AskedOnce, Shown
    <3>3. SocketAlone' /\ WireInOrder' /\ AnswerIsNewer' /\ PeerKnows' /\ FallbackKnows'
      BY <2>1, <3>1 DEF SocketAlone, WireInOrder, AnswerIsNewer, PeerKnows, FallbackKnows, Shown,
                        ShowsAll
    <3> QED BY <3>2, <3>3
  <2> QED BY <2>2, <2>3
<1>4. ASSUME NEW scopes \in Asked, EnsureScopes(scopes) PROVE StayInv'
  <2>1. /\ UNCHANGED <<revision, peer, wire, listeners, started, sub, notices>>
        /\ requested' = requested \cup scopes /\ scopes \in SUBSET Scope
        /\ ~(scopes \subseteq requested)
    BY <1>4, ScopeAssumption DEF EnsureScopes, serverVars
  <2>2. requested = {}
    <3>1. requested \in Asked => requested = scopes
      BY DEF ReadersStay
    <3> QED BY <2>1, <3>1 DEF AskedOnce
  <2>3. requested' = scopes /\ scopes # {}
    BY <2>1, <2>2
  <2>4. sub.phase = "none" /\ requestId = 0 /\ calls = {} /\ state.load = "idle"
    BY <1>1, <2>2 DEF AskedOnce
  <2>5. CASE started
    <3>1. Call(scopes, "ensure", state) /\ listeners # {}
      BY <1>4, <2>5 DEF EnsureScopes, AskedOnce
    <3> QED BY <1>2, <2>1, <2>3, <2>4, <2>5, <3>1
  <2>6. CASE ~started
    <3>1. UNCHANGED <<requestId, calls, state>>
      BY <1>4, <2>6 DEF EnsureScopes, NoCall
    <3>2. AskedOnce'
      BY <2>1, <2>3, <2>4, <2>6, <3>1 DEF AskedOnce, Shown
    <3>3. wire' = <<>> /\ Len(wire') = 0 /\ peer' = NoPeer /\ sub'.phase = "none" /\ calls' = {}
      BY <2>1, <2>4, <3>1 DEF AskedOnce
    <3>4. SocketAlone' /\ WireInOrder' /\ AnswerIsNewer' /\ PeerKnows' /\ FallbackKnows'
      BY <3>3 DEF SocketAlone, WireInOrder, AnswerIsNewer, PeerKnows, FallbackKnows, NoPeer
    <3> QED BY <3>2, <3>4
  <2> QED BY <2>5, <2>6
<1>5. ASSUME NEW l \in Listener, Unsubscribe(l) PROVE FALSE
  BY <1>5 DEF Unsubscribe, ReadersStay
<1> QED BY <1>3, <1>4, <1>5 DEF ReadersStay

\* The fallback takes over, or hears of a change: it reads everything again.
LEMMA FallbackStay ==
  ASSUME Inv, StayInv, SocketFails \/ Notice
  PROVE  StayInv'
<1> USE DEF StayInv
<1> DEFINE st == [state EXCEPT !.revision = 0]
<1>1. /\ UNCHANGED <<revision, requested, listeners, started>>
      /\ Call(requested, "none", st) /\ requested \in SUBSET Scope
      /\ st \in States /\ st.slices = state.slices
  BY Revisions DEF SocketFails, Notice, Resync, serverVars, storeVars, Inv, Shape, States
<1> HIDE DEF st
<1>2. PICK c \in Calls : calls' = calls \cup {c} /\ Sent(c, requested, "none")
  BY <1>1, CallNewest DEF Inv
<1>3. /\ AnswerIsNewer' /\ requestId' = requestId + 1 /\ state'.slices = state.slices
  BY <1>1, CallNewest DEF Inv
<1>4. /\ c.id = requestId' /\ c.scopes = requested /\ c.then = "none" /\ c.answer = Pending
      /\ c \in calls'
  BY <1>2, <1>3 DEF Sent
<1>5. /\ wire' = <<>> /\ Len(wire') = 0 /\ peer' = NoPeer /\ sub'.phase = "fallback"
      /\ sub'.scopes = sub.scopes /\ sub.phase # "none"
  <2>1. CASE SocketFails
    BY <2>1 DEF SocketFails, Inv, Shape
  <2>2. CASE Notice
    BY <2>2 DEF Notice, serverVars, WireInOrder, PeerKnows
  <2> QED BY <2>1, <2>2
<1>6. AskedOnce'
  BY <1>1, <1>2, <1>4, <1>5 DEF AskedOnce
<1>7. FallbackKnows'
  BY <1>4 DEF FallbackKnows
<1>8. SocketAlone' /\ WireInOrder' /\ PeerKnows'
  BY <1>5 DEF SocketAlone, WireInOrder, PeerKnows, NoPeer
<1> QED BY <1>3, <1>6, <1>7, <1>8

\* The first answer is what the subscription begins with; a later one shows what the service
\* had when it was asked last, or an error.
LEMMA ReceiveStay ==
  ASSUME Inv, StayInv, NEW c \in calls, Receive(c)
  PROVE  StayInv'
<1> USE DEF StayInv
<1>1. /\ UNCHANGED <<revision, requested, listeners, started, requestId>>
      /\ calls' = calls \ {c} /\ state' = Bootstrapped(c) /\ c.answer # Pending
      /\ c.scopes = requested
  BY DEF Receive, storeVars, AskedOnce
<1>2. /\ c.id \in 1 .. requestId /\ c \in Calls
      /\ \A d \in calls : d.id = c.id => d = c
  BY DEF Inv, Numbered, Shape
<1>3. AnswerIsNewer'
  <2>1. CASE c.id = requestId
    <3>1. \A d \in calls' : d.id # requestId
      BY <1>1, <1>2, <2>1
    <3> QED BY <1>1, <3>1 DEF AnswerIsNewer
  <2>2. CASE c.id # requestId
    <3>1. state' = state
      BY <1>1, <2>2 DEF Bootstrapped
    <3> QED BY <1>1, <3>1 DEF AnswerIsNewer, Shown
  <2> QED BY <2>1, <2>2
<1>4. c.id = requestId =>
        \/ state'.load = "error"
        \/ /\ c.answer \in Revision /\ state'.revision = c.answer /\ state'.load = "ready"
           /\ \A s \in requested : state'.slices[s] = c.answer
  <2> SUFFICES ASSUME c.id = requestId
               PROVE  \/ state'.load = "error"
                      \/ /\ c.answer \in Revision /\ state'.revision = c.answer
                         /\ state'.load = "ready"
                         /\ \A s \in requested : state'.slices[s] = c.answer
    OBVIOUS
  <2>1. CASE c.answer = Failed
    <3>1. state' = [state EXCEPT !.load = "error"]
      BY <1>1, <2>1 DEF Bootstrapped
    <3> QED BY <3>1 DEF Inv, Shape, States
  <2>2. CASE c.answer # Failed
    <3>1. state' = [revision |-> c.answer, load |-> "ready",
                    slices |-> [s \in Scope |-> IF s \in c.scopes THEN c.answer
                                               ELSE state.slices[s]]]
      BY <1>1, <2>2 DEF Bootstrapped
    <3>2. c.answer \in Revision
      BY <1>1, <1>2, <2>2 DEF Calls
    <3>3. \A s \in requested : s \in Scope
      BY DEF Inv, Shape
    <3> QED BY <1>1, <3>1, <3>2, <3>3
  <2> QED BY <2>1, <2>2
<1>5. CASE sub.phase = "none"
  <2>1. requestId = 1 /\ started /\ requested # {} /\ listeners # {}
    BY <1>2, <1>5 DEF AskedOnce
  <2>2. PICK d \in calls : d.then # "none"
    BY <1>5, <2>1 DEF AskedOnce
  <2>3. c.id = requestId /\ \A x \in calls : x = c
    <3>1. \A x \in calls : x.id \in 1 .. requestId
      BY DEF Inv, Numbered
    <3>2. \A x \in calls : x.id = 1
      BY <2>1, <3>1
    <3> QED BY <1>2, <2>1, <3>2
  <2>4. c.then # "none" /\ calls' = {}
    BY <1>1, <2>2, <2>3
  <2>5. /\ sub' = [phase |-> "connecting", scopes |-> requested, last |-> state'.revision]
        /\ peer' = NoPeer /\ wire' = <<>> /\ notices' = FALSE
    BY <2>1, <2>4 DEF Receive
  <2>6. /\ sub'.phase = "connecting" /\ sub'.scopes = requested /\ sub'.last = state'.revision
        /\ Len(wire') = 0
    BY <2>5
  <2>7. AskedOnce'
    BY <1>1, <2>1, <2>4, <2>6 DEF AskedOnce
  <2>8. SocketAlone' /\ FallbackKnows'
    BY <2>4, <2>5, <2>6 DEF SocketAlone, FallbackKnows
  <2>9. WireInOrder'
    BY <2>5, <2>6 DEF WireInOrder
  <2>10. PeerKnows'
    BY <1>1, <1>4, <2>3, <2>5, <2>6 DEF PeerKnows, ShowsAll
  <2> QED BY <1>3, <2>7, <2>8, <2>9, <2>10
<1>6. CASE sub.phase = "fallback"
  <2>1. c.then = "none"
    BY <1>6 DEF AskedOnce
  <2>2. UNCHANGED <<sub, peer, wire, notices>>
    BY <2>1 DEF Receive
  <2>3. wire = <<>> /\ Len(wire) = 0
    BY <1>6 DEF WireInOrder
  <2>4. AskedOnce'
    BY <1>1, <1>6, <2>2 DEF AskedOnce
  <2>5. SocketAlone' /\ WireInOrder' /\ PeerKnows'
    BY <1>6, <2>2, <2>3 DEF SocketAlone, WireInOrder, PeerKnows
  <2>6. FallbackKnows'
    <3>1. CASE c.id = requestId
      <4>1. CASE state'.load = "error" \/ notices
        BY <2>2, <4>1 DEF FallbackKnows
      <4>2. CASE state'.load # "error" /\ ~notices
        <5>1. c.answer \in Revision /\ \A s \in requested : state'.slices[s] = c.answer
          BY <1>4, <3>1, <4>2
        <5>2. state.load = "loading"
          BY <3>1 DEF AnswerIsNewer
        <5>3. CASE \E d \in calls : d.id = requestId /\ d.answer \in {Pending, Failed, revision}
          <6>1. c.answer \in {Pending, Failed, revision}
            BY <1>2, <3>1, <5>3
          <6>2. c.answer = revision
            BY <5>1, <6>1, Revisions
          <6> QED BY <1>1, <5>1, <6>2 DEF FallbackKnows, ShowsAll
        <5>4. CASE ShowsAll(revision)
          <6>1. \A s \in requested : state.slices[s] <= c.answer
            <7>1. \A s \in requested : s \in Scope /\ state.slices[s] = revision
              BY <5>4 DEF ShowsAll, Inv, Shape
            <7>2. revision # Absent
              BY Revisions DEF Inv, Shape
            <7> QED BY <3>1, <5>1, <7>1, <7>2 DEF AnswerIsNewer, Shown
          <6>2. c.answer <= revision /\ c.answer \in Nat /\ revision \in Nat
            BY <5>1, Revisions DEF Inv, Shape, NeverAhead
          <6>3. requested # {}
            BY <1>6 DEF AskedOnce
          <6>4. c.answer = revision
            BY <5>4, <6>1, <6>2, <6>3 DEF ShowsAll
          <6> QED BY <1>1, <5>1, <6>4 DEF FallbackKnows, ShowsAll
        <5> QED BY <1>6, <4>2, <5>2, <5>3, <5>4 DEF FallbackKnows
      <4> QED BY <4>1, <4>2
    <3>2. CASE c.id # requestId
      <4>1. state' = state
        BY <1>1, <3>2 DEF Bootstrapped
      <4> QED BY <1>1, <2>2, <3>2, <4>1 DEF FallbackKnows, ShowsAll
    <3> QED BY <3>1, <3>2
  <2> QED BY <1>3, <2>4, <2>5, <2>6
<1>7. sub.phase \in {"none", "fallback"}
  BY DEF SocketAlone, Inv, Shape
<1> QED BY <1>5, <1>6, <1>7

\* A delta shows what the service had later than anything shown, and earlier than what
\* follows it on the wire.
LEMMA ApplyStay ==
  ASSUME Inv, StayInv, Apply
  PROVE  StayInv'
<1> USE DEF StayInv
<1> DEFINE d == Head(wire)
           slices == [s \in Scope |-> IF s \in requested THEN d.revision ELSE state.slices[s]]
<1>1. /\ UNCHANGED <<revision, peer, requested, listeners, started, sub, notices>>
      /\ wire # <<>> /\ wire' = Tail(wire) /\ sub.phase = "open" /\ wire \in Seq(Deltas)
  BY DEF Apply, storeVars, Inv, Shape
<1>2. /\ d = wire[1] /\ d \in Deltas /\ Len(wire) \in Nat \ {0} /\ Len(wire') = Len(wire) - 1
      /\ \A i \in 1 .. Len(wire') : i + 1 \in 1 .. Len(wire) /\ wire'[i] = wire[i + 1]
  BY <1>1, WireShrinks
<1>3. 1 \in 1 .. Len(wire) /\ d.kind = "replace" /\ d.scopes = requested /\ d.revision \in Revision
  BY <1>2 DEF WireInOrder, Deltas
<1>4. /\ state' = [revision |-> d.revision, load |-> "ready", slices |-> slices]
      /\ UNCHANGED <<requestId, calls>>
  BY <1>3 DEF Apply
<1>5. calls = {} /\ requested \subseteq Scope /\ peer.phase = "subscribed"
  BY <1>1 DEF SocketAlone, WireInOrder, Inv, Shape
<1>6. /\ \A s \in requested : slices[s] = d.revision
      /\ \A s \in Scope : slices[s] # Absent =>
           \A i \in 1 .. Len(wire') : slices[s] <= wire[i + 1].revision
  <2>1. \A i \in 1 .. Len(wire') : d.revision <= wire[i + 1].revision
    <3> SUFFICES ASSUME NEW i \in 1 .. Len(wire') PROVE d.revision <= wire[i + 1].revision
      OBVIOUS
    <3>1. i + 1 \in 1 .. Len(wire) /\ 1 <= i + 1
      BY <1>2
    <3> QED BY <1>2, <1>3, <3>1 DEF WireInOrder
  <2>2. \A s \in Scope, i \in 1 .. Len(wire') :
          state.slices[s] # Absent => state.slices[s] <= wire[i + 1].revision
    BY <1>2 DEF WireInOrder, Shown
  <2> QED BY <1>5, <2>1, <2>2
<1> HIDE DEF slices, d
<1>7. state'.load = "ready" /\ state'.slices = slices
  BY <1>4
<1>8. AskedOnce' /\ SocketAlone' /\ AnswerIsNewer' /\ FallbackKnows'
  BY <1>1, <1>4, <1>5 DEF AskedOnce, SocketAlone, AnswerIsNewer, FallbackKnows
<1>9. WireInOrder'
  <2>1. \A i \in 1 .. Len(wire') : wire'[i].kind = "replace" /\ wire'[i].scopes = requested
    BY <1>2 DEF WireInOrder
  <2>2. \A i, j \in 1 .. Len(wire') : i <= j => wire'[i].revision <= wire'[j].revision
    <3> SUFFICES ASSUME NEW i \in 1 .. Len(wire'), NEW j \in 1 .. Len(wire'), i <= j
                 PROVE  wire'[i].revision <= wire'[j].revision
      OBVIOUS
    <3>1. i + 1 \in 1 .. Len(wire) /\ j + 1 \in 1 .. Len(wire) /\ i + 1 <= j + 1
      BY <1>2
    <3> QED BY <1>2, <3>1 DEF WireInOrder
  <2>3. \A i \in 1 .. Len(wire'), s \in Scope : Shown(s)' => state'.slices[s] <= wire'[i].revision
    BY <1>2, <1>6, <1>7 DEF Shown
  <2> QED BY <1>1, <1>5, <2>1, <2>2, <2>3 DEF WireInOrder
<1>10. PeerKnows'
  <2>1. wire' = <<>> => Len(wire) = 1
    BY <1>2
  <2>2. wire' = <<>> => d.revision = peer.last
    BY <1>1, <1>2, <1>5, <2>1 DEF PeerKnows
  <2>3. wire' # <<>> => wire'[Len(wire')] = wire[Len(wire)]
    <3>1. wire' # <<>> => Len(wire') \in 1 .. Len(wire')
      BY <1>1, <1>2
    <3> QED BY <1>2, <3>1
  <2> QED BY <1>1, <1>5, <1>6, <1>7, <2>2, <2>3 DEF PeerKnows, ShowsAll
<1> QED BY <1>8, <1>9, <1>10

\* Every step keeps it.
LEMMA StayNext == ReadersStay /\ Inv /\ StayInv /\ [Next]_vars => StayInv'
<1> SUFFICES ASSUME ReadersStay, Inv, StayInv, [Next]_vars PROVE StayInv'
  OBVIOUS
<1>1. CASE UNCHANGED vars
  BY <1>1 DEF vars, serverVars, storeVars, StayInv, AskedOnce, SocketAlone, WireInOrder, Shown,
              AnswerIsNewer, PeerKnows, FallbackKnows, ShowsAll
<1> QED BY <1>1, UpdateStay, AnswerStay, PeerStay, StoreStay, ReceiveStay, SocketOpensStay,
           ApplyStay, FallbackStay DEF Next

\* For readers that stay, the invariant holds of every behaviour.
THEOREM StayInvHolds == ASSUME ReadersStay PROVE Spec => []StayInv
  BY StayInit, StayNext, InvHolds, PTL DEF Spec

\* "Subscription lag or disconnect causes a safe resync, not stale silent drift": for readers
\* that stay, a store that settled and reports no error shows what the service has, however
\* often it changed, and whenever the socket was lost.
THEOREM DriftIsSeen == ASSUME ReadersStay PROVE Spec => []NoSilentDrift
<1>1. Inv /\ StayInv => NoSilentDrift
  <2> SUFFICES ASSUME Inv, StayInv, Settled, state.load = "ready" PROVE ShowsAll(revision)
    BY DEF NoSilentDrift, ShowsAll
  <2>1. CASE sub.phase = "open" /\ peer.phase = "subscribed" /\ ~peer.due
    BY <2>1 DEF StayInv, PeerKnows, Settled
  <2>2. CASE sub.phase = "fallback"
    BY <2>2 DEF StayInv, FallbackKnows, Settled
  <2> QED BY <2>1, <2>2 DEF Settled
<1> QED BY InvHolds, StayInvHolds, <1>1, PTL

-----------------------------------------------------------------------------
(* The mirror.                                                             *)

MirrorStep == [Mirror!Next]_<<revision, state.slices>>

\* An answer that is taken over is a step of the mirror, and any other a stutter.
LEMMA ReceiveMirrors ==
  ASSUME Inv, StayInv, NEW c \in calls, Receive(c)
  PROVE  MirrorStep
<1>1. state' = Bootstrapped(c) /\ revision' = revision /\ c.answer # Pending /\ c \in Calls
  BY DEF Receive, Inv, Shape
<1>2. CASE c.id # requestId
  BY <1>1, <1>2 DEF Bootstrapped, MirrorStep
<1>3. CASE c.id = requestId /\ c.answer = Failed
  BY <1>1, <1>3 DEF Bootstrapped, MirrorStep
<1>4. CASE c.id = requestId /\ c.answer # Failed
  <2> DEFINE parts == c.scopes
             r == c.answer
  <2>1. r \in Revision /\ r <= revision /\ r \in 0 .. revision /\ parts \in SUBSET Scope
    <3>1. r \in Revision /\ parts \in SUBSET Scope
      BY <1>1, <1>4 DEF Calls
    <3>2. r <= revision
      BY <3>1 DEF Inv, NeverAhead
    <3>3. r \in Nat /\ revision \in Nat
      BY <3>1, Revisions DEF Inv, Shape
    <3> QED BY <3>1, <3>2, <3>3
  <2>2. \A s \in parts : state.slices[s] # Absent => state.slices[s] <= r
    BY <1>4, <2>1 DEF StayInv, AnswerIsNewer, Shown
  <2>3. state'.slices = [s \in Scope |-> IF s \in parts THEN r ELSE state.slices[s]]
    BY <1>1, <1>4 DEF Bootstrapped
  <2> HIDE DEF parts, r
  <2>4. Mirror!CopyFollows(parts, r)
    BY <1>1, <2>2, <2>3 DEF Mirror!CopyFollows
  <2> QED BY <2>1, <2>4 DEF Mirror!Next, MirrorStep
<1> QED BY <1>2, <1>3, <1>4

\* So is a delta.
LEMMA ApplyMirrors ==
  ASSUME Inv, StayInv, Apply
  PROVE  MirrorStep
<1> DEFINE d == Head(wire)
<1>1. wire # <<>> /\ wire \in Seq(Deltas) /\ revision' = revision /\ revision \in Nat
  BY Revisions DEF Apply, Inv, Shape
<1>2. d = wire[1] /\ d \in Deltas /\ 1 \in 1 .. Len(wire)
  BY <1>1, WireShrinks
<1>3. /\ d.kind = "replace" /\ d.scopes \in SUBSET Scope
      /\ d.revision \in Nat /\ d.revision <= revision /\ d.revision \in 0 .. revision
      /\ \A s \in Scope : state.slices[s] # Absent => state.slices[s] <= d.revision
  <2>1. d.kind = "replace" /\ d.scopes \in SUBSET Scope /\ d.revision \in Nat
    BY <1>2, Revisions DEF StayInv, WireInOrder, Deltas
  <2>2. d.revision <= revision
    BY <1>2 DEF Inv, NeverAhead
  <2>3. \A s \in Scope : state.slices[s] # Absent => state.slices[s] <= d.revision
    BY <1>2 DEF StayInv, WireInOrder, Shown
  <2> QED BY <1>1, <2>1, <2>2, <2>3
<1>4. state'.slices = [s \in Scope |-> IF s \in d.scopes THEN d.revision ELSE state.slices[s]]
  BY <1>3 DEF Apply
<1> HIDE DEF d
<1>5. Mirror!CopyFollows(d.scopes, d.revision)
  BY <1>1, <1>3, <1>4 DEF Mirror!CopyFollows
<1> QED BY <1>3, <1>5 DEF Mirror!Next, MirrorStep

\* A request, a resync or a fallback leaves what is shown as it is.
LEMMA OthersStutter ==
  ASSUME Inv,
         \/ PeerSubscribes \/ PeerForwards \/ PeerLags \/ SocketOpens \/ SocketFails \/ Notice
         \/ \E c \in calls : Answer(c)
         \/ \E l \in Listener : Subscribe(l) \/ Unsubscribe(l)
         \/ \E scopes \in Asked : EnsureScopes(scopes)
         \/ \E scopes \in Reread : Refresh(scopes)
  PROVE  UNCHANGED <<revision, state.slices>>
<1> USE DEF Inv
<1>1. state \in States /\ requested \in SUBSET Scope /\ 0 \in Revision
  BY Revisions DEF Shape
<1>2. ASSUME NEW scopes \in SUBSET Scope, NEW then \in {"start", "ensure", "none"},
             Call(scopes, then, state)
      PROVE  state'.slices = state.slices
  BY <1>1, <1>2, CallKeeps
<1>3. CASE PeerSubscribes \/ PeerForwards \/ PeerLags \/ SocketOpens \/ \E c \in calls : Answer(c)
  BY <1>3 DEF PeerSubscribes, PeerForwards, PeerLags, SocketOpens, Answer, serverVars
<1>4. CASE SocketFails \/ Notice
  <2>1. Resync(0) /\ revision' = revision
    BY <1>4 DEF SocketFails, Notice, serverVars
  <2> QED BY <1>1, <2>1, ResyncKeeps
<1>5. ASSUME NEW l \in Listener, Subscribe(l) \/ Unsubscribe(l)
      PROVE  UNCHANGED <<revision, state.slices>>
  <2>1. CASE Subscribe(l)
    BY <1>1, <1>2, <2>1 DEF Subscribe, NoCall, serverVars
  <2>2. CASE Unsubscribe(l)
    BY <2>2 DEF Unsubscribe
  <2> QED BY <1>5, <2>1, <2>2
<1>6. ASSUME NEW scopes \in Asked, EnsureScopes(scopes)
      PROVE  UNCHANGED <<revision, state.slices>>
  BY <1>1, <1>2, <1>6, ScopeAssumption DEF EnsureScopes, NoCall, serverVars
<1>7. ASSUME NEW scopes \in Reread, Refresh(scopes)
      PROVE  UNCHANGED <<revision, state.slices>>
  BY <1>1, <1>2, <1>7, ScopeAssumption DEF Refresh, serverVars
<1> QED BY <1>3, <1>4, <1>5, <1>6, <1>7

\* For readers that stay, the store implements the mirror: each answer and each delta shows
\* one revision of the service, no older than what was shown, and nothing else shows anything.
THEOREM ImplementsMirror == ASSUME ReadersStay PROVE Spec => MirrorSpec
<1>1. Init => Mirror!Init
  BY DEF Init, Mirror!Init
<1>2. Inv /\ StayInv /\ [Next]_vars => [Mirror!Next]_<<revision, state.slices>>
  <2> SUFFICES ASSUME Inv, StayInv, [Next]_vars PROVE MirrorStep
    BY DEF MirrorStep
  <2>1. CASE UNCHANGED vars
    BY <2>1 DEF vars, MirrorStep
  <2>2. CASE Update
    BY <2>2 DEF Update, Mirror!TruthMoves, Mirror!Next, MirrorStep
  <2>3. CASE \E c \in calls : Receive(c)
    BY <2>3, ReceiveMirrors
  <2>4. CASE Apply
    BY <2>4, ApplyMirrors
  <2>5. CASE ~ Update /\ ~ Apply /\ ~ (\E c \in calls : Receive(c)) /\ Next
    <3>1. UNCHANGED <<revision, state.slices>>
      BY <2>5, OthersStutter DEF Next
    <3> QED BY <3>1 DEF MirrorStep
  <2> QED BY <2>1, <2>2, <2>3, <2>4, <2>5
<1> QED BY InvHolds, StayInvHolds, <1>1, <1>2, PTL DEF Spec, MirrorSpec, Mirror!Spec

=============================================================================
