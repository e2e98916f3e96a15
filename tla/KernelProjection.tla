-------------------------- MODULE KernelProjection --------------------------
(***************************************************************************)
(* The kernel projection: the store of the workspace client                *)
(* (kernelProjectionStore.ts), its transport with a websocket and a        *)
(* fallback on runtime-updated events (runtimeKernelProjectionTransport),  *)
(* and the service's side of both calls (rpc_dispatch_kernel.rs).          *)
(* A slice is abstracted to the revision of the service it was built at.   *)
(***************************************************************************)
EXTENDS Naturals, Sequences, FiniteSets

CONSTANTS
  Scope,       \* the scopes of the projection
  Listener,    \* who subscribes to the store
  Asked,       \* the sets of scopes that ensureScopes is called with
  Reread,      \* the sets of scopes a consumer may refresh by itself
  Leaver,      \* those that may unsubscribe again
  MayLag,      \* whether the service's receiver may fall behind
  MayFail,     \* whether the projection socket may fail
  MaxRevision, \* bound: updates of the runtime
  MaxCall      \* bound: bootstrap requests

ASSUME ScopeAssumption ==
  /\ Asked \subseteq SUBSET Scope /\ Reread \subseteq SUBSET Scope
  /\ MayLag \in BOOLEAN /\ MayFail \in BOOLEAN
  /\ Leaver \subseteq Listener /\ MaxRevision \in Nat \ {0} /\ MaxCall \in Nat

VARIABLES
  revision,   \* runtime_update_revision of the service
  peer,       \* the service's task of the projection socket
  wire,       \* deltas on their way to the client
  state,      \* projectionState
  requested,  \* requestedScopes
  listeners,  \* listeners
  started,    \* hasStarted
  requestId,  \* requestId
  calls,      \* bootstrap requests under way, with what follows each
  sub,        \* the subscription made last
  notices     \* the fallback's runtime-updated events not yet delivered

vars == <<revision, peer, wire, state, requested, listeners, started, requestId,
          calls, sub, notices>>
serverVars == <<revision, peer, wire>>
storeVars == <<requested, listeners, started>>

NoPeer == [phase |-> "none", last |-> 0, due |-> FALSE]
NoSubscription == [phase |-> "none", scopes |-> {}, last |-> 0]

\* Absent is a slice that was never loaded.
Absent == MaxRevision + 1
Pending == MaxRevision + 2
Failed == MaxRevision + 3

Init ==
  /\ revision \in {0, 1} /\ peer = NoPeer /\ wire = <<>> /\ notices = FALSE
  /\ state = [revision |-> 0, slices |-> [s \in Scope |-> Absent], load |-> "idle"]
  /\ requested = {} /\ listeners = {} /\ started = FALSE
  /\ requestId = 0 /\ calls = {} /\ sub = NoSubscription

-----------------------------------------------------------------------------
(* The service.                                                            *)

\* publish_runtime_updated_event: the state changed, and every subscriber of
\* the event stream will be woken.
Update ==
  /\ revision < MaxRevision
  /\ revision' = revision + 1
  /\ peer' = [peer EXCEPT !.due = peer.phase # "none"]
  /\ notices' = (sub.phase = "fallback")
  /\ UNCHANGED <<wire, state, storeVars, requestId, calls, sub>>

\* handle_kernel_projection_bootstrap_v3, or a request that fails.
Answer(c) ==
  /\ c.answer = Pending
  /\ \E a \in {revision, Failed} : calls' = (calls \ {c}) \cup {[c EXCEPT !.answer = a]}
  /\ UNCHANGED <<serverVars, state, storeVars, requestId, sub, notices>>

Delta(kind) == [kind |-> kind, revision |-> revision, scopes |-> sub.scopes]

\* build_kernel_projection_delta_v3: nothing when the revision did not move.
Replacement == IF peer.last = revision THEN <<>> ELSE <<Delta("replace")>>

\* Mutant: what happened before the subscription is not sent with it.
PeerSubscribesEmpty ==
  /\ peer.phase = "accepted" /\ sub.phase = "open"
  /\ peer' = [peer EXCEPT !.phase = "subscribed", !.last = revision]
  /\ UNCHANGED <<revision, wire, state, storeVars, requestId, calls, sub, notices>>

\* The subscribe message arrives.
PeerSubscribes ==
  /\ peer.phase = "accepted" /\ sub.phase = "open"
  /\ peer' = [peer EXCEPT !.phase = "subscribed", !.last = revision]
  /\ wire' = wire \o (IF sub.last = revision THEN <<>> ELSE <<Delta("replace")>>)
  /\ UNCHANGED <<revision, state, storeVars, requestId, calls, sub, notices>>

\* An event frame reaches the subscriber's task, or the task hears that it lagged.
PeerForwards ==
  /\ peer.phase = "subscribed" /\ peer.due
  /\ peer' = [peer EXCEPT !.due = FALSE, !.last = revision]
  /\ wire' = wire \o Replacement
  /\ UNCHANGED <<revision, state, storeVars, requestId, calls, sub, notices>>

PeerLags ==
  /\ MayLag /\ peer.phase = "subscribed" /\ peer.due
  /\ peer' = [peer EXCEPT !.last = revision]
  /\ wire' = Append(wire, Delta("resync_required"))
  /\ Len(wire) < MaxRevision
  /\ UNCHANGED <<revision, state, storeVars, requestId, calls, sub, notices>>

-----------------------------------------------------------------------------
(* The store.                                                              *)

\* refresh(scopes) up to its await; `then` is what the caller does afterwards.
Call(scopes, then, st) ==
  /\ requestId < MaxCall
  /\ requestId' = requestId + 1
  /\ calls' = calls \cup {[id |-> requestId + 1, scopes |-> scopes, then |-> then,
                           answer |-> Pending]}
  /\ state' = [st EXCEPT !.load = "loading"]

NoCall == UNCHANGED <<requestId, calls, state>>

\* subscribe: the first listener starts the projection.
Subscribe(l) ==
  /\ l \notin listeners
  /\ listeners' = listeners \cup {l}
  /\ started' = TRUE
  /\ IF listeners = {} /\ requested # {} THEN Call(requested, "start", state) ELSE NoCall
  /\ UNCHANGED <<serverVars, requested, sub, notices>>

\* the last one to leave stops it
Unsubscribe(l) ==
  /\ l \in listeners \cap Leaver
  /\ listeners' = listeners \ {l}
  /\ IF listeners' = {} THEN /\ sub' = NoSubscription /\ notices' = FALSE
                             /\ peer' = NoPeer /\ wire' = <<>>
                        ELSE UNCHANGED <<sub, notices, peer, wire>>
  /\ UNCHANGED <<revision, requested, started, requestId, calls, state>>

EnsureScopes(scopes) ==
  /\ ~(scopes \subseteq requested)
  /\ requested' = requested \cup scopes
  /\ IF started THEN Call(scopes, "ensure", state) ELSE NoCall
  /\ UNCHANGED <<serverVars, listeners, started, sub, notices>>

\* A consumer such as MissionControlSnapshotStore reads again what it shows;
\* it calls ensureScopes first.
Refresh(scopes) ==
  /\ scopes \subseteq requested
  /\ Call(scopes, "none", state)
  /\ UNCHANGED <<serverVars, storeVars, sub, notices>>

\* What the answer of the newest request does to the state; an older one nothing.
Bootstrapped(c) ==
  IF c.id # requestId THEN state
  ELSE IF c.answer = Failed THEN [state EXCEPT !.load = "error"]
  ELSE [ revision |-> c.answer, load |-> "ready",
         slices |-> [s \in Scope |-> IF s \in c.scopes THEN c.answer ELSE state.slices[s]] ]

\* subscribeToProjection after the call, unless everybody left meanwhile.
Receive(c) ==
  /\ c.answer # Pending
  /\ calls' = calls \ {c}
  /\ state' = Bootstrapped(c)
  /\ IF c.then # "none" /\ listeners # {}
     THEN /\ sub' = [phase |-> "connecting", scopes |-> requested, last |-> state'.revision]
          /\ peer' = NoPeer /\ wire' = <<>> /\ notices' = FALSE
     ELSE UNCHANGED <<sub, peer, wire, notices>>
  /\ UNCHANGED <<revision, storeVars, requestId>>

-----------------------------------------------------------------------------
(* The subscription.                                                       *)

SocketOpens ==
  /\ sub.phase = "connecting"
  /\ sub' = [sub EXCEPT !.phase = "open"]
  /\ peer' = [NoPeer EXCEPT !.phase = "accepted"]
  /\ UNCHANGED <<revision, wire, state, storeVars, requestId, calls, notices>>

\* Mutant: a resync forgets what was shown.
ResyncForgets(rev) ==
  Call(requested, "none", [state EXCEPT !.revision = rev, !.slices = [s \in Scope |-> Absent]])

\* A delta that asks for a resync, of the service or of the fallback: its
\* revision is taken over and everything requested is read again.
Resync(rev) == Call(requested, "none", [state EXCEPT !.revision = rev])

\* applyProjectionDelta
Apply ==
  /\ sub.phase = "open" /\ wire # <<>>
  /\ LET d == Head(wire) IN
     IF d.kind = "resync_required" THEN Resync(d.revision)
     ELSE /\ state' = [ revision |-> d.revision, load |-> "ready",
                        slices |-> [s \in Scope |-> IF s \in d.scopes THEN d.revision
                                                    ELSE state.slices[s]] ]
          /\ UNCHANGED <<requestId, calls>>
  /\ wire' = Tail(wire)
  /\ UNCHANGED <<revision, peer, storeVars, sub, notices>>

\* activateFallback: no endpoint, an error or a close.  It is not left again.
SocketFails ==
  /\ MayFail /\ sub.phase \in {"connecting", "open"}
  /\ sub' = [sub EXCEPT !.phase = "fallback"]
  /\ peer' = NoPeer /\ wire' = <<>>
  /\ Resync(0)
  /\ UNCHANGED <<revision, storeVars, notices>>

\* a runtime-updated event while in fallback
Notice ==
  /\ sub.phase = "fallback" /\ notices
  /\ notices' = FALSE
  /\ Resync(0)
  /\ UNCHANGED <<serverVars, storeVars, sub>>

Next ==
  \/ Update \/ PeerSubscribes \/ PeerForwards \/ PeerLags
  \/ \E c \in calls : Answer(c) \/ Receive(c)
  \/ \E l \in Listener : Subscribe(l) \/ Unsubscribe(l)
  \/ \E scopes \in Asked : EnsureScopes(scopes)
  \/ \E scopes \in Reread : Refresh(scopes)
  \/ SocketOpens \/ Apply \/ SocketFails \/ Notice

Spec == Init /\ [][Next]_vars

-----------------------------------------------------------------------------
TypeOK ==
  /\ revision \in 0 .. MaxRevision /\ requestId \in 0 .. MaxCall
  /\ state.load \in {"idle", "loading", "ready", "error"}
  /\ state.slices \in [Scope -> 0 .. Absent]
  /\ requested \subseteq Scope /\ listeners \subseteq Listener
  /\ sub.phase \in {"none", "connecting", "open", "fallback"}
  /\ \A c \in calls : c.id \in 1 .. requestId /\ c.then \in {"start", "ensure", "none"}

(* Nothing is under way and nothing is due.                                *)
Settled ==
  /\ calls = {} /\ wire = <<>> /\ ~notices
  /\ \/ sub.phase = "open" /\ peer.phase = "subscribed" /\ ~peer.due
     \/ sub.phase = "fallback"

(* "Subscription lag or disconnect causes a safe resync, not stale silent  *)
(* drift": a settled store that reports no error shows every requested     *)
(* slice at the revision of the service.                                   *)
NoSilentDrift ==
  Settled /\ state.load = "ready" => \A s \in requested : state.slices[s] = revision

(* A store that settled is not still loading: some request or delta always *)
(* ends what a request or a resync began.                                  *)
LoadingEnds == state.load = "loading" => calls # {}

(* For readers that stay, the store is a mirror, also across the loss of   *)
(* the socket: no answer, delta, resubscription or fallback shows a slice  *)
(* ahead of the service, or an older one than it showed already.  (A       *)
(* reader that leaves and comes back while a request is under way may see  *)
(* an older slice for a moment.)                                           *)
Mirror == INSTANCE ProjectionMirror WITH
            Part <- Scope, Unseen <- Absent, truth <- revision, copy <- state.slices
MirrorSpec == Mirror!Spec

(* Nobody listens and nothing is under way: no socket and no fallback is   *)
(* left, whatever the order of answers, subscribers and scopes.            *)
StopsForGood == listeners = {} => sub.phase = "none"

(* A listener that came before anything settled is served by a             *)
(* subscription: it is there, or a request that will make it is.           *)
ListenersServed ==
  listeners # {} /\ requested # {} =>
     sub.phase # "none" \/ \E c \in calls : c.then # "none"
=============================================================================
