-------------------------- MODULE CapabilitiesProbe --------------------------
(***************************************************************************)
(* The capability probe of the client                                      *)
(* (apps/code/src/services/runtimeClientCapabilitiesProbe.ts).  Before a   *)
(* call the client must know what the runtime can do; callers share one    *)
(* probe and one cache, whose entries age.  In the browser the cache is    *)
(* kept for one endpoint and dropped when another is in use; in the        *)
(* desktop shell update events drop it.                                    *)
(*                                                                         *)
(* A runtime is known by the version of what it would say and by its kind: *)
(* "ok", "null" (it does not know the method), "bad" (it breaks the        *)
(* contract) or "down".  A probe is named by the caller that started it,   *)
(* which waits for it.  A reset of the cache does not end the probe under  *)
(* way: it disowns it, and it still writes what it learnt when it ends.    *)
(***************************************************************************)
EXTENDS Naturals, FiniteSets

CONSTANTS
    Endpoint, NoEndpoint,
    Caller, NoCaller,
    MaxVersion,
    Keyed,   \* the cache is kept for an endpoint (browser)
    Events   \* update events drop the cache (desktop)

NonesAreNone == NoEndpoint \notin Endpoint /\ NoCaller \notin Caller
VersionsAreCounted == MaxVersion \in Nat \ {0}

\* The desktop shell has one runtime.
EventsAreOfOne == Events => \A e, f \in Endpoint : e = f

VARIABLES
    endpoint,  \* resolveWebRuntimeEndpoint
    caps,      \* what each runtime would say
    news,      \* version of the last update event on its way, 0 for none
    dropped,   \* version of the last update event the client has heard
    key,       \* webRuntimeCapabilitiesProbeCacheKey
    snapshot,  \* cache.snapshot
    guard,     \* cache.contractGuardError
    aged,      \* "snapshot", "guard": their time is up
    inFlight,  \* cache.inFlight
    probe,     \* the probe of each caller
    caller,    \* the callers; on: the probe it waited for, if any
    spoiled    \* history: a disowned probe has ended since the cache was reset

cache == <<key, snapshot, guard, aged, inFlight>>
vars == <<endpoint, caps, news, dropped, cache, probe, caller, spoiled>>

Kind == {"ok", "null", "bad", "down"}
Nothing == [of |-> NoEndpoint, v |-> 0, kind |-> "none"]
NoProbe == [at |-> "none", of |-> NoEndpoint, got |-> Nothing]
Idle == [at |-> "idle", of |-> NoEndpoint, on |-> NoCaller, since |-> 0, got |-> Nothing]

Init ==
    /\ endpoint \in Endpoint
    /\ caps \in [Endpoint -> [v : {1}, kind : Kind]]
    /\ news = 0 /\ dropped = 0
    /\ key = NoEndpoint /\ snapshot = Nothing /\ guard = Nothing /\ aged = {}
    /\ inFlight = NoCaller
    /\ probe = [c \in Caller |-> NoProbe]
    /\ caller = [c \in Caller |-> Idle]
    /\ spoiled = FALSE

-----------------------------------------------------------------------------
\* What of the cache an asking caller finds: nothing of another endpoint.
Keeps == ~Keyed \/ key = endpoint

ValidGuard == IF Keeps /\ "guard" \notin aged THEN guard ELSE Nothing
ValidSnapshot == IF Keeps /\ "snapshot" \notin aged THEN snapshot ELSE Nothing

SharedProbe == IF Keeps THEN inFlight ELSE NoCaller

\* resolveRuntimeRpcCapabilitiesWithCache up to its await.
Ask(c) ==
    LET asked(at, on, got) ==
            [at |-> at, of |-> endpoint, on |-> on, since |-> dropped, got |-> got]
        answer(got) == caller' = [caller EXCEPT ![c] = asked("done", NoCaller, got)]
        wait(d) == caller' = [caller EXCEPT ![c] = asked("waiting", d, Nothing)]
    IN
    /\ caller[c].at = "idle"
    /\ key' = IF Keyed THEN endpoint ELSE key
    /\ spoiled' = (spoiled /\ Keeps)
    /\ guard' = ValidGuard
    /\ snapshot' = IF ValidGuard # Nothing /\ Keeps THEN snapshot ELSE ValidSnapshot
    /\ aged' = {a \in aged : a = "snapshot" /\ snapshot' # Nothing}
    /\ IF ValidGuard # Nothing
       THEN answer(ValidGuard) /\ inFlight' = SharedProbe /\ UNCHANGED probe
       ELSE IF ValidSnapshot # Nothing
       THEN answer(ValidSnapshot) /\ inFlight' = SharedProbe /\ UNCHANGED probe
       ELSE IF SharedProbe # NoCaller
       THEN wait(SharedProbe) /\ inFlight' = SharedProbe /\ UNCHANGED probe
       ELSE /\ wait(c) /\ inFlight' = c
            /\ probe' = [probe EXCEPT ![c] = [at |-> "asked", of |-> endpoint, got |-> Nothing]]
    /\ UNCHANGED <<endpoint, caps, news, dropped>>

\* What a probe leaves as cache.snapshot: an answer, but neither a contract error nor a
\* call that failed.
Kept(got) == IF got.kind \in {"ok", "null"} THEN got ELSE snapshot

\* A probe ends, for all who wait for it, and the caller who started it clears inFlight.
End(c) ==
    /\ probe[c].at = "read"
    /\ LET got == probe[c].got IN
       /\ snapshot' = Kept(got)
       /\ guard' = IF got.kind = "bad" THEN got ELSE guard
       /\ aged' = aged \ ((IF got.kind \in {"ok", "null"} THEN {"snapshot"} ELSE {})
                          \cup (IF got.kind = "bad" THEN {"guard"} ELSE {}))
       /\ caller' = [d \in Caller |->
                       IF caller[d].at = "waiting" /\ caller[d].on = c
                       THEN [at |-> "done", of |-> caller[d].of, on |-> c,
                             since |-> caller[d].since, got |-> got]
                       ELSE caller[d]]
    /\ inFlight' = NoCaller
    /\ probe' = [probe EXCEPT ![c] = NoProbe]
    /\ spoiled' = (spoiled \/ inFlight # c)
    /\ UNCHANGED <<endpoint, caps, news, dropped, key>>

\* isRuntimeCacheEntryValid: the time of an entry is up.
Age ==
    /\ aged' \in {aged \cup {"snapshot"}, aged \cup {"guard"}}
    /\ aged' # aged
    /\ "snapshot" \in aged' \ aged => snapshot # Nothing
    /\ "guard" \in aged' \ aged => guard # Nothing
    /\ UNCHANGED <<endpoint, caps, news, dropped, key, snapshot, guard, inFlight, probe, caller,
                   spoiled>>

\* Mutant: the probe under way goes on being shared.
DropAnswersOnly ==
    /\ snapshot' = Nothing /\ guard' = Nothing /\ aged' = {} /\ UNCHANGED inFlight
    /\ spoiled' = FALSE

\* resetRuntimeRpcCapabilitiesProbeCache.
Drop ==
    /\ snapshot' = Nothing /\ guard' = Nothing /\ aged' = {} /\ inFlight' = NoCaller
    /\ spoiled' = FALSE

\* An update event: invalidateRuntimeCapabilitiesProbeCaches.
Invalidate ==
    /\ Events /\ news # 0
    /\ Drop
    /\ key' = NoEndpoint
    /\ dropped' = news /\ news' = 0
    /\ UNCHANGED <<endpoint, caps, probe, caller>>

-----------------------------------------------------------------------------
\* The runtimes and whoever uses the client.
Serve(c) ==
    /\ probe[c].at = "asked"
    /\ LET e == probe[c].of IN
       probe' = [probe EXCEPT ![c] = [at |-> "read", of |-> e,
                                      got |-> [of |-> e, v |-> caps[e].v, kind |-> caps[e].kind]]]
    /\ UNCHANGED <<endpoint, caps, news, dropped, cache, caller, spoiled>>

Change(e) ==
    /\ caps[e].v < MaxVersion
    /\ \E kind \in Kind : caps' = [caps EXCEPT ![e] = [v |-> caps[e].v + 1, kind |-> kind]]
    /\ news' = IF Events THEN caps[e].v + 1 ELSE 0
    /\ UNCHANGED <<endpoint, dropped, cache, probe, caller, spoiled>>

Switch(e) ==
    /\ Keyed /\ e # endpoint
    /\ endpoint' = e
    /\ UNCHANGED <<caps, news, dropped, cache, probe, caller, spoiled>>

Return(c) ==
    /\ caller[c].at = "done"
    /\ caller' = [caller EXCEPT ![c] = Idle]
    /\ UNCHANGED <<endpoint, caps, news, dropped, cache, probe, spoiled>>

Next ==
    \/ \E c \in Caller : Ask(c) \/ End(c) \/ Serve(c) \/ Return(c)
    \/ \E e \in Endpoint : Change(e) \/ Switch(e)
    \/ Age \/ Invalidate

Spec == Init /\ [][Next]_vars

\* Probes are answered, time passes, and the client goes on asking.
Fairness ==
    /\ \A c \in Caller : WF_vars(Ask(c)) /\ WF_vars(End(c)) /\ WF_vars(Serve(c)) /\ WF_vars(Return(c))
    /\ WF_vars(Age)

FairSpec == Spec /\ Fairness

-----------------------------------------------------------------------------
Said == [of : Endpoint \cup {NoEndpoint}, v : 0..MaxVersion, kind : Kind \cup {"none"}]

TypeOK ==
    /\ snapshot \in Said /\ snapshot.kind \in {"none", "ok", "null"}
    /\ guard \in Said /\ guard.kind \in {"none", "bad"}
    /\ aged \subseteq {"snapshot", "guard"}
    /\ inFlight \in Caller \cup {NoCaller}
    /\ \A c \in Caller : probe[c].got \in Said /\ caller[c].got \in Said

Answered(c) == caller[c].at = "done"

\* What a probe tells those who waited for it is of the runtime they are going to call and no
\* older than the last update event before they asked, though endpoints change and events
\* come while probes are under way and disowned probes end in between.
ProbedIsRight ==
    \A c \in Caller : Answered(c) /\ caller[c].on # NoCaller =>
        caller[c].got.of = caller[c].of /\ caller[c].got.v >= caller[c].since

\* What is cached is of the runtime the cache is kept for and no older than the last update
\* event, unless a disowned probe has ended since the cache was reset.
CachedIsRight ==
    ~spoiled => \A said \in {snapshot, guard} \ {Nothing} :
        said.of = (IF Keyed THEN key ELSE endpoint) /\ said.v >= dropped

\* The probe that is shared is one under way: nobody joins what has ended.
SharedIsUnderWay == inFlight # NoCaller => probe[inFlight] # NoProbe

\* Nobody is told twice running of a state of the runtime that has long changed: a client
\* that stays with a runtime learns what it can do now, after errors and outages too.
Noticed ==
    \A e \in Endpoint :
        <>[](endpoint = e) =>
            []<>\E c \in Caller : Answered(c) /\ caller[c].got.v = caps[e].v /\ caller[c].got.of = e
=============================================================================
