------------------------------ MODULE RunTruth ------------------------------
(***************************************************************************)
(* The run truth store of the client                                       *)
(* (apps/code/src/application/runtime/facades/runtimeRunTruthStore.ts).    *)
(* Views show the records of runs; a run that some view shows holds one    *)
(* reference to the update subscription of its workspace, and the updates  *)
(* of the workspace have its record read again.  One read of a run is      *)
(* under way at a time: what is asked for meanwhile is remembered and      *)
(* scheduled when the read ends.                                           *)
(*                                                                         *)
(* A record is its version in the runtime, 0 the answer for a run it does  *)
(* not know.  "get" and "subscribe" reads return the same record and are   *)
(* not told apart.                                                         *)
(***************************************************************************)
EXTENDS Integers, FiniteSets

CONSTANTS
    Run, Workspace, NoWs,
    View,           \* components that show runs
    MaxVersion,
    MayFail,        \* reads can fail
    Hints,          \* "home": views know the workspace; "any": they know none, or another
    Rejoins         \* a view opens a run whose record was read when nobody subscribed to it

ASSUME NoWsIsNone == NoWs \notin Workspace
ASSUME RunsAreFinite == IsFiniteSet(Run)
ASSUME VersionsAreCounted == MaxVersion \in Nat

VARIABLES
    home,       \* the workspace of each run
    version,    \* the runtime's record of each run
    news,       \* workspaces with an update event on its way
    shown,      \* the views' runs: <<view, run>> once the view has subscribed
    priming,    \* the prime a view's effect has queued: <<run, workspace hint>>
    hint,       \* workspaceIdHint of each entry
    snapWs,     \* snapshot.workspaceId
    record,     \* snapshot.record
    failed,     \* snapshot.error is set
    sws,        \* subscribedWorkspaceId
    refs,       \* refCount of each workspace subscription; 0 stands for none
    call,       \* inFlightPromise
    queued,     \* queuedRefreshMode is set
    scheduled   \* refreshQueued: a microtask will look

runtime == <<home, version>>
entries == <<hint, snapWs, record, sws, refs>>
vars == <<runtime, news, shown, priming, entries, failed, call, queued, scheduled>>

NoCall == [at |-> "none", read |-> 0]
Watched(r) == \E v \in View : <<v, r>> \in shown

Init ==
    /\ home \in [Run -> Workspace]
    /\ version = [r \in Run |-> 0]
    /\ news = {} /\ shown = {} /\ priming = {}
    /\ hint = [r \in Run |-> NoWs]
    /\ snapWs = [r \in Run |-> NoWs]
    /\ record = [r \in Run |-> 0]
    /\ failed = [r \in Run |-> FALSE]
    /\ sws = [r \in Run |-> NoWs]
    /\ refs = [w \in Workspace |-> 0]
    /\ call = [r \in Run |-> NoCall]
    /\ queued = [r \in Run |-> FALSE]
    /\ scheduled = [r \in Run |-> FALSE]

-----------------------------------------------------------------------------
First(w, otherwise) == IF w # NoWs THEN w ELSE otherwise

\* Mutant: the subscription the entry had is not given back when it moves to another.
FollowOnly(r, snap) ==
    LET next == IF ~\E v \in View : <<v, r>> \in shown' THEN NoWs
                ELSE IF record'[r] # 0 THEN home[r]
                ELSE First(snap, hint'[r]) IN
    /\ sws' = [sws EXCEPT ![r] = next]
    /\ refs' = [w \in Workspace |-> IF sws[r] # next /\ w = next THEN refs[w] + 1 ELSE refs[w]]
    /\ snapWs' = [snapWs EXCEPT ![r] = First(next, snap)]

\* syncRuntimeRunTruthEntryWorkspaceSubscription, with detachWorkspaceSubscription and
\* attachWorkspaceSubscription: an entry with listeners holds a reference to the
\* subscription of the workspace it is known to be of, one without holds none.
Follow(r, snap) ==
    LET next == IF ~\E v \in View : <<v, r>> \in shown' THEN NoWs
                ELSE IF record'[r] # 0 THEN home[r]
                ELSE First(snap, hint'[r]) IN
    /\ sws' = [sws EXCEPT ![r] = next]
    /\ refs' = [w \in Workspace |->
                  refs[w] + (IF w = next THEN 1 ELSE 0) - (IF w = sws[r] THEN 1 ELSE 0)]
    /\ snapWs' = [snapWs EXCEPT ![r] = First(next, snap)]

Hinted(r, h) == hint' = [hint EXCEPT ![r] = First(h, @)]

\* Mutant: what is asked for while a read is under way is not remembered.
RefreshOnce(r) ==
    IF call[r] # NoCall
    THEN /\ queued' = [queued EXCEPT ![r] = FALSE]
         /\ UNCHANGED <<call, failed>>
    ELSE /\ call' = [call EXCEPT ![r] = [at |-> "asked", read |-> 0]]
         /\ failed' = [failed EXCEPT ![r] = FALSE]
         /\ UNCHANGED queued

\* refreshRuntimeRunTruthEntry up to its await.
Refresh(r) ==
    IF call[r] # NoCall
    THEN /\ queued' = [queued EXCEPT ![r] = TRUE]
         /\ UNCHANGED <<call, failed>>
    ELSE /\ call' = [call EXCEPT ![r] = [at |-> "asked", read |-> 0]]
         /\ failed' = [failed EXCEPT ![r] = FALSE]
         /\ UNCHANGED queued

\* A view is mounted: it subscribes, and its effect queues a prime.
Open(v, r, h) ==
    /\ ~\E s \in Run : <<v, s>> \in shown \/ <<v, s>> \in {<<p[1], p[2]>> : p \in priming}
    /\ h \in IF Hints = "home" THEN {home[r]} ELSE Workspace \cup {NoWs}
    /\ Rejoins \/ Watched(r) \/ (record[r] = 0 /\ call[r] = NoCall)
    /\ shown' = shown \cup {<<v, r>>}
    /\ priming' = priming \cup {<<v, r, h>>}
    /\ Hinted(r, h) /\ UNCHANGED record /\ Follow(r, First(snapWs[r], h))
    /\ UNCHANGED <<runtime, news, failed, call, queued, scheduled>>

Close(v, r) ==
    /\ <<v, r>> \in shown
    /\ shown' = shown \ {<<v, r>>}
    /\ UNCHANGED <<hint, record>> /\ Follow(r, snapWs[r])
    /\ UNCHANGED <<runtime, news, priming, failed, call, queued, scheduled>>

\* The rest of primeRuntimeRunTruth: a record, or a read under way, is good enough.
Primed(r) ==
    IF call[r] # NoCall \/ record[r] # 0
    THEN UNCHANGED <<call, failed, queued>>
    ELSE Refresh(r)

Prime(v, r, h) ==
    /\ <<v, r, h>> \in priming
    /\ priming' = priming \ {<<v, r, h>>}
    /\ Hinted(r, h) /\ UNCHANGED <<record, shown>> /\ Follow(r, First(snapWs[r], h))
    /\ Primed(r)
    /\ UNCHANGED <<runtime, news, scheduled>>

\* Mission control primes the runs it lists and does not subscribe to them.
PrimeListed(r) ==
    /\ Rejoins
    /\ Hinted(r, home[r]) /\ UNCHANGED <<record, shown>> /\ Follow(r, First(snapWs[r], home[r]))
    /\ Primed(r)
    /\ UNCHANGED <<runtime, news, priming, scheduled>>

\* An update event arrives: scheduleRuntimeRunTruthRefresh for the entries of its workspace.
Deliver(w) ==
    /\ w \in news
    /\ news' = news \ {w}
    /\ LET due == {r \in Run : refs[w] > 0 /\ Watched(r) /\ sws[r] = w} IN
       /\ queued' = [r \in Run |-> queued[r] \/ r \in due]
       /\ scheduled' = [r \in Run |-> scheduled[r] \/ r \in due]
    /\ UNCHANGED <<runtime, shown, priming, entries, failed, call>>

\* The microtask: queuedRefreshMode is taken and the record read, or, while it is being
\* read, set again.
Microtask(r) ==
    /\ scheduled[r]
    /\ scheduled' = [scheduled EXCEPT ![r] = FALSE]
    /\ IF call[r] # NoCall
       THEN Refresh(r)
       ELSE /\ call' = [call EXCEPT ![r] = [at |-> "asked", read |-> 0]]
            /\ failed' = [failed EXCEPT ![r] = FALSE]
            /\ queued' = [queued EXCEPT ![r] = FALSE]
    /\ UNCHANGED <<runtime, news, shown, priming, entries>>

\* Mutant: the end of a read does not look at what was asked for during it.
DoneUnasked(r) ==
    /\ call' = [call EXCEPT ![r] = NoCall]
    /\ UNCHANGED scheduled

\* The finally of a read.
Done(r) ==
    /\ call' = [call EXCEPT ![r] = NoCall]
    /\ scheduled' = [scheduled EXCEPT ![r] = @ \/ queued[r]]

Answer(r) ==
    /\ call[r].at = "read"
    /\ record' = [record EXCEPT ![r] = call[r].read]
    /\ failed' = [failed EXCEPT ![r] = FALSE]
    /\ UNCHANGED <<hint, shown>>
    /\ Follow(r, IF call[r].read # 0 THEN home[r] ELSE First(hint[r], snapWs[r])) /\ Done(r)
    /\ UNCHANGED <<runtime, news, priming, queued>>

Failure(r) ==
    /\ call[r].at = "failed"
    /\ failed' = [failed EXCEPT ![r] = TRUE]
    /\ UNCHANGED <<hint, record, shown>>
    /\ Follow(r, snapWs[r]) /\ Done(r)
    /\ UNCHANGED <<runtime, news, priming, queued>>

-----------------------------------------------------------------------------
\* The runtime: it reads the record for a call, or fails it, and changes records, each
\* change with an update event.
Serve(r) ==
    /\ call[r].at = "asked"
    /\ \/ call' = [call EXCEPT ![r] = [at |-> "read", read |-> version[r]]]
       \/ MayFail /\ call' = [call EXCEPT ![r] = [at |-> "failed", read |-> 0]]
    /\ UNCHANGED <<runtime, news, shown, priming, entries, failed, queued, scheduled>>

Change(r) ==
    /\ version[r] < MaxVersion
    /\ version' = [version EXCEPT ![r] = @ + 1]
    /\ news' = news \cup {home[r]}
    /\ UNCHANGED <<home, shown, priming, entries, failed, call, queued, scheduled>>

Next ==
    \/ \E v \in View, r \in Run :
        \/ \E h \in Workspace \cup {NoWs} : Open(v, r, h) \/ Prime(v, r, h)
        \/ Close(v, r)
    \/ \E w \in Workspace : Deliver(w)
    \/ \E r \in Run :
        \/ PrimeListed(r) \/ Microtask(r) \/ Answer(r) \/ Failure(r) \/ Serve(r) \/ Change(r)

Spec == Init /\ [][Next]_vars

\* Microtasks run, events are delivered and calls are answered.
Fairness ==
    /\ \A w \in Workspace : WF_vars(Deliver(w))
    /\ \A r \in Run : WF_vars(Microtask(r) \/ Answer(r) \/ Failure(r) \/ Serve(r))
    /\ \A v \in View, r \in Run :
         WF_vars(\E h \in Workspace \cup {NoWs} : Prime(v, r, h))

FairSpec == Spec /\ Fairness

-----------------------------------------------------------------------------
TypeOK ==
    /\ home \in [Run -> Workspace]
    /\ version \in [Run -> 0..MaxVersion]
    /\ news \subseteq Workspace
    /\ shown \subseteq View \X Run
    /\ priming \subseteq View \X Run \X (Workspace \cup {NoWs})
    /\ hint \in [Run -> Workspace \cup {NoWs}]
    /\ snapWs \in [Run -> Workspace \cup {NoWs}]
    /\ record \in [Run -> 0..MaxVersion]
    /\ failed \in [Run -> BOOLEAN]
    /\ sws \in [Run -> Workspace \cup {NoWs}]
    /\ refs \in [Workspace -> Nat]
    /\ call \in [Run -> [at : {"none", "asked", "read", "failed"}, read : 0..MaxVersion]]
    /\ queued \in [Run -> BOOLEAN]
    /\ scheduled \in [Run -> BOOLEAN]

\* The subscription of a workspace counts exactly the entries that use it: it is neither
\* given up under one of them nor kept when the last has gone.
RefCountsExact ==
    \A w \in Workspace : refs[w] = Cardinality({r \in Run : sws[r] = w})

\* A run that is shown hears of the updates of its own workspace once its record has been
\* read, and a run nobody shows holds no subscription.
HearsItsWorkspace ==
    \A r \in Run : /\ Watched(r) /\ record[r] # 0 => sws[r] = home[r]
                   /\ ~Watched(r) => sws[r] = NoWs

Quiet(r) ==
    /\ call[r] = NoCall /\ ~queued[r] /\ ~scheduled[r]
    /\ home[r] \notin news
    /\ ~\E p \in priming : p[2] = r

\* Once nothing is on its way, what is shown of a run is what the runtime has, or an error.
FreshWhenQuiet ==
    \A r \in Run : Watched(r) /\ Quiet(r) => record[r] = version[r] \/ failed[r]

\* What is shown as live is what the runtime has, once nothing is on its way.
LiveIsFresh ==
    \A r \in Run : sws[r] # NoWs /\ Quiet(r) => record[r] = version[r] \/ failed[r]

\* A run that stays on show is shown as it is again and again, or with an error, however
\* views come and go and reads fail.
WatchersCatchUp ==
    \A r \in Run : <>[]Watched(r) => []<>(record[r] = version[r] \/ failed[r])

\* The subscriptions serve the runs on show, no more and no less.
SubscriptionsRight == RefCountsExact /\ HearsItsWorkspace
=============================================================================
