--------------------------- MODULE RunTruthProofs ---------------------------
(***************************************************************************)
(* Every count of the workspace subscriptions is exact, and every run on   *)
(* show hears of its own workspace: for any number of runs, views and      *)
(* workspaces, whatever the views know and whichever reads fail.  And when *)
(* the views know the workspaces of their runs and nobody opens a run that *)
(* was read behind the subscriptions' back, what is shown is fresh.        *)
(***************************************************************************)
EXTENDS RunTruth, Sequences, FiniteSetTheorems, TLAPS

WsOrNone == Workspace \cup {NoWs}
Calls == [at : {"none", "asked", "read", "failed"}, read : 0..MaxVersion]

\* The runs that hold a reference to the subscription of a workspace.
Users(f, w) == {s \in Run : f[s] = w}

\* f becomes g: r moves to n.
Moves(f, g, r, n) ==
    f \in [Run -> WsOrNone] /\ n \in WsOrNone /\ g = [f EXCEPT ![r] = n]

\* What holds of the variables that do not count.
Shape ==
    /\ home \in [Run -> Workspace]
    /\ version \in [Run -> 0..MaxVersion]
    /\ news \subseteq Workspace
    /\ shown \subseteq View \X Run
    /\ priming \subseteq View \X Run \X WsOrNone
    /\ hint \in [Run -> WsOrNone]
    /\ snapWs \in [Run -> WsOrNone]
    /\ record \in [Run -> 0..MaxVersion]
    /\ failed \in [Run -> BOOLEAN]
    /\ sws \in [Run -> WsOrNone]
    /\ call \in [Run -> Calls]
    /\ queued \in [Run -> BOOLEAN]
    /\ scheduled \in [Run -> BOOLEAN]

Counted ==
    /\ refs \in [Workspace -> Nat]
    /\ RefCountsExact

Inv == Shape /\ Counted /\ HearsItsWorkspace

-----------------------------------------------------------------------------
\* The calls the actions write are calls.
LEMMA CallsWritten ==
  /\ NoCall \in Calls
  /\ [at |-> "asked", read |-> 0] \in Calls
  /\ [at |-> "failed", read |-> 0] \in Calls
  /\ \A n \in 0..MaxVersion : [at |-> "read", read |-> n] \in Calls
<1>1. 0 \in 0..MaxVersion
  BY VersionsAreCounted
<1> QED BY <1>1 DEF Calls, NoCall

\* One entry that moves from one workspace to another, or to or from none, changes the
\* number of users of each workspace by one at most.
LEMMA MoveCounts ==
  ASSUME NEW f, NEW g, NEW r \in Run, NEW n, NEW w \in Workspace, Moves(f, g, r, n)
  PROVE  /\ Cardinality(Users(f, w)) \in Nat
         /\ Cardinality(Users(g, w)) \in Nat
         /\ Cardinality(Users(g, w))
              = Cardinality(Users(f, w)) + (IF w = n THEN 1 ELSE 0) - (IF w = f[r] THEN 1 ELSE 0)
<1> DEFINE Old == Users(f, w)
           New == Users(g, w)
<1>1. IsFiniteSet(Old) /\ IsFiniteSet(New)
  <2>1. Old \subseteq Run /\ New \subseteq Run
    BY DEF Users, Moves
  <2> QED BY <2>1, RunsAreFinite, FS_Subset
<1>2. Cardinality(Old) \in Nat /\ Cardinality(New) \in Nat
  BY <1>1, FS_CardinalityType
<1>3. CASE w = n /\ w # f[r]
  <2>1. New = Old \cup {r} /\ r \notin Old
    BY <1>3 DEF Users, Moves
  <2>2. Cardinality(New) = Cardinality(Old) + 1
    BY <2>1, <1>1, FS_AddElement
  <2> QED BY <2>2, <1>2, <1>3
<1>4. CASE w # n /\ w = f[r]
  <2>1. New = Old \ {r} /\ r \in Old
    BY <1>4 DEF Users, Moves
  <2>2. Cardinality(New) = Cardinality(Old) - 1
    BY <2>1, <1>1, FS_RemoveElement
  <2> QED BY <2>2, <1>2, <1>4
<1>5. CASE (w = n) <=> (w = f[r])
  <2>1. New = Old
    BY <1>5 DEF Users, Moves
  <2> QED BY <2>1, <1>2, <1>5
<1> QED BY <1>3, <1>4, <1>5

\* Follow keeps the counts exact, and leaves its run subscribed to where it belongs.
LEMMA FollowKeeps ==
  ASSUME Shape, Counted, NEW r \in Run, NEW snap \in WsOrNone, Follow(r, snap),
         hint' \in [Run -> WsOrNone], record' \in [Run -> 0..MaxVersion], home' = home
  PROVE  /\ sws' \in [Run -> WsOrNone]
         /\ snapWs' \in [Run -> WsOrNone]
         /\ Counted'
         /\ \A s \in Run : s # r => sws'[s] = sws[s]
         /\ Watched(r)' /\ record'[r] # 0 => sws'[r] = home[r]
         /\ ~Watched(r)' => sws'[r] = NoWs
<1> DEFINE next == IF ~\E v \in View : <<v, r>> \in shown' THEN NoWs
                   ELSE IF record'[r] # 0 THEN home[r]
                   ELSE First(snap, hint'[r])
<1>1. next \in WsOrNone
  BY DEF Shape, First, WsOrNone
<1>2. /\ sws' = [sws EXCEPT ![r] = next]
      /\ refs' = [w \in Workspace |->
                    refs[w] + (IF w = next THEN 1 ELSE 0) - (IF w = sws[r] THEN 1 ELSE 0)]
      /\ snapWs' = [snapWs EXCEPT ![r] = First(next, snap)]
  BY DEF Follow
<1>3. Watched(r)' <=> \E v \in View : <<v, r>> \in shown'
  BY DEF Watched
<1>4. /\ Watched(r)' /\ record'[r] # 0 => next = home[r]
      /\ ~Watched(r)' => next = NoWs
  BY <1>3
<1> HIDE DEF next
<1>5. sws \in [Run -> WsOrNone] /\ snapWs \in [Run -> WsOrNone]
  BY DEF Shape
<1>6. First(next, snap) \in WsOrNone
  BY <1>1 DEF First
<1>7. sws' \in [Run -> WsOrNone] /\ snapWs' \in [Run -> WsOrNone] /\ sws'[r] = next
  BY <1>1, <1>2, <1>5, <1>6
<1>8. \A s \in Run : s # r => sws'[s] = sws[s]
  BY <1>2, <1>5
<1>9. \A w \in Workspace :
        refs'[w] \in Nat /\ refs'[w] = Cardinality(Users(sws', w))
  <2> TAKE w \in Workspace
  <2>1. /\ Cardinality(Users(sws, w)) \in Nat
        /\ Cardinality(Users(sws', w)) \in Nat
        /\ Cardinality(Users(sws', w))
             = Cardinality(Users(sws, w)) + (IF w = next THEN 1 ELSE 0)
                                          - (IF w = sws[r] THEN 1 ELSE 0)
    <3>1. Moves(sws, sws', r, next)
      BY <1>1, <1>2, <1>5 DEF Moves
    <3> QED BY <3>1, MoveCounts
  <2>2. refs[w] = Cardinality(Users(sws, w))
    BY DEF Counted, RefCountsExact, Users
  <2>3. refs'[w] = refs[w] + (IF w = next THEN 1 ELSE 0) - (IF w = sws[r] THEN 1 ELSE 0)
    BY <1>2
  <2> QED BY <2>1, <2>2, <2>3
<1>10. Counted'
  <2>1. refs' \in [Workspace -> Nat]
    BY <1>2, <1>9
  <2> QED BY <2>1, <1>9 DEF Counted, RefCountsExact, Users
<1> QED BY <1>4, <1>7, <1>8, <1>10

\* The entries of other runs are not touched by what is done for one.
LEMMA HearsAfter ==
  ASSUME HearsItsWorkspace, NEW r \in Run, home' = home,
         \A s \in Run : s # r => /\ sws'[s] = sws[s] /\ record'[s] = record[s]
                                 /\ (Watched(s)' <=> Watched(s)),
         Watched(r)' /\ record'[r] # 0 => sws'[r] = home[r],
         ~Watched(r)' => sws'[r] = NoWs
  PROVE  HearsItsWorkspace'
  BY DEF HearsItsWorkspace

\* Steps that leave the entries and the views alone keep the counts and the subscriptions.
LEMMA Untouched ==
  ASSUME Counted, HearsItsWorkspace, UNCHANGED <<home, shown, record, sws, refs>>
  PROVE  Counted' /\ HearsItsWorkspace'
  BY DEF Counted, RefCountsExact, HearsItsWorkspace, Watched

-----------------------------------------------------------------------------
\* Nobody is subscribed to anything in the beginning.
LEMMA InitInv == Init => Inv
<1> SUFFICES ASSUME Init PROVE Inv
  OBVIOUS
<1>1. Shape
  BY CallsWritten, VersionsAreCounted DEF Init, Shape, WsOrNone
<1>2. \A w \in Workspace : {r \in Run : sws[r] = w} = {}
  BY NoWsIsNone DEF Init
<1>3. Counted
  BY <1>2, FS_EmptySet DEF Init, Counted, RefCountsExact
<1>4. HearsItsWorkspace
  BY DEF Init, HearsItsWorkspace, Watched
<1> QED BY <1>1, <1>3, <1>4 DEF Inv

\* A view that is mounted subscribes its run.
LEMMA OpenInv ==
  ASSUME Inv, NEW v \in View, NEW r \in Run, NEW h \in WsOrNone, Open(v, r, h)
  PROVE  Inv'
<1> USE DEF Inv
<1>1. /\ hint' \in [Run -> WsOrNone] /\ record' = record /\ home' = home
      /\ First(snapWs[r], h) \in WsOrNone
  BY DEF Open, Hinted, First, Shape, runtime
<1>2. record' \in [Run -> 0..MaxVersion]
  BY <1>1 DEF Shape
<1>3. Follow(r, First(snapWs[r], h))
  BY DEF Open
<1>4. /\ sws' \in [Run -> WsOrNone] /\ snapWs' \in [Run -> WsOrNone] /\ Counted'
      /\ \A s \in Run : s # r => sws'[s] = sws[s]
      /\ Watched(r)' /\ record'[r] # 0 => sws'[r] = home[r]
      /\ ~Watched(r)' => sws'[r] = NoWs
  BY <1>1, <1>2, <1>3, FollowKeeps
<1>5. Shape'
  <2>1. <<v, r>> \in View \X Run /\ <<v, r, h>> \in View \X Run \X WsOrNone
    OBVIOUS
  <2>2. shown' \subseteq View \X Run /\ priming' \subseteq View \X Run \X WsOrNone
    BY <2>1 DEF Shape, Open
  <2>3. UNCHANGED <<home, version, record, news, failed, call, queued, scheduled>>
    BY <1>1 DEF Open, runtime
  <2> QED BY <1>1, <1>4, <2>2, <2>3 DEF Shape
<1>6. \A s \in Run : s # r => (Watched(s)' <=> Watched(s))
  BY DEF Open, Watched
<1>7. HearsItsWorkspace'
  BY <1>1, <1>4, <1>6, HearsAfter
<1> QED BY <1>4, <1>5, <1>7

\* The last view of a run gives its reference back.
LEMMA CloseInv ==
  ASSUME Inv, NEW v \in View, NEW r \in Run, Close(v, r)
  PROVE  Inv'
<1> USE DEF Inv
<1>1. /\ hint' = hint /\ record' = record /\ home' = home /\ snapWs[r] \in WsOrNone
  BY DEF Close, Shape, runtime
<1>2. record' \in [Run -> 0..MaxVersion] /\ hint' \in [Run -> WsOrNone]
  BY <1>1 DEF Shape
<1>3. Follow(r, snapWs[r])
  BY DEF Close
<1>4. /\ sws' \in [Run -> WsOrNone] /\ snapWs' \in [Run -> WsOrNone] /\ Counted'
      /\ \A s \in Run : s # r => sws'[s] = sws[s]
      /\ Watched(r)' /\ record'[r] # 0 => sws'[r] = home[r]
      /\ ~Watched(r)' => sws'[r] = NoWs
  BY <1>1, <1>2, <1>3, FollowKeeps
<1>5. Shape'
  BY <1>1, <1>2, <1>4 DEF Shape, Close, runtime
<1>6. \A s \in Run : s # r => (Watched(s)' <=> Watched(s))
  BY DEF Close, Watched
<1>7. HearsItsWorkspace'
  BY <1>1, <1>4, <1>6, HearsAfter
<1> QED BY <1>4, <1>5, <1>7

\* Priming can begin a read and leaves the rest of an entry as Follow makes it.
LEMMA PrimedShape ==
  ASSUME Shape, NEW r \in Run, Primed(r)
  PROVE  /\ call' \in [Run -> Calls]
         /\ failed' \in [Run -> BOOLEAN] /\ queued' \in [Run -> BOOLEAN]
<1>1. [at |-> "asked", read |-> 0] \in Calls
  BY CallsWritten
<1> QED BY <1>1, ZenonT(30) DEF Shape, Primed, Refresh

\* Priming follows the entry, with the hint of who primes.
LEMMA PrimingInv ==
  ASSUME Inv, NEW r \in Run, NEW h \in WsOrNone,
         Hinted(r, h), UNCHANGED <<record, shown>>, Follow(r, First(snapWs[r], h)), Primed(r),
         UNCHANGED <<runtime, news, scheduled>>, priming' \subseteq priming
  PROVE  Inv'
<1> USE DEF Inv
<1>1. /\ hint' \in [Run -> WsOrNone] /\ record' = record /\ home' = home
      /\ First(snapWs[r], h) \in WsOrNone
  BY DEF Hinted, First, Shape, runtime
<1>2. record' \in [Run -> 0..MaxVersion]
  BY <1>1 DEF Shape
<1>4. /\ sws' \in [Run -> WsOrNone] /\ snapWs' \in [Run -> WsOrNone] /\ Counted'
      /\ \A s \in Run : s # r => sws'[s] = sws[s]
      /\ Watched(r)' /\ record'[r] # 0 => sws'[r] = home[r]
      /\ ~Watched(r)' => sws'[r] = NoWs
  BY <1>1, <1>2, FollowKeeps
<1>5. Shape'
  BY <1>1, <1>4, PrimedShape DEF Shape, runtime
<1>6. \A s \in Run : s # r => (Watched(s)' <=> Watched(s))
  BY DEF Watched
<1>7. HearsItsWorkspace'
  BY <1>1, <1>4, <1>6, HearsAfter
<1> QED BY <1>4, <1>5, <1>7

\* The end of a read, with a record or an error, follows the entry once more.
LEMMA EndInv ==
  ASSUME Inv, NEW r \in Run, NEW snap \in WsOrNone,
         record' \in [Run -> 0..MaxVersion], \A s \in Run : s # r => record'[s] = record[s],
         failed' \in [Run -> BOOLEAN],
         Follow(r, snap), Done(r), UNCHANGED <<hint, shown>>,
         UNCHANGED <<runtime, news, priming, queued>>
  PROVE  Inv'
<1> USE DEF Inv
<1>1. hint' \in [Run -> WsOrNone] /\ home' = home
  BY DEF Shape, runtime
<1>4. /\ sws' \in [Run -> WsOrNone] /\ snapWs' \in [Run -> WsOrNone] /\ Counted'
      /\ \A s \in Run : s # r => sws'[s] = sws[s]
      /\ Watched(r)' /\ record'[r] # 0 => sws'[r] = home[r]
      /\ ~Watched(r)' => sws'[r] = NoWs
  BY <1>1, FollowKeeps
<1>5. Shape'
  <2>1. NoCall \in Calls
    BY CallsWritten
  <2>2. call' \in [Run -> Calls] /\ scheduled' \in [Run -> BOOLEAN]
    BY <2>1 DEF Shape, Done
  <2> QED BY <1>1, <1>4, <2>2 DEF Shape, runtime
<1>6. \A s \in Run : s # r => (Watched(s)' <=> Watched(s))
  BY DEF Watched
<1>7. HearsItsWorkspace'
  BY <1>1, <1>4, <1>6, HearsAfter
<1> QED BY <1>4, <1>5, <1>7

\* Every step keeps the invariant.
LEMMA NextInv == Inv /\ [Next]_vars => Inv'
<1> SUFFICES ASSUME Inv, [Next]_vars PROVE Inv'
  OBVIOUS
<1>1. ASSUME NEW v \in View, NEW r \in Run, NEW h \in WsOrNone, Open(v, r, h) PROVE Inv'
  BY <1>1, OpenInv
<1>2. ASSUME NEW v \in View, NEW r \in Run, Close(v, r) PROVE Inv'
  BY <1>2, CloseInv
<1>3. ASSUME NEW v \in View, NEW r \in Run, NEW h \in WsOrNone, Prime(v, r, h) PROVE Inv'
  BY <1>3, PrimingInv DEF Prime
<1>4. ASSUME NEW r \in Run, PrimeListed(r) PROVE Inv'
  <2>1. home[r] \in WsOrNone
    BY DEF Inv, Shape, WsOrNone
  <2> QED BY <1>4, <2>1, PrimingInv DEF PrimeListed
<1>5. ASSUME NEW w \in Workspace, Deliver(w) PROVE Inv'
  <2>1. UNCHANGED <<home, shown, record, sws, refs>>
    BY <1>5 DEF Deliver, runtime, entries
  <2>2. Shape'
    BY <1>5 DEF Inv, Shape, Deliver, runtime, entries
  <2> QED BY <2>1, <2>2, Untouched DEF Inv
<1>6. ASSUME NEW r \in Run, Microtask(r) PROVE Inv'
  <2>1. UNCHANGED <<home, shown, record, sws, refs>>
    BY <1>6 DEF Microtask, runtime, entries
  <2>3. [at |-> "asked", read |-> 0] \in Calls
    BY CallsWritten
  <2>4. /\ call' \in [Run -> Calls] /\ failed' \in [Run -> BOOLEAN]
        /\ queued' \in [Run -> BOOLEAN] /\ scheduled' \in [Run -> BOOLEAN]
    BY <1>6, <2>3, ZenonT(30) DEF Inv, Shape, Microtask, Refresh
  <2>2. Shape'
    BY <1>6, <2>4 DEF Inv, Shape, Microtask, runtime, entries
  <2> QED BY <2>1, <2>2, Untouched DEF Inv
<1>7. ASSUME NEW r \in Run, Answer(r) PROVE Inv'
  <2> DEFINE snap == IF call[r].read # 0 THEN home[r] ELSE First(hint[r], snapWs[r])
  <2>1. snap \in WsOrNone /\ call[r].read \in 0..MaxVersion
    BY DEF Inv, Shape, First, WsOrNone, Calls
  <2>2. /\ record' \in [Run -> 0..MaxVersion] /\ failed' \in [Run -> BOOLEAN]
        /\ \A s \in Run : s # r => record'[s] = record[s]
    BY <1>7, <2>1 DEF Inv, Shape, Answer
  <2>3. /\ Follow(r, snap) /\ Done(r) /\ UNCHANGED <<hint, shown>>
        /\ UNCHANGED <<runtime, news, priming, queued>>
    BY <1>7 DEF Answer
  <2> HIDE DEF snap
  <2> QED BY <2>1, <2>2, <2>3, EndInv
<1>8. ASSUME NEW r \in Run, Failure(r) PROVE Inv'
  <2>1. /\ snapWs[r] \in WsOrNone /\ record' \in [Run -> 0..MaxVersion] /\ record' = record
        /\ failed' \in [Run -> BOOLEAN]
    BY <1>8 DEF Inv, Shape, Failure
  <2>3. /\ Follow(r, snapWs[r]) /\ Done(r) /\ UNCHANGED <<hint, shown>>
        /\ UNCHANGED <<runtime, news, priming, queued>>
    BY <1>8 DEF Failure
  <2> QED BY <2>1, <2>3, EndInv
<1>9. ASSUME NEW r \in Run, Serve(r) PROVE Inv'
  <2>1. UNCHANGED <<home, shown, record, sws, refs>>
    BY <1>9 DEF Serve, runtime, entries
  <2>3. /\ [at |-> "read", read |-> version[r]] \in Calls
        /\ [at |-> "failed", read |-> 0] \in Calls
    BY CallsWritten DEF Inv, Shape
  <2>4. call' \in [Run -> Calls]
    BY <1>9, <2>3 DEF Inv, Shape, Serve
  <2>2. Shape'
    BY <1>9, <2>4 DEF Inv, Shape, Serve, runtime, entries
  <2> QED BY <2>1, <2>2, Untouched DEF Inv
<1>10. ASSUME NEW r \in Run, Change(r) PROVE Inv'
  <2>1. UNCHANGED <<home, shown, record, sws, refs>>
    BY <1>10 DEF Change, entries
  <2>2. version[r] + 1 \in 0..MaxVersion /\ home[r] \in Workspace
    BY <1>10, VersionsAreCounted DEF Inv, Shape, Change
  <2>3. Shape'
    BY <1>10, <2>2 DEF Inv, Shape, Change, entries
  <2> QED BY <2>1, <2>3, Untouched DEF Inv
<1>11. CASE UNCHANGED vars
  <2>1. UNCHANGED <<home, shown, record, sws, refs>>
    BY <1>11 DEF vars, runtime, entries
  <2>2. Shape'
    BY <1>11 DEF Inv, Shape, vars, runtime, entries
  <2> QED BY <2>1, <2>2, Untouched DEF Inv
<1> QED BY <1>1, <1>2, <1>3, <1>4, <1>5, <1>6, <1>7, <1>8, <1>9, <1>10, <1>11
        DEF Next, WsOrNone

\* The invariant holds of every behaviour.
THEOREM InvHolds == Spec => []Inv
  BY InitInv, NextInv, PTL DEF Spec

\* Type correctness, the counts among it: no subscription is given back twice.
THEOREM TypeCorrect == Spec => []TypeOK
<1>1. Inv => TypeOK
  BY DEF Inv, Shape, Counted, TypeOK, WsOrNone, Calls
<1> QED BY InvHolds, <1>1, PTL

\* A subscription is shared by exactly the runs it counts: it is never given up under a
\* run on show, and never kept for nobody.
THEOREM CountsAreExact == Spec => []RefCountsExact
<1>1. Inv => RefCountsExact
  BY DEF Inv, Counted
<1> QED BY InvHolds, <1>1, PTL

\* A run on show with a record hears of its own workspace, whatever it was hinted.
THEOREM HearsIts == Spec => []HearsItsWorkspace
<1>1. Inv => HearsItsWorkspace
  BY DEF Inv
<1> QED BY InvHolds, <1>1, PTL

\* Whatever views open, close and hint, a workspace subscription has exactly the users it
\* counts, and a run on show with a record hears of its own workspace.
THEOREM SubscriptionsAreRight == Spec => []SubscriptionsRight
<1>1. RefCountsExact /\ HearsItsWorkspace => SubscriptionsRight
  BY DEF SubscriptionsRight
<1> QED BY CountsAreExact, HearsIts, <1>1, PTL

-----------------------------------------------------------------------------
(* What is shown is fresh: a change of a record is on its way as an event, *)
(* then as a wish to read, then as a read, until the record is shown.      *)

\* Views know the workspace of a run, and nothing else is known of it: a run on show is
\* subscribed to its own workspace before its record has been read.
HomeHints ==
    \A r \in Run :
        /\ hint[r] \in {NoWs, home[r]} /\ snapWs[r] \in {NoWs, home[r]}
        /\ Watched(r) => hint[r] = home[r] /\ sws[r] = home[r]

HintsAtHome == \A p \in priming : p[3] = home[p[2]]

\* A read that has been overtaken by a change will be repeated.
NewsComes ==
    \A r \in Run :
        Watched(r) /\ call[r].at = "read" /\ call[r].read # version[r] =>
            home[r] \in news \/ queued[r]

\* What brings the record of a run: a prime does so only for a run without a record.
Awaits(r) ==
    \/ call[r] # NoCall
    \/ queued[r] \/ scheduled[r] \/ home[r] \in news
    \/ record[r] = 0 /\ \E p \in priming : p[2] = r

StaleAwaits ==
    \A r \in Run : Watched(r) /\ record[r] # version[r] /\ ~failed[r] => Awaits(r)

FreshInv == HomeHints /\ HintsAtHome /\ NewsComes /\ StaleAwaits

\* The parts that belong to one run.
Homely(r) ==
    /\ hint[r] \in {NoWs, home[r]} /\ snapWs[r] \in {NoWs, home[r]}
    /\ Watched(r) => hint[r] = home[r] /\ sws[r] = home[r]
Fresh(r) ==
    /\ Watched(r) /\ call[r].at = "read" /\ call[r].read # version[r] =>
         home[r] \in news \/ queued[r]
    /\ Watched(r) /\ record[r] # version[r] /\ ~failed[r] => Awaits(r)

\* The invariant is one of each run.
LEMMA FreshEach ==
  /\ FreshInv <=> HintsAtHome /\ \A r \in Run : Homely(r) /\ Fresh(r)
  /\ FreshInv' <=> HintsAtHome' /\ \A r \in Run : Homely(r)' /\ Fresh(r)'
  BY DEF FreshInv, HomeHints, NewsComes, StaleAwaits, Homely, Fresh

\* Follow leaves an entry at home when all that is known of it is its home.
LEMMA FollowHome ==
  ASSUME Shape, NEW r \in Run, NEW snap \in {NoWs, home[r]}, Follow(r, snap), home' = home,
         hint'[r] \in {NoWs, home[r]}, Watched(r)' => hint'[r] = home[r]
  PROVE  Homely(r)' /\ \A s \in Run : s # r => sws'[s] = sws[s] /\ snapWs'[s] = snapWs[s]
<1> DEFINE next == IF ~\E v \in View : <<v, r>> \in shown' THEN NoWs
                   ELSE IF record'[r] # 0 THEN home[r]
                   ELSE First(snap, hint'[r])
<1>1. home[r] \in Workspace /\ home[r] # NoWs
  BY NoWsIsNone DEF Shape
<1>2. Watched(r)' <=> \E v \in View : <<v, r>> \in shown'
  BY DEF Watched
<1>3. next \in {NoWs, home[r]} /\ (Watched(r)' => next = home[r])
  BY <1>1, <1>2 DEF First
<1>4. sws' = [sws EXCEPT ![r] = next] /\ snapWs' = [snapWs EXCEPT ![r] = First(next, snap)]
  BY DEF Follow
<1> HIDE DEF next
<1>5. First(next, snap) \in {NoWs, home[r]}
  BY <1>3 DEF First
<1>6. sws'[r] = next /\ snapWs'[r] = First(next, snap)
  BY <1>4 DEF Shape
<1>7. \A s \in Run : s # r => sws'[s] = sws[s] /\ snapWs'[s] = snapWs[s]
  BY <1>4 DEF Shape
<1> QED BY <1>3, <1>5, <1>6, <1>7 DEF Homely

\* What is known of other runs stays.
LEMMA OthersHomely ==
  ASSUME NEW r \in Run, home' = home, \A s \in Run : Homely(s), Homely(r)',
         \A s \in Run : s # r => /\ sws'[s] = sws[s] /\ snapWs'[s] = snapWs[s]
                                 /\ hint'[s] = hint[s] /\ (Watched(s)' => Watched(s))
  PROVE  \A s \in Run : Homely(s)'
  BY DEF Homely

\* Steps that leave what a run is shown by alone, and only add to what brings its record,
\* keep it fresh.
LEMMA StaysFresh ==
  ASSUME NEW s \in Run, Fresh(s), Watched(s)' => Watched(s),
         home' = home, version'[s] = version[s], record'[s] = record[s],
         failed'[s] = failed[s], call'[s] = call[s],
         queued[s] => queued'[s], scheduled[s] => scheduled'[s],
         home[s] \in news => home[s] \in news' \/ queued'[s] \/ ~Watched(s),
         (\E p \in priming : p[2] = s) => (\E p \in priming' : p[2] = s)
  PROVE  Fresh(s)'
  BY DEF Fresh, Awaits

\* Nothing is on show in the beginning.
LEMMA FreshInit == Init => FreshInv
  BY DEF Init, FreshInv, HomeHints, HintsAtHome, NewsComes, StaleAwaits, Watched

\* A view is mounted on a run: unless the run was on show before, it has no record and no
\* read under way, and the view's prime will read it.
LEMMA OpenFresh ==
  ASSUME Hints = "home", Rejoins = FALSE, Inv, FreshInv,
         NEW v \in View, NEW r \in Run, NEW h \in WsOrNone, Open(v, r, h)
  PROVE  FreshInv'
<1>1. /\ h = home[r] /\ home[r] \in Workspace /\ home[r] # NoWs
      /\ UNCHANGED <<home, version, news, failed, call, queued, scheduled, record>>
      /\ Watched(r) \/ (record[r] = 0 /\ call[r] = NoCall)
  BY NoWsIsNone DEF Open, Inv, Shape, runtime
<1>2. \A s \in Run : Homely(s) /\ Fresh(s)
  BY FreshEach
<1>3. /\ hint'[r] = home[r] /\ \A s \in Run : s # r => hint'[s] = hint[s]
      /\ First(snapWs[r], h) \in {NoWs, home[r]}
  BY <1>1, <1>2 DEF Open, Hinted, First, Inv, Shape, Homely
<1>4. Homely(r)' /\ \A s \in Run : s # r => sws'[s] = sws[s] /\ snapWs'[s] = snapWs[s]
  <2>1. Follow(r, First(snapWs[r], h))
    BY DEF Open
  <2> QED BY <2>1, <1>1, <1>3, FollowHome DEF Inv
<1>5. \A s \in Run : s # r => (Watched(s)' <=> Watched(s))
  BY DEF Open, Watched
<1>6. \A s \in Run : Homely(s)'
  BY <1>1, <1>2, <1>3, <1>4, <1>5, OthersHomely
<1>7. priming' = priming \cup {<<v, r, h>>}
  BY DEF Open
<1>8. HintsAtHome'
  BY <1>1, <1>7 DEF FreshInv, HintsAtHome
<1>9. ASSUME NEW s \in Run, Watched(s)' => Watched(s) PROVE Fresh(s)'
  <2>1. Fresh(s)
    BY <1>2
  <2>2. (\E p \in priming : p[2] = s) => (\E p \in priming' : p[2] = s)
    BY <1>7
  <2> QED BY <1>1, <1>9, <2>1, <2>2, StaysFresh
<1>10. CASE ~Watched(r)
  <2>1. <<v, r, h>> \in priming' /\ <<v, r, h>>[2] = r
    BY <1>7
  <2>2. record[r] = 0 /\ call[r] = NoCall
    BY <1>1, <1>10
  <2>3. Awaits(r)'
    BY <1>1, <2>1, <2>2 DEF Awaits
  <2>4. Fresh(r)'
    BY <1>1, <2>2, <2>3 DEF Fresh, NoCall
  <2> QED BY <2>4, <1>5, <1>6, <1>8, <1>9, FreshEach
<1>11. CASE Watched(r)
  <2>1. \A s \in Run : Fresh(s)'
    BY <1>5, <1>9, <1>11
  <2> QED BY <2>1, <1>6, <1>8, FreshEach
<1> QED BY <1>10, <1>11

\* A view goes: what remains on show was on show.
LEMMA CloseFresh ==
  ASSUME Inv, FreshInv, NEW v \in View, NEW r \in Run, Close(v, r)
  PROVE  FreshInv'
<1>1. UNCHANGED <<home, version, news, failed, call, queued, scheduled, record, hint, priming>>
  BY DEF Close, runtime
<1>2. \A s \in Run : Homely(s) /\ Fresh(s) /\ (Watched(s)' => Watched(s))
  BY FreshEach DEF Close, Watched
<1>3. Homely(r)' /\ \A s \in Run : s # r => sws'[s] = sws[s] /\ snapWs'[s] = snapWs[s]
  <2>1. Follow(r, snapWs[r]) /\ snapWs[r] \in {NoWs, home[r]}
    BY <1>2 DEF Close, Homely
  <2>2. hint'[r] \in {NoWs, home[r]} /\ (Watched(r)' => hint'[r] = home[r])
    BY <1>1, <1>2 DEF Homely
  <2> QED BY <2>1, <2>2, <1>1, FollowHome DEF Inv
<1>4. \A s \in Run : Homely(s)'
  BY <1>1, <1>2, <1>3, OthersHomely
<1>5. \A s \in Run : Fresh(s)'
  BY <1>1, <1>2, StaysFresh
<1>6. HintsAtHome'
  BY <1>1 DEF FreshInv, HintsAtHome
<1> QED BY <1>4, <1>5, <1>6, FreshEach

\* A prime reads a run that has no record and is not being read.
LEMMA PrimeFresh ==
  ASSUME Inv, FreshInv, NEW v \in View, NEW r \in Run, NEW h \in WsOrNone, Prime(v, r, h)
  PROVE  FreshInv'
<1>1. /\ h = home[r] /\ home[r] # NoWs
      /\ UNCHANGED <<home, version, news, record, shown, scheduled>>
      /\ priming' = priming \ {<<v, r, h>>}
  <2>1. home[r] # NoWs
    BY NoWsIsNone DEF Inv, Shape
  <2>2. <<v, r, h>> \in priming
    BY DEF Prime
  <2>3. <<v, r, h>>[3] = home[<<v, r, h>>[2]]
    BY <2>2 DEF FreshInv, HintsAtHome
  <2> QED BY <2>1, <2>3 DEF Prime, runtime
<1>2. \A s \in Run : Homely(s) /\ Fresh(s) /\ (Watched(s)' <=> Watched(s))
  BY <1>1, FreshEach DEF Watched
<1>3. /\ hint'[r] = home[r] /\ \A s \in Run : s # r => hint'[s] = hint[s]
      /\ First(snapWs[r], h) \in {NoWs, home[r]}
  <2>1. hint[r] \in {NoWs, home[r]} /\ snapWs[r] \in {NoWs, home[r]}
    BY <1>2 DEF Homely
  <2> QED BY <1>1, <2>1 DEF Prime, Hinted, First, Inv, Shape
<1>4. Homely(r)' /\ \A s \in Run : s # r => sws'[s] = sws[s] /\ snapWs'[s] = snapWs[s]
  <2>1. Follow(r, First(snapWs[r], h))
    BY DEF Prime
  <2> QED BY <2>1, <1>1, <1>3, FollowHome DEF Inv
<1>5. \A s \in Run : Homely(s)'
  BY <1>1, <1>2, <1>3, <1>4, OthersHomely
<1>6. HintsAtHome'
  BY <1>1 DEF FreshInv, HintsAtHome
<1>7. /\ Primed(r)
      /\ \A s \in Run : s # r => /\ call'[s] = call[s] /\ failed'[s] = failed[s]
                                 /\ queued'[s] = queued[s]
  BY DEF Prime, Primed, Refresh, Inv, Shape
<1>8. ASSUME NEW s \in Run, s # r PROVE Fresh(s)'
  <2>1. (\E p \in priming : p[2] = s) => (\E p \in priming' : p[2] = s)
    BY <1>1, <1>8
  <2> QED BY <1>1, <1>2, <1>7, <1>8, <2>1, StaysFresh
<1>9. Fresh(r)'
  <2>1. CASE call[r] # NoCall \/ record[r] # 0
    <3>1. UNCHANGED <<call, failed, queued>>
      BY <2>1, <1>7 DEF Primed
    <3> QED BY <2>1, <3>1, <1>1, <1>2 DEF Fresh, Awaits
  <2>2. CASE ~(call[r] # NoCall \/ record[r] # 0)
    <3>1. call' = [call EXCEPT ![r] = [at |-> "asked", read |-> 0]]
      BY <2>2, <1>7 DEF Primed, Refresh
    <3>2. call'[r].at = "asked"
      BY <3>1 DEF Inv, Shape
    <3> QED BY <3>2 DEF Fresh, Awaits, NoCall
  <2> QED BY <2>1, <2>2
<1> QED BY <1>5, <1>6, <1>8, <1>9, FreshEach

\* An update event reaches every run on show in its workspace: the subscription counts it.
LEMMA DeliverFresh ==
  ASSUME Inv, FreshInv, NEW w \in Workspace, Deliver(w)
  PROVE  FreshInv'
<1>1. UNCHANGED <<home, version, shown, priming, record, hint, snapWs, sws, failed, call>>
  BY DEF Deliver, runtime, entries
<1>2. \A s \in Run : Homely(s) /\ Fresh(s) /\ (Watched(s)' <=> Watched(s))
  BY <1>1, FreshEach DEF Watched
<1>3. ASSUME NEW s \in Run, Watched(s), home[s] = w PROVE queued'[s]
  <2>1. sws[s] = w
    BY <1>2, <1>3 DEF Homely
  <2>2. refs[w] = Cardinality({x \in Run : sws[x] = w})
    BY DEF Inv, Counted, RefCountsExact
  <2>3. IsFiniteSet({x \in Run : sws[x] = w})
    <3>1. {x \in Run : sws[x] = w} \subseteq Run
      OBVIOUS
    <3> QED BY <3>1, RunsAreFinite, FS_Subset
  <2>4. s \in {x \in Run : sws[x] = w}
    BY <2>1
  <2>5. refs[w] \in Nat /\ refs[w] # 0
    BY <2>2, <2>3, <2>4, FS_EmptySet, FS_CardinalityType DEF Inv, Counted
  <2>6. refs[w] > 0
    BY <2>5
  <2> QED BY <1>3, <2>1, <2>6 DEF Deliver
<1>4. ASSUME NEW s \in Run PROVE Fresh(s)'
  <2>1. /\ home[s] \in news => home[s] \in news' \/ queued'[s] \/ ~Watched(s)
        /\ queued[s] => queued'[s]
        /\ scheduled[s] => scheduled'[s]
    BY <1>3 DEF Deliver
  <2> QED BY <1>1, <1>2, <2>1, StaysFresh
<1>5. \A s \in Run : Homely(s)'
  BY <1>1, <1>2 DEF Homely
<1>6. HintsAtHome'
  BY <1>1 DEF FreshInv, HintsAtHome
<1> QED BY <1>4, <1>5, <1>6, FreshEach

\* The microtask begins a read, or has the one that is under way repeated.
LEMMA MicrotaskFresh ==
  ASSUME Inv, FreshInv, NEW r \in Run, Microtask(r)
  PROVE  FreshInv'
<1>1. UNCHANGED <<home, version, news, shown, priming, record, hint, snapWs, sws>>
  BY DEF Microtask, runtime, entries
<1>2. \A s \in Run : Homely(s) /\ Fresh(s) /\ (Watched(s)' <=> Watched(s))
  BY <1>1, FreshEach DEF Watched
<1>3. \A s \in Run : s # r => /\ call'[s] = call[s] /\ failed'[s] = failed[s]
                              /\ queued'[s] = queued[s] /\ scheduled'[s] = scheduled[s]
  BY DEF Microtask, Refresh, Inv, Shape
<1>4. \A s \in Run : s # r => Fresh(s)'
  BY <1>1, <1>2, <1>3, StaysFresh
<1>5. Fresh(r)'
  <2>1. CASE call[r] # NoCall
    <3>1. call' = call /\ queued'[r]
      BY <2>1 DEF Microtask, Refresh, Inv, Shape
    <3> QED BY <2>1, <3>1 DEF Fresh, Awaits
  <2>2. CASE call[r] = NoCall
    <3>1. call'[r].at = "asked"
      BY <2>2 DEF Microtask, Inv, Shape
    <3> QED BY <3>1 DEF Fresh, Awaits, NoCall
  <2> QED BY <2>1, <2>2
<1>6. \A s \in Run : Homely(s)'
  BY <1>1, <1>2 DEF Homely
<1>7. HintsAtHome'
  BY <1>1 DEF FreshInv, HintsAtHome
<1> QED BY <1>4, <1>5, <1>6, <1>7, FreshEach

\* A record comes: it is what the runtime has, or a change that overtook it is still on its
\* way or has had the run scheduled.
LEMMA AnswerFresh ==
  ASSUME Inv, FreshInv, NEW r \in Run, Answer(r)
  PROVE  FreshInv'
<1> DEFINE snap == IF call[r].read # 0 THEN home[r] ELSE First(hint[r], snapWs[r])
<1>1. UNCHANGED <<home, version, news, shown, priming, hint, queued>>
  BY DEF Answer, runtime
<1>2. \A s \in Run : Homely(s) /\ Fresh(s) /\ (Watched(s)' <=> Watched(s))
  BY <1>1, FreshEach DEF Watched
<1>3. hint[r] \in {NoWs, home[r]} /\ snapWs[r] \in {NoWs, home[r]}
  BY <1>2 DEF Homely
<1>4. snap \in {NoWs, home[r]}
  BY <1>3 DEF First
<1>5. Homely(r)' /\ \A s \in Run : s # r => sws'[s] = sws[s] /\ snapWs'[s] = snapWs[s]
  <2>1. Follow(r, snap)
    BY DEF Answer
  <2>2. hint'[r] \in {NoWs, home[r]} /\ (Watched(r)' => hint'[r] = home[r])
    BY <1>1, <1>2 DEF Homely
  <2> HIDE DEF snap
  <2> QED BY <2>1, <2>2, <1>1, <1>4, FollowHome DEF Inv
<1>6. \A s \in Run : Homely(s)'
  BY <1>1, <1>2, <1>5, OthersHomely
<1>7. \A s \in Run : s # r => /\ call'[s] = call[s] /\ failed'[s] = failed[s]
                              /\ record'[s] = record[s] /\ scheduled'[s] = scheduled[s]
  BY DEF Answer, Done, Inv, Shape
<1>8. \A s \in Run : s # r => Fresh(s)'
  BY <1>1, <1>2, <1>7, StaysFresh
<1>9. Fresh(r)'
  <2>1. /\ record'[r] = call[r].read /\ call'[r] = NoCall /\ call[r].at = "read"
        /\ scheduled'[r] = (scheduled[r] \/ queued[r])
    BY DEF Answer, Done, Inv, Shape
  <2>2. Watched(r) /\ call[r].read # version[r] => home[r] \in news \/ queued[r]
    BY <1>2, <2>1 DEF Fresh
  <2> QED BY <1>1, <1>2, <2>1, <2>2 DEF Fresh, Awaits, NoCall
<1>10. HintsAtHome'
  BY <1>1 DEF FreshInv, HintsAtHome
<1> QED BY <1>6, <1>8, <1>9, <1>10, FreshEach

\* A read that fails is shown as an error.
LEMMA FailureFresh ==
  ASSUME Inv, FreshInv, NEW r \in Run, Failure(r)
  PROVE  FreshInv'
<1>1. UNCHANGED <<home, version, news, shown, priming, hint, queued, record>>
  BY DEF Failure, runtime
<1>2. \A s \in Run : Homely(s) /\ Fresh(s) /\ (Watched(s)' <=> Watched(s))
  BY <1>1, FreshEach DEF Watched
<1>3. Homely(r)' /\ \A s \in Run : s # r => sws'[s] = sws[s] /\ snapWs'[s] = snapWs[s]
  <2>1. Follow(r, snapWs[r]) /\ snapWs[r] \in {NoWs, home[r]}
    BY <1>2 DEF Failure, Homely
  <2>2. hint'[r] \in {NoWs, home[r]} /\ (Watched(r)' => hint'[r] = home[r])
    BY <1>1, <1>2 DEF Homely
  <2> QED BY <2>1, <2>2, <1>1, FollowHome DEF Inv
<1>4. \A s \in Run : Homely(s)'
  BY <1>1, <1>2, <1>3, OthersHomely
<1>5. \A s \in Run : s # r => /\ call'[s] = call[s] /\ failed'[s] = failed[s]
                              /\ scheduled'[s] = scheduled[s]
  BY DEF Failure, Done, Inv, Shape
<1>6. \A s \in Run : s # r => Fresh(s)'
  BY <1>1, <1>2, <1>5, StaysFresh
<1>7. Fresh(r)'
  <2>1. failed'[r] /\ call'[r] = NoCall
    BY DEF Failure, Done, Inv, Shape
  <2> QED BY <2>1 DEF Fresh, NoCall
<1>8. HintsAtHome'
  BY <1>1 DEF FreshInv, HintsAtHome
<1> QED BY <1>4, <1>6, <1>7, <1>8, FreshEach

\* What the runtime reads for a call is what it has at that moment.
LEMMA ServeFresh ==
  ASSUME Inv, FreshInv, NEW r \in Run, Serve(r)
  PROVE  FreshInv'
<1>1. /\ UNCHANGED <<home, version, news, shown, priming, record, hint, snapWs, sws>>
      /\ UNCHANGED <<failed, queued, scheduled>>
  BY DEF Serve, runtime, entries
<1>2. \A s \in Run : Homely(s) /\ Fresh(s) /\ (Watched(s)' <=> Watched(s))
  BY <1>1, FreshEach DEF Watched
<1>3. \A s \in Run : s # r => call'[s] = call[s]
  BY DEF Serve, Inv, Shape
<1>4. \A s \in Run : s # r => Fresh(s)'
  BY <1>1, <1>2, <1>3, StaysFresh
<1>5. Fresh(r)'
  <2>1. call'[r].at \in {"read", "failed"} /\ (call'[r].at = "read" => call'[r].read = version[r])
    BY DEF Serve, Inv, Shape
  <2> QED BY <2>1, <1>1 DEF Fresh, Awaits, NoCall
<1>6. \A s \in Run : Homely(s)'
  BY <1>1, <1>2 DEF Homely
<1>7. HintsAtHome'
  BY <1>1 DEF FreshInv, HintsAtHome
<1> QED BY <1>4, <1>5, <1>6, <1>7, FreshEach

\* A change of a record comes with an event for its workspace.
LEMMA ChangeFresh ==
  ASSUME Inv, FreshInv, NEW r \in Run, Change(r)
  PROVE  FreshInv'
<1>1. /\ UNCHANGED <<home, shown, priming, record, hint, snapWs, sws>>
      /\ UNCHANGED <<failed, call, queued, scheduled>>
      /\ news' = news \cup {home[r]}
  BY DEF Change, entries
<1>2. \A s \in Run : Homely(s) /\ Fresh(s) /\ (Watched(s)' <=> Watched(s))
  BY <1>1, FreshEach DEF Watched
<1>3. \A s \in Run : s # r => version'[s] = version[s]
  BY DEF Change, Inv, Shape
<1>4. \A s \in Run : s # r => Fresh(s)'
  BY <1>1, <1>2, <1>3, StaysFresh
<1>5. Fresh(r)'
  BY <1>1 DEF Fresh, Awaits
<1>6. \A s \in Run : Homely(s)'
  BY <1>1, <1>2 DEF Homely
<1>7. HintsAtHome'
  BY <1>1 DEF FreshInv, HintsAtHome
<1> QED BY <1>4, <1>5, <1>6, <1>7, FreshEach

\* Every step keeps what is shown fresh, or something on its way to it.
LEMMA FreshNext ==
  ASSUME Hints = "home", Rejoins = FALSE, Inv, FreshInv, [Next]_vars
  PROVE  FreshInv'
<1>1. ASSUME NEW v \in View, NEW r \in Run, NEW h \in WsOrNone, Open(v, r, h)
      PROVE  FreshInv'
  BY <1>1, OpenFresh
<1>2. ASSUME NEW v \in View, NEW r \in Run, Close(v, r) PROVE FreshInv'
  BY <1>2, CloseFresh
<1>3. ASSUME NEW v \in View, NEW r \in Run, NEW h \in WsOrNone, Prime(v, r, h)
      PROVE  FreshInv'
  BY <1>3, PrimeFresh
<1>4. ASSUME NEW r \in Run, PrimeListed(r) PROVE FreshInv'
  BY <1>4 DEF PrimeListed
<1>5. ASSUME NEW w \in Workspace, Deliver(w) PROVE FreshInv'
  BY <1>5, DeliverFresh
<1>6. ASSUME NEW r \in Run, Microtask(r) PROVE FreshInv'
  BY <1>6, MicrotaskFresh
<1>7. ASSUME NEW r \in Run, Answer(r) PROVE FreshInv'
  BY <1>7, AnswerFresh
<1>8. ASSUME NEW r \in Run, Failure(r) PROVE FreshInv'
  BY <1>8, FailureFresh
<1>9. ASSUME NEW r \in Run, Serve(r) PROVE FreshInv'
  BY <1>9, ServeFresh
<1>10. ASSUME NEW r \in Run, Change(r) PROVE FreshInv'
  BY <1>10, ChangeFresh
<1>11. CASE UNCHANGED vars
  BY <1>11 DEF vars, runtime, entries, FreshInv, HomeHints, HintsAtHome, NewsComes,
               StaleAwaits, Awaits, Watched
<1> QED BY <1>1, <1>2, <1>3, <1>4, <1>5, <1>6, <1>7, <1>8, <1>9, <1>10, <1>11
        DEF Next, WsOrNone

\* When the views know the workspaces of their runs and open no run that was read while
\* nobody subscribed to it, what is shown of a run is what the runtime has, or an error, as
\* soon as nothing is on its way: no update is lost between an event, a read that was
\* already under way and the views that come and go.
THEOREM ShownIsFresh ==
  ASSUME Hints = "home", Rejoins = FALSE
  PROVE  Spec => []FreshWhenQuiet
<1>1. Inv /\ FreshInv /\ [Next]_vars => FreshInv'
  BY FreshNext
<1>2. FreshInv => FreshWhenQuiet
  BY DEF FreshInv, StaleAwaits, FreshWhenQuiet, Awaits, Quiet
<1> QED BY InvHolds, FreshInit, <1>1, <1>2, PTL DEF Spec

\* The same of the runs that hold a subscription: what is shown as live is live.
THEOREM LiveOnesAreFresh ==
  ASSUME Hints = "home", Rejoins = FALSE
  PROVE  Spec => []LiveIsFresh
<1>1. Inv /\ FreshWhenQuiet => LiveIsFresh
  BY DEF Inv, HearsItsWorkspace, FreshWhenQuiet, LiveIsFresh
<1> QED BY InvHolds, ShownIsFresh, <1>1, PTL

-----------------------------------------------------------------------------
(***************************************************************************)
(* The live subscription to the thread that is shown (module LiveThread,   *)
(* as Live): for any threads, whatever happens.                            *)
(***************************************************************************)

CONSTANTS Thread, Happens, MaxMount, MaxTurn, MaxTrouble, MaxBacklog, MaxGets, NoThread

VARIABLES
  threadShown, hook, calls, gets, mind, resync, channel, events, alive, turns, changing, subs,
  fanout, jobs, trouble, archived, early

Live == INSTANCE LiveThread WITH shown <- threadShown

EventKind == {"patched", "heartbeat", "detached", "started", "completed"}
StreamEvent == [kind : EventKind, thread : Thread]
LiveCall == [n : 1 .. MaxMount, thread : Thread, stage : {"sent", "checked", "yes", "no"}]
LiveSub == [id : 1 .. MaxMount, thread : Thread]
LiveJob == [kind : {"unsubscribe"}, id : 0 .. MaxMount, thread : {NoThread}]
           \cup [kind : {"detach", "archive"}, id : 0 .. MaxMount, thread : Thread]
LiveHook == [n : 0 .. MaxMount, state : {"offline", "syncing", "live", "fallback"},
             open : BOOLEAN, sub : 0 .. MaxMount, timer : {"off", "update", "detached"}]
LiveGet == [kind : {"list", "resume", "workspaces"}, thread : Thread \cup {NoThread},
            replace : BOOLEAN, was : SUBSET Thread, answer : {"none", "yes", "no"},
            seen : SUBSET Thread, found : SUBSET Thread]

\* The types; a turn that a restart ends may be one more than are started.
ThreadShape ==
  /\ alive \subseteq Thread /\ archived \subseteq Thread
  /\ turns \in [Thread -> 0 .. MaxTurn + 1]
  /\ \A t \in Thread : turns[t] = MaxTurn + 1 => ~Live!Running(t)
  /\ changing \in [Thread -> {"none", "written", "published"}]
Mind == [Thread -> [busy : BOOLEAN, turn : BOOLEAN]]
LiveShape ==
  /\ threadShown \in Thread \cup {NoThread} /\ resync \in BOOLEAN /\ trouble \in 0 .. MaxTrouble
  /\ hook \in LiveHook /\ (threadShown = NoThread => hook.timer = "off")
  /\ calls \subseteq LiveCall /\ gets \subseteq LiveGet
  /\ mind \in Mind /\ channel \in {"open", "down"} /\ events \in Seq(StreamEvent)
  /\ subs \subseteq LiveSub /\ fanout \subseteq LiveSub /\ jobs \subseteq LiveJob
  /\ early \subseteq 1 .. MaxMount
  /\ ThreadShape

\* An effect has one call at most, before it has its subscription; a call that is not the
\* mounted effect's is of one disposed early; what is to be unsubscribed was another
\* effect's, which had been told of it.
OwnCall ==
  /\ \A c \in calls : IF c.n = hook.n THEN c.thread = threadShown /\ hook.sub = 0
                     ELSE c.n \in early
  /\ \A c, d \in calls : c.n = d.n => c = d
  /\ hook.sub \in {0, hook.n} /\ hook.n \notin early
  /\ threadShown = NoThread <=> hook.n = 0
  /\ hook.n = 0 => hook.state = "offline" /\ ~hook.open
  /\ \A j \in jobs : j.kind = "unsubscribe" => j.id \notin {0, hook.n} \cup early

\* A subscription is the effect's, will be by an answer under way, or will be ended; or the
\* effect was disposed early.
Cared ==
  \A s \in subs :
    \/ s.id \in {hook.sub} \cup early
    \/ \E c \in calls : c.n = s.id /\ c.stage = "yes"
    \/ \E j \in jobs : j.kind = "unsubscribe" /\ j.id = s.id

\* What the effect takes for its subscription is there, or the effect will be mounted again.
MountsAgain ==
  channel = "down" \/ resync \/ \E g \in gets : g.kind = "workspaces" /\ g.answer # "no"
OwnAnswer(stage) == \E c \in calls : c.n = hook.n /\ c.stage = stage
Registered ==
  threadShown \notin archived /\ (hook.sub # 0 \/ OwnAnswer("yes")) =>
    [id |-> hook.n, thread |-> threadShown] \in subs \/ MountsAgain

\* The events of a queue.
Heard(queue) == {queue[i] : i \in DOMAIN queue}
IsLife(e) == e.kind \in {"patched", "heartbeat"}

\* Nothing will come that makes the view of t say that it is live.
Silent(t) ==
  /\ \A s \in subs \cup fanout : s.thread # t
  /\ \A e \in Heard(events) : IsLife(e) => e.thread # t

DeadAreSilent ==
  \A t \in Thread \ (alive \cup archived) :
    Silent(t) /\ \A c \in calls : c.stage = "checked" => c.thread # t

\* An effect that was refused its subscription, or will be, hears nothing that makes it live,
\* but of the subscription of an effect that was disposed early.
KeptEarly(t) == \E s \in subs : s.thread = t /\ s.id \in early
Refused ==
  /\ hook.n # 0 /\ hook.sub = 0 /\ threadShown \notin archived
  /\ \/ threadShown \notin alive
     \/ \A c \in calls : c.n # hook.n
     \/ OwnAnswer("no")
RefusedIsSilent ==
  Refused => KeptEarly(threadShown) \/ (hook.state # "live" /\ Silent(threadShown))

\* A hook sees that the stream is down; and the archivals that are half done are known.
DownIsSeen == channel = "down" => hook.state # "live" /\ ~hook.open
ArchivalsKnown == \A j \in jobs : j.kind = "archive" => j.thread \in archived

\* What the view says about its subscription is sound.
SubInv == Registered /\ DeadAreSilent /\ RefusedIsSilent /\ DownIsSeen /\ ArchivalsKnown

-----------------------------------------------------------------------------
\* What the operators on the stream return: what is sent, received, or kept for replay.
LEMMA SentIs ==
  ASSUME NEW queue \in Seq(StreamEvent), NEW e \in StreamEvent
  PROVE  /\ Live!Sent(queue, e) \in Seq(StreamEvent)
         /\ Heard(Live!Sent(queue, e)) \subseteq Heard(queue) \cup {e}
<1>1. Append(queue, e) \in Seq(StreamEvent)
      /\ Heard(Append(queue, e)) \subseteq Heard(queue) \cup {e}
  <2>1. /\ Append(queue, e) \in Seq(StreamEvent) /\ Len(queue) \in Nat
        /\ DOMAIN Append(queue, e) = 1 .. Len(queue) + 1 /\ DOMAIN queue = 1 .. Len(queue)
        /\ \A i \in 1 .. Len(queue) : Append(queue, e)[i] = queue[i]
        /\ Append(queue, e)[Len(queue) + 1] = e
    OBVIOUS
  <2>2. ASSUME NEW i \in 1 .. Len(queue) + 1
        PROVE  i \in 1 .. Len(queue) \/ i = Len(queue) + 1
    BY <2>1
  <2> DEFINE all == Append(queue, e)
  <2> HIDE DEF all
  <2>3. \A i \in DOMAIN all : all[i] \in Heard(queue) \cup {e}
    BY <2>1, <2>2 DEF Heard, all
  <2> QED BY <2>1, <2>3 DEF Heard, all
<1> QED BY <1>1 DEF Live!Sent

LEMMA TailIs ==
  ASSUME NEW queue \in Seq(StreamEvent), queue # <<>>
  PROVE  /\ Tail(queue) \in Seq(StreamEvent) /\ Heard(Tail(queue)) \subseteq Heard(queue)
         /\ Head(queue) \in Heard(queue) /\ Head(queue) \in StreamEvent
<1>1. /\ Tail(queue) \in Seq(StreamEvent) /\ Len(queue) \in Nat /\ Len(queue) >= 1
      /\ DOMAIN queue = 1 .. Len(queue) /\ DOMAIN Tail(queue) = 1 .. Len(queue) - 1
      /\ \A i \in 1 .. Len(queue) - 1 : Tail(queue)[i] = queue[i + 1]
      /\ Head(queue) = queue[1] /\ Head(queue) \in StreamEvent
  OBVIOUS
<1>2. \A i \in 1 .. Len(queue) - 1 : i + 1 \in 1 .. Len(queue)
  BY <1>1
<1>3. 1 \in 1 .. Len(queue)
  BY <1>1
<1> DEFINE rest == Tail(queue)
<1>4. \A i \in DOMAIN rest : rest[i] \in Heard(queue)
  BY <1>1, <1>2 DEF Heard
<1> HIDE DEF rest
<1>5. Heard(rest) \subseteq Heard(queue)
  BY <1>4 DEF Heard
<1> QED BY <1>1, <1>3, <1>5 DEF Heard, rest

LEMMA ReplayableIs ==
  ASSUME NEW queue \in Seq(StreamEvent)
  PROVE  /\ Live!Replayable(queue) \in Seq(StreamEvent)
         /\ \A e \in Heard(Live!Replayable(queue)) : e \in Heard(queue) /\ Live!IsLasting(e)
<1> DEFINE at == {i \in DOMAIN queue : Live!IsLasting(queue[i])}
           nth(i) == Cardinality({j \in at : j <= i})
           n == Cardinality(at)
<1>1. at \subseteq 1 .. Len(queue) /\ Len(queue) \in Nat
  OBVIOUS
<1>2. IsFiniteSet(at) /\ n \in Nat /\ at \subseteq Nat
  <2>1. IsFiniteSet(1 .. Len(queue)) /\ 1 .. Len(queue) \subseteq Nat
    BY <1>1, FS_Interval
  <2> HIDE DEF at
  <2> QED BY <1>1, <2>1, FS_Subset, FS_CardinalityType
<1>3. \A i \in at :
        queue[i] \in StreamEvent /\ queue[i] \in Heard(queue) /\ Live!IsLasting(queue[i])
  BY <1>1 DEF Heard
<1>4. Live!Replayable(queue) = [k \in 1 .. n |-> queue[CHOOSE i \in at : nth(i) = k]]
  BY DEF Live!Replayable, Live!Cardinality, Cardinality
<1> HIDE DEF at
<1>5. ASSUME NEW i \in at
      PROVE  /\ IsFiniteSet({j \in at : j <= i}) /\ nth(i) \in 1 .. n
             /\ \A k \in at : k < i => nth(k) # nth(i)
  <2> DEFINE S(k) == {j \in at : j <= k}
  <2>1. IsFiniteSet(S(i)) /\ nth(i) \in Nat /\ nth(i) <= n
    BY <1>2, FS_Subset, FS_CardinalityType
  <2>2. i \in S(i)
    BY <1>2
  <2>3. IsFiniteSet(S(i) \ {i}) /\ Cardinality(S(i) \ {i}) = nth(i) - 1
    BY <2>1, <2>2, FS_RemoveElement
  <2>4. Cardinality(S(i) \ {i}) \in Nat
    BY <2>3, FS_CardinalityType
  <2>5. ASSUME NEW k \in at, k < i
        PROVE  nth(k) # nth(i)
    <3>1. S(k) \subseteq S(i) \ {i}
      <4> HIDE DEF nth
      <4>1. k \in Nat /\ i \in Nat /\ \A j \in at : j \in Nat
        BY <1>2, <1>5, <2>5
      <4>2. \A j \in at : j <= k => j <= i /\ j # i
        BY <2>5, <4>1
      <4> QED BY <4>2, Zenon
    <3>2. nth(k) <= Cardinality(S(i) \ {i}) /\ nth(k) \in Nat
      BY <2>3, <3>1, FS_Subset, FS_CardinalityType
    <3> HIDE DEF S, nth
    <3> QED BY <2>1, <2>3, <3>2
  <2> HIDE DEF nth
  <2>6. nth(i) \in 1 .. n
    <3>1. nth(i) - 1 \in Nat
      BY <2>3, <2>4
    <3> QED BY <1>2, <2>1, <3>1
  <2> QED BY <2>1, <2>5, <2>6 DEF nth
<1> DEFINE F == [i \in at |-> nth(i)]
           T == {F[i] : i \in at}
<1>6. \A i \in at : nth(i) \in 1 .. n
  BY <1>5
<1>7. \A i, j \in at : nth(i) = nth(j) => i = j
  <2>1. \A i \in at : \A k \in at : k < i => nth(k) # nth(i)
    BY <1>5
  <2> HIDE DEF nth
  <2> QED BY <1>2, <2>1
<1> HIDE DEF nth
<1>8. F \in Surjection(at, T) /\ F \in Injection(at, T)
  BY <1>7 DEF Surjection, Injection, IsInjective
<1>9. T \subseteq 1 .. n
  BY <1>6
<1> HIDE DEF F, T
<1>10. Cardinality(T) = n
  BY <1>2, <1>8, FS_Surjection
<1>11. IsFiniteSet(1 .. n) /\ Cardinality(1 .. n) = n
  BY <1>2, FS_Interval
<1>12. T = 1 .. n
  BY <1>9, <1>10, <1>11, FS_Subset
<1>13. \A k \in 1 .. n : \E i \in at : nth(i) = k
  BY <1>12 DEF T, F
<1> DEFINE one(k) == queue[CHOOSE i \in at : nth(i) = k]
           len == n
<1>14. \A k \in 1 .. n : one(k) \in StreamEvent /\ one(k) \in Heard(queue) /\ Live!IsLasting(one(k))
  BY <1>3, <1>13
<1>15. Live!Replayable(queue) = [k \in 1 .. len |-> one(k)]
  BY <1>4
<1>16. len \in Nat /\ \A k \in 1 .. len : one(k) \in StreamEvent /\ one(k) \in Heard(queue)
                                         /\ Live!IsLasting(one(k))
  BY <1>2, <1>14
<1> HIDE DEF one, len
<1>17. /\ DOMAIN Live!Replayable(queue) = 1 .. len
       /\ \A k \in 1 .. len : Live!Replayable(queue)[k] = one(k)
  BY <1>15
<1>18. \A e \in Heard(Live!Replayable(queue)) : e \in Heard(queue) /\ Live!IsLasting(e)
  BY <1>16, <1>17 DEF Heard
<1> QED BY <1>15, <1>16, <1>18

\* A new effect has a number that nothing else has, no subscription and, with a thread to
\* show, a call; the subscription of the effect before it is to be unsubscribed.
LEMMA MountIs ==
  ASSUME Live!LiveAssumption, LiveShape, NEW t \in Thread \cup {NoThread}, Live!Mount(t)
  PROVE  /\ threadShown' = t /\ hook' \in LiveHook /\ early' \subseteq 1 .. MaxMount
         /\ calls' \subseteq LiveCall /\ jobs' \subseteq LiveJob
         /\ hook'.sub = 0 /\ ~hook'.open /\ hook'.timer = "off"
         /\ hook'.state \in {"offline", "syncing"}
         /\ \A j \in jobs' : \/ j \in jobs
                             \/ j.kind = "unsubscribe" /\ j.id = hook.sub /\ hook.sub # 0
         /\ jobs \subseteq jobs'
         /\ hook.sub # 0 => \E j \in jobs' : j.kind = "unsubscribe" /\ j.id = hook.sub
         /\ early' = (early \ {hook'.n}) \cup Live!Asking
         /\ t = NoThread => hook'.n = 0 /\ hook'.state = "offline" /\ calls' = calls
         /\ t # NoThread => /\ hook'.n # 0 /\ hook'.n # hook.n
                            /\ \A x \in jobs \cup subs : x.id # hook'.n
                            /\ \A c \in calls : c.n # hook'.n
                            /\ calls' = calls \cup {[n |-> hook'.n, thread |-> t, stage |-> "sent"]}
<1> DEFINE J == {[kind |-> "unsubscribe", id |-> n, thread |-> NoThread] : n \in {hook.sub} \ {0}}
<1>1. MaxMount \in Nat /\ 0 \in 0 .. MaxMount
  BY DEF Live!LiveAssumption
<1>2. threadShown' = t /\ jobs' = jobs \cup J
  BY DEF Live!Mount
<1>3. J \subseteq LiveJob
  BY DEF LiveShape, LiveHook, LiveJob
<1>4. jobs' \subseteq LiveJob
  <2>1. jobs \subseteq LiveJob
    BY DEF LiveShape
  <2> HIDE DEF J
  <2> QED BY <1>2, <1>3, <2>1
<1>j. /\ \A j \in J : j.kind = "unsubscribe" /\ j.id = hook.sub /\ hook.sub # 0
      /\ hook.sub # 0 => \E j \in J : j.kind = "unsubscribe" /\ j.id = hook.sub
  <2>1. \A j \in J : \E n \in {hook.sub} \ {0} :
                      j = [kind |-> "unsubscribe", id |-> n, thread |-> NoThread]
    OBVIOUS
  <2>2. hook.sub # 0 => [kind |-> "unsubscribe", id |-> hook.sub, thread |-> NoThread] \in J
    OBVIOUS
  <2> HIDE DEF J
  <2> QED BY <2>1, <2>2
<1> HIDE DEF J
<1>n. /\ jobs \subseteq jobs' /\ \A j \in jobs' : j \in jobs \/ j \in J
      /\ hook.sub # 0 => \E j \in jobs' : j.kind = "unsubscribe" /\ j.id = hook.sub
  BY <1>2, <1>j
<1>a. early \subseteq 1 .. MaxMount /\ Live!Asking \subseteq 1 .. MaxMount
  BY DEF LiveShape, LiveCall, Live!Asking
<1>5. CASE t = NoThread
  <2>1. hook' = Live!Offline /\ calls' = calls /\ early' = early \cup Live!Asking
    BY <1>5 DEF Live!Mount
  <2>2. Live!Offline \in LiveHook
    BY <1>1 DEF Live!Offline, LiveHook
  <2>3. hook'.sub = 0 /\ ~hook'.open /\ hook'.state = "offline" /\ hook'.n = 0
        /\ hook'.timer = "off"
    BY <2>1 DEF Live!Offline
  <2>4. calls' \subseteq LiveCall
    BY <2>1 DEF LiveShape
  <2>5. 0 \notin early
    BY DEF LiveShape
  <2> QED BY <1>2, <1>4, <1>j, <1>n, <1>a, <1>5, <2>1, <2>2, <2>3, <2>4, <2>5
<1>6. CASE t # NoThread
  <2>1. PICK n \in Live!Fresh : /\ hook' = [Live!Offline EXCEPT !.n = n, !.state = "syncing"]
                           /\ calls' = calls \cup {[n |-> n, thread |-> t, stage |-> "sent"]}
                           /\ early' = (early \ {n}) \cup Live!Asking
    BY <1>6 DEF Live!Mount
  <2>2. n \in 1 .. MaxMount /\ n \notin Live!Numbered
    BY <2>1 DEF Live!Fresh
  <2>3. n # 0 /\ n \in 0 .. MaxMount
    BY <1>1, <2>2
  <2>4. hook' = [n |-> n, state |-> "syncing", open |-> FALSE, sub |-> 0, timer |-> "off"]
    BY <2>1 DEF Live!Offline
  <2>5. hook' \in LiveHook
    BY <1>1, <2>3, <2>4 DEF LiveHook
  <2>6. [n |-> n, thread |-> t, stage |-> "sent"] \in LiveCall
    BY <1>6, <2>2 DEF LiveCall
  <2>7. n # hook.n /\ (\A x \in jobs \cup subs : x.id # n) /\ \A c \in calls : c.n # n
    BY <2>2 DEF Live!Numbered
  <2>8. hook'.n = n /\ hook'.sub = 0 /\ ~hook'.open /\ hook'.state = "syncing"
        /\ hook'.timer = "off"
    BY <2>4
  <2>9. calls' \subseteq LiveCall
    BY <2>1, <2>6 DEF LiveShape
  <2> QED BY <1>2, <1>4, <1>j, <1>n, <1>a, <1>6, <2>1, <2>3, <2>5, <2>7, <2>8, <2>9
<1> QED BY <1>5, <1>6

\* The types are kept.
LEMMA ShapeStep ==
  ASSUME Live!LiveAssumption, LiveShape, [Live!Next]_Live!vars
  PROVE  LiveShape'
<1>0. /\ threadShown \in Thread \cup {NoThread} /\ resync \in BOOLEAN /\ trouble \in 0 .. MaxTrouble
      /\ hook \in LiveHook /\ (threadShown = NoThread => hook.timer = "off")
      /\ calls \subseteq LiveCall /\ gets \subseteq LiveGet
      /\ mind \in Mind /\ channel \in {"open", "down"} /\ events \in Seq(StreamEvent)
      /\ subs \subseteq LiveSub /\ fanout \subseteq LiveSub /\ jobs \subseteq LiveJob
      /\ early \subseteq 1 .. MaxMount
      /\ ThreadShape
  BY DEF LiveShape
<1>u. UNCHANGED <<alive, archived, turns, changing>> => ThreadShape'
  BY <1>0 DEF ThreadShape, Live!Running
<1>n. MaxTurn \in Nat /\ MaxTrouble \in Nat /\ MaxMount \in Nat
  BY DEF Live!LiveAssumption
<1>e. ASSUME NEW k \in {"patched", "heartbeat", "detached", "started", "completed"},
             NEW t \in Thread
      PROVE  Live!Sent(events, Live!Event(k, t)) \in Seq(StreamEvent)
  <2>1. Live!Event(k, t) \in StreamEvent
    BY <1>0 DEF Live!Event, StreamEvent, EventKind
  <2> QED BY <1>0, <2>1, SentIs
<1>g. ASSUME NEW t \in Thread, NEW r \in BOOLEAN
      PROVE  Live!List \in LiveGet /\ Live!Catalog \in LiveGet /\ Live!Resume(t, r) \in LiveGet
  <2>1. \A k \in {"list", "resume", "workspaces"}, u \in Thread \cup {NoThread}, b \in BOOLEAN,
           was \in SUBSET Thread : Live!Get(k, u, b, was) \in LiveGet
    BY DEF Live!Get, LiveGet
  <2>2. {u \in {t} : mind[u].busy \/ mind[u].turn} \in SUBSET Thread
    OBVIOUS
  <2>3. {u \in Thread : mind[u].turn} \in SUBSET Thread /\ {} \in SUBSET Thread
    OBVIOUS
  <2> QED BY <2>1, <2>2, <2>3, <1>g DEF Live!List, Live!Catalog, Live!Resume
<1>c. Live!Catalog \in LiveGet
  BY DEF Live!Catalog, Live!Get, LiveGet
<1>m. ASSUME NEW t \in Thread \cup {NoThread}, Live!Mount(t)
      PROVE  /\ threadShown' \in Thread \cup {NoThread} /\ hook' \in LiveHook
             /\ calls' \subseteq LiveCall /\ jobs' \subseteq LiveJob /\ hook'.timer = "off"
             /\ early' \subseteq 1 .. MaxMount
  BY <1>m, MountIs
<1>1. ASSUME NEW t \in Thread \cup {NoThread}, Live!Show(t) PROVE LiveShape'
  BY <1>0, <1>u, <1>1, <1>m DEF LiveShape, Live!Show, Live!threads
<1>2. ASSUME NEW c \in calls, Live!SubscribeAnswered(c) PROVE LiveShape'
  <2>1. c.n \in 0 .. MaxMount
    BY <1>0, <1>n DEF LiveCall
  <2>2. hook' \in LiveHook /\ (threadShown = NoThread => hook'.timer = "off")
    BY <1>0, <1>2, <2>1 DEF Live!SubscribeAnswered, LiveHook
  <2> QED BY <1>0, <1>u, <1>2, <2>2
             DEF LiveShape, Live!SubscribeAnswered, Live!service, Live!threads
<1>3. ASSUME NEW c \in calls, Live!SubscribeChecks(c) \/ Live!SubscribeInserts(c) PROVE LiveShape'
  <2>1. \A s \in {"checked", "no", "yes"} : [c EXCEPT !.stage = s] \in LiveCall
    BY <1>0 DEF LiveCall
  <2>2. calls' \subseteq LiveCall
    BY <1>0, <1>3, <2>1 DEF Live!SubscribeChecks, Live!SubscribeInserts
  <2>3. c.thread \in Thread /\ [id |-> c.n, thread |-> c.thread] \in LiveSub
    BY <1>0 DEF LiveCall, LiveSub
  <2> QED BY <1>0, <1>u, <1>3, <1>e, <2>2, <2>3
             DEF LiveShape, Live!SubscribeChecks, Live!SubscribeInserts, Live!service,
                 Live!threads
<1>4. ASSUME Live!Receive PROVE LiveShape'
  <2> DEFINE e == Head(events)
  <2>1. /\ events # <<>> /\ events' = Tail(events) /\ (Live!LiveEvent(e) \/ Live!TurnEvent(e))
        /\ UNCHANGED <<threadShown, calls, gets, resync, channel, Live!service, trouble, early>>
    BY <1>0, <1>4 DEF Live!Receive
  <2>2. e \in StreamEvent /\ events' \in Seq(StreamEvent)
    BY <1>0, <2>1, TailIs
  <2> HIDE DEF e
  <2>3. hook' \in LiveHook /\ (threadShown = NoThread => hook'.timer = "off")
    <3>1. e.thread \in Thread /\ e.thread # NoThread
      BY <2>2 DEF StreamEvent, Live!LiveAssumption
    <3> QED BY <1>0, <2>1, <3>1 DEF Live!LiveEvent, Live!TurnEvent, LiveHook
  <2>4. mind' \in Mind
    <3> DEFINE start == e.kind = "started"
    <3>1. mind' = mind \/ mind' = [mind EXCEPT ![e.thread] = [busy |-> start, turn |-> start]]
      BY <2>1 DEF Live!LiveEvent, Live!TurnEvent
    <3>2. start \in BOOLEAN /\ e.thread \in Thread
      BY <2>2 DEF StreamEvent
    <3> HIDE DEF start
    <3>3. [busy |-> start, turn |-> start] \in [busy : BOOLEAN, turn : BOOLEAN]
      BY <3>2, Zenon
    <3> QED BY <1>0, <3>1, <3>2, <3>3 DEF Mind
  <2> QED BY <1>0, <1>u, <2>1, <2>2, <2>3, <2>4 DEF LiveShape, Live!service, Live!threads
<1>h. Live!HearsFailure \in LiveHook /\ (threadShown = NoThread => Live!HearsFailure.timer = "off")
  BY <1>0 DEF Live!HearsFailure, LiveHook
<1>5. ASSUME Live!StreamFails PROVE LiveShape'
  <2>1. trouble' \in 0 .. MaxTrouble
    BY <1>0, <1>5, <1>n DEF Live!StreamFails
  <2>2. events' \in Seq(StreamEvent)
    BY <1>0, <1>5, ReplayableIs DEF Live!StreamFails
  <2> QED BY <1>0, <1>u, <1>5, <1>h, <2>1, <2>2
             DEF LiveShape, Live!StreamFails, Live!service, Live!threads
<1>6. ASSUME Live!StreamOpens PROVE LiveShape'
  <2>1. hook' \in LiveHook /\ (threadShown = NoThread => hook'.timer = "off")
    BY <1>0, <1>6 DEF Live!StreamOpens, LiveHook
  <2> QED BY <1>0, <1>u, <1>6, <2>1 DEF LiveShape, Live!StreamOpens, Live!service, Live!threads
<1>7. ASSUME Live!RefreshTimer \/ Live!ResyncTimer PROVE LiveShape'
  <2>1. gets' \subseteq LiveGet
    <3>1. CASE Live!RefreshTimer
      <4>1. threadShown \in Thread
        BY <1>0, <3>1 DEF Live!RefreshTimer
      <4> DEFINE r == hook.timer = "detached"
      <4>2. gets' = gets \cup {Live!List, Live!Resume(threadShown, r)} /\ r \in BOOLEAN
        BY <3>1 DEF Live!RefreshTimer, Live!Requested
      <4> HIDE DEF r
      <4> QED BY <1>0, <1>g, <4>1, <4>2
    <3>2. CASE Live!ResyncTimer
      <4>1. gets' = gets \cup ({Live!Catalog} \cup
                       IF threadShown = NoThread THEN {}
                       ELSE {Live!List, Live!Resume(threadShown, TRUE)})
        BY <3>2 DEF Live!ResyncTimer, Live!Requested
      <4> QED BY <1>0, <1>c, <1>g, <4>1
    <3> QED BY <1>7, <3>1, <3>2
  <2>2. hook' \in LiveHook /\ (threadShown = NoThread => hook'.timer = "off")
    BY <1>0, <1>7 DEF Live!RefreshTimer, Live!ResyncTimer, LiveHook
  <2> QED BY <1>0, <1>u, <1>7, <2>1, <2>2
             DEF LiveShape, Live!RefreshTimer, Live!ResyncTimer, Live!service, Live!threads
<1>8. ASSUME NEW g \in gets, Live!Read(g) PROVE LiveShape'
  <2>1. \E a \in {"yes", "no"}, s \in SUBSET Thread, f \in SUBSET Thread :
          gets' = (gets \ {g}) \cup {[g EXCEPT !.answer = a, !.seen = s, !.found = f]}
    <3> DEFINE a == IF g.kind = "resume" /\ g.thread \notin alive THEN "no" ELSE "yes"
               s == IF g.kind = "list" THEN alive ELSE {}
               f == IF g.kind = "list" THEN {t \in alive : Live!Running(t)} ELSE {}
    <3>1. gets' = (gets \ {g}) \cup {[g EXCEPT !.answer = a, !.seen = s, !.found = f]}
      BY <1>8 DEF Live!Read
    <3>2. a \in {"yes", "no"} /\ s \in SUBSET Thread /\ f \in SUBSET Thread
      BY <1>0 DEF ThreadShape
    <3> HIDE DEF a, s, f
    <3> QED BY <3>1, <3>2
  <2>2. gets' \subseteq LiveGet
    BY <1>0, <2>1 DEF LiveGet
  <2>3. fanout' \subseteq LiveSub
    BY <1>0, <1>8 DEF Live!Read, Live!Of
  <2> QED BY <1>0, <1>u, <1>8, <2>2, <2>3 DEF LiveShape, Live!Read, Live!threads
<1>9. ASSUME NEW g \in gets, Live!Refreshed(g) PROVE LiveShape'
  <2>1. mind' \in Mind
    <3>1. mind' = mind \/ Live!Listed(g) \/ Live!Resumed(g)
      BY <1>9 DEF Live!Refreshed
    <3>2. Live!AtRest \in [busy : BOOLEAN, turn : BOOLEAN]
      BY DEF Live!AtRest
    <3>3. \A t \in Thread : mind[t] \in [busy : BOOLEAN, turn : BOOLEAN]
                           /\ [mind[t] EXCEPT !.busy = TRUE] \in [busy : BOOLEAN, turn : BOOLEAN]
      BY <1>0 DEF Mind
    <3>4. Live!Listed(g) => mind' \in Mind
      BY <3>2, <3>3 DEF Live!Listed, Mind
    <3>5. Live!Resumed(g) => mind' \in Mind
      BY <1>0, <3>2 DEF Live!Resumed, Mind
    <3> QED BY <1>0, <3>1, <3>4, <3>5
  <2>2. gets' \subseteq LiveGet
    BY <1>0, <1>9 DEF Live!Refreshed, Live!Done
  <2> QED BY <1>0, <1>u, <1>9, <2>1, <2>2 DEF LiveShape, Live!Refreshed, Live!service, Live!threads
<1>10. ASSUME NEW g \in gets, Live!Reloaded(g) PROVE LiveShape'
  <2>1. gets' \subseteq LiveGet
    BY <1>0, <1>10 DEF Live!Reloaded, Live!Done
  <2>2. /\ threadShown' \in Thread \cup {NoThread} /\ hook' \in LiveHook
        /\ calls' \subseteq LiveCall /\ jobs' \subseteq LiveJob
        /\ early' \subseteq 1 .. MaxMount
        /\ (threadShown' = NoThread => hook'.timer = "off")
    BY <1>0, <1>10, <1>m DEF Live!Reloaded
  <2> QED BY <1>0, <1>u, <1>10, <2>1, <2>2 DEF LiveShape, Live!Reloaded, Live!threads
<1>11. ASSUME NEW t \in Thread, Live!TurnChanges(t) PROVE LiveShape'
  <2>1. /\ turns[t] < MaxTurn /\ turns' = [turns EXCEPT ![t] = turns[t] + 1]
        /\ alive' = alive \cup {t} /\ changing' = [changing EXCEPT ![t] = "written"]
        /\ UNCHANGED <<Live!client, channel, events, archived, subs, fanout, jobs, trouble, early>>
    BY <1>0, <1>11 DEF Live!TurnChanges
  <2>2. turns[t] + 1 \in 0 .. MaxTurn + 1 /\ turns[t] + 1 # MaxTurn + 1
    BY <1>0, <1>n, <2>1 DEF ThreadShape
  <2>3. turns' \in [Thread -> 0 .. MaxTurn + 1]
    BY <1>0, <2>1, <2>2 DEF ThreadShape
  <2>4. \A u \in Thread : turns'[u] = MaxTurn + 1 => turns'[u] = turns[u]
    BY <1>0, <2>1, <2>2 DEF ThreadShape
  <2>5. \A u \in Thread : turns'[u] = MaxTurn + 1 => ~Live!Running(u)'
    BY <1>0, <2>4 DEF Live!Running, ThreadShape
  <2>6. ThreadShape'
    BY <1>0, <2>1, <2>3, <2>5 DEF ThreadShape
  <2> QED BY <1>0, <2>1, <2>6 DEF LiveShape, Live!client
<1>12. ASSUME NEW t \in Thread, Live!PublishUpdate(t) PROVE LiveShape'
  <2>1. ThreadShape' /\ fanout' \subseteq LiveSub
    BY <1>0, <1>12 DEF Live!PublishUpdate, Live!Of, ThreadShape, Live!Running
  <2> QED BY <1>0, <1>12, <2>1 DEF LiveShape, Live!PublishUpdate, Live!client
<1>13. ASSUME NEW t \in Thread, Live!PublishTurn(t) PROVE LiveShape'
  <2>1. events' \in Seq(StreamEvent)
    BY <1>0, <1>13, <1>e DEF Live!PublishTurn
  <2>2. ThreadShape'
    BY <1>0, <1>13 DEF Live!PublishTurn, ThreadShape, Live!Running
  <2> QED BY <1>0, <1>13, <2>1, <2>2 DEF LiveShape, Live!PublishTurn, Live!client
<1>14. ASSUME NEW t \in Thread, Live!Archive(t) PROVE LiveShape'
  <2>1. trouble' \in 0 .. MaxTrouble
    BY <1>0, <1>14, <1>n DEF Live!Archive
  <2>2. [kind |-> "archive", id |-> 0, thread |-> t] \in LiveJob
    BY <1>0, <1>n DEF LiveJob
  <2>3. ThreadShape'
    BY <1>0, <1>14 DEF Live!Archive, ThreadShape, Live!Running
  <2> QED BY <1>0, <1>14, <2>1, <2>2, <2>3 DEF LiveShape, Live!Archive, Live!client
<1>15. ASSUME NEW s \in fanout, Live!Drain(s) PROVE LiveShape'
  <2>1. events' \in Seq(StreamEvent)
    BY <1>0, <1>15, <1>e DEF Live!Drain, LiveSub
  <2> QED BY <1>0, <1>u, <1>15, <2>1 DEF LiveShape, Live!Drain, Live!client, Live!threads
<1>16. ASSUME NEW s \in subs, Live!Heartbeat(s) PROVE LiveShape'
  <2>1. events' \in Seq(StreamEvent)
    BY <1>0, <1>16, <1>e DEF Live!Heartbeat, LiveSub
  <2> QED BY <1>0, <1>u, <1>16, <2>1
             DEF LiveShape, Live!Heartbeat, Live!client, Live!service, Live!threads
<1>17. ASSUME NEW j \in jobs, Live!Unsubscribe(j) \/ Live!DetachAll(j) PROVE LiveShape'
  <2>1. PICK gone \in SUBSET subs : Live!Remove(gone, j)
    BY <1>0, <1>17 DEF Live!Unsubscribe, Live!DetachAll, Live!Of
  <2>2. \A s \in gone : [kind |-> "detach", id |-> s.id, thread |-> s.thread] \in LiveJob
    BY <1>0, <1>n DEF LiveSub, LiveJob
  <2>3. jobs' \subseteq LiveJob /\ subs' \subseteq LiveSub
    BY <1>0, <2>1, <2>2 DEF Live!Remove
  <2> QED BY <1>0, <1>u, <1>17, <2>3
             DEF LiveShape, Live!Unsubscribe, Live!DetachAll, Live!client, Live!threads
<1>18. ASSUME NEW j \in jobs, Live!Detach(j) PROVE LiveShape'
  <2>1. events' \in Seq(StreamEvent)
    <3>1. j.kind = "detach" /\ j.thread \in Thread
      BY <1>0, <1>18 DEF Live!Detach, LiveJob
    <3> QED BY <1>18, <1>e, <3>1 DEF Live!Detach
  <2> QED BY <1>0, <1>u, <1>18, <2>1 DEF LiveShape, Live!Detach, Live!client, Live!threads
<1>19. ASSUME Live!Restart PROVE LiveShape'
  <2>1. trouble' \in 0 .. MaxTrouble
    BY <1>0, <1>19, <1>n DEF Live!Restart
  <2>2. \A t \in Thread : Live!Running(t) => turns[t] + 1 \in 0 .. MaxTurn + 1
    <3> SUFFICES ASSUME NEW t \in Thread, Live!Running(t) PROVE turns[t] + 1 \in 0 .. MaxTurn + 1
      OBVIOUS
    <3>1. turns[t] \in 0 .. MaxTurn + 1 /\ turns[t] # MaxTurn + 1
      BY <1>0 DEF ThreadShape
    <3> QED BY <1>n, <3>1
  <2>3. \A t \in Thread : Live!Running(t) => (turns[t] + 1) % 2 # 1
    <3>1. \A k \in Nat : k % 2 = 1 => (k + 1) % 2 # 1
      OBVIOUS
    <3>2. \A t \in Thread : turns[t] \in Nat
      BY <1>0, <1>n DEF ThreadShape
    <3> QED BY <3>1, <3>2 DEF Live!Running
  <2>4. turns' = [t \in Thread |-> IF Live!Running(t) THEN turns[t] + 1 ELSE turns[t]]
    BY <1>0, <1>19 DEF Live!Restart
  <2>5. turns' \in [Thread -> 0 .. MaxTurn + 1]
    BY <1>0, <2>2, <2>4 DEF ThreadShape
  <2>6. \A t \in Thread : turns'[t] = MaxTurn + 1 => ~Live!Running(t)'
    <3> SUFFICES ASSUME NEW t \in Thread PROVE turns'[t] % 2 # 1
      BY DEF Live!Running
    <3>1. CASE Live!Running(t)
      BY <2>3, <2>4, <3>1
    <3>2. CASE ~Live!Running(t)
      BY <2>4, <3>2 DEF Live!Running
    <3> QED BY <3>1, <3>2
  <2>7. calls' \subseteq LiveCall /\ gets' \subseteq LiveGet
    BY <1>0, <1>19 DEF Live!Restart, LiveCall, LiveGet
  <2>8. jobs' \subseteq LiveJob /\ <<>> \in Seq(StreamEvent)
    BY <1>0, <1>19 DEF Live!Restart
  <2>9. ThreadShape'
    BY <1>0, <1>19, <2>5, <2>6 DEF Live!Restart, ThreadShape
  <2> QED BY <1>0, <1>19, <1>h, <2>1, <2>7, <2>8, <2>9 DEF LiveShape, Live!Restart
<1>20. CASE UNCHANGED Live!vars
  BY <1>0, <1>u, <1>20 DEF LiveShape, Live!vars, Live!client, Live!service, Live!threads
<1> QED
  BY <1>20, <1>1, <1>2, <1>3, <1>4, <1>5, <1>6, <1>7, <1>8, <1>9, <1>10, <1>11, <1>12, <1>13, <1>14,
     <1>15, <1>16, <1>17, <1>18, <1>19 DEF Live!Next
\* A mount: the call of the effect before it, if one is under way, is of one disposed early.
LEMMA OwnMount ==
  ASSUME Live!LiveAssumption, LiveShape, OwnCall,
         NEW t \in Thread \cup {NoThread}, Live!Mount(t)
  PROVE  OwnCall' /\ (Cared /\ UNCHANGED subs => Cared')
<1>1. /\ threadShown' = t /\ hook'.sub = 0 /\ ~hook'.open /\ jobs \subseteq jobs'
      /\ \A j \in jobs' : \/ j \in jobs
                          \/ j.kind = "unsubscribe" /\ j.id = hook.sub /\ hook.sub # 0
      /\ hook.sub # 0 => \E j \in jobs' : j.kind = "unsubscribe" /\ j.id = hook.sub
      /\ early' = (early \ {hook'.n}) \cup Live!Asking
      /\ t = NoThread => hook'.n = 0 /\ hook'.state = "offline" /\ calls' = calls
      /\ t # NoThread => /\ hook'.n # 0 /\ hook'.n # hook.n
                         /\ \A x \in jobs \cup subs : x.id # hook'.n
                         /\ \A c \in calls : c.n # hook'.n
                         /\ calls' = calls \cup {[n |-> hook'.n, thread |-> t, stage |-> "sent"]}
  BY MountIs
<1>2. /\ \A c \in calls : c.n # 0
      /\ \A s \in subs : s.id # 0
  BY DEF LiveShape, LiveCall, LiveSub, Live!LiveAssumption
<1>3. \A n : n \in Live!Asking <=> n = hook.n /\ \E c \in calls : c.n = hook.n
  BY DEF Live!Asking
<1>4. /\ \A c \in calls : c.n = hook.n \/ c.n \in early
      /\ \A c, d \in calls : c.n = d.n => c = d
      /\ hook.sub \in {0, hook.n}
      /\ (\E c \in calls : c.n = hook.n) => hook.sub = 0
      /\ \A j \in jobs : j.kind = "unsubscribe" => j.id # 0 /\ j.id # hook.n /\ j.id \notin early
      /\ hook.n \notin early
  BY DEF OwnCall
<1>5. \A c \in calls : c.n # hook'.n /\ c.n \in early'
  BY <1>1, <1>2, <1>3, <1>4
<1>6. /\ \A c \in calls' : IF c.n = hook'.n THEN c.thread = threadShown' /\ hook'.sub = 0
                          ELSE c.n \in early'
      /\ \A c, d \in calls' : c.n = d.n => c = d
  <2>1. CASE t = NoThread
    BY <1>1, <1>4, <1>5, <2>1
  <2>2. CASE t # NoThread
    <3> DEFINE new == [n |-> hook'.n, thread |-> t, stage |-> "sent"]
    <3>1. new.n = hook'.n /\ new.thread = t /\ calls' = calls \cup {new}
      BY <1>1, <2>2
    <3> HIDE DEF new
    <3> QED BY <1>1, <1>4, <1>5, <3>1
  <2> QED BY <2>1, <2>2
<1>7. hook'.n \notin early'
  <2>1. t = NoThread => hook'.n \notin Live!Asking
    BY <1>1, <1>2, <1>3
  <2>2. t # NoThread => hook'.n \notin Live!Asking
    BY <1>1, <1>3
  <2> QED BY <1>1, <2>1, <2>2
<1>8. \A j \in jobs' : j.kind = "unsubscribe" => j.id \notin {0, hook'.n} \cup early'
  <2> SUFFICES ASSUME NEW j \in jobs', j.kind = "unsubscribe"
               PROVE  j.id # 0 /\ j.id # hook'.n /\ j.id \notin early'
    OBVIOUS
  <2>1. CASE j \in jobs
    <3>1. j.id # hook'.n
      BY <1>1, <1>4, <2>1
    <3> QED BY <1>1, <1>3, <1>4, <2>1, <3>1
  <2>2. CASE j.id = hook.sub /\ hook.sub # 0
    <3>1. j.id = hook.n /\ j.id # 0 /\ j.id \notin Live!Asking
      BY <1>3, <1>4, <2>2
    <3>2. j.id # hook'.n
      BY <1>1, <3>1
    <3> QED BY <1>1, <1>4, <3>1, <3>2
  <2> QED BY <1>1, <2>1, <2>2
<1>9. OwnCall'
  BY <1>1, <1>6, <1>7, <1>8 DEF OwnCall
<1>10. ASSUME Cared, UNCHANGED subs PROVE Cared'
  <2> SUFFICES ASSUME NEW s \in subs
               PROVE  \/ s.id \in early'
                      \/ \E c \in calls' : c.n = s.id /\ c.stage = "yes"
                      \/ \E j \in jobs' : j.kind = "unsubscribe" /\ j.id = s.id
    BY <1>10 DEF Cared
  <2>1. s.id # hook'.n
    BY <1>1, <1>2
  <2>2. \/ s.id = hook.sub
        \/ s.id \in early
        \/ \E c \in calls : c.n = s.id /\ c.stage = "yes"
        \/ \E j \in jobs : j.kind = "unsubscribe" /\ j.id = s.id
    BY <1>10 DEF Cared
  <2> QED BY <1>1, <1>2, <2>1, <2>2
<1> QED BY <1>9, <1>10

\* So it stays with any step; and every subscription stays cared for.
LEMMA OwnStep ==
  ASSUME Live!LiveAssumption, LiveShape, OwnCall, [Live!Next]_Live!vars
  PROVE  OwnCall' /\ (Cared => Cared')
<1>0. /\ \A c \in calls : IF c.n = hook.n THEN c.thread = threadShown /\ hook.sub = 0
                         ELSE c.n \in early
      /\ \A c, d \in calls : c.n = d.n => c = d
      /\ hook.sub \in {0, hook.n} /\ hook.n \notin early
      /\ threadShown = NoThread <=> hook.n = 0
      /\ hook.n = 0 => hook.state = "offline" /\ ~hook.open
      /\ \A j \in jobs : j.kind = "unsubscribe" => j.id \notin {0, hook.n} \cup early
  BY DEF OwnCall
<1>h. hook \in LiveHook
  BY DEF LiveShape
<1>k. ASSUME UNCHANGED <<threadShown, calls, early>>, hook'.n = hook.n, hook'.sub = hook.sub,
             hook.n = 0 => hook'.state = "offline" /\ ~hook'.open,
             \A j \in jobs' : j.kind = "unsubscribe" => j \in jobs
      PROVE  OwnCall'
  BY <1>0, <1>k DEF OwnCall
<1>c. ASSUME Cared, UNCHANGED <<calls, early>>, hook'.sub = hook.sub, subs' \subseteq subs,
             \A j \in jobs : j.kind = "unsubscribe" => j \in jobs' \/ \A s \in subs' : s.id # j.id
      PROVE  Cared'
  <2> SUFFICES ASSUME NEW s \in subs'
               PROVE  \/ s.id \in {hook'.sub} \cup early'
                      \/ \E c \in calls' : c.n = s.id /\ c.stage = "yes"
                      \/ \E j \in jobs' : j.kind = "unsubscribe" /\ j.id = s.id
    BY DEF Cared
  <2>1. \/ s.id \in {hook.sub} \cup early
        \/ \E c \in calls : c.n = s.id /\ c.stage = "yes"
        \/ \E j \in jobs : j.kind = "unsubscribe" /\ j.id = s.id
    BY <1>c DEF Cared
  <2> QED BY <1>c, <2>1
<1>1. ASSUME NEW t \in Thread \cup {NoThread}, Live!Show(t) PROVE OwnCall' /\ (Cared => Cared')
  BY <1>1, OwnMount DEF Live!Show
<1>2. ASSUME NEW c \in calls, Live!SubscribeAnswered(c) PROVE OwnCall' /\ (Cared => Cared')
  <2>1. /\ c.stage \in {"yes", "no"} /\ calls' = calls \ {c} /\ c.n # 0
        /\ UNCHANGED <<threadShown, jobs, subs, early>>
    BY <1>2 DEF Live!SubscribeAnswered, Live!service, LiveShape, LiveCall, Live!LiveAssumption
  <2>2. /\ hook'.n = hook.n
        /\ hook'.sub = IF c.n = hook.n /\ c.stage = "yes" THEN hook.n ELSE hook.sub
        /\ hook.n = 0 => hook' = hook
    BY <1>h, <1>2, <2>1 DEF Live!SubscribeAnswered, LiveHook
  <2>3. \A d \in calls' : d.n # c.n
    BY <1>0, <2>1
  <2>4. OwnCall'
    BY <1>0, <2>1, <2>2, <2>3 DEF OwnCall
  <2>5. ASSUME Cared PROVE Cared'
    <3> SUFFICES ASSUME NEW s \in subs
                 PROVE  \/ s.id \in {hook'.sub} \cup early
                        \/ \E d \in calls' : d.n = s.id /\ d.stage = "yes"
                        \/ \E j \in jobs : j.kind = "unsubscribe" /\ j.id = s.id
      BY <2>1 DEF Cared
    <3>1. \/ s.id \in {hook.sub} \cup early
          \/ \E d \in calls : d.n = s.id /\ d.stage = "yes"
          \/ \E j \in jobs : j.kind = "unsubscribe" /\ j.id = s.id
      BY <2>5 DEF Cared
    <3>2. s.id # 0
      BY DEF LiveShape, LiveSub, Live!LiveAssumption
    <3>3. s.id = c.n /\ c.stage = "yes" => s.id \in {hook'.sub} \cup early
      BY <1>0, <2>2
    <3>4. s.id = hook.sub => s.id = hook'.sub
      BY <1>0, <2>2, <3>2
    <3> QED BY <2>1, <3>1, <3>3, <3>4
  <2> QED BY <2>4, <2>5
<1>3. ASSUME NEW c \in calls, Live!SubscribeChecks(c) \/ Live!SubscribeInserts(c)
      PROVE  OwnCall' /\ (Cared => Cared')
  <2>1. PICK d : /\ calls' = (calls \ {c}) \cup {d} /\ d.n = c.n /\ d.thread = c.thread
                 /\ UNCHANGED <<threadShown, hook, jobs, early>> /\ c.stage # "yes"
                 /\ \/ subs' = subs
                    \/ d.stage = "yes" /\ subs' = subs \cup {[id |-> c.n, thread |-> c.thread]}
    <3>1. c \in LiveCall
      BY DEF LiveShape
    <3>2. \A s : [c EXCEPT !.stage = s].n = c.n /\ [c EXCEPT !.stage = s].thread = c.thread
                 /\ [c EXCEPT !.stage = s].stage = s
      BY <3>1 DEF LiveCall
    <3>3. CASE Live!SubscribeChecks(c)
      <4> DEFINE after == [c EXCEPT !.stage = IF c.thread \in alive THEN "checked" ELSE "no"]
      <4>1. after.n = c.n /\ after.thread = c.thread
        BY <3>2
      <4>2. /\ calls' = (calls \ {c}) \cup {after} /\ c.stage = "sent"
            /\ UNCHANGED <<threadShown, hook, jobs, subs, early>>
        BY <3>3 DEF Live!SubscribeChecks, Live!service
      <4> HIDE DEF after
      <4> QED BY <4>1, <4>2
    <3>4. CASE Live!SubscribeInserts(c)
      BY <3>2, <3>4 DEF Live!SubscribeInserts
    <3> QED BY <1>3, <3>3, <3>4
  <2>2. OwnCall'
    <3>1. \A e \in calls' : e = d \/ (e \in calls /\ e.n # c.n)
      BY <1>0, <2>1
    <3> QED BY <1>0, <2>1, <3>1 DEF OwnCall
  <2>3. ASSUME Cared PROVE Cared'
    <3> SUFFICES ASSUME NEW s \in subs'
                 PROVE  \/ s.id \in {hook.sub} \cup early
                        \/ \E e \in calls' : e.n = s.id /\ e.stage = "yes"
                        \/ \E j \in jobs : j.kind = "unsubscribe" /\ j.id = s.id
      BY <2>1 DEF Cared
    <3>1. CASE s \in subs
      <4>1. \/ s.id \in {hook.sub} \cup early
            \/ \E e \in calls : e.n = s.id /\ e.stage = "yes"
            \/ \E j \in jobs : j.kind = "unsubscribe" /\ j.id = s.id
        BY <2>3, <3>1 DEF Cared
      <4> QED BY <2>1, <4>1
    <3>2. CASE s \notin subs
      BY <2>1, <3>2
    <3> QED BY <3>1, <3>2
  <2> QED BY <2>2, <2>3
<1>4. ASSUME Live!Receive PROVE OwnCall' /\ (Cared => Cared')
  <2> DEFINE e == Head(events)
  <2>1. /\ events # <<>> /\ (Live!LiveEvent(e) \/ Live!TurnEvent(e))
        /\ UNCHANGED <<threadShown, calls, subs, jobs, early>>
    BY <1>4 DEF Live!Receive, Live!service
  <2>2. e.thread \in Thread /\ e.thread # NoThread
    <3>1. e \in StreamEvent
      BY <2>1, TailIs DEF LiveShape
    <3> QED BY <3>1 DEF StreamEvent, Live!LiveAssumption
  <2> HIDE DEF e
  <2>3. /\ hook'.n = hook.n /\ hook'.sub = hook.sub
        /\ hook.n = 0 => hook'.state = "offline" /\ ~hook'.open
    BY <1>0, <1>h, <2>1, <2>2 DEF Live!LiveEvent, Live!TurnEvent, LiveHook
  <2> QED BY <1>k, <1>c, <2>1, <2>3
<1>5. ASSUME Live!StreamFails \/ Live!StreamOpens PROVE OwnCall' /\ (Cared => Cared')
  <2>1. /\ hook'.n = hook.n /\ hook'.sub = hook.sub
        /\ hook.n = 0 => hook'.state = "offline" /\ ~hook'.open
    BY <1>0, <1>5, <1>h DEF Live!StreamFails, Live!StreamOpens, Live!HearsFailure, LiveHook
  <2> QED BY <1>k, <1>c, <1>5, <2>1 DEF Live!StreamFails, Live!StreamOpens, Live!service
<1>6. ASSUME Live!RefreshTimer \/ Live!ResyncTimer PROVE OwnCall' /\ (Cared => Cared')
  <2>1. /\ hook'.n = hook.n /\ hook'.sub = hook.sub
        /\ hook.n = 0 => hook'.state = "offline" /\ ~hook'.open
    BY <1>0, <1>6, <1>h DEF Live!RefreshTimer, Live!ResyncTimer, LiveHook
  <2> QED BY <1>k, <1>c, <1>6, <2>1 DEF Live!RefreshTimer, Live!ResyncTimer, Live!service
<1>7. ASSUME NEW g \in gets, Live!Read(g) \/ Live!Refreshed(g) PROVE OwnCall' /\ (Cared => Cared')
  <2>1. UNCHANGED <<threadShown, hook, calls, subs, jobs, early>>
    BY <1>7 DEF Live!Read, Live!Refreshed, Live!service
  <2> QED BY <1>0, <1>k, <1>c, <2>1
<1>8. ASSUME NEW g \in gets, Live!Reloaded(g) PROVE OwnCall' /\ (Cared => Cared')
  <2>1. CASE UNCHANGED <<threadShown, hook, calls, jobs, early>>
    BY <1>0, <1>k, <1>c, <1>8, <2>1 DEF Live!Reloaded
  <2>2. CASE Live!Mount(threadShown)
    BY <1>8, <2>2, OwnMount DEF Live!Reloaded, LiveShape
  <2> QED BY <1>8, <2>1, <2>2 DEF Live!Reloaded
<1>9. ASSUME NEW t \in Thread,
             Live!TurnChanges(t) \/ Live!PublishUpdate(t) \/ Live!PublishTurn(t) \/ Live!Archive(t)
      PROVE  OwnCall' /\ (Cared => Cared')
  <2>1. /\ UNCHANGED <<threadShown, hook, calls, subs, early>> /\ jobs \subseteq jobs'
        /\ \A j \in jobs' : j \in jobs \/ j.kind = "archive"
    BY <1>9 DEF Live!TurnChanges, Live!PublishUpdate, Live!PublishTurn, Live!Archive, Live!client
  <2> QED BY <1>0, <1>k, <1>c, <2>1
<1>10. ASSUME \/ \E s \in fanout : Live!Drain(s)
              \/ \E s \in subs : Live!Heartbeat(s)
              \/ \E j \in jobs : Live!Detach(j)
              \/ UNCHANGED Live!vars
       PROVE  OwnCall' /\ (Cared => Cared')
  <2>1. /\ UNCHANGED <<threadShown, hook, calls, subs, early>> /\ jobs' \subseteq jobs
        /\ \A j \in jobs : j.kind = "unsubscribe" => j \in jobs'
    BY <1>10 DEF Live!Drain, Live!Heartbeat, Live!Detach, Live!vars, Live!client, Live!service
  <2> QED BY <1>0, <1>k, <1>c, <2>1
<1>11. ASSUME NEW j \in jobs, Live!Unsubscribe(j) \/ Live!DetachAll(j)
       PROVE  OwnCall' /\ (Cared => Cared')
  <2>1. PICK gone \in SUBSET subs :
          /\ UNCHANGED <<threadShown, hook, calls, early>> /\ Live!Remove(gone, j)
          /\ j.kind = "unsubscribe" => gone = {s \in subs : s.id = j.id}
    <3>1. CASE Live!Unsubscribe(j)
      BY <3>1 DEF Live!Unsubscribe, Live!client
    <3>2. CASE Live!DetachAll(j)
      BY <3>2 DEF Live!DetachAll, Live!client, Live!Of
    <3> QED BY <1>11, <3>1, <3>2
  <2>2. /\ subs' = subs \ gone
        /\ \A k \in jobs' : k \in jobs \/ k.kind = "detach"
        /\ \A k \in jobs : k = j \/ k \in jobs'
    BY <2>1 DEF Live!Remove
  <2>3. \A k \in jobs : k.kind = "unsubscribe" => k \in jobs' \/ \A s \in subs' : s.id # k.id
    BY <2>1, <2>2
  <2> QED BY <1>0, <1>k, <1>c, <2>1, <2>2, <2>3
<1>12. ASSUME Live!Restart PROVE OwnCall' /\ (Cared => Cared')
  <2>1. /\ subs' = {} /\ UNCHANGED <<threadShown, early>> /\ jobs' \subseteq jobs
        /\ calls' = {IF c.stage = "yes" THEN c ELSE [c EXCEPT !.stage = "no"] : c \in calls}
        /\ hook' = Live!HearsFailure
    BY <1>12 DEF Live!Restart
  <2>2. /\ hook'.n = hook.n /\ hook'.sub = hook.sub
        /\ hook.n = 0 => hook'.state = "offline" /\ ~hook'.open
    BY <1>0, <1>h, <2>1 DEF Live!HearsFailure, LiveHook
  <2>3. \A c \in calls : /\ [c EXCEPT !.stage = "no"].n = c.n
                         /\ [c EXCEPT !.stage = "no"].thread = c.thread
    BY DEF LiveShape, LiveCall
  <2>4. /\ \A c \in calls' : IF c.n = hook.n THEN c.thread = threadShown /\ hook.sub = 0
                            ELSE c.n \in early
        /\ \A c, d \in calls' : c.n = d.n => c = d
    <3> DEFINE after(c) == IF c.stage = "yes" THEN c ELSE [c EXCEPT !.stage = "no"]
    <3>1. \A c \in calls : after(c).n = c.n /\ after(c).thread = c.thread
      BY <2>3
    <3>2. calls' = {after(c) : c \in calls}
      BY <2>1
    <3> HIDE DEF after
    <3> QED BY <1>0, <3>1, <3>2
  <2>5. OwnCall'
    BY <1>0, <2>1, <2>2, <2>4 DEF OwnCall
  <2> QED BY <2>1, <2>5 DEF Cared
<1> QED BY <1>1, <1>2, <1>3, <1>4, <1>5, <1>6, <1>7, <1>8, <1>9, <1>10, <1>11, <1>12 DEF Live!Next

\* Once archived, archived.
LEMMA ArchivedStay ==
  ASSUME [Live!Next]_Live!vars
  PROVE  archived \subseteq archived'
BY DEF Live!Next, Live!vars, Live!client, Live!threads, Live!service, Live!Show,
       Live!SubscribeAnswered, Live!SubscribeChecks, Live!SubscribeInserts, Live!Receive,
       Live!StreamFails, Live!StreamOpens, Live!RefreshTimer, Live!ResyncTimer, Live!Read,
       Live!Refreshed, Live!Reloaded, Live!TurnChanges, Live!PublishUpdate, Live!PublishTurn,
       Live!Archive, Live!Drain, Live!Heartbeat, Live!Unsubscribe, Live!Detach, Live!DetachAll,
       Live!Restart

\* Nothing makes a sound for a thread that nobody is subscribed to, but a new subscription.
LEMMA QuietStep ==
  ASSUME LiveShape, [Live!Next]_Live!vars, NEW t \in Thread, Silent(t),
         \A c \in calls : Live!SubscribeInserts(c) => c.thread # t
  PROVE  Silent(t)'
<1>0. /\ \A s \in subs \cup fanout : s.thread # t
      /\ \A e \in Heard(events) : IsLife(e) => e.thread # t
  BY DEF Silent
<1>k. ASSUME subs' \cup fanout' \subseteq subs \cup fanout,
             \A e \in Heard(events') : IsLife(e) => e \in Heard(events) \/ e.thread # t
      PROVE  Silent(t)'
  BY <1>0, <1>k DEF Silent
<1>e. ASSUME NEW k \in {"patched", "heartbeat", "detached", "started", "completed"},
             NEW u \in Thread, events' = Live!Sent(events, Live!Event(k, u)),
             k \in {"patched", "heartbeat"} => u # t
      PROVE  \A e \in Heard(events') : IsLife(e) => e \in Heard(events) \/ e.thread # t
  <2> DEFINE new == Live!Event(k, u)
  <2>1. new \in StreamEvent /\ (IsLife(new) => new.thread # t)
    BY <1>e DEF Live!Event, StreamEvent, EventKind, IsLife
  <2> HIDE DEF new
  <2>2. Heard(events') \subseteq Heard(events) \cup {new}
    BY <1>e, <2>1, SentIs DEF LiveShape, new
  <2> QED BY <2>1, <2>2
<1>1. ASSUME \/ \E u \in Thread \cup {NoThread} : Live!Show(u)
             \/ \E c \in calls : Live!SubscribeAnswered(c) \/ Live!SubscribeChecks(c)
             \/ Live!StreamOpens \/ Live!RefreshTimer \/ Live!ResyncTimer
             \/ \E g \in gets : Live!Refreshed(g) \/ Live!Reloaded(g)
             \/ \E u \in Thread : Live!TurnChanges(u) \/ Live!Archive(u)
             \/ UNCHANGED Live!vars
      PROVE  Silent(t)'
  <2>1. UNCHANGED <<subs, fanout, events>>
    BY <1>1
       DEF Live!Show, Live!SubscribeAnswered, Live!SubscribeChecks, Live!StreamOpens,
           Live!RefreshTimer, Live!ResyncTimer, Live!Refreshed, Live!Reloaded, Live!TurnChanges,
           Live!Archive, Live!vars, Live!service
  <2> QED BY <2>1 DEF Silent
<1>2. ASSUME NEW c \in calls, Live!SubscribeInserts(c) PROVE Silent(t)'
  <2>1. c.thread # t /\ c.thread \in Thread
    BY <1>2 DEF LiveShape, LiveCall
  <2>2. /\ subs' = subs \cup {[id |-> c.n, thread |-> c.thread]} /\ fanout' = fanout
        /\ events' = Live!Sent(events, Live!Event("heartbeat", c.thread))
    BY <1>2 DEF Live!SubscribeInserts
  <2>3. \A e \in Heard(events') : IsLife(e) => e \in Heard(events) \/ e.thread # t
    BY <1>e, <2>1, <2>2
  <2> QED BY <1>0, <2>1, <2>2, <2>3 DEF Silent
<1>3. ASSUME Live!Receive PROVE Silent(t)'
  <2>1. events # <<>> /\ events' = Tail(events) /\ UNCHANGED <<subs, fanout>>
    BY <1>3 DEF Live!Receive, Live!service
  <2>2. Heard(events') \subseteq Heard(events)
    BY <2>1, TailIs DEF LiveShape
  <2> QED BY <1>k, <2>1, <2>2
<1>4. ASSUME Live!StreamFails PROVE Silent(t)'
  <2>1. events' = Live!Replayable(events) /\ UNCHANGED <<subs, fanout>>
    BY <1>4 DEF Live!StreamFails, Live!service
  <2>2. \A e \in Heard(events') : e \in Heard(events)
    BY <2>1, ReplayableIs DEF LiveShape
  <2> QED BY <1>k, <2>1, <2>2
<1>5. ASSUME \/ \E g \in gets : Live!Read(g)
             \/ \E u \in Thread : Live!PublishUpdate(u)
      PROVE  Silent(t)'
  <2>1. /\ UNCHANGED <<subs, events>>
        /\ fanout' = fanout \/ \E u : fanout' = fanout \cup Live!Of(u)
    BY <1>5 DEF Live!Read, Live!PublishUpdate
  <2>2. subs' \cup fanout' \subseteq subs \cup fanout
    BY <2>1 DEF Live!Of
  <2> QED BY <1>k, <2>1, <2>2
<1>6. ASSUME NEW u \in Thread, Live!PublishTurn(u) PROVE Silent(t)'
  <2>1. UNCHANGED <<subs, fanout>>
        /\ \E k \in {"started", "completed"} : events' = Live!Sent(events, Live!Event(k, u))
    BY <1>6 DEF Live!PublishTurn
  <2> QED BY <1>k, <1>e, <2>1
<1>7. ASSUME NEW s \in fanout, Live!Drain(s) PROVE Silent(t)'
  <2>1. /\ subs' = subs /\ fanout' \subseteq fanout /\ s.thread \in Thread /\ s.thread # t
        /\ events' = Live!Sent(events, Live!Event("patched", s.thread))
    BY <1>0, <1>7 DEF Live!Drain, LiveShape, LiveSub
  <2> QED BY <1>k, <1>e, <2>1
<1>8. ASSUME NEW s \in subs, Live!Heartbeat(s) PROVE Silent(t)'
  <2>1. /\ UNCHANGED <<subs, fanout>> /\ s.thread \in Thread /\ s.thread # t
        /\ events' = Live!Sent(events, Live!Event("heartbeat", s.thread))
    BY <1>0, <1>8 DEF Live!Heartbeat, Live!service, LiveShape, LiveSub
  <2> QED BY <1>k, <1>e, <2>1
<1>9. ASSUME NEW j \in jobs, Live!Unsubscribe(j) \/ Live!DetachAll(j) PROVE Silent(t)'
  <2>1. subs' \subseteq subs /\ UNCHANGED <<fanout, events>>
    BY <1>9 DEF Live!Unsubscribe, Live!DetachAll, Live!Remove
  <2> QED BY <1>k, <2>1
<1>10. ASSUME NEW j \in jobs, Live!Detach(j) PROVE Silent(t)'
  <2>1. /\ UNCHANGED <<subs, fanout>> /\ j.thread \in Thread
        /\ events' = Live!Sent(events, Live!Event("detached", j.thread))
    BY <1>10 DEF Live!Detach, LiveShape, LiveJob
  <2> QED BY <1>k, <1>e, <2>1
<1>11. ASSUME Live!Restart PROVE Silent(t)'
  <2>1. subs' = {} /\ fanout' = {} /\ events' = <<>>
    BY <1>11 DEF Live!Restart
  <2> QED BY <2>1 DEF Silent, Heard
<1> QED BY <1>1, <1>2, <1>3, <1>4, <1>5, <1>6, <1>7, <1>8, <1>9, <1>10, <1>11 DEF Live!Next

\* The threads the service has, but for archivals, are lost in a restart only.
LEMMA DeadStep ==
  ASSUME LiveShape, DeadAreSilent, [Live!Next]_Live!vars
  PROVE  DeadAreSilent'
<1>1. CASE Live!Restart
  <2>1. subs' = {} /\ fanout' = {} /\ events' = <<>>
        /\ calls' = {IF c.stage = "yes" THEN c ELSE [c EXCEPT !.stage = "no"] : c \in calls}
    BY <1>1 DEF Live!Restart
  <2>2. \A c \in calls' : c.stage # "checked"
    BY <2>1 DEF LiveShape, LiveCall
  <2> QED BY <2>1, <2>2 DEF DeadAreSilent, Silent, Heard
<1>2. CASE ~Live!Restart
  <2>1. alive \subseteq alive' \cup archived'
    BY <1>2
       DEF Live!Next, Live!vars, Live!client, Live!threads, Live!service, Live!Show,
           Live!SubscribeAnswered, Live!SubscribeChecks, Live!SubscribeInserts, Live!Receive,
           Live!StreamFails, Live!StreamOpens, Live!RefreshTimer, Live!ResyncTimer, Live!Read,
           Live!Refreshed, Live!Reloaded, Live!TurnChanges, Live!PublishUpdate, Live!PublishTurn,
           Live!Archive, Live!Drain, Live!Heartbeat, Live!Unsubscribe, Live!Detach,
           Live!DetachAll
  <2>2. ASSUME NEW c \in calls', c.stage = "checked"
        PROVE  c \in calls \/ c.thread \in alive
    <3>1. ASSUME NEW t, Live!Mount(t), c \notin calls
          PROVE  FALSE
      <4>1. \E n : c = [n |-> n, thread |-> t, stage |-> "sent"]
        BY <3>1 DEF Live!Mount
      <4> QED BY <2>2, <4>1
    <3>2. CASE \E t \in Thread \cup {NoThread} : Live!Show(t)
      BY <3>1, <3>2 DEF Live!Show
    <3>3. CASE \E g \in gets : Live!Reloaded(g)
      BY <3>1, <3>3 DEF Live!Reloaded
    <3>4. CASE \E d \in calls :
                 Live!SubscribeAnswered(d) \/ Live!SubscribeChecks(d) \/ Live!SubscribeInserts(d)
      <4>1. PICK d \in calls :
              Live!SubscribeAnswered(d) \/ Live!SubscribeChecks(d) \/ Live!SubscribeInserts(d)
        BY <3>4
      <4>2. d \in LiveCall
        BY DEF LiveShape
      <4> QED BY <2>2, <4>1, <4>2
                 DEF Live!SubscribeAnswered, Live!SubscribeChecks, Live!SubscribeInserts,
                     LiveCall
    <3>5. CASE UNCHANGED calls
      BY <3>5
    <3> QED BY <1>2, <3>2, <3>3, <3>4, <3>5
               DEF Live!Next, Live!vars, Live!client, Live!threads, Live!service, Live!Receive,
                   Live!StreamFails, Live!StreamOpens, Live!RefreshTimer, Live!ResyncTimer,
                   Live!Read, Live!Refreshed, Live!TurnChanges, Live!PublishUpdate,
                   Live!PublishTurn, Live!Archive, Live!Drain, Live!Heartbeat, Live!Unsubscribe,
                   Live!Detach, Live!DetachAll
  <2>3. ASSUME NEW t \in Thread \ (alive' \cup archived')
        PROVE  Silent(t)' /\ \A c \in calls' : c.stage = "checked" => c.thread # t
    <3>1. t \in Thread \ (alive \cup archived)
      BY <2>1, ArchivedStay
    <3>2. Silent(t) /\ \A c \in calls : c.stage = "checked" => c.thread # t
      BY <3>1 DEF DeadAreSilent
    <3>3. \A c \in calls : Live!SubscribeInserts(c) => c.thread # t
      BY <3>2 DEF Live!SubscribeInserts
    <3> QED BY <2>2, <3>1, <3>2, <3>3, QuietStep
  <2> QED BY <2>3 DEF DeadAreSilent
<1> QED BY <1>1, <1>2

\* While the stream is down the view does not say live; and archivals are known.
LEMMA DownStep ==
  ASSUME Live!LiveAssumption, LiveShape, OwnCall, DownIsSeen, ArchivalsKnown,
         [Live!Next]_Live!vars
  PROVE  DownIsSeen' /\ ArchivalsKnown'
<1>h. hook \in LiveHook
  BY DEF LiveShape
<1>k. ASSUME hook'.state = "live" => hook.state = "live", hook'.open = hook.open \/ ~hook'.open,
             channel' = channel
      PROVE  DownIsSeen'
  BY <1>k DEF DownIsSeen
<1>j. ASSUME \A j \in jobs' : j \in jobs \/ (j.kind = "archive" => j.thread \in archived')
      PROVE  ArchivalsKnown'
  BY <1>j, ArchivedStay DEF ArchivalsKnown
<1>m. ASSUME NEW t \in Thread \cup {NoThread}, Live!Mount(t), channel' = channel
      PROVE  DownIsSeen' /\ ArchivalsKnown'
  <2>1. /\ ~hook'.open /\ hook'.state \in {"offline", "syncing"}
        /\ \A j \in jobs' : j \in jobs \/ j.kind = "unsubscribe"
    BY <1>m, MountIs
  <2> QED BY <1>j, <2>1 DEF DownIsSeen
<1>1. ASSUME NEW t \in Thread \cup {NoThread}, Live!Show(t) PROVE DownIsSeen' /\ ArchivalsKnown'
  BY <1>1, <1>m DEF Live!Show
<1>2. ASSUME NEW c \in calls, Live!SubscribeAnswered(c) PROVE DownIsSeen' /\ ArchivalsKnown'
  <2>1. UNCHANGED <<channel, jobs>>
    BY <1>2 DEF Live!SubscribeAnswered, Live!service
  <2>2. hook'.open = hook.open /\ (hook'.state = "live" => hook.state = "live" \/ hook.open)
    BY <1>h, <1>2 DEF Live!SubscribeAnswered, LiveHook
  <2> QED BY <1>j, <2>1, <2>2 DEF DownIsSeen
<1>3. ASSUME Live!Receive PROVE DownIsSeen' /\ ArchivalsKnown'
  BY <1>3, <1>j DEF Live!Receive, DownIsSeen, Live!service
<1>4. ASSUME Live!StreamFails \/ Live!Restart PROVE DownIsSeen' /\ ArchivalsKnown'
  <2>1. Live!HearsFailure.state # "live" /\ ~Live!HearsFailure.open
    <3>1. hook.n = 0 => hook.state = "offline" /\ ~hook.open
      BY DEF OwnCall, LiveShape
    <3> QED BY <1>h, <3>1 DEF Live!HearsFailure, LiveHook
  <2>2. hook' = Live!HearsFailure /\ jobs' \subseteq jobs
    BY <1>4 DEF Live!StreamFails, Live!Restart, Live!service
  <2> QED BY <1>j, <2>1, <2>2 DEF DownIsSeen
<1>5. ASSUME Live!StreamOpens PROVE DownIsSeen' /\ ArchivalsKnown'
  BY <1>5, <1>j DEF Live!StreamOpens, DownIsSeen, Live!service
<1>6. ASSUME Live!RefreshTimer \/ Live!ResyncTimer PROVE DownIsSeen' /\ ArchivalsKnown'
  <2>1. hook'.state = hook.state /\ hook'.open = hook.open /\ UNCHANGED <<channel, jobs>>
    BY <1>h, <1>6 DEF Live!RefreshTimer, Live!ResyncTimer, Live!service, LiveHook
  <2> QED BY <1>j, <1>k, <2>1
<1>7. ASSUME NEW g \in gets, Live!Reloaded(g) PROVE DownIsSeen' /\ ArchivalsKnown'
  <2>1. CASE UNCHANGED <<hook, jobs>>
    BY <1>7, <1>j, <1>k, <2>1 DEF Live!Reloaded
  <2>2. CASE Live!Mount(threadShown)
    BY <1>7, <1>m, <2>2 DEF Live!Reloaded, LiveShape
  <2> QED BY <1>7, <2>1, <2>2 DEF Live!Reloaded
<1>8. ASSUME \/ \E c \in calls : Live!SubscribeChecks(c) \/ Live!SubscribeInserts(c)
             \/ \E g \in gets : Live!Read(g) \/ Live!Refreshed(g)
             \/ \E t \in Thread : Live!TurnChanges(t) \/ Live!PublishUpdate(t)
             \/ \E t \in Thread : Live!PublishTurn(t)
             \/ \E s \in fanout : Live!Drain(s)
             \/ \E s \in subs : Live!Heartbeat(s)
             \/ \E j \in jobs : Live!Detach(j)
             \/ UNCHANGED Live!vars
      PROVE  DownIsSeen' /\ ArchivalsKnown'
  <2>1. UNCHANGED <<hook, channel>> /\ jobs' \subseteq jobs
    BY <1>8
       DEF Live!SubscribeChecks, Live!SubscribeInserts, Live!Read, Live!Refreshed,
           Live!TurnChanges, Live!PublishUpdate, Live!PublishTurn, Live!Drain, Live!Heartbeat,
           Live!Detach, Live!vars, Live!client, Live!service
  <2> QED BY <1>j, <1>k, <2>1
<1>9. ASSUME NEW j \in jobs, Live!Unsubscribe(j) \/ Live!DetachAll(j)
      PROVE  DownIsSeen' /\ ArchivalsKnown'
  <2>1. UNCHANGED <<hook, channel>>
    BY <1>9 DEF Live!Unsubscribe, Live!DetachAll, Live!client
  <2>2. \A k \in jobs' : k \in jobs \/ k.kind = "detach"
    BY <1>9 DEF Live!Unsubscribe, Live!DetachAll, Live!Remove
  <2> QED BY <1>j, <1>k, <2>1, <2>2
<1>10. ASSUME NEW t \in Thread, Live!Archive(t) PROVE DownIsSeen' /\ ArchivalsKnown'
  <2>1. /\ UNCHANGED <<hook, channel>> /\ t \in archived'
        /\ jobs' = jobs \cup {[kind |-> "archive", id |-> 0, thread |-> t]}
    BY <1>10 DEF Live!Archive, Live!client
  <2>2. \A j \in jobs' : j \in jobs \/ (j.kind = "archive" => j.thread \in archived')
    BY <2>1
  <2> QED BY <1>j, <1>k, <2>1, <2>2
<1> QED BY <1>1, <1>2, <1>3, <1>4, <1>5, <1>6, <1>7, <1>8, <1>9, <1>10 DEF Live!Next

\* What the effect takes for its subscription is there, or a new effect is owed.
LEMMA RegisteredStep ==
  ASSUME Live!LiveAssumption, LiveShape, OwnCall, Registered, ArchivalsKnown,
         [Live!Next]_Live!vars
  PROVE  Registered'
<1>0. /\ \A c \in calls : c.n = hook.n => c.thread = threadShown /\ hook.sub = 0
      /\ hook.sub \in {0, hook.n}
      /\ threadShown = NoThread <=> hook.n = 0
      /\ \A j \in jobs : j.kind = "unsubscribe" => j.id # hook.n
  BY DEF OwnCall
<1>h. hook \in LiveHook
  BY DEF LiveShape
<1> DEFINE mine == [id |-> hook.n, thread |-> threadShown]
           claims == threadShown \notin archived /\ (hook.sub # 0 \/ OwnAnswer("yes"))
<1>r. claims => mine \in subs \/ MountsAgain
  BY DEF Registered
<1>k. ASSUME threadShown' = threadShown, hook'.n = hook.n, claims' => claims,
             mine \in subs => mine \in subs', MountsAgain => MountsAgain'
      PROVE  Registered'
  BY <1>r, <1>k DEF Registered
<1>o. ASSUME UNCHANGED <<threadShown, calls>>, hook'.n = hook.n, hook'.sub = hook.sub
      PROVE  claims' => claims
  BY <1>o, ArchivedStay DEF OwnAnswer
<1>a. ASSUME channel' = channel, resync' = resync, gets' = gets PROVE MountsAgain => MountsAgain'
  BY <1>a DEF MountsAgain
<1>m. ASSUME NEW t \in Thread \cup {NoThread}, Live!Mount(t) PROVE Registered'
  <2>1. /\ hook'.sub = 0 /\ (t = NoThread => hook'.n = 0 /\ calls' = calls)
        /\ t # NoThread => /\ \A c \in calls : c.n # hook'.n
                           /\ calls' = calls \cup {[n |-> hook'.n, thread |-> t, stage |-> "sent"]}
    BY <1>m, MountIs
  <2>2. \A c \in calls : c.n # 0
    BY DEF LiveShape, LiveCall, Live!LiveAssumption
  <2>3. \A c \in calls' : c.n = hook'.n => c.stage = "sent"
    BY <2>1, <2>2
  <2> QED BY <2>1, <2>3 DEF Registered, OwnAnswer
<1>1. ASSUME NEW t \in Thread \cup {NoThread}, Live!Show(t) PROVE Registered'
  BY <1>1, <1>m DEF Live!Show
<1>2. ASSUME NEW c \in calls, Live!SubscribeAnswered(c) PROVE Registered'
  <2>1. /\ c.stage \in {"yes", "no"} /\ calls' = calls \ {c} /\ hook.sub \in {0, hook.n}
        /\ UNCHANGED <<threadShown, subs, channel, resync, gets>>
    BY <1>0, <1>2 DEF Live!SubscribeAnswered, Live!service
  <2>2. hook'.n = hook.n /\ (hook'.sub # hook.sub => c.stage = "yes" /\ c.n = hook.n)
    BY <1>h, <1>2, <2>1 DEF Live!SubscribeAnswered, LiveHook
  <2>3. claims' => claims
    BY <2>1, <2>2, ArchivedStay DEF OwnAnswer
  <2> QED BY <1>k, <1>a, <2>1, <2>2, <2>3
<1>3. ASSUME NEW c \in calls, Live!SubscribeChecks(c) PROVE Registered'
  <2>1. c \in LiveCall
    BY DEF LiveShape
  <2>2. /\ calls' \subseteq calls \cup {[c EXCEPT !.stage = "checked"], [c EXCEPT !.stage = "no"]}
        /\ UNCHANGED <<threadShown, hook, subs, channel, resync, gets>>
    BY <1>3 DEF Live!SubscribeChecks, Live!service
  <2>3. claims' => claims
    BY <2>1, <2>2, ArchivedStay DEF LiveCall, OwnAnswer
  <2> QED BY <1>k, <1>a, <2>2, <2>3
<1>4. ASSUME NEW c \in calls, Live!SubscribeInserts(c) PROVE Registered'
  <2>1. /\ UNCHANGED <<threadShown, hook, channel, resync, gets>>
        /\ subs' = subs \cup {[id |-> c.n, thread |-> c.thread]}
        /\ calls' = (calls \ {c}) \cup {[c EXCEPT !.stage = "yes"]}
    BY <1>4 DEF Live!SubscribeInserts
  <2>2. CASE c.n = hook.n
    <3>1. mine' \in subs'
      BY <1>0, <2>1, <2>2
    <3> QED BY <3>1 DEF Registered
  <2>3. CASE c.n # hook.n
    <3>1. [c EXCEPT !.stage = "yes"].n = c.n
      BY DEF LiveShape, LiveCall
    <3>2. claims' => claims
      BY <2>1, <2>3, <3>1, ArchivedStay DEF OwnAnswer
    <3> QED BY <1>k, <1>a, <2>1, <3>2
  <2> QED BY <2>2, <2>3
<1>5. ASSUME Live!Receive PROVE Registered'
  <2>1. UNCHANGED <<threadShown, calls, subs, channel, resync, gets>>
    BY <1>5 DEF Live!Receive, Live!service
  <2>2. hook'.n = hook.n /\ hook'.sub = hook.sub
    BY <1>5, <1>h DEF Live!Receive, Live!LiveEvent, Live!TurnEvent, LiveHook
  <2> QED BY <1>k, <1>o, <1>a, <2>1, <2>2
<1>6. ASSUME Live!StreamFails \/ Live!StreamOpens \/ Live!Restart PROVE Registered'
  BY <1>6 DEF Live!StreamFails, Live!StreamOpens, Live!Restart, Registered, MountsAgain
<1>7. ASSUME Live!RefreshTimer \/ Live!ResyncTimer PROVE Registered'
  <2>1. /\ UNCHANGED <<threadShown, calls, subs, channel>> /\ gets \subseteq gets'
        /\ resync' = resync \/ Live!Catalog \in gets'
    BY <1>7 DEF Live!RefreshTimer, Live!ResyncTimer, Live!Requested, Live!service
  <2>2. hook'.n = hook.n /\ hook'.sub = hook.sub
    BY <1>7, <1>h DEF Live!RefreshTimer, Live!ResyncTimer, LiveHook
  <2>3. MountsAgain => MountsAgain'
    BY <2>1 DEF MountsAgain, Live!Catalog, Live!Get
  <2> QED BY <1>k, <1>o, <2>1, <2>2, <2>3
<1>8. ASSUME NEW g \in gets, Live!Read(g) PROVE Registered'
  <2> DEFINE a == IF g.kind = "resume" /\ g.thread \notin alive THEN "no" ELSE "yes"
             s == IF g.kind = "list" THEN alive ELSE {}
             f == IF g.kind = "list" THEN {t \in alive : Live!Running(t)} ELSE {}
             new == [g EXCEPT !.answer = a, !.seen = s, !.found = f]
  <2>1. /\ UNCHANGED <<threadShown, hook, calls, subs, channel, resync>>
        /\ gets' = (gets \ {g}) \cup {new}
    BY <1>8 DEF Live!Read
  <2>2. new.kind = g.kind /\ new.answer = a
    BY DEF LiveShape, LiveGet
  <2>3. g.kind = "workspaces" => a = "yes"
    OBVIOUS
  <2> HIDE DEF a, new
  <2>4. MountsAgain => MountsAgain'
    BY <2>1, <2>2, <2>3 DEF MountsAgain
  <2> QED BY <1>k, <1>o, <2>1, <2>4
<1>9. ASSUME NEW g \in gets, Live!Refreshed(g) PROVE Registered'
  <2>1. /\ UNCHANGED <<threadShown, hook, calls, subs, channel, resync>>
        /\ gets' = gets \ {g} /\ g.kind # "workspaces"
    BY <1>9 DEF Live!Refreshed, Live!Done, Live!service
  <2>2. MountsAgain => MountsAgain'
    BY <2>1 DEF MountsAgain
  <2> QED BY <1>k, <1>o, <2>1, <2>2
<1>10. ASSUME NEW g \in gets, Live!Reloaded(g) PROVE Registered'
  <2>1. CASE g.answer = "no"
    <3>1. /\ UNCHANGED <<threadShown, hook, calls, subs, channel, resync>> /\ gets' = gets \ {g}
      BY <1>10, <2>1 DEF Live!Reloaded, Live!Done
    <3>2. MountsAgain => MountsAgain'
      BY <2>1, <3>1 DEF MountsAgain
    <3> QED BY <1>k, <1>o, <3>1, <3>2
  <2>2. CASE g.answer # "no" /\ threadShown = NoThread
    <3>1. UNCHANGED <<threadShown, hook, calls>>
      BY <1>10, <2>2 DEF Live!Reloaded
    <3>2. hook.sub = 0 /\ \A c \in calls : c.n # hook.n
      BY <1>0, <2>2 DEF LiveShape, LiveCall, Live!LiveAssumption
    <3> QED BY <3>1, <3>2 DEF Registered, OwnAnswer
  <2>3. CASE g.answer # "no" /\ threadShown # NoThread
    BY <1>10, <1>m, <2>3 DEF Live!Reloaded, LiveShape
  <2> QED BY <2>1, <2>2, <2>3
<1>11. ASSUME \/ \E t \in Thread : Live!TurnChanges(t) \/ Live!PublishUpdate(t)
              \/ \E t \in Thread : Live!PublishTurn(t) \/ Live!Archive(t)
              \/ \E s \in fanout : Live!Drain(s)
              \/ \E s \in subs : Live!Heartbeat(s)
              \/ \E j \in jobs : Live!Detach(j)
              \/ UNCHANGED Live!vars
       PROVE  Registered'
  <2>1. UNCHANGED <<threadShown, hook, calls, subs, channel, resync, gets>>
    BY <1>11
       DEF Live!TurnChanges, Live!PublishUpdate, Live!PublishTurn, Live!Archive, Live!Drain,
           Live!Heartbeat, Live!Detach, Live!vars, Live!client, Live!service
  <2> QED BY <1>k, <1>o, <1>a, <2>1
<1>12. ASSUME NEW j \in jobs, Live!Unsubscribe(j) PROVE Registered'
  <2>1. /\ UNCHANGED <<threadShown, hook, calls, channel, resync, gets>>
        /\ j.kind = "unsubscribe" /\ subs' = subs \ {s \in subs : s.id = j.id}
    BY <1>12 DEF Live!Unsubscribe, Live!Remove, Live!client
  <2>2. mine.id # j.id
    BY <1>0, <2>1
  <2>3. mine \in subs => mine \in subs'
    BY <2>1, <2>2
  <2> QED BY <1>k, <1>o, <1>a, <2>1, <2>3
<1>13. ASSUME NEW j \in jobs, Live!DetachAll(j) PROVE Registered'
  <2>1. /\ UNCHANGED <<threadShown, hook, calls, channel, resync, gets, archived>>
        /\ j.kind = "archive" /\ subs' = subs \ {s \in subs : s.thread = j.thread}
    BY <1>13 DEF Live!DetachAll, Live!Remove, Live!client, Live!threads, Live!Of
  <2>2. CASE threadShown \in archived
    BY <2>1, <2>2 DEF Registered
  <2>3. CASE threadShown \notin archived
    <3>1. mine.thread # j.thread
      BY <2>1, <2>3 DEF ArchivalsKnown
    <3>2. mine \in subs => mine \in subs'
      BY <2>1, <3>1
    <3> QED BY <1>k, <1>o, <1>a, <2>1, <3>2
  <2> QED BY <2>2, <2>3
<1> QED BY <1>1, <1>2, <1>3, <1>4, <1>5, <1>6, <1>7, <1>8, <1>9, <1>10, <1>11, <1>12, <1>13
           DEF Live!Next

\* A subscription that nobody ends, to a thread that is not archived, is lost in a restart only.
LEMMA KeptStep ==
  ASSUME ArchivalsKnown, [Live!Next]_Live!vars, ~Live!Restart, NEW s \in subs,
         s.thread \notin archived, \A j \in jobs : j.kind = "unsubscribe" => j.id # s.id
  PROVE  s \in subs'
<1>1. ASSUME NEW j \in jobs, Live!Unsubscribe(j) \/ Live!DetachAll(j) PROVE s \in subs'
  BY <1>1 DEF Live!Unsubscribe, Live!DetachAll, Live!Remove, Live!Of, ArchivalsKnown
<1> QED BY <1>1
  DEF Live!Next, Live!vars, Live!client, Live!threads, Live!service, Live!Show,
      Live!SubscribeAnswered, Live!SubscribeChecks, Live!SubscribeInserts, Live!Receive,
      Live!StreamFails, Live!StreamOpens, Live!RefreshTimer, Live!ResyncTimer, Live!Read,
      Live!Refreshed, Live!Reloaded, Live!TurnChanges, Live!PublishUpdate, Live!PublishTurn,
      Live!Archive, Live!Drain, Live!Heartbeat, Live!Detach

\* An effect that is refused its subscription, or will be, hears nothing that makes it live,
\* but of the subscription of an effect that was disposed early.
LEMMA RefusedStep ==
  ASSUME Live!LiveAssumption, LiveShape, OwnCall, DeadAreSilent, RefusedIsSilent, ArchivalsKnown,
         [Live!Next]_Live!vars
  PROVE  RefusedIsSilent'
<1>0. /\ \A c \in calls : IF c.n = hook.n THEN c.thread = threadShown /\ hook.sub = 0
                         ELSE c.n \in early
      /\ \A c, d \in calls : c.n = d.n => c = d
      /\ threadShown = NoThread <=> hook.n = 0
      /\ \A j \in jobs : j.kind = "unsubscribe" => j.id \notin early
  BY DEF OwnCall
<1>h. hook \in LiveHook /\ threadShown \in Thread \cup {NoThread}
  BY DEF LiveShape
<1>r. Refused => KeptEarly(threadShown) \/ (hook.state # "live" /\ Silent(threadShown))
  BY DEF RefusedIsSilent
<1>i. Refused => \A c \in calls : c.n = hook.n => c.stage # "checked"
  <2> SUFFICES ASSUME Refused, NEW c \in calls, c.n = hook.n, c.stage = "checked" PROVE FALSE
    OBVIOUS
  <2>1. c.thread = threadShown /\ c.thread \in Thread /\ threadShown \notin archived
    BY <1>0 DEF LiveShape, LiveCall, Refused
  <2>2. threadShown \in alive
    BY <2>1 DEF DeadAreSilent
  <2>3. \A d \in calls : d.n = hook.n => d = c
    BY <1>0
  <2> QED BY <2>2, <2>3 DEF Refused, OwnAnswer
<1>9. ASSUME Live!Restart PROVE RefusedIsSilent'
  <2>1. subs' = {} /\ fanout' = {} /\ events' = <<>> /\ hook' = Live!HearsFailure
    BY <1>9 DEF Live!Restart
  <2>2. hook'.n # 0 => hook'.state # "live"
    BY <1>h, <2>1 DEF Live!HearsFailure, LiveHook
  <2> QED BY <2>1, <2>2 DEF RefusedIsSilent, Refused, Silent, Heard
<1>k. ASSUME Refused' => Refused, UNCHANGED <<threadShown, early>>,
             Refused /\ Silent(threadShown) => (hook'.state = "live" => hook.state = "live")
      PROVE  RefusedIsSilent'
  <2> SUFFICES ASSUME Refused', ~Live!Restart
               PROVE  \/ KeptEarly(threadShown)'
                      \/ hook'.state # "live" /\ Silent(threadShown)'
    BY <1>9 DEF RefusedIsSilent
  <2>1. /\ Refused /\ hook.n # 0 /\ threadShown \notin archived
        /\ KeptEarly(threadShown) \/ (hook.state # "live" /\ Silent(threadShown))
    BY <1>k, <1>r DEF Refused
  <2>2. threadShown \in Thread
    BY <1>0, <1>h, <2>1
  <2>3. CASE KeptEarly(threadShown)
    <3>1. PICK s \in subs : s.thread = threadShown /\ s.id \in early
      BY <2>3 DEF KeptEarly
    <3>2. \A j \in jobs : j.kind = "unsubscribe" => j.id # s.id
      BY <1>0, <3>1
    <3>3. s \in subs'
      BY <2>1, <3>1, <3>2, KeptStep
    <3> QED BY <1>k, <3>1, <3>3 DEF KeptEarly
  <2>4. CASE \E c \in calls : Live!SubscribeInserts(c) /\ c.thread = threadShown
    <3>1. PICK c \in calls : Live!SubscribeInserts(c) /\ c.thread = threadShown
      BY <2>4
    <3>2. c.stage = "checked" /\ [id |-> c.n, thread |-> c.thread] \in subs'
      BY <3>1 DEF Live!SubscribeInserts
    <3>3. c.n \in early
      BY <1>0, <1>i, <2>1, <3>2
    <3> DEFINE s == [id |-> c.n, thread |-> c.thread]
    <3>4. s.id \in early' /\ s.thread = threadShown' /\ s \in subs'
      BY <1>k, <3>1, <3>2, <3>3
    <3> HIDE DEF s
    <3> QED BY <3>4 DEF KeptEarly
  <2>5. CASE /\ hook.state # "live" /\ Silent(threadShown)
             /\ \A c \in calls : Live!SubscribeInserts(c) => c.thread # threadShown
    <3> DEFINE t == threadShown
    <3>1. t \in Thread /\ Silent(t) /\ \A c \in calls : Live!SubscribeInserts(c) => c.thread # t
      BY <2>2, <2>5
    <3> HIDE DEF t
    <3>2. UNCHANGED t => Silent(t)'
      BY <3>1, QuietStep
    <3> QED BY <1>k, <2>1, <2>5, <3>2 DEF t
  <2> QED BY <2>1, <2>3, <2>4, <2>5
<1>m. ASSUME NEW t \in Thread \cup {NoThread}, Live!Mount(t),
             UNCHANGED <<alive, archived, subs, fanout, events>>
      PROVE  RefusedIsSilent'
  <2>1. /\ threadShown' = t /\ hook'.state \in {"offline", "syncing"}
        /\ t = NoThread => hook'.n = 0
        /\ t # NoThread => /\ \A c \in calls : c.n # hook'.n
                           /\ calls' = calls \cup {[n |-> hook'.n, thread |-> t, stage |-> "sent"]}
    BY <1>m, MountIs
  <2> SUFFICES ASSUME Refused' PROVE Silent(threadShown)'
    BY <2>1 DEF RefusedIsSilent
  <2>2. t # NoThread /\ t \in Thread /\ t \notin archived
    BY <1>m, <2>1 DEF Refused
  <2>3. ~OwnAnswer("no")' /\ \E c \in calls' : c.n = hook'.n
    <3> DEFINE new == [n |-> hook'.n, thread |-> t, stage |-> "sent"]
    <3>1. new.n = hook'.n /\ new.stage = "sent" /\ calls' = calls \cup {new}
      BY <2>1, <2>2
    <3> HIDE DEF new
    <3> QED BY <2>1, <2>2, <3>1 DEF OwnAnswer
  <2>4. t \notin alive
    BY <1>m, <2>1, <2>3 DEF Refused
  <2> QED BY <1>m, <2>1, <2>2, <2>4 DEF DeadAreSilent, Silent
<1>1. ASSUME NEW t \in Thread \cup {NoThread}, Live!Show(t) PROVE RefusedIsSilent'
  BY <1>1, <1>m DEF Live!Show, Live!threads
<1>2. ASSUME NEW c \in calls, Live!SubscribeAnswered(c) PROVE RefusedIsSilent'
  <2>1. /\ c.stage \in {"yes", "no"} /\ c.n # 0 /\ calls' = calls \ {c}
        /\ UNCHANGED <<threadShown, Live!service, events, early, channel>>
    BY <1>2 DEF Live!SubscribeAnswered, LiveShape, LiveCall, Live!LiveAssumption
  <2>2. CASE c.n = hook.n /\ c.stage = "yes"
    <3>1. hook'.sub # 0
      BY <1>h, <1>2, <2>1, <2>2 DEF Live!SubscribeAnswered, LiveHook
    <3> QED BY <3>1 DEF RefusedIsSilent, Refused
  <2>3. CASE ~(c.n = hook.n /\ c.stage = "yes")
    <3>1. /\ hook'.n = hook.n /\ hook'.sub = hook.sub
          /\ hook'.state = "live" => hook.state = "live"
      BY <1>h, <1>2, <2>1, <2>3 DEF Live!SubscribeAnswered, LiveHook
    <3>2. Refused' => Refused
      BY <2>1, <2>3, <3>1 DEF Refused, OwnAnswer, Live!service, Live!threads
    <3> QED BY <1>k, <2>1, <3>1, <3>2
  <2> QED BY <2>2, <2>3
<1>3. ASSUME NEW c \in calls, Live!SubscribeChecks(c) PROVE RefusedIsSilent'
  <2> DEFINE new == [c EXCEPT !.stage = IF c.thread \in alive THEN "checked" ELSE "no"]
  <2>1. /\ c.stage = "sent" /\ UNCHANGED <<threadShown, hook, alive, archived, early>>
        /\ calls' = (calls \ {c}) \cup {new}
    BY <1>3 DEF Live!SubscribeChecks, Live!service, Live!threads
  <2>2. new.n = c.n /\ (new.stage = "no" => c.thread \notin alive)
    BY DEF LiveShape, LiveCall
  <2> HIDE DEF new
  <2>3. c.n = hook.n => c.thread = threadShown
    BY <1>0
  <2>4. Refused' => Refused
    BY <2>1, <2>2, <2>3 DEF Refused, OwnAnswer
  <2> QED BY <1>k, <2>1, <2>4
<1>4. ASSUME NEW c \in calls, Live!SubscribeInserts(c) PROVE RefusedIsSilent'
  <2> DEFINE new == [c EXCEPT !.stage = "yes"]
  <2>1. /\ UNCHANGED <<threadShown, hook, alive, archived, early>>
        /\ calls' = (calls \ {c}) \cup {new}
    BY <1>4 DEF Live!SubscribeInserts, Live!threads
  <2>2. new.n = c.n /\ new.stage = "yes"
    BY DEF LiveShape, LiveCall
  <2> HIDE DEF new
  <2>3. Refused' => Refused
    BY <2>1, <2>2 DEF Refused, OwnAnswer
  <2> QED BY <1>k, <2>1, <2>3
<1>5. ASSUME Live!Receive PROVE RefusedIsSilent'
  <2> DEFINE e == Head(events)
  <2>1. /\ events # <<>> /\ ((Live!IsTransient(e) /\ Live!LiveEvent(e)) \/ Live!TurnEvent(e))
        /\ UNCHANGED <<threadShown, calls, alive, archived, early>>
    BY <1>5 DEF Live!Receive, Live!service, Live!threads
  <2>2. e \in Heard(events)
    BY <2>1, TailIs DEF LiveShape
  <2> HIDE DEF e
  <2>3. hook'.n = hook.n /\ hook'.sub = hook.sub
    BY <1>h, <2>1 DEF Live!LiveEvent, Live!TurnEvent, LiveHook
  <2>4. Silent(threadShown) => (hook'.state = "live" => hook.state = "live")
    BY <1>h, <2>1, <2>2
       DEF Silent, IsLife, Live!IsTransient, Live!LiveEvent, Live!TurnEvent, LiveHook
  <2>5. Refused' => Refused
    BY <2>1, <2>3 DEF Refused, OwnAnswer
  <2> QED BY <1>k, <2>1, <2>4, <2>5
<1>6. ASSUME Live!StreamFails \/ Live!StreamOpens \/ Live!RefreshTimer \/ Live!ResyncTimer
      PROVE  RefusedIsSilent'
  <2>1. UNCHANGED <<threadShown, calls, alive, archived, early>>
    BY <1>6
       DEF Live!StreamFails, Live!StreamOpens, Live!RefreshTimer, Live!ResyncTimer, Live!service,
           Live!threads
  <2>2. /\ hook'.n = hook.n /\ hook'.sub = hook.sub
        /\ hook.sub = 0 => (hook'.state = "live" => hook.state = "live")
    BY <1>6, <1>h
       DEF Live!StreamFails, Live!StreamOpens, Live!RefreshTimer, Live!ResyncTimer,
           Live!HearsFailure, LiveHook
  <2>3. Refused' => Refused
    BY <2>1, <2>2 DEF Refused, OwnAnswer
  <2> QED BY <1>k, <2>1, <2>2, <2>3 DEF Refused
<1>7. ASSUME NEW g \in gets, Live!Reloaded(g) PROVE RefusedIsSilent'
  <2>1. CASE UNCHANGED <<threadShown, hook, calls, early>>
    <3>1. Refused' => Refused
      BY <1>7, <2>1 DEF Refused, OwnAnswer, Live!Reloaded, Live!threads
    <3> QED BY <1>k, <2>1, <3>1
  <2>2. CASE Live!Mount(threadShown)
    BY <1>7, <1>h, <1>m, <2>2 DEF Live!Reloaded, Live!threads
  <2> QED BY <1>7, <2>1, <2>2 DEF Live!Reloaded
<1>8. ASSUME \/ \E g \in gets : Live!Read(g) \/ Live!Refreshed(g)
             \/ \E t \in Thread : Live!TurnChanges(t) \/ Live!PublishUpdate(t)
             \/ \E t \in Thread : Live!PublishTurn(t)
             \/ \E s \in fanout : Live!Drain(s)
             \/ \E s \in subs : Live!Heartbeat(s)
             \/ \E j \in jobs : Live!Unsubscribe(j) \/ Live!Detach(j) \/ Live!DetachAll(j)
             \/ UNCHANGED Live!vars
      PROVE  RefusedIsSilent'
  <2>1. /\ UNCHANGED <<threadShown, hook, calls, early, archived>>
        /\ alive \subseteq alive'
    BY <1>8
       DEF Live!Read, Live!Refreshed, Live!TurnChanges, Live!PublishUpdate, Live!PublishTurn,
           Live!Drain, Live!Heartbeat, Live!Unsubscribe, Live!Detach, Live!DetachAll, Live!vars,
           Live!client, Live!service, Live!threads
  <2>2. Refused' => Refused
    BY <2>1 DEF Refused, OwnAnswer
  <2> QED BY <1>k, <2>1, <2>2
<1>10. ASSUME NEW t \in Thread, Live!Archive(t) PROVE RefusedIsSilent'
  <2>1. /\ UNCHANGED <<threadShown, hook, calls, early>> /\ alive' = alive \ {t}
        /\ archived' = archived \cup {t}
    BY <1>10 DEF Live!Archive, Live!client
  <2>2. Refused' => Refused
    BY <2>1 DEF Refused, OwnAnswer
  <2> QED BY <1>k, <2>1, <2>2
<1> QED BY <1>1, <1>2, <1>3, <1>4, <1>5, <1>6, <1>7, <1>8, <1>9, <1>10 DEF Live!Next

-----------------------------------------------------------------------------
\* The inductive invariants hold at first and of every behaviour.
LiveInv == LiveShape /\ OwnCall /\ Cared

LEMMA LiveStart ==
  ASSUME Live!LiveAssumption, Live!Init
  PROVE  LiveInv /\ SubInv
<1>1. {MaxMount, MaxTurn, MaxTrouble} \subseteq Nat /\ NoThread \notin Thread
  BY DEF Live!LiveAssumption
<1>2. Live!Offline \in LiveHook /\ Live!AtRest \in [busy : BOOLEAN, turn : BOOLEAN]
  BY <1>1 DEF Live!Offline, Live!AtRest, LiveHook
<1>3. ThreadShape
  BY <1>1 DEF Live!Init, ThreadShape, Live!Running
<1>4. LiveShape
  <2>1. mind \in Mind /\ hook.timer = "off" /\ <<>> \in Seq(StreamEvent)
    BY <1>2 DEF Live!Init, Mind, Live!Offline
  <2>2. trouble \in 0 .. MaxTrouble
    BY <1>1 DEF Live!Init
  <2> QED BY <1>2, <1>3, <2>1, <2>2 DEF Live!Init, LiveShape
<1>5. OwnCall /\ Cared
  BY DEF Live!Init, OwnCall, Cared, Live!Offline
<1>6. SubInv
  BY
     DEF Live!Init, SubInv, Registered, DeadAreSilent, RefusedIsSilent, DownIsSeen,
         ArchivalsKnown, Refused, OwnAnswer,
         Live!Offline
<1> QED BY <1>4, <1>5, <1>6 DEF LiveInv

LEMMA ShapeHolds ==
  ASSUME Live!LiveAssumption
  PROVE  Live!Spec => []LiveShape
<1>1. Live!Init => LiveShape
  BY LiveStart DEF LiveInv
<1>2. LiveShape /\ [Live!Next]_Live!vars => LiveShape'
  BY ShapeStep
<1> QED BY <1>1, <1>2, PTL DEF Live!Spec

LEMMA CareHolds ==
  ASSUME Live!LiveAssumption
  PROVE  Live!Spec => []LiveInv
<1>1. Live!Init => LiveInv
  BY LiveStart
<1>2. LiveInv /\ [Live!Next]_Live!vars => LiveInv'
  BY ShapeStep, OwnStep DEF LiveInv
<1> QED BY <1>1, <1>2, PTL DEF Live!Spec

\* Every variable of the subscription has its type, the events on the stream and the
\* service's half-done jobs included, whatever happens.
THEOREM LiveTypes ==
  ASSUME Live!LiveAssumption
  PROVE  Live!Spec => []Live!TypeOK
<1>1. LiveShape => Live!TypeOK
  <2> SUFFICES ASSUME LiveShape PROVE Live!TypeOK
    OBVIOUS
  <2>1. \A i \in DOMAIN events : events[i] \in StreamEvent
    BY DEF LiveShape
  <2>2. jobs \subseteq [kind : {"unsubscribe", "detach", "archive"}, id : 0 .. MaxMount,
                        thread : Thread \cup {NoThread}]
    BY DEF LiveShape, LiveJob
  <2>3. subs \cup fanout \subseteq [id : 1 .. MaxMount, thread : Thread]
    BY DEF LiveShape, LiveSub
  <2> QED BY <2>1, <2>2, <2>3
             DEF LiveShape, Live!TypeOK, ThreadShape, Mind, LiveHook, LiveCall, LiveGet,
                 StreamEvent, EventKind
<1> QED BY <1>1, ShapeHolds, PTL

\* When no call and no job of the service is under way, the service has no subscription but
\* that of the effect that is mounted (the cleanup of useThreadLiveSubscription and the
\* service's unsubscribe) and those of effects that were disposed before their subscribe
\* calls were answered: such an effect drops the answer (it looks at `disposed`).  Failures of
\* the stream, restarts, archivals and remounts leave none.
THEOREM LiveNothingLeaks ==
  ASSUME Live!LiveAssumption
  PROVE  Live!Spec => []Live!NothingLeaks
<1>1. LiveInv => Live!NothingLeaks
  BY DEF LiveInv, Cared, Live!NothingLeaks
<1> QED BY <1>1, CareHolds, PTL

\* When nothing is under way, a view that says "live" is subscribed to the thread it shows, by
\* its own effect or by one that was disposed before it was told of its subscription, whatever
\* happens, unless the thread was once archived: nobody is told that what he sees is live
\* while no update can come.  After an archival an update that waits to be sent comes after
\* the end of its subscription, and is taken for a sign of life.
THEOREM LiveIsSubscribed ==
  ASSUME Live!LiveAssumption
  PROVE  Live!Spec => []Live!LiveMeansSubscribed
<1>1. Live!Init => LiveInv /\ SubInv
  BY LiveStart
<1>2. LiveInv /\ SubInv /\ [Live!Next]_Live!vars => (LiveInv /\ SubInv)'
  BY ShapeStep, OwnStep, DeadStep, DownStep, RegisteredStep, RefusedStep DEF LiveInv, SubInv
<1>3. LiveInv /\ SubInv => Live!LiveMeansSubscribed
  <2> SUFFICES ASSUME LiveInv, SubInv, Live!Settled, hook.state = "live",
                      threadShown \notin archived
               PROVE  \E s \in subs : s.thread = threadShown /\ s.id \in {hook.sub} \cup early
    BY DEF Live!LiveMeansSubscribed, Live!Of
  <2>1. hook.n # 0 /\ hook.sub \in {0, hook.n}
    BY DEF LiveInv, OwnCall
  <2>2. CASE hook.sub = 0
    <3>1. Refused
      BY <2>1, <2>2 DEF Refused, Live!Settled
    <3> QED BY <3>1 DEF SubInv, RefusedIsSilent, KeptEarly
  <2>3. CASE hook.sub # 0
    <3>1. channel # "down" /\ ~MountsAgain
      BY DEF SubInv, DownIsSeen, Live!Settled, MountsAgain
    <3>2. [id |-> hook.sub, thread |-> threadShown] \in subs
      BY <2>1, <2>3, <3>1 DEF SubInv, Registered
    <3> DEFINE s == [id |-> hook.sub, thread |-> threadShown]
    <3>3. s \in subs /\ s.thread = threadShown /\ s.id = hook.sub
      BY <3>2
    <3> HIDE DEF s
    <3> QED BY <3>3
  <2> QED BY <2>2, <2>3
<1> QED BY <1>1, <1>2, <1>3, PTL DEF Live!Spec
=============================================================================
