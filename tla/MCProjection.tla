---------------------------- MODULE MCProjection ----------------------------
(***************************************************************************)
(* Instances of KernelProjection for TLC, one in each scene, as explained  *)
(* in MCService.  Readers that stay ask for both scopes, and the socket    *)
(* may be lost at any moment: the constants are those of the run.  And, on *)
(* variables of their own: two readers that come and go, of a socket that  *)
(* holds; whatever may happen.                                             *)
(***************************************************************************)
EXTENDS KernelProjection

CONSTANTS mc, jobs, l1, l2,
          Scene   \* the scenes of a run

BothAtOnce == {{mc, jobs}}

VARIABLES scene,
    revision2, peer2, wire2, state2, requested2, listeners2, started2, requestId2, calls2,
    sub2, notices2

otherVars == <<revision2, peer2, wire2, state2, requested2, listeners2, started2, requestId2,
               calls2, sub2, notices2>>

Settles == INSTANCE KernelProjection WITH
    Reread <- {}, Leaver <- {l1, l2}, MayLag <- FALSE, MayFail <- FALSE, MaxRevision <- 2,
    MaxCall <- 3,
    revision <- revision2, peer <- peer2, wire <- wire2, state <- state2,
    requested <- requested2, listeners <- listeners2, started <- started2,
    requestId <- requestId2, calls <- calls2, sub <- sub2, notices <- notices2
Anything == INSTANCE KernelProjection WITH
    Listener <- {l1}, Asked <- {{mc}, {jobs}}, Reread <- {{mc}}, Leaver <- {l1},
    MayLag <- TRUE, MayFail <- TRUE, MaxRevision <- 2, MaxCall <- 3,
    revision <- revision2, peer <- peer2, wire <- wire2, state <- state2,
    requested <- requested2, listeners <- listeners2, started <- started2,
    requestId <- requestId2, calls <- calls2, sub <- sub2, notices <- notices2

OtherInit == IF scene = "anything" THEN Anything!Init
             ELSE Settles!Init /\ (scene # "settles" => revision2 = 0)
OtherNext == \/ scene = "settles" /\ Settles!Next
             \/ scene = "anything" /\ Anything!Next

ProjectionInit == /\ scene \in Scene
                  /\ Init /\ (scene # "stay" => revision = 0) /\ OtherInit
ProjectionNext == /\ \/ scene = "stay" /\ Next /\ UNCHANGED otherVars
                     \/ OtherNext /\ UNCHANGED vars
                  /\ UNCHANGED scene
ProjectionSpec == ProjectionInit /\ [][ProjectionNext]_<<scene, vars, otherVars>>

ASSUME Settles!ScopeAssumption /\ Anything!ScopeAssumption

-----------------------------------------------------------------------------
\* Readers that come and go: a settled store that reports no error shows what the service
\* has; a store that is loading has a request under way; who listens is served, by a
\* subscription that is there or will be made, and for nobody nothing is kept.
ReadersServed ==
    /\ scene = "settles" => Settles!TypeOK /\ Settles!NoSilentDrift
    /\ scene = "anything" =>
         Anything!LoadingEnds /\ Anything!StopsForGood /\ Anything!ListenersServed
=============================================================================
