------------------------------- MODULE MCCore -------------------------------
(***************************************************************************)
(* The executors of the service for TLC: the two tasks of MCAgentTask, or, *)
(* on variables of their own, one of the scenes of MCExecutors.            *)
(***************************************************************************)
EXTENDS MCAgentTask

CONSTANT Scene   \* the scenes of a run

VARIABLES
    scene,
    status2, intr2, cur2, err2, steps2, approved2, pend2, index2, stored2, older2,
    decisions2, pc2, at2, woken2, outcome2, wsHeld2, slots2

otherVars == <<status2, intr2, cur2, err2, steps2, approved2, pend2, index2, stored2, older2,
               decisions2, pc2, at2, woken2, outcome2, wsHeld2, slots2>>

Others == INSTANCE MCExecutors WITH
    status <- status2, intr <- intr2, cur <- cur2, err <- err2, steps <- steps2,
    approved <- approved2, pend <- pend2, index <- index2, stored <- stored2,
    older <- older2, decisions <- decisions2, pc <- pc2, at <- at2, woken <- woken2,
    outcome <- outcome2, wsHeld <- wsHeld2, slots <- slots2

CoreInit == scene \in Scene /\ Init /\ Others!Init
CoreNext == /\ \/ scene = "two tasks" /\ Next /\ UNCHANGED otherVars
               \/ Others!Next /\ UNCHANGED vars
            /\ UNCHANGED scene
coreVars == <<scene, vars, otherVars>>
CoreSpec == CoreInit /\ [][CoreNext]_coreVars

\* The promises of the scenes of MCExecutors, where they are explained: slots, executors that
\* were paused, resumed and recovered.
ExecutorsStaySafe == Others!ExecutorsStaySafe

\* A recovered task does not run a completed step again.
CompletedStaysDone == [][Others!StepStaysDone]_coreVars
=============================================================================
