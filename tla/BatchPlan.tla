----------------------------- MODULE BatchPlan -----------------------------
(***************************************************************************)
(* The planner of a sub-agent batch                                        *)
(* (apps/code/src/services/webMcpBridgeRuntimeSubAgentBatchPlanner.ts):    *)
(* planRuntimeSubAgentBatch counts, for every task, the dependencies that  *)
(* are not in a wave yet, and puts the tasks whose count has come to zero  *)
(* into the next wave.  A batch is refused when a dependency is not one of *)
(* its tasks, and when the waves do not take all of them.                  *)
(*                                                                         *)
(* Tasks are numbered in input order (two tasks of one key are refused     *)
(* before anything else is looked at).  The code keeps a wave sorted by    *)
(* that number, so a set says as much.  One action is one turn of the      *)
(* code's loop.                                                            *)
(***************************************************************************)
EXTENDS Integers, Sequences, FiniteSets

CONSTANTS
    N,      \* number of tasks
    Named   \* what a dependency can name: the tasks, and others

Key == 1..N

ASSUME NIsCount == N \in Nat
ASSUME NamedHoldsKeys == Key \subseteq Named

VARIABLES
    deps,      \* dependsOn of each task
    indegree,  \* indegreeByTaskKey
    ready,
    waves,
    order,     \* the length of the code's order list
    phase

vars == <<deps, indegree, ready, waves, order, phase>>

Placed == UNION {waves[i] : i \in DOMAIN waves}

Init ==
    /\ deps \in [Key -> SUBSET Named]
    /\ indegree = [k \in Key |-> 0]
    /\ ready = {}
    /\ waves = <<>>
    /\ order = 0
    /\ phase = "checking"

Check ==
    /\ phase = "checking"
    /\ IF \A k \in Key : deps[k] \subseteq Key
       THEN /\ indegree' = [k \in Key |-> Cardinality(deps[k])]
            /\ ready' = {k \in Key : indegree'[k] = 0}
            /\ phase' = "planning"
       ELSE /\ phase' = "missing"
            /\ UNCHANGED <<indegree, ready>>
    /\ UNCHANGED <<deps, waves, order>>

TakeWave ==
    /\ phase = "planning" /\ ready # {}
    /\ waves' = Append(waves, ready)
    /\ order' = order + Cardinality(ready)
    /\ indegree' = [k \in Key |-> indegree[k] - Cardinality(deps[k] \cap ready)]
    /\ ready' = {k \in Key : deps[k] \cap ready # {} /\ indegree'[k] = 0}
    /\ UNCHANGED <<deps, phase>>

\* Mutant: nobody asks whether all tasks are in the plan.
FinishUncounted ==
    /\ phase = "planning" /\ ready = {}
    /\ phase' = "planned"
    /\ UNCHANGED <<deps, indegree, ready, waves, order>>

Finish ==
    /\ phase = "planning" /\ ready = {}
    /\ phase' = IF order = N THEN "planned" ELSE "cycle"
    /\ UNCHANGED <<deps, indegree, ready, waves, order>>

Next == Check \/ TakeWave \/ Finish

Spec == Init /\ [][Next]_vars

-----------------------------------------------------------------------------
TypeOK ==
    /\ deps \in [Key -> SUBSET Named]
    /\ indegree \in [Key -> Nat]
    /\ ready \in SUBSET Key
    /\ waves \in Seq(SUBSET Key)
    /\ order \in 0..N
    /\ phase \in {"checking", "missing", "planning", "planned", "cycle"}

\* Whatever a task depends on is in an earlier wave: the batch tool starts a wave when
\* the one before has been answered, and looks for the results of the dependencies.
DependenciesFirst ==
    \A i \in DOMAIN waves : \A k \in waves[i] :
        \A d \in deps[k] : \E j \in 1..(i - 1) : d \in waves[j]

\* No task waits longer than it must: after the first wave each has a dependency in the
\* wave just before its own.
AsEarlyAsPossible ==
    \A i \in DOMAIN waves : i > 1 =>
        \A k \in waves[i] : \E d \in deps[k] : d \in waves[i - 1]

\* A plan has every task in exactly one wave.
EveryTaskOnce ==
    phase = "planned" =>
        \A k \in Key : \E i \in DOMAIN waves :
            k \in waves[i] /\ \A j \in DOMAIN waves : k \in waves[j] => j = i

\* A batch is refused for a cycle only when it has one: some tasks each depend on
\* another of them.
RefusedForCycle ==
    phase = "cycle" =>
        \E S \in SUBSET Key : S # {} /\ \A k \in S : deps[k] \cap S # {}

\* What a plan promises, whatever the dependencies (planRuntimeSubAgentBatch).
PlanIsRight == DependenciesFirst /\ AsEarlyAsPossible /\ EveryTaskOnce /\ RefusedForCycle
=============================================================================
