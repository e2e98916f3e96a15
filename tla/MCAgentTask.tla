---------------------------- MODULE MCAgentTask ----------------------------
(* Instances of AgentTask for TLC. *)
EXTENDS AgentTask

CONSTANTS t1, t2, w1, w2, s1, none

TwoTasks == {t1, t2}
OneTask == {t1}
\* The tasks share a workspace.
OneWorkspace == [t \in Task |-> w1]

\* Every step needs an approval, and that of the first is reused for the second, since both
\* have one scope; or no step needs one.
BothSteps == [t \in Task |-> Step]
SameScope == [t \in Task |-> [i \in Step |-> s1]]
NoSteps == [t \in Task |-> {}]
=============================================================================
