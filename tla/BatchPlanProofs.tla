-------------------------- MODULE BatchPlanProofs --------------------------
(***************************************************************************)
(* Proofs about the batch tool for sub-agents, for every number of tasks   *)
(* and every choice of dependencies.                                       *)
(*                                                                         *)
(* The planner (module BatchPlan) keeps counts; the inductive invariant    *)
(* says what they count: the dependencies that are in no wave yet.  A task *)
(* is then ready exactly when all its dependencies are placed and it is    *)
(* not, and the rest follows.                                              *)
(*                                                                         *)
(* The tool itself (module SubAgentBatch, as Batch) comes after it, for    *)
(* every number of executions, attempts and tasks in a chunk: what it does *)
(* to one task of one execution (ItemStep) and what it writes as results   *)
(* (ResultsStep) are said first, and the invariants argued against these.  *)
(***************************************************************************)
EXTENDS BatchPlan, FiniteSetTheorems, TLAPS

\* What the counts count.
Counts ==
    /\ indegree = [k \in Key |-> Cardinality(deps[k] \ Placed)]
    /\ order = Cardinality(Placed)

\* Who is ready.
ReadyIs == ready = {k \in Key : k \notin Placed /\ deps[k] \subseteq Placed}

\* What is placed has its dependencies placed.
PlacedIsClosed == \A k \in Placed : deps[k] \subseteq Placed

WavesDisjoint == \A i, j \in DOMAIN waves : i # j => waves[i] \cap waves[j] = {}

Shape ==
    /\ deps \in [Key -> SUBSET Named]
    /\ ready \in SUBSET Key
    /\ waves \in Seq(SUBSET Key)
    /\ phase \in {"checking", "missing", "planning", "planned", "cycle"}

\* What a task waits for when a wave is taken is in the wave taken last.
ReadyFresh == \A k \in ready : Len(waves) > 0 => \E d \in deps[k] : d \in waves[Len(waves)]

Planning ==
    /\ deps \in [Key -> SUBSET Key]
    /\ Counts
    /\ ReadyIs
    /\ ReadyFresh
    /\ PlacedIsClosed
    /\ WavesDisjoint
    /\ DependenciesFirst
    /\ AsEarlyAsPossible

Inv ==
    /\ Shape
    /\ phase \in {"checking", "missing"} =>
           /\ waves = <<>> /\ ready = {} /\ order = 0
           /\ indegree = [k \in Key |-> 0]
    /\ phase \in {"planning", "planned", "cycle"} => Planning
    /\ phase = "planned" => Placed = Key
    /\ phase = "cycle" => ready = {} /\ Placed # Key

-----------------------------------------------------------------------------
\* The keys are N in number.
LEMMA KeysFinite == IsFiniteSet(Key) /\ Cardinality(Key) = N
  BY NIsCount, FS_Interval DEF Key

\* Every set of keys is finite and has at most N.
LEMMA SubsetsFinite ==
  ASSUME NEW S \in SUBSET Key
  PROVE  IsFiniteSet(S) /\ Cardinality(S) \in Nat /\ Cardinality(S) <= N
  BY KeysFinite, FS_Subset, FS_CardinalityType

\* What is placed are keys.
LEMMA PlacedInKey ==
  ASSUME waves \in Seq(SUBSET Key)
  PROVE  Placed \in SUBSET Key
  BY DEF Placed

\* Taking a wave adds it to what is placed.
LEMMA PlacedGrows ==
  ASSUME waves \in Seq(SUBSET Key), ready \in SUBSET Key, waves' = Append(waves, ready)
  PROVE  Placed' = Placed \cup ready
<1>1. /\ Len(waves) \in Nat /\ DOMAIN waves = 1..Len(waves)
      /\ DOMAIN waves' = 1..(Len(waves) + 1)
      /\ waves'[Len(waves) + 1] = ready
      /\ \A i \in 1..Len(waves) : waves'[i] = waves[i]
  OBVIOUS
<1>2. ASSUME NEW x \in Placed' PROVE x \in Placed \cup ready
  <2>1. PICK i \in DOMAIN waves' : x \in waves'[i]
    BY <1>2 DEF Placed
  <2> QED BY <1>1, <2>1 DEF Placed
<1>3. ASSUME NEW x \in Placed PROVE x \in Placed'
  <2>1. PICK i \in DOMAIN waves : x \in waves[i]
    BY <1>3 DEF Placed
  <2>2. i \in DOMAIN waves' /\ x \in waves'[i]
    BY <1>1, <2>1
  <2> QED BY <2>2 DEF Placed
<1>4. ASSUME NEW x \in ready PROVE x \in Placed'
  <2>1. Len(waves) + 1 \in DOMAIN waves' /\ x \in waves'[Len(waves) + 1]
    BY <1>1, <1>4
  <2> QED BY <2>1 DEF Placed
<1> QED BY <1>2, <1>3, <1>4

\* Counting down by the wave taken leaves the count of what is not placed.
LEMMA CountDown ==
  ASSUME NEW D \in SUBSET Key, NEW P \in SUBSET Key, NEW R \in SUBSET Key, P \cap R = {}
  PROVE  Cardinality(D \ P) - Cardinality(D \cap R) = Cardinality(D \ (P \cup R))
<1>1. /\ IsFiniteSet(D \ P) /\ IsFiniteSet(D \cap R) /\ IsFiniteSet(D \ (P \cup R))
      /\ Cardinality(D \cap R) \in Nat /\ Cardinality(D \ (P \cup R)) \in Nat
  <2>1. D \ P \in SUBSET Key /\ D \cap R \in SUBSET Key /\ D \ (P \cup R) \in SUBSET Key
    OBVIOUS
  <2> QED BY <2>1, SubsetsFinite
<1>2. D \ P = (D \cap R) \cup (D \ (P \cup R))
  OBVIOUS
<1>3. (D \cap R) \cap (D \ (P \cup R)) = {}
  OBVIOUS
<1>4. Cardinality(D \ P) = Cardinality(D \cap R) + Cardinality(D \ (P \cup R))
                            - Cardinality((D \cap R) \cap (D \ (P \cup R)))
  BY <1>1, <1>2, FS_Union
<1> QED BY <1>1, <1>3, <1>4, FS_EmptySet

\* A count of zero says the set is empty.
LEMMA NoneLeft ==
  ASSUME NEW S \in SUBSET Key
  PROVE  Cardinality(S) = 0 <=> S = {}
  BY SubsetsFinite, FS_EmptySet

-----------------------------------------------------------------------------
\* The invariant holds before anything is looked at.
LEMMA InitInv == Init => Inv
<1> SUFFICES ASSUME Init PROVE Inv
  OBVIOUS
<1>1. Shape
  BY DEF Init, Shape
<1> QED BY <1>1 DEF Init, Inv

\* The first look establishes the counts.
LEMMA CheckInv == Inv /\ Check => Inv'
<1> SUFFICES ASSUME Inv, Check PROVE Inv'
  OBVIOUS
<1> USE DEF Inv
<1>1. waves = <<>> /\ ready = {} /\ order = 0 /\ phase = "checking" /\ Shape
      /\ waves' = waves /\ order' = order /\ deps' = deps
  BY DEF Check
<1>2. Placed = {} /\ Placed' = {}
  BY <1>1 DEF Placed
<1>3. CASE ~ \A k \in Key : deps[k] \subseteq Key
  <2>1. phase' = "missing" /\ ready' = ready /\ indegree' = indegree
    BY <1>3 DEF Check
  <2>2. Shape'
    BY <1>1, <2>1 DEF Shape
  <2> QED BY <1>1, <2>1, <2>2
<1>4. CASE \A k \in Key : deps[k] \subseteq Key
  <2>1. /\ phase' = "planning"
        /\ indegree' = [k \in Key |-> Cardinality(deps[k])]
        /\ ready' = {k \in Key : indegree'[k] = 0}
    BY <1>4 DEF Check
  <2>2. Shape'
    BY <1>1, <2>1 DEF Shape
  <2>3. (deps \in [Key -> SUBSET Key])'
    BY <1>1, <1>4 DEF Shape
  <2>4. Counts'
    <3>1. \A k \in Key : deps'[k] \ Placed' = deps[k]
      BY <1>1, <1>2
    <3>2. indegree' = [k \in Key |-> Cardinality(deps'[k] \ Placed')]
      BY <2>1, <3>1
    <3> QED BY <1>1, <1>2, <3>2, FS_EmptySet DEF Counts
  <2>5. ReadyIs'
    <3>1. \A k \in Key : indegree'[k] = 0 <=> deps[k] = {}
      BY <1>1, <2>1, <2>3, NoneLeft
    <3> QED BY <1>1, <1>2, <2>1, <3>1 DEF ReadyIs
  <2>6. ReadyFresh' /\ PlacedIsClosed' /\ WavesDisjoint' /\ DependenciesFirst' /\ AsEarlyAsPossible'
    BY <1>1, <1>2
       DEF ReadyFresh, PlacedIsClosed, WavesDisjoint, DependenciesFirst, AsEarlyAsPossible
  <2> QED BY <2>1, <2>2, <2>3, <2>4, <2>5, <2>6 DEF Planning
<1> QED BY <1>3, <1>4

\* A turn of the loop keeps the invariant.
LEMMA TakeWaveInv == Inv /\ TakeWave => Inv'
<1> SUFFICES ASSUME Inv, TakeWave PROVE Inv'
  OBVIOUS
<1>1. /\ phase = "planning" /\ phase' = "planning" /\ ready # {} /\ deps' = deps
      /\ waves' = Append(waves, ready)
      /\ order' = order + Cardinality(ready)
      /\ indegree' = [k \in Key |-> indegree[k] - Cardinality(deps[k] \cap ready)]
      /\ ready' = {k \in Key : deps[k] \cap ready # {} /\ indegree'[k] = 0}
  BY DEF TakeWave
<1>2. Shape /\ Planning
  BY <1>1 DEF Inv
<1>3. /\ waves \in Seq(SUBSET Key) /\ ready \in SUBSET Key /\ deps \in [Key -> SUBSET Key]
      /\ Placed \in SUBSET Key
  BY <1>2, PlacedInKey DEF Shape, Planning
<1>4. Placed' = Placed \cup ready /\ Placed \cap ready = {}
  BY <1>1, <1>2, <1>3, PlacedGrows DEF Planning, ReadyIs
<1>5. /\ Len(waves) \in Nat /\ DOMAIN waves = 1..Len(waves)
      /\ Len(waves') = Len(waves) + 1 /\ DOMAIN waves' = 1..(Len(waves) + 1)
      /\ waves'[Len(waves) + 1] = ready
      /\ \A i \in 1..Len(waves) : waves'[i] = waves[i]
  BY <1>1, <1>3
<1>6. Counts'
  <2>1. ASSUME NEW k \in Key
        PROVE  indegree[k] - Cardinality(deps[k] \cap ready) = Cardinality(deps[k] \ Placed')
    <3>1. indegree[k] = Cardinality(deps[k] \ Placed)
      BY <1>2 DEF Planning, Counts
    <3>2. deps[k] \in SUBSET Key
      BY <1>3
    <3>3. Cardinality(deps[k] \ Placed) - Cardinality(deps[k] \cap ready)
            = Cardinality(deps[k] \ (Placed \cup ready))
      BY <1>3, <1>4, <3>2, CountDown
    <3> QED BY <1>4, <3>1, <3>3
  <2>2. indegree' = [k \in Key |-> Cardinality(deps'[k] \ Placed')]
    BY <1>1, <2>1
  <2>3. Cardinality(Placed') = Cardinality(Placed) + Cardinality(ready)
    <3>1. IsFiniteSet(Placed) /\ IsFiniteSet(ready)
          /\ Cardinality(Placed) \in Nat /\ Cardinality(ready) \in Nat
      BY <1>3, SubsetsFinite
    <3>2. Cardinality(Placed \cup ready)
            = Cardinality(Placed) + Cardinality(ready) - Cardinality(Placed \cap ready)
      BY <3>1, FS_Union
    <3> QED BY <1>4, <3>1, <3>2, FS_EmptySet
  <2>4. order = Cardinality(Placed)
    BY <1>2 DEF Planning, Counts
  <2> QED BY <1>1, <2>2, <2>3, <2>4 DEF Counts
<1>7. \A k \in Key : indegree'[k] = 0 <=> deps[k] \subseteq Placed'
  <2> TAKE k \in Key
  <2>1. indegree'[k] = Cardinality(deps[k] \ Placed')
    BY <1>1, <1>6 DEF Counts
  <2>2. deps[k] \ Placed' \in SUBSET Key
    BY <1>3
  <2>3. indegree'[k] = 0 <=> deps[k] \ Placed' = {}
    BY <2>1, <2>2, NoneLeft
  <2> QED BY <2>3
<1>8. ReadyIs'
  <2>1. ASSUME NEW k \in Key, deps[k] \subseteq Placed'
        PROVE  deps[k] \cap ready # {} <=> k \notin Placed'
    <3>1. CASE deps[k] \subseteq Placed
      <4>1. k \in Placed \cup ready
        BY <1>2, <3>1 DEF Planning, ReadyIs
      <4> QED BY <1>4, <3>1, <4>1
    <3>2. CASE ~(deps[k] \subseteq Placed)
      <4>1. k \notin Placed
        BY <1>2, <3>2 DEF Planning, PlacedIsClosed
      <4>2. k \notin ready
        BY <1>2, <3>2 DEF Planning, ReadyIs
      <4> QED BY <1>4, <2>1, <3>2, <4>1, <4>2
    <3> QED BY <3>1, <3>2
  <2> QED BY <1>1, <1>7, <2>1 DEF ReadyIs
<1>9. ReadyFresh'
  BY <1>1, <1>5 DEF ReadyFresh
<1>10. PlacedIsClosed'
  BY <1>1, <1>2, <1>4 DEF Planning, PlacedIsClosed, ReadyIs
<1>11. WavesDisjoint'
  <2> SUFFICES ASSUME NEW i \in DOMAIN waves', NEW j \in DOMAIN waves', i # j
               PROVE  waves'[i] \cap waves'[j] = {}
    BY DEF WavesDisjoint
  <2>1. \A l \in 1..Len(waves) : waves[l] \subseteq Placed
    BY <1>5 DEF Placed
  <2>2. CASE i \in 1..Len(waves) /\ j \in 1..Len(waves)
    BY <1>2, <1>5, <2>2 DEF Planning, WavesDisjoint
  <2>3. CASE i = Len(waves) + 1
    <3>1. j \in 1..Len(waves)
      BY <1>5, <2>3
    <3>2. waves'[i] = ready /\ waves'[j] \subseteq Placed
      BY <1>5, <2>1, <2>3, <3>1
    <3> QED BY <1>4, <3>2
  <2>4. CASE j = Len(waves) + 1
    <3>1. i \in 1..Len(waves)
      BY <1>5, <2>4
    <3>2. waves'[j] = ready /\ waves'[i] \subseteq Placed
      BY <1>5, <2>1, <2>4, <3>1
    <3> QED BY <1>4, <3>2
  <2> QED BY <1>5, <2>2, <2>3, <2>4
<1>12. DependenciesFirst'
  <2> SUFFICES ASSUME NEW i \in DOMAIN waves', NEW k \in waves'[i], NEW d \in deps[k]
               PROVE  \E j \in 1..(i - 1) : d \in waves'[j]
    BY <1>1 DEF DependenciesFirst
  <2>1. CASE i \in 1..Len(waves)
    <3>1. k \in waves[i] /\ i \in DOMAIN waves
      BY <1>5, <2>1
    <3>2. PICK j \in 1..(i - 1) : d \in waves[j]
      BY <1>2, <3>1 DEF Planning, DependenciesFirst
    <3>3. j \in 1..Len(waves)
      BY <1>5, <2>1
    <3> QED BY <1>5, <3>2, <3>3
  <2>2. CASE i = Len(waves) + 1
    <3>1. d \in Placed
      BY <1>2, <1>5, <2>2 DEF Planning, ReadyIs
    <3>2. PICK j \in DOMAIN waves : d \in waves[j]
      BY <3>1 DEF Placed
    <3>3. j \in 1..(i - 1) /\ d \in waves'[j]
      BY <1>5, <2>2, <3>2
    <3> QED BY <3>3
  <2> QED BY <1>5, <2>1, <2>2
<1>13. AsEarlyAsPossible'
  <2> SUFFICES ASSUME NEW i \in DOMAIN waves', i > 1, NEW k \in waves'[i]
               PROVE  \E d \in deps[k] : d \in waves'[i - 1]
    BY <1>1 DEF AsEarlyAsPossible
  <2>1. CASE i \in 1..Len(waves)
    <3>1. i \in DOMAIN waves /\ k \in waves[i] /\ i - 1 \in 1..Len(waves)
      BY <1>5, <2>1
    <3>2. \E d \in deps[k] : d \in waves[i - 1]
      BY <1>2, <3>1 DEF Planning, AsEarlyAsPossible
    <3> QED BY <1>5, <3>1, <3>2
  <2>2. CASE i = Len(waves) + 1
    <3>1. k \in ready /\ Len(waves) > 0 /\ i - 1 = Len(waves)
      BY <1>5, <2>2
    <3>2. \E d \in deps[k] : d \in waves[Len(waves)]
      BY <1>2, <3>1 DEF Planning, ReadyFresh
    <3>3. waves'[Len(waves)] = waves[Len(waves)]
      BY <1>5, <3>1
    <3> QED BY <3>1, <3>2, <3>3
  <2> QED BY <1>5, <2>1, <2>2
<1>14. Shape'
  <2>1. waves' \in Seq(SUBSET Key)
    BY <1>1, <1>3
  <2>2. ready' \in SUBSET Key
    BY <1>1
  <2> QED BY <1>1, <1>2, <2>1, <2>2 DEF Shape
<1>15. Planning'
  BY <1>1, <1>3, <1>6, <1>8, <1>9, <1>10, <1>11, <1>12, <1>13 DEF Planning
<1> QED BY <1>1, <1>14, <1>15 DEF Inv

\* The verdict keeps the invariant.
LEMMA FinishInv == Inv /\ Finish => Inv'
<1> SUFFICES ASSUME Inv, Finish PROVE Inv'
  OBVIOUS
<1>1. /\ phase = "planning" /\ ready = {} /\ Shape /\ Planning
      /\ phase' = IF order = N THEN "planned" ELSE "cycle"
      /\ deps' = deps /\ indegree' = indegree /\ ready' = ready /\ waves' = waves /\ order' = order
  BY DEF Finish, Inv
<1>2. Placed' = Placed /\ Placed \in SUBSET Key
  BY <1>1, PlacedInKey DEF Placed, Shape
<1>3. order = N <=> Placed = Key
  <2>1. order = Cardinality(Placed)
    BY <1>1 DEF Planning, Counts
  <2>2. Cardinality(Placed) = Cardinality(Key) => Placed = Key
    BY <1>2, KeysFinite, FS_Subset
  <2> QED BY <2>1, <2>2, KeysFinite
<1>4. Shape'
  BY <1>1 DEF Shape
<1>5. Planning'
  BY <1>1, <1>2 DEF Planning, Counts, ReadyIs, ReadyFresh, PlacedIsClosed, WavesDisjoint,
                    DependenciesFirst, AsEarlyAsPossible
<1> QED BY <1>1, <1>2, <1>3, <1>4, <1>5 DEF Inv

\* Nothing else changes what it speaks of.
LEMMA StutterInv == Inv /\ UNCHANGED vars => Inv'
  BY DEF Inv, vars, Shape, Planning, Counts, ReadyIs, ReadyFresh, PlacedIsClosed, WavesDisjoint,
         DependenciesFirst, AsEarlyAsPossible, Placed

\* The planner's invariant (the counts are those of the dependencies not yet placed, what
\* is placed is closed under dependencies, the waves are disjoint) holds throughout.
THEOREM InvHolds == Spec => []Inv
<1>1. Inv /\ [Next]_vars => Inv'
  BY CheckInv, TakeWaveInv, FinishInv, StutterInv DEF Next
<1> QED BY InitInv, <1>1, PTL DEF Spec

-----------------------------------------------------------------------------
\* The type invariant, counts included.
THEOREM TypeCorrect == Spec => []TypeOK
<1>1. Inv => TypeOK
  <2> SUFFICES ASSUME Inv PROVE TypeOK
    OBVIOUS
  <2>1. CASE phase \in {"checking", "missing"}
    BY <2>1, NIsCount DEF Inv, Shape, TypeOK
  <2>2. CASE phase \in {"planning", "planned", "cycle"}
    <3>1. Shape /\ Planning
      BY <2>2 DEF Inv
    <3>2. Placed \in SUBSET Key
      BY <3>1, PlacedInKey DEF Shape
    <3>3. order \in 0..N
      BY <3>1, <3>2, SubsetsFinite, NIsCount DEF Planning, Counts
    <3>4. indegree \in [Key -> Nat]
      <4>1. \A k \in Key : deps[k] \ Placed \in SUBSET Key
        BY <3>1 DEF Planning
      <4>2. \A k \in Key : Cardinality(deps[k] \ Placed) \in Nat
        BY <4>1, SubsetsFinite
      <4> QED BY <3>1, <4>2 DEF Planning, Counts
    <3> QED BY <3>1, <3>3, <3>4 DEF Shape, TypeOK
  <2> QED BY <2>1, <2>2 DEF Inv, Shape
<1> QED BY InvHolds, <1>1, PTL

\* The waves respect the dependencies at every moment of the planning.
THEOREM WavesInOrder == Spec => []DependenciesFirst
<1>1. Inv => DependenciesFirst
  BY DEF Inv, Shape, Planning, DependenciesFirst
<1> QED BY InvHolds, <1>1, PTL

\* No wave holds a task that could have been in the wave before.
THEOREM WavesAreEarly == Spec => []AsEarlyAsPossible
<1>1. Inv => AsEarlyAsPossible
  BY DEF Inv, Shape, Planning, AsEarlyAsPossible
<1> QED BY InvHolds, <1>1, PTL

\* A plan is complete and has no task twice.
THEOREM PlanIsComplete == Spec => []EveryTaskOnce
<1>1. Inv => EveryTaskOnce
  <2> SUFFICES ASSUME Inv, phase = "planned", NEW k \in Key
               PROVE  \E i \in DOMAIN waves :
                        k \in waves[i] /\ \A j \in DOMAIN waves : k \in waves[j] => j = i
    BY DEF EveryTaskOnce
  <2>1. k \in Placed /\ WavesDisjoint
    BY DEF Inv, Planning
  <2>2. PICK i \in DOMAIN waves : k \in waves[i]
    BY <2>1 DEF Placed
  <2>3. \A j \in DOMAIN waves : k \in waves[j] => j = i
    BY <2>1, <2>2 DEF WavesDisjoint
  <2> QED BY <2>2, <2>3
<1> QED BY InvHolds, <1>1, PTL

\* Only a batch with a cycle is refused for one.
THEOREM RefusalIsRight == Spec => []RefusedForCycle
<1>1. Inv => RefusedForCycle
  <2> SUFFICES ASSUME Inv, phase = "cycle"
               PROVE  \E S \in SUBSET Key : S # {} /\ \A k \in S : deps[k] \cap S # {}
    BY DEF RefusedForCycle
  <2>1. ready = {} /\ Placed # Key /\ Shape /\ Planning
    BY DEF Inv
  <2>2. Placed \in SUBSET Key
    BY <2>1, PlacedInKey DEF Shape
  <2>3. ASSUME NEW k \in Key \ Placed PROVE deps[k] \cap (Key \ Placed) # {}
    <3>1. ~(deps[k] \subseteq Placed)
      BY <2>1, <2>3 DEF Planning, ReadyIs
    <3>2. deps[k] \subseteq Key
      BY <2>1 DEF Planning
    <3> QED BY <3>1, <3>2
  <2>4. Key \ Placed \in SUBSET Key /\ Key \ Placed # {}
    BY <2>1, <2>2
  <2> QED BY <2>3, <2>4
<1> QED BY InvHolds, <1>1, PTL

\* Whatever the dependencies, a plan puts every task into one wave, after what it depends on
\* and as early as it can be, or the batch is refused for a cycle it has.
THEOREM PlanRight == Spec => []PlanIsRight
<1>1. DependenciesFirst /\ AsEarlyAsPossible /\ EveryTaskOnce /\ RefusedForCycle => PlanIsRight
  BY DEF PlanIsRight
<1> QED BY WavesInOrder, WavesAreEarly, PlanIsComplete, RefusalIsRight, <1>1, PTL

-----------------------------------------------------------------------------
(***************************************************************************)
(* The tool that carries a plan out (module SubAgentBatch): for any number *)
(* of tasks, executions, attempts and chunks.  What an attempt does is     *)
(* said once (Moves): it writes the place of its task and the session of   *)
(* the attempt.                                                            *)
(***************************************************************************)

CONSTANTS
    Exec, RunId, NoRun, Retries, MaxParallel, CloseSessions, Overlap, MayLose, CloseFails,
    TasksFail, JournalFull

VARIABLES policy, entry, exec, try, sess

Batch == INSTANCE SubAgentBatch

Results == [Batch!Key -> Batch!Outcome]
Runs == RunId \cup {NoRun}
Place == {"rest", "spawn", "send", "wait", "close", "closeForced", "catch", "answered"}
Trial == [at : Place, n : Batch!Attempt, out : Batch!Outcome]
Session == [open : BOOLEAN, task : {"none", "live", "completed", "failed", "interrupted"}]
Execution == [at : {"idle", "chunk", "running", "ended"}, run : Runs,
              pos : [wave : Nat, chunk : Nat], res : Results, jres : Results,
              old : SUBSET Batch!Key]

\* What a place says of the outcome so far.
OutcomeFits(t) ==
    /\ t.at = "close" => t.out = "succeeded"
    /\ t.at = "closeForced" => t.out = "failed"
    /\ t.at = "catch" => t.out \in {"failed", "fatal"}
    /\ t.at = "answered" => t.out \in {"succeeded", "failed", "fatal"}

BatchTypes ==
    /\ deps \in [Batch!Key -> SUBSET Batch!Key]
    /\ policy \in [Batch!Key -> {"stop", "continue"}]
    /\ entry \in [run : Runs, res : Results]
    /\ exec \in [Exec -> Execution]
    /\ try \in [Exec -> [Batch!Key -> Trial]]
    /\ sess \in [Exec -> [Batch!Key -> [Batch!Attempt -> Session]]]
    /\ \A x \in Exec, k \in Batch!Key : OutcomeFits(try[x][k])

\* A failed attempt is answered, or the next one begins.
Again(t, u, out) ==
    \/ /\ t.n > Retries \/ out = "fatal"
       /\ u = [t EXCEPT !.at = "answered", !.out = out]
    \/ /\ t.n <= Retries /\ out # "fatal"
       /\ u = [at |-> "spawn", n |-> t.n + 1, out |-> "none"]

Shut(s) == [open |-> FALSE, task |-> Batch!Interrupted(s.task)]

\* A step of an attempt takes its task from t to u and its session from s to r.
Moves(t, u, s, r) ==
    \/ t.at = "spawn" /\ u = [t EXCEPT !.at = "send", !.out = "none"]
                      /\ r = [open |-> TRUE, task |-> "none"]
    \/ t.at = "spawn" /\ r = s /\ \E out \in {"failed", "fatal"} : Again(t, u, out)
    \/ t.at = "spawn" /\ MayLose /\ Again(t, u, "failed") /\ r = [open |-> TRUE, task |-> "none"]
    \/ t.at = "send" /\ u = [t EXCEPT !.at = "wait", !.out = "none"]
                     /\ r = [open |-> TRUE, task |-> "live"]
    \/ t.at = "send" /\ r = s /\ \E out \in {"failed", "fatal"} :
                                    u = [t EXCEPT !.at = "catch", !.out = out]
    \/ t.at = "send" /\ u = [t EXCEPT !.at = "catch", !.out = "failed"]
                     /\ r = [open |-> TRUE, task |-> "live"]
    \/ t.at = "wait" /\ r = s /\ s.task # "live"
                     /\ u = [t EXCEPT !.at = IF CloseSessions THEN "close" ELSE "answered",
                                      !.out = "succeeded"]
    \/ t.at = "wait" /\ r = s /\ s.task = "live"
                     /\ IF CloseSessions THEN u = [t EXCEPT !.at = "closeForced", !.out = "failed"]
                                         ELSE Again(t, u, "failed")
    \/ t.at = "wait" /\ r = s /\ u = [t EXCEPT !.at = "catch", !.out = "failed"]
    \/ t.at = "close" /\ r = [open |-> FALSE, task |-> s.task]
                      /\ u = [t EXCEPT !.at = "answered", !.out = "succeeded"]
    \/ t.at = "closeForced" /\ r = Shut(s) /\ Again(t, u, "failed")
    \/ t.at \in {"close", "closeForced"} /\ CloseFails /\ r = s
                                         /\ u = [t EXCEPT !.at = "catch", !.out = "failed"]
    \/ t.at = "catch" /\ CloseSessions /\ r = Shut(s) /\ Again(t, u, t.out)
    \/ t.at = "catch" /\ (CloseFails \/ ~CloseSessions) /\ r = s /\ Again(t, u, t.out)

\* The types of the records an attempt writes.
LEMMA AgainType ==
    ASSUME Batch!CountsAreNat, NEW t \in Trial, NEW u, NEW out \in {"failed", "fatal"},
           Again(t, u, out)
    PROVE  u \in Trial /\ OutcomeFits(u) /\ u.at \in {"answered", "spawn"}
<1>1. CASE t.n > Retries \/ out = "fatal"
    <2>1. u = [t EXCEPT !.at = "answered", !.out = out]
        BY <1>1 DEF Again, Trial, Batch!Attempt, Batch!CountsAreNat
    <2> QED BY <2>1 DEF Trial, Place, OutcomeFits, Batch!Outcome
<1>2. CASE t.n <= Retries /\ out # "fatal"
    <2>1. u = [at |-> "spawn", n |-> t.n + 1, out |-> "none"]
        BY <1>2 DEF Again, Trial, Batch!Attempt, Batch!CountsAreNat
    <2>2. t.n + 1 \in Batch!Attempt
        BY <1>2 DEF Trial, Batch!Attempt, Batch!CountsAreNat
    <2> QED BY <2>1, <2>2 DEF Trial, Place, OutcomeFits, Batch!Outcome
<1> QED BY <1>1, <1>2 DEF Again

\* A move keeps the types of what it writes, and only a task that is tried moves.
LEMMA MovesType ==
    ASSUME Batch!CountsAreNat, NEW t \in Trial, NEW u, NEW s \in Session, NEW r,
           OutcomeFits(t), Moves(t, u, s, r)
    PROVE  u \in Trial /\ OutcomeFits(u) /\ r \in Session /\ t.at \notin {"rest", "answered"}
<1>0. r \in Session
    <2>1. /\ Shut(s) \in Session
          /\ [open |-> FALSE, task |-> s.task] \in Session
          /\ [open |-> TRUE, task |-> "none"] \in Session
          /\ [open |-> TRUE, task |-> "live"] \in Session
        BY DEF Session, Shut, Batch!Interrupted
    <2> QED BY <2>1 DEF Moves
<1>3. t.at \notin {"rest", "answered"}
    BY DEF Moves
<1>1. CASE \E out \in {"failed", "fatal"} : Again(t, u, out)
    BY <1>0, <1>3, <1>1, AgainType
<1>2. CASE ~\E out \in {"failed", "fatal"} : Again(t, u, out)
    <2>2. t.at = "catch" => t.out \in {"failed", "fatal"}
        BY DEF OutcomeFits
    <2>3. \E at \in Place, out \in Batch!Outcome :
             u = [t EXCEPT !.at = at, !.out = out] /\ OutcomeFits(u)
        <3>1. CASE u = [t EXCEPT !.at = "send", !.out = "none"]
            BY <3>1 DEF Trial, Place, OutcomeFits, Batch!Outcome
        <3>2. CASE u = [t EXCEPT !.at = "wait", !.out = "none"]
            BY <3>2 DEF Trial, Place, OutcomeFits, Batch!Outcome
        <3>3. CASE \E out \in {"failed", "fatal"} : u = [t EXCEPT !.at = "catch", !.out = out]
            BY <3>3 DEF Trial, Place, OutcomeFits, Batch!Outcome
        <3>4. CASE u = [t EXCEPT !.at = "close", !.out = "succeeded"]
            BY <3>4 DEF Trial, Place, OutcomeFits, Batch!Outcome
        <3>5. CASE u = [t EXCEPT !.at = "answered", !.out = "succeeded"]
            BY <3>5 DEF Trial, Place, OutcomeFits, Batch!Outcome
        <3>6. CASE u = [t EXCEPT !.at = "closeForced", !.out = "failed"]
            BY <3>6 DEF Trial, Place, OutcomeFits, Batch!Outcome
        <3> QED BY <1>2, <2>2, <3>1, <3>2, <3>3, <3>4, <3>5, <3>6 DEF Moves
    <2> QED BY <1>0, <1>3, <2>3 DEF Trial
<1> QED BY <1>1, <1>2

\* What an attempt of a task writes, and that it writes nothing else.
Wrote(x, k, u, r) ==
    /\ try' = [try EXCEPT ![x][k] = u]
    /\ sess' = [sess EXCEPT ![x][k][try[x][k].n] = r]
    /\ UNCHANGED <<deps, policy, entry, exec>>

\* Every step of an attempt is one of the moves.
LEMMA AttemptMoves ==
    ASSUME Batch!CountsAreNat, BatchTypes, NEW x \in Exec, NEW k \in Batch!Key,
           Batch!AttemptStep(x, k)
    PROVE  \E u, r : /\ Moves(try[x][k], u, sess[x][k][try[x][k].n], r)
                     /\ Wrote(x, k, u, r)
<1> DEFINE t == try[x][k]
           s == sess[x][k][t.n]
           Sent(r) == [open |-> TRUE, task |-> r]
           Goes(at, out) == [t EXCEPT !.at = at, !.out = out]
<1>1. t \in Trial /\ s \in Session /\ Retries \in Nat /\ t.n \in Nat
    BY DEF BatchTypes, Trial, Batch!CountsAreNat, Batch!Attempt
<1>2. ASSUME NEW at, NEW out, Batch!Go(x, k, at, out)
      PROVE  try' = [try EXCEPT ![x][k] = Goes(at, out)]
    BY <1>2 DEF Batch!Go, BatchTypes
<1>3. ASSUME NEW out, Batch!Failed(x, k, out)
      PROVE  \E u : Again(t, u, out) /\ try' = [try EXCEPT ![x][k] = u]
    <2> DEFINE next == [at |-> "spawn", n |-> t.n + 1, out |-> "none"]
               last == [t EXCEPT !.at = "answered", !.out = out]
    <2>1. try' = [try EXCEPT ![x][k] = IF out = "fatal" \/ t.n > Retries THEN last ELSE next]
        BY <1>3 DEF Batch!Failed, BatchTypes
    <2>2. CASE out = "fatal" \/ t.n > Retries
        <3>1. Again(t, last, out)
            BY <2>2 DEF Again
        <3> QED BY <2>1, <2>2, <3>1
    <2>3. CASE ~(out = "fatal" \/ t.n > Retries)
        <3>1. t.n <= Retries
            BY <1>1, <2>3
        <3>2. Again(t, next, out)
            BY <2>3, <3>1 DEF Again
        <3> QED BY <2>1, <2>3, <3>2
    <2> QED BY <2>2, <2>3
<1>4. UNCHANGED sess => Batch!Set(x, k, s)
    BY <1>1 DEF BatchTypes, Trial, Batch!Set
<1>5. ASSUME NEW at, NEW out, NEW r, Batch!Go(x, k, at, out), Batch!Set(x, k, r),
             UNCHANGED <<deps, policy, entry, exec>>
      PROVE  Wrote(x, k, Goes(at, out), r)
    BY <1>2, <1>5 DEF Batch!Set, Wrote
<1>6. ASSUME NEW out, NEW r, Batch!Failed(x, k, out), Batch!Set(x, k, r),
             UNCHANGED <<deps, policy, entry, exec>>
      PROVE  \E u : Again(t, u, out) /\ Wrote(x, k, u, r)
    BY <1>3, <1>6 DEF Batch!Set, Wrote
<1>7. CASE Batch!Spawn(x, k)
    <2>1. t.at = "spawn" /\ UNCHANGED <<deps, policy, entry, exec>>
        BY <1>7 DEF Batch!Spawn, Batch!At
    <2>2. CASE Batch!Set(x, k, Sent("none")) /\ Batch!Go(x, k, "send", "none")
        <3>1. Wrote(x, k, Goes("send", "none"), Sent("none"))
            BY <1>5, <2>1, <2>2
        <3>2. Moves(t, Goes("send", "none"), s, Sent("none"))
            BY <2>1 DEF Moves
        <3> QED BY <3>1, <3>2
    <2>3. ASSUME UNCHANGED sess, NEW out \in {"failed", "fatal"}, Batch!Failed(x, k, out)
          PROVE  \E u, r : Moves(t, u, s, r) /\ Wrote(x, k, u, r)
        <3>1. PICK u : Again(t, u, out) /\ Wrote(x, k, u, s)
            BY <1>4, <1>6, <2>1, <2>3
        <3>2. Moves(t, u, s, s)
            BY <2>1, <3>1 DEF Moves
        <3> QED BY <3>1, <3>2
    <2>4. CASE MayLose /\ Batch!Set(x, k, Sent("none")) /\ Batch!Failed(x, k, "failed")
        <3>1. PICK u : Again(t, u, "failed") /\ Wrote(x, k, u, Sent("none"))
            BY <1>6, <2>1, <2>4
        <3>2. Moves(t, u, s, Sent("none"))
            BY <2>1, <2>4, <3>1 DEF Moves
        <3> QED BY <3>1, <3>2
    <2> QED BY <1>7, <2>2, <2>3, <2>4 DEF Batch!Spawn
<1>8. CASE Batch!Send(x, k)
    <2>1. t.at = "send" /\ UNCHANGED <<deps, policy, entry, exec>>
        BY <1>8 DEF Batch!Send, Batch!At
    <2>2. CASE Batch!Set(x, k, Sent("live")) /\ Batch!Go(x, k, "wait", "none")
        <3>1. Wrote(x, k, Goes("wait", "none"), Sent("live"))
            BY <1>5, <2>1, <2>2
        <3>2. Moves(t, Goes("wait", "none"), s, Sent("live"))
            BY <2>1 DEF Moves
        <3> QED BY <3>1, <3>2
    <2>3. ASSUME UNCHANGED sess, NEW out \in {"failed", "fatal"}, Batch!Go(x, k, "catch", out)
          PROVE  \E u, r : Moves(t, u, s, r) /\ Wrote(x, k, u, r)
        <3>1. Wrote(x, k, Goes("catch", out), s)
            BY <1>4, <1>5, <2>1, <2>3
        <3>2. Moves(t, Goes("catch", out), s, s)
            BY <2>1, <2>3 DEF Moves
        <3> QED BY <3>1, <3>2
    <2>4. CASE Batch!Set(x, k, Sent("live")) /\ Batch!Go(x, k, "catch", "failed")
        <3>1. Wrote(x, k, Goes("catch", "failed"), Sent("live"))
            BY <1>5, <2>1, <2>4
        <3>2. Moves(t, Goes("catch", "failed"), s, Sent("live"))
            BY <2>1 DEF Moves
        <3> QED BY <3>1, <3>2
    <2> QED BY <1>8, <2>2, <2>3, <2>4 DEF Batch!Send
<1>9. CASE Batch!WaitDone(x, k)
    <2> DEFINE to == IF CloseSessions THEN "close" ELSE "answered"
    <2>1. t.at = "wait" /\ s.task # "live" /\ Wrote(x, k, Goes(to, "succeeded"), s)
        BY <1>4, <1>5, <1>9 DEF Batch!WaitDone, Batch!At, Batch!Session
    <2>2. Moves(t, Goes(to, "succeeded"), s, s)
        BY <2>1 DEF Moves
    <2> QED BY <2>1, <2>2
<1>10. CASE Batch!WaitTimesOut(x, k)
    <2>1. t.at = "wait" /\ s.task = "live" /\ UNCHANGED <<deps, policy, entry, exec, sess>>
        BY <1>10 DEF Batch!WaitTimesOut, Batch!At, Batch!Session
    <2>2. CASE CloseSessions
        <3>1. Wrote(x, k, Goes("closeForced", "failed"), s)
            BY <1>4, <1>5, <1>10, <2>1, <2>2 DEF Batch!WaitTimesOut
        <3>2. Moves(t, Goes("closeForced", "failed"), s, s)
            BY <2>1, <2>2 DEF Moves
        <3> QED BY <3>1, <3>2
    <2>3. CASE ~CloseSessions
        <3>1. PICK u : Again(t, u, "failed") /\ Wrote(x, k, u, s)
            BY <1>4, <1>6, <1>10, <2>1, <2>3 DEF Batch!WaitTimesOut
        <3>2. Moves(t, u, s, s)
            BY <2>1, <2>3, <3>1 DEF Moves
        <3> QED BY <3>1, <3>2
    <2> QED BY <2>2, <2>3
<1>11. CASE Batch!WaitThrows(x, k)
    <2>1. t.at = "wait" /\ Wrote(x, k, Goes("catch", "failed"), s)
        BY <1>4, <1>5, <1>11 DEF Batch!WaitThrows, Batch!At
    <2>2. Moves(t, Goes("catch", "failed"), s, s)
        BY <2>1 DEF Moves
    <2> QED BY <2>1, <2>2
<1>12. CASE Batch!Close(x, k)
    <2>1. t.at \in {"close", "closeForced"} /\ UNCHANGED <<deps, policy, entry, exec>>
        BY <1>12 DEF Batch!Close, Batch!At
    <2>2. CASE CloseFails /\ UNCHANGED sess /\ Batch!Go(x, k, "catch", "failed")
        <3>1. Wrote(x, k, Goes("catch", "failed"), s)
            BY <1>4, <1>5, <2>1, <2>2
        <3>2. Moves(t, Goes("catch", "failed"), s, s)
            BY <2>1, <2>2 DEF Moves
        <3> QED BY <3>1, <3>2
    <2>3. CASE ~(CloseFails /\ UNCHANGED sess /\ Batch!Go(x, k, "catch", "failed"))
        <3>1. /\ Batch!Set(x, k, [open |-> FALSE,
                                  task |-> IF t.at = "closeForced" THEN Batch!Interrupted(s.task)
                                                                   ELSE s.task])
              /\ IF t.out = "succeeded" THEN Batch!Go(x, k, "answered", "succeeded")
                 ELSE Batch!Failed(x, k, "failed")
            BY <1>12, <2>3 DEF Batch!Close, Batch!At, Batch!Session
        <3>2. CASE t.at = "close"
            <4> DEFINE r == [open |-> FALSE, task |-> s.task]
            <4>1. Wrote(x, k, Goes("answered", "succeeded"), r)
                BY <1>5, <2>1, <3>1, <3>2 DEF OutcomeFits, BatchTypes
            <4>2. Moves(t, Goes("answered", "succeeded"), s, r)
                BY <3>2 DEF Moves
            <4> QED BY <4>1, <4>2
        <3>3. CASE t.at = "closeForced"
            <4>1. Batch!Set(x, k, Shut(s)) /\ Batch!Failed(x, k, "failed")
                BY <3>1, <3>3 DEF OutcomeFits, BatchTypes, Shut
            <4>2. PICK u : Again(t, u, "failed") /\ Wrote(x, k, u, Shut(s))
                BY <1>6, <2>1, <4>1
            <4>3. Moves(t, u, s, Shut(s))
                BY <3>3, <4>2 DEF Moves
            <4> QED BY <4>2, <4>3
        <3> QED BY <2>1, <3>2, <3>3
    <2> QED BY <2>2, <2>3
<1>13. CASE Batch!Catch(x, k)
    <2>1. t.at = "catch" /\ Batch!Failed(x, k, t.out) /\ UNCHANGED <<deps, policy, entry, exec>>
        BY <1>13 DEF Batch!Catch, Batch!At
    <2>2. CASE CloseSessions /\ Batch!Set(x, k, Shut(s))
        <3>1. PICK u : Again(t, u, t.out) /\ Wrote(x, k, u, Shut(s))
            BY <1>6, <2>1, <2>2
        <3>2. Moves(t, u, s, Shut(s))
            BY <2>1, <2>2, <3>1 DEF Moves
        <3> QED BY <3>1, <3>2
    <2>3. CASE (CloseFails \/ ~CloseSessions) /\ UNCHANGED sess
        <3>1. PICK u : Again(t, u, t.out) /\ Wrote(x, k, u, s)
            BY <1>4, <1>6, <2>1, <2>3
        <3>2. Moves(t, u, s, s)
            BY <2>1, <2>3, <3>1 DEF Moves
        <3> QED BY <3>1, <3>2
    <2> QED BY <1>13, <2>2, <2>3 DEF Batch!Catch, Batch!Session, Shut
<1> QED BY <1>7, <1>8, <1>9, <1>10, <1>11, <1>12, <1>13 DEF Batch!AttemptStep

\* What a chunk that has been answered leaves: its results in the execution's, in the
\* journal's, and those of a batch that ends here.
Won(x) == {k \in Batch!Key : try[x][k].at = "answered"}
Gathered(x) == [k \in Batch!Key |-> IF k \in Won(x) THEN try[x][k].out ELSE exec[x].res[k]]
Journal(x) == [k \in Batch!Key |-> IF k \in Won(x) THEN try[x][k].out ELSE exec[x].jres[k]]
Final(x) == [k \in Batch!Key |-> IF Gathered(x)[k] = "none" THEN "skipped" ELSE Gathered(x)[k]]
Stopped(x) == \E k \in Won(x) : Batch!Stops(k, Gathered(x)[k])

EndsWith(x) ==
    /\ entry' = [run |-> exec[x].run, res |-> Final(x)]
    /\ exec' = [exec EXCEPT ![x] = [@ EXCEPT !.at = "ended", !.res = Final(x), !.jres = Final(x)]]
GoesOnWith(x) ==
    /\ ~Stopped(x)
    /\ entry' = [run |-> exec[x].run, res |-> Journal(x)]
    /\ exec' = [exec EXCEPT ![x] = [@ EXCEPT !.at = "chunk", !.res = Gathered(x),
                                             !.jres = Journal(x),
                                             !.pos = Batch!NextPos(exec[x].pos)]]

\* A chunk that has been answered ends the batch or takes it to the next chunk.
LEMMA CollectWrites ==
    ASSUME NEW x \in Exec, Batch!Collect(x)
    PROVE  /\ exec[x].at = "running"
           /\ \A k \in Batch!Key : try[x][k].at \in {"rest", "answered"}
           /\ EndsWith(x) \/ GoesOnWith(x)
           /\ try' = [try EXCEPT ![x] = [k \in Batch!Key |-> Batch!AtRest]]
           /\ UNCHANGED <<deps, policy, sess>>
    BY DEF Batch!Collect, Won, Gathered, Journal, Final, Stopped, EndsWith, GoesOnWith

\* What is gathered from a chunk is results.
LEMMA ResultsGathered ==
    ASSUME BatchTypes, NEW x \in Exec
    PROVE  Gathered(x) \in Results /\ Journal(x) \in Results /\ Final(x) \in Results
<1>1. exec[x].res \in Results /\ exec[x].jres \in Results
    BY DEF BatchTypes, Execution
<1>2. \A k \in Batch!Key : try[x][k].out \in Batch!Outcome
    BY DEF BatchTypes, Trial
<1>3. Gathered(x) \in Results /\ Journal(x) \in Results
    BY <1>1, <1>2 DEF Gathered, Journal, Results
<1>4. Final(x) \in Results
    BY <1>3 DEF Final, Results, Batch!Outcome
<1> QED BY <1>3, <1>4

\* The types hold for good.
LEMMA BatchTypeStep ==
    ASSUME Batch!CountsAreNat, BatchTypes, [Batch!Next]_Batch!vars
    PROVE  BatchTypes'
<1>1. ASSUME NEW x \in Exec, NEW run \in RunId, NEW from \in Runs, Batch!Begin(x, run, from)
      PROVE  BatchTypes'
    <2> DEFINE kept == IF Batch!Matches(run, from) THEN entry.res ELSE Batch!NoResults
               of == IF Batch!Matches(run, from) THEN entry.run ELSE run
               old == {k \in Batch!Key : kept[k] # "none"}
    <2>1. /\ kept \in Results /\ of \in Runs
          /\ exec' = [exec EXCEPT ![x] =
                        [@ EXCEPT !.at = "chunk", !.res = kept, !.jres = kept, !.run = of,
                                  !.old = old]]
        <3>1. Batch!NoResults \in Results
            BY DEF Batch!NoResults, Results, Batch!Outcome
        <3>2. entry.res \in Results /\ entry.run \in Runs /\ run \in Runs
            BY DEF BatchTypes, Runs
        <3>3. kept \in Results /\ of \in Runs
            BY <3>1, <3>2
        <3> QED BY <1>1, <3>3 DEF Batch!Begin
    <2> HIDE DEF kept, of
    <2>2. exec'[x] \in Execution /\ \A y \in Exec : y # x => exec'[y] = exec[y]
        BY <2>1 DEF BatchTypes, Execution
    <2>3. exec' \in [Exec -> Execution]
        BY <2>1, <2>2 DEF BatchTypes
    <2> QED BY <1>1, <2>3 DEF Batch!Begin, BatchTypes
<1>2. ASSUME NEW x \in Exec, Batch!StartChunk(x)
      PROVE  BatchTypes'
    <2> DEFINE begun == [Batch!AtRest EXCEPT !.at = "spawn"]
    <2>1. begun \in Trial /\ OutcomeFits(begun)
        BY DEF Batch!AtRest, Trial, Place, Batch!Outcome, Batch!Attempt, Batch!CountsAreNat,
               OutcomeFits
    <2>2. \A k \in Batch!Key : try'[x][k] \in {begun, try[x][k]}
        BY <1>2 DEF Batch!StartChunk, BatchTypes
    <2>3. try' \in [Exec -> [Batch!Key -> Trial]] /\ \A y \in Exec : y # x => try'[y] = try[y]
        <3>1. \A y \in Exec : y # x => try'[y] = try[y]
            BY <1>2 DEF Batch!StartChunk, BatchTypes
        <3>2. try'[x] \in [Batch!Key -> Trial]
            <4> HIDE DEF begun
            <4>1. DOMAIN try'[x] = Batch!Key /\ try'[x] = [k \in Batch!Key |-> try'[x][k]]
                BY <1>2 DEF Batch!StartChunk, BatchTypes
            <4>2. ASSUME NEW k \in Batch!Key
                  PROVE  try'[x][k] \in Trial
                <5>1. try[x][k] \in Trial
                    BY DEF BatchTypes
                <5> QED BY <5>1, <2>1, <2>2
            <4> QED BY <4>1, <4>2
        <3>3. DOMAIN try' = Exec /\ try' = [y \in Exec |-> try'[y]]
            BY <1>2 DEF Batch!StartChunk, BatchTypes
        <3> QED BY <3>1, <3>2, <3>3 DEF BatchTypes
    <2>4. exec' \in [Exec -> Execution]
        <3> DEFINE res == [k \in Batch!Key |->
                             IF k \in {j \in Batch!Chunk(exec[x].pos) : exec[x].res[j] = "none"}
                                  /\ Batch!Blocked(x, k)
                             THEN "skipped" ELSE exec[x].res[k]]
        <3>1. res \in Results
            BY DEF Results, BatchTypes, Execution, Batch!Outcome
        <3>2. exec' = [exec EXCEPT ![x] = [@ EXCEPT !.at = "running", !.res = res]]
            BY <1>2 DEF Batch!StartChunk, BatchTypes, Execution
        <3> HIDE DEF res
        <3>3. [exec[x] EXCEPT !.at = "running", !.res = res] \in Execution
            <4>1. exec[x] \in Execution
                BY DEF BatchTypes
            <4>2. ASSUME NEW e \in Execution
                  PROVE  [e EXCEPT !.at = "running", !.res = res] \in Execution
                BY <3>1 DEF Execution
            <4> QED BY <4>1, <4>2
        <3> QED BY <3>2, <3>3 DEF BatchTypes
    <2>5. \A y \in Exec, k \in Batch!Key : OutcomeFits(try'[y][k])
        BY <2>1, <2>2, <2>3 DEF BatchTypes
    <2> QED BY <1>2, <2>3, <2>4, <2>5 DEF Batch!StartChunk, BatchTypes
<1>3. ASSUME NEW x \in Exec, Batch!Collect(x)
      PROVE  BatchTypes'
    <2>1. /\ Gathered(x) \in Results /\ Journal(x) \in Results /\ Final(x) \in Results
          /\ exec[x].run \in Runs /\ exec[x].pos \in [wave : Nat, chunk : Nat]
        BY ResultsGathered DEF BatchTypes, Execution
    <2>2. entry' \in [run : Runs, res : Results]
        <3>1. EndsWith(x) \/ GoesOnWith(x)
            BY <1>3, CollectWrites
        <3>2. CASE EndsWith(x)
            BY <2>1, <3>2 DEF EndsWith
        <3>3. CASE GoesOnWith(x)
            BY <2>1, <3>3 DEF GoesOnWith
        <3> QED BY <3>1, <3>2, <3>3
    <2>3. Batch!NextPos(exec[x].pos) \in [wave : Nat, chunk : Nat]
        <3>1. ASSUME NEW p \in [wave : Nat, chunk : Nat]
              PROVE  Batch!NextPos(p) \in [wave : Nat, chunk : Nat]
            <4>1. [p EXCEPT !.chunk = p.chunk + 1] \in [wave : Nat, chunk : Nat]
                OBVIOUS
            <4>2. [wave |-> p.wave + 1, chunk |-> 0] \in [wave : Nat, chunk : Nat]
                OBVIOUS
            <4> QED BY <4>1, <4>2 DEF Batch!NextPos
        <3> QED BY <2>1, <3>1
    <2>4. exec' \in [Exec -> Execution]
        <3>1. ASSUME NEW e \in Execution
              PROVE  /\ [e EXCEPT !.at = "ended", !.res = Final(x), !.jres = Final(x)] \in Execution
                     /\ [e EXCEPT !.at = "chunk", !.res = Gathered(x), !.jres = Journal(x),
                                  !.pos = Batch!NextPos(exec[x].pos)] \in Execution
            BY <2>1, <2>3 DEF Execution
        <3>2. exec[x] \in Execution
            BY DEF BatchTypes
        <3>3. CASE EndsWith(x)
            BY <3>1, <3>2, <3>3 DEF EndsWith, BatchTypes
        <3>4. CASE GoesOnWith(x)
            BY <3>1, <3>2, <3>4 DEF GoesOnWith, BatchTypes
        <3> QED BY <1>3, <3>3, <3>4, CollectWrites
    <2>5. Batch!AtRest \in Trial /\ OutcomeFits(Batch!AtRest)
        BY DEF Batch!AtRest, Trial, Place, Batch!Outcome, Batch!Attempt, Batch!CountsAreNat,
               OutcomeFits
    <2>6. /\ try' \in [Exec -> [Batch!Key -> Trial]]
          /\ \A y \in Exec, k \in Batch!Key : OutcomeFits(try'[y][k])
        <3>1. try' = [try EXCEPT ![x] = [k \in Batch!Key |-> Batch!AtRest]]
            BY <1>3, CollectWrites
        <3>2. [k \in Batch!Key |-> Batch!AtRest] \in [Batch!Key -> Trial]
            BY <2>5
        <3>3. try' \in [Exec -> [Batch!Key -> Trial]]
            BY <3>1, <3>2 DEF BatchTypes
        <3>4. ASSUME NEW y \in Exec, NEW k \in Batch!Key
              PROVE  try'[y][k] = IF y = x THEN Batch!AtRest ELSE try[y][k]
            BY <3>1 DEF BatchTypes
        <3> QED BY <2>5, <3>3, <3>4 DEF BatchTypes
    <2> QED BY <1>3, <2>2, <2>4, <2>6, CollectWrites DEF BatchTypes
<1>4. ASSUME NEW x \in Exec, NEW k \in Batch!Key, Batch!AttemptStep(x, k)
      PROVE  BatchTypes'
    <2>1. PICK u, r : Moves(try[x][k], u, sess[x][k][try[x][k].n], r) /\ Wrote(x, k, u, r)
        BY <1>4, AttemptMoves
    <2>2. try[x][k] \in Trial /\ OutcomeFits(try[x][k])
        BY DEF BatchTypes
    <2>3. sess[x][k][try[x][k].n] \in Session /\ try[x][k].n \in Batch!Attempt
        BY <2>2 DEF BatchTypes, Trial
    <2>4. u \in Trial /\ OutcomeFits(u) /\ r \in Session
        BY <2>1, <2>2, <2>3, MovesType
    <2>5. try' \in [Exec -> [Batch!Key -> Trial]]
        BY <2>1, <2>4 DEF Wrote, BatchTypes
    <2>6. sess' \in [Exec -> [Batch!Key -> [Batch!Attempt -> Session]]]
        BY <2>1, <2>3, <2>4 DEF Wrote, BatchTypes
    <2>7. \A y \in Exec, j \in Batch!Key : OutcomeFits(try'[y][j])
        BY <2>1, <2>4 DEF Wrote, BatchTypes
    <2> QED BY <2>1, <2>5, <2>6, <2>7 DEF Wrote, BatchTypes
<1>5. ASSUME NEW x \in Exec, NEW k \in Batch!Key, NEW n \in Batch!Attempt,
             Batch!TaskEnds(x, k, n)
      PROVE  BatchTypes'
    <2>1. PICK end \in {"completed", "failed"} : sess' = [sess EXCEPT ![x][k][n].task = end]
        BY <1>5 DEF Batch!TaskEnds
    <2>2. sess' \in [Exec -> [Batch!Key -> [Batch!Attempt -> Session]]]
        <3>1. [sess[x][k][n] EXCEPT !.task = end] \in Session
            <4>1. sess[x][k][n] \in Session
                BY DEF BatchTypes
            <4>2. ASSUME NEW s \in Session
                  PROVE  [s EXCEPT !.task = end] \in Session
                BY DEF Session
            <4> QED BY <4>1, <4>2
        <3> QED BY <2>1, <3>1 DEF BatchTypes
    <2> QED BY <1>5, <2>2 DEF Batch!TaskEnds, BatchTypes
<1>6. CASE Batch!Trim
    <2>1. Batch!NoEntry \in [run : Runs, res : Results]
        BY DEF Batch!NoEntry, Batch!NoResults, Results, Runs, Batch!Outcome
    <2> QED BY <1>6, <2>1 DEF Batch!Trim, BatchTypes
<1>7. CASE UNCHANGED Batch!vars
    BY <1>7 DEF Batch!vars, BatchTypes
<1> QED BY <1>1, <1>2, <1>3, <1>4, <1>5, <1>6, <1>7 DEF Batch!Next, Runs

-----------------------------------------------------------------------------
(***************************************************************************)
(* One task of one execution.  Whatever the batch does, it is one of seven *)
(* things for each task of each execution (ItemStep), and what is known of *)
(* a task by itself is argued against these.                               *)
(***************************************************************************)

ItemRests(x, k) ==
    /\ exec'[x].at = exec[x].at /\ exec'[x].res[k] = exec[x].res[k]
    /\ try'[x][k] = try[x][k] /\ sess'[x][k] = sess[x][k]
ItemBegins(x, k) ==
    /\ exec[x].at = "idle" /\ exec'[x].at = "chunk"
    /\ try'[x][k] = try[x][k] /\ sess'[x][k] = sess[x][k]
ItemPassedOver(x, k) ==
    /\ exec[x].at = "chunk" /\ exec'[x].at = "running"
    /\ \/ exec'[x].res[k] = exec[x].res[k]
       \/ exec'[x].res[k] = "skipped" /\ exec[x].res[k] = "none"
    /\ try'[x][k] = try[x][k] /\ sess'[x][k] = sess[x][k]
ItemStarts(x, k) ==
    /\ exec[x].at = "chunk" /\ exec'[x].at = "running" /\ ~Batch!Blocked(x, k)
    /\ exec[x].res[k] = "none" /\ exec'[x].res[k] = "none"
    /\ try'[x][k].at = "spawn" /\ try'[x][k].n = 1 /\ sess'[x][k] = sess[x][k]
ItemCollected(x, k) ==
    /\ exec[x].at = "running" /\ exec'[x].at \in {"chunk", "ended"}
    /\ IF try[x][k].at = "answered" THEN exec'[x].res[k] = try[x][k].out
       ELSE /\ try[x][k].at = "rest"
            /\ \/ exec'[x].res[k] = exec[x].res[k]
               \/ exec'[x].res[k] = "skipped" /\ exec[x].res[k] = "none"
    /\ try'[x][k].at = "rest" /\ sess'[x][k] = sess[x][k]
ItemMoves(x, k) ==
    /\ exec'[x].at = exec[x].at /\ exec'[x].res[k] = exec[x].res[k]
    /\ Moves(try[x][k], try'[x][k], sess[x][k][try[x][k].n], sess'[x][k][try[x][k].n])
    /\ \A n \in Batch!Attempt : n # try[x][k].n => sess'[x][k][n] = sess[x][k][n]
ItemTaskEnds(x, k) ==
    /\ exec'[x].at = exec[x].at /\ exec'[x].res[k] = exec[x].res[k] /\ try'[x][k] = try[x][k]
    /\ \E n \in Batch!Attempt :
          /\ sess[x][k][n].task = "live"
          /\ sess'[x][k][n].task \in {"completed", "failed"}
          /\ sess'[x][k][n].open = sess[x][k][n].open
          /\ \A m \in Batch!Attempt : m # n => sess'[x][k][m] = sess[x][k][m]

ItemStep(x, k) ==
    \/ ItemRests(x, k) \/ ItemBegins(x, k) \/ ItemPassedOver(x, k) \/ ItemStarts(x, k)
    \/ ItemCollected(x, k) \/ ItemMoves(x, k) \/ ItemTaskEnds(x, k)

\* Every step of the batch is a step of each of its tasks.
LEMMA ItemSteps ==
    ASSUME Batch!CountsAreNat, BatchTypes, [Batch!Next]_Batch!vars,
           NEW y \in Exec, NEW j \in Batch!Key
    PROVE  ItemStep(y, j)
<1>0. /\ try[y][j] \in Trial /\ sess[y][j] \in [Batch!Attempt -> Session]
      /\ exec[y] \in Execution
    BY DEF BatchTypes
<1>1. ASSUME NEW x \in Exec, NEW run \in RunId, NEW from \in Runs, Batch!Begin(x, run, from)
      PROVE  ItemRests(y, j) \/ ItemBegins(y, j)
    <2>1. UNCHANGED <<try, sess>> /\ exec[x].at = "idle"
        BY <1>1 DEF Batch!Begin
    <2>2. (y # x => exec'[y] = exec[y]) /\ exec'[x].at = "chunk"
        BY <1>1 DEF Batch!Begin, BatchTypes, Execution
    <2> QED BY <2>1, <2>2 DEF ItemRests, ItemBegins
<1>2. ASSUME NEW x \in Exec, Batch!StartChunk(x)
      PROVE  ItemRests(y, j) \/ ItemPassedOver(y, j) \/ ItemStarts(y, j)
    <2> DEFINE due == {k \in Batch!Chunk(exec[x].pos) : exec[x].res[k] = "none"}
    <2>1. exec[x].at = "chunk" /\ UNCHANGED sess
        BY <1>2 DEF Batch!StartChunk
    <2>2. /\ y # x => exec'[y] = exec[y] /\ try'[y] = try[y]
          /\ exec'[x].at = "running"
          /\ exec'[x].res[j] = IF j \in due /\ Batch!Blocked(x, j)
                              THEN "skipped" ELSE exec[x].res[j]
          /\ try'[x][j] = IF j \in due /\ ~Batch!Blocked(x, j)
                          THEN [Batch!AtRest EXCEPT !.at = "spawn"] ELSE try[x][j]
        BY <1>2 DEF Batch!StartChunk, BatchTypes, Execution
    <2>3. /\ [Batch!AtRest EXCEPT !.at = "spawn"].at = "spawn"
          /\ [Batch!AtRest EXCEPT !.at = "spawn"].n = 1
        BY DEF Batch!AtRest
    <2>4. j \in due => exec[x].res[j] = "none"
        OBVIOUS
    <2> HIDE DEF due
    <2>5. CASE y # x
        BY <2>1, <2>2, <2>5 DEF ItemRests
    <2>6. CASE y = x
        <3>1. CASE j \in due /\ Batch!Blocked(x, j)
            BY <2>1, <2>2, <2>4, <2>6, <3>1 DEF ItemPassedOver
        <3>2. CASE j \in due /\ ~Batch!Blocked(x, j)
            <4>1. ItemStarts(x, j)
                BY <2>1, <2>2, <2>3, <2>4, <3>2 DEF ItemStarts
            <4> QED BY <4>1, <2>6
        <3>3. CASE j \notin due
            <4>1. try'[x][j] = try[x][j] /\ exec'[x].res[j] = exec[x].res[j]
                BY <2>2, <3>3
            <4>2. exec'[x].at = "running"
                BY <2>2
            <4>3. ItemPassedOver(x, j)
                BY <2>1, <4>1, <4>2 DEF ItemPassedOver
            <4> QED BY <4>3, <2>6
        <3> QED BY <3>1, <3>2, <3>3
    <2> QED BY <2>5, <2>6
<1>3. ASSUME NEW x \in Exec, Batch!Collect(x)
      PROVE  ItemRests(y, j) \/ ItemCollected(y, j)
    <2>1. /\ exec[x].at = "running" /\ try[x][j].at \in {"rest", "answered"}
          /\ EndsWith(x) \/ GoesOnWith(x)
          /\ try' = [try EXCEPT ![x] = [k \in Batch!Key |-> Batch!AtRest]]
          /\ UNCHANGED sess
        BY <1>3, CollectWrites
    <2>2. (y # x => try'[y] = try[y]) /\ try'[x][j].at = "rest"
        BY <2>1 DEF BatchTypes, Batch!AtRest
    <2>3. y # x => exec'[y] = exec[y]
        BY <2>1 DEF EndsWith, GoesOnWith, BatchTypes
    <2>4. /\ exec'[x].at \in {"chunk", "ended"}
          /\ exec'[x].res \in {Gathered(x), Final(x)}
        <3>1. CASE EndsWith(x)
            BY <1>0, <3>1 DEF EndsWith, BatchTypes, Execution
        <3>2. CASE GoesOnWith(x)
            BY <1>0, <3>2 DEF GoesOnWith, BatchTypes, Execution
        <3> QED BY <2>1, <3>1, <3>2
    <2>5. Gathered(x)[j] = IF try[x][j].at = "answered" THEN try[x][j].out ELSE exec[x].res[j]
        BY DEF Gathered, Won
    <2>6. Final(x)[j] = IF Gathered(x)[j] = "none" THEN "skipped" ELSE Gathered(x)[j]
        BY DEF Final
    <2>7. CASE y # x
        BY <2>1, <2>2, <2>3, <2>7 DEF ItemRests
    <2>8. CASE y = x
        <3>1. try[x][j].at = "answered" => try[x][j].out # "none"
            BY DEF BatchTypes, OutcomeFits
        <3> QED BY <2>1, <2>2, <2>4, <2>5, <2>6, <2>8, <3>1 DEF ItemCollected
    <2> QED BY <2>7, <2>8
<1>4. ASSUME NEW x \in Exec, NEW k \in Batch!Key, Batch!AttemptStep(x, k)
      PROVE  ItemRests(y, j) \/ ItemMoves(y, j)
    <2>1. PICK u, r : Moves(try[x][k], u, sess[x][k][try[x][k].n], r) /\ Wrote(x, k, u, r)
        BY <1>4, AttemptMoves
    <2>2. try[x][k].n \in Batch!Attempt
        BY DEF BatchTypes, Trial
    <2>3. /\ UNCHANGED exec /\ try'[x][k] = u /\ sess'[x][k][try[x][k].n] = r
          /\ \A n \in Batch!Attempt : n # try[x][k].n => sess'[x][k][n] = sess[x][k][n]
        BY <2>1, <2>2 DEF Wrote, BatchTypes
    <2>4. <<y, j>> # <<x, k>> => try'[y][j] = try[y][j] /\ sess'[y][j] = sess[y][j]
        BY <2>1 DEF Wrote, BatchTypes
    <2>5. CASE <<y, j>> # <<x, k>>
        BY <2>3, <2>4, <2>5 DEF ItemRests
    <2>6. CASE y = x /\ j = k
        BY <2>1, <2>3, <2>6 DEF ItemMoves
    <2> QED BY <2>5, <2>6
<1>5. ASSUME NEW x \in Exec, NEW k \in Batch!Key, NEW n \in Batch!Attempt,
             Batch!TaskEnds(x, k, n)
      PROVE  ItemRests(y, j) \/ ItemTaskEnds(y, j)
    <2>1. PICK end \in {"completed", "failed"} : sess' = [sess EXCEPT ![x][k][n].task = end]
        BY <1>5 DEF Batch!TaskEnds
    <2>2. UNCHANGED <<exec, try>> /\ sess[x][k][n].task = "live"
        BY <1>5 DEF Batch!TaskEnds
    <2>3. <<y, j>> # <<x, k>> => sess'[y][j] = sess[y][j]
        BY <2>1 DEF BatchTypes
    <2>4. /\ sess'[x][k][n].task = end /\ sess'[x][k][n].open = sess[x][k][n].open
          /\ \A m \in Batch!Attempt : m # n => sess'[x][k][m] = sess[x][k][m]
        BY <2>1 DEF BatchTypes, Session
    <2>5. CASE <<y, j>> # <<x, k>>
        BY <2>2, <2>3, <2>5 DEF ItemRests
    <2>6. CASE y = x /\ j = k
        BY <2>1, <2>2, <2>4, <2>6 DEF ItemTaskEnds
    <2> QED BY <2>5, <2>6
<1>6. CASE Batch!Trim \/ UNCHANGED Batch!vars
    <2>1. CASE Batch!Trim
        BY <2>1 DEF Batch!Trim, ItemRests, ItemStep
    <2>2. CASE UNCHANGED Batch!vars
        BY <2>2 DEF Batch!vars, ItemRests, ItemStep
    <2> QED BY <1>6, <2>1, <2>2
<1> QED BY <1>1, <1>2, <1>3, <1>4, <1>5, <1>6 DEF Batch!Next, Runs, ItemStep

\* What has not been begun has no session yet.
Untouched(x, k, n) ==
    \/ try[x][k].at = "rest"
    \/ n > try[x][k].n
    \/ n = try[x][k].n /\ try[x][k].at = "spawn"

\* A task is tried while its execution runs and has no result for it; an attempt makes
\* its own session, and its task runs or has ended by itself while it is waited for.
ItemRight(x, k) ==
    /\ exec[x].at = "idle" => exec[x].res[k] = "none"
    /\ exec[x].at # "running" => try[x][k].at = "rest"
    /\ try[x][k].at # "rest" => exec[x].res[k] = "none"
    /\ exec[x].res[k] = "none" =>
          \A n \in Batch!Attempt : Untouched(x, k, n) => sess[x][k][n] = Batch!NoSession
    /\ try[x][k].at = "send" => sess[x][k][try[x][k].n].task = "none"
    /\ try[x][k].at = "wait" => sess[x][k][try[x][k].n].task \in {"live", "completed", "failed"}

\* The moves once more, by the fields they write.
Over(t, u) ==
    \/ u.at = "answered" /\ u.n = t.n /\ u.out \in {"failed", "fatal"}
    \/ u.at = "spawn" /\ u.n = t.n + 1
Goes(t, u, at) == u.at = at /\ u.n = t.n
Is(r, open, task) == r.open = open /\ r.task = task
IsShut(r, s) == r.open = FALSE /\ r.task = IF s.task = "live" THEN "interrupted" ELSE s.task

Fields(t, u, s, r) ==
    \/ t.at = "spawn" /\ Goes(t, u, "send") /\ Is(r, TRUE, "none")
    \/ t.at = "spawn" /\ Over(t, u) /\ r = s
    \/ t.at = "spawn" /\ Over(t, u) /\ MayLose /\ Is(r, TRUE, "none")
    \/ t.at = "send" /\ Goes(t, u, "wait") /\ Is(r, TRUE, "live")
    \/ t.at = "send" /\ Goes(t, u, "catch") /\ u.out # "succeeded" /\ r = s
    \/ t.at = "send" /\ Goes(t, u, "catch") /\ Is(r, TRUE, "live")
    \/ t.at = "wait" /\ s.task # "live" /\ r = s /\ u.out = "succeeded"
                     /\ Goes(t, u, IF CloseSessions THEN "close" ELSE "answered")
    \/ t.at = "wait" /\ s.task = "live" /\ r = s /\ CloseSessions /\ Goes(t, u, "closeForced")
    \/ t.at = "wait" /\ s.task = "live" /\ r = s /\ ~CloseSessions /\ Over(t, u)
    \/ t.at = "wait" /\ r = s /\ Goes(t, u, "catch")
    \/ t.at = "close" /\ Is(r, FALSE, s.task) /\ Goes(t, u, "answered") /\ u.out = "succeeded"
    \/ t.at = "closeForced" /\ IsShut(r, s) /\ Over(t, u)
    \/ t.at \in {"close", "closeForced"} /\ CloseFails /\ r = s /\ Goes(t, u, "catch")
    \/ t.at = "catch" /\ CloseSessions /\ IsShut(r, s) /\ Over(t, u)
    \/ t.at = "catch" /\ (CloseFails \/ ~CloseSessions) /\ r = s /\ Over(t, u)

\* Every move writes these fields.
LEMMA MoveFields ==
    ASSUME NEW t \in Trial, NEW u, NEW s \in Session, NEW r, OutcomeFits(t), Moves(t, u, s, r)
    PROVE  Fields(t, u, s, r)
<1>1. ASSUME NEW at, NEW out, u = [t EXCEPT !.at = at, !.out = out]
      PROVE  Goes(t, u, at) /\ u.out = out
    BY <1>1 DEF Trial, Goes
<1>2. ASSUME NEW out \in {"failed", "fatal"}, Again(t, u, out)
      PROVE  Over(t, u)
    <2>1. CASE u = [t EXCEPT !.at = "answered", !.out = out]
        BY <1>1, <2>1 DEF Over, Goes
    <2>2. CASE u = [at |-> "spawn", n |-> t.n + 1, out |-> "none"]
        BY <2>2 DEF Over
    <2> QED BY <1>2, <2>1, <2>2 DEF Again
<1>3. r = Shut(s) => IsShut(r, s)
    BY DEF Shut, IsShut, Batch!Interrupted
<1>4. ASSUME NEW open, NEW task, r = [open |-> open, task |-> task]
      PROVE  Is(r, open, task)
    BY <1>4 DEF Is
<1>5. t.at = "catch" => t.out \in {"failed", "fatal"}
    BY DEF OutcomeFits
<1>6. CASE t.at = "spawn"
    <2>1. CASE u = [t EXCEPT !.at = "send", !.out = "none"] /\ r = [open |-> TRUE, task |-> "none"]
        BY <1>1, <1>4, <1>6, <2>1 DEF Fields
    <2>2. CASE r = s /\ \E out \in {"failed", "fatal"} : Again(t, u, out)
        BY <1>2, <1>6, <2>2 DEF Fields
    <2>3. CASE MayLose /\ Again(t, u, "failed") /\ r = [open |-> TRUE, task |-> "none"]
        BY <1>2, <1>4, <1>6, <2>3 DEF Fields
    <2> QED BY <1>6, <2>1, <2>2, <2>3 DEF Moves
<1>7. CASE t.at = "send"
    <2>1. CASE u = [t EXCEPT !.at = "wait", !.out = "none"] /\ r = [open |-> TRUE, task |-> "live"]
        BY <1>1, <1>4, <1>7, <2>1 DEF Fields
    <2>2. CASE r = s /\ \E out \in {"failed", "fatal"} : u = [t EXCEPT !.at = "catch", !.out = out]
        BY <1>1, <1>7, <2>2 DEF Fields
    <2>3. CASE /\ u = [t EXCEPT !.at = "catch", !.out = "failed"]
               /\ r = [open |-> TRUE, task |-> "live"]
        BY <1>1, <1>4, <1>7, <2>3 DEF Fields
    <2> QED BY <1>7, <2>1, <2>2, <2>3 DEF Moves
<1>8. CASE t.at = "wait"
    <2>1. CASE /\ r = s /\ s.task # "live"
               /\ u = [t EXCEPT !.at = IF CloseSessions THEN "close" ELSE "answered",
                                !.out = "succeeded"]
        BY <1>1, <1>8, <2>1 DEF Fields
    <2>2. CASE /\ r = s /\ s.task = "live" /\ CloseSessions
               /\ u = [t EXCEPT !.at = "closeForced", !.out = "failed"]
        BY <1>1, <1>8, <2>2 DEF Fields
    <2>3. CASE r = s /\ s.task = "live" /\ ~CloseSessions /\ Again(t, u, "failed")
        BY <1>2, <1>8, <2>3 DEF Fields
    <2>4. CASE r = s /\ u = [t EXCEPT !.at = "catch", !.out = "failed"]
        BY <1>1, <1>8, <2>4 DEF Fields
    <2> QED BY <1>8, <2>1, <2>2, <2>3, <2>4 DEF Moves
<1>9. CASE t.at \in {"close", "closeForced"}
    <2>1. CASE /\ t.at = "close" /\ r = [open |-> FALSE, task |-> s.task]
               /\ u = [t EXCEPT !.at = "answered", !.out = "succeeded"]
        BY <1>1, <1>4, <2>1 DEF Fields
    <2>2. CASE t.at = "closeForced" /\ r = Shut(s) /\ Again(t, u, "failed")
        BY <1>2, <1>3, <2>2 DEF Fields
    <2>3. CASE CloseFails /\ r = s /\ u = [t EXCEPT !.at = "catch", !.out = "failed"]
        BY <1>1, <1>9, <2>3 DEF Fields
    <2> QED BY <1>9, <2>1, <2>2, <2>3 DEF Moves
<1>10. CASE t.at = "catch"
    BY <1>2, <1>3, <1>5, <1>10 DEF Moves, Fields
<1> QED BY <1>6, <1>7, <1>8, <1>9, <1>10 DEF Moves

\* Where a move takes an attempt.
LEMMA MoveGoes ==
    ASSUME Batch!CountsAreNat, NEW t \in Trial, NEW u, NEW s \in Session, NEW r, OutcomeFits(t),
           Moves(t, u, s, r)
    PROVE  /\ t.at \notin {"rest", "answered"} /\ u.at # "rest" /\ u \in Trial /\ r \in Session
           /\ \/ u.n = t.n /\ u.at # "spawn"
              \/ u.n = t.n + 1 /\ u.at = "spawn"
           /\ u.at = "send" => r.task = "none"
           /\ u.at = "wait" => r.task = "live"
<1>1. u \in Trial /\ r \in Session /\ t.at \notin {"rest", "answered"}
    BY MovesType
<1>2. Fields(t, u, s, r)
    BY MoveFields
<1> QED BY <1>1, <1>2 DEF Fields, Over, Goes, Is

\* What is known of a task stays so.
LEMMA ItemRightStep ==
    ASSUME Batch!CountsAreNat, BatchTypes, [Batch!Next]_Batch!vars,
           NEW x \in Exec, NEW k \in Batch!Key, ItemRight(x, k)
    PROVE  ItemRight(x, k)'
<1>0. /\ BatchTypes' /\ ItemStep(x, k)
    BY BatchTypeStep, ItemSteps
<1>1. CASE ItemRests(x, k)
    BY <1>1 DEF ItemRests, ItemRight, Untouched
<1>2. CASE ItemBegins(x, k)
    <2>1. exec[x].res[k] = "none" /\ try[x][k].at = "rest"
        BY <1>2 DEF ItemBegins, ItemRight
    <2> QED BY <1>2, <2>1 DEF ItemBegins, ItemRight, Untouched
<1>3. CASE ItemPassedOver(x, k)
    BY <1>3 DEF ItemPassedOver, ItemRight, Untouched
<1>4. CASE ItemStarts(x, k)
    BY <1>4 DEF ItemStarts, ItemRight, Untouched
<1>5. CASE ItemCollected(x, k)
    <2>1. try[x][k].at = "answered" => try[x][k].out # "none"
        BY DEF BatchTypes, OutcomeFits
    <2> QED BY <1>5, <2>1 DEF ItemCollected, ItemRight, Untouched
<1>6. CASE ItemMoves(x, k)
    <2> DEFINE t == try[x][k]
               u == try'[x][k]
               s == sess[x][k][t.n]
               r == sess'[x][k][t.n]
    <2>1. t \in Trial /\ s \in Session /\ OutcomeFits(t) /\ t.n \in Batch!Attempt
        BY DEF BatchTypes, Trial
    <2>2. Moves(t, u, s, r)
        BY <1>6 DEF ItemMoves
    <2>3. /\ t.at \notin {"rest", "answered"} /\ u.at # "rest" /\ u.n \in Batch!Attempt
          /\ \/ u.n = t.n /\ u.at # "spawn"
             \/ u.n = t.n + 1 /\ u.at = "spawn"
          /\ u.at = "send" => r.task = "none"
          /\ u.at = "wait" => r.task = "live"
        BY <2>1, <2>2, MoveGoes DEF Trial
    <2>4. t.n \in Nat /\ \A n \in Batch!Attempt : n \in Nat
        BY <2>1 DEF Batch!Attempt, Batch!CountsAreNat
    <2>5. ASSUME NEW n \in Batch!Attempt, Untouched(x, k, n)'
          PROVE  n # t.n /\ Untouched(x, k, n)
        BY <2>3, <2>4, <2>5 DEF Untouched
    <2>6. u.at \in {"send", "wait"} => u.n = t.n
        BY <2>3
    <2> HIDE DEF t, s
    <2> QED BY <1>6, <2>3, <2>5, <2>6 DEF ItemMoves, ItemRight, t
<1>7. CASE ItemTaskEnds(x, k)
    <2>1. PICK n \in Batch!Attempt :
             /\ sess[x][k][n].task = "live" /\ sess'[x][k][n].task \in {"completed", "failed"}
             /\ \A m \in Batch!Attempt : m # n => sess'[x][k][m] = sess[x][k][m]
        BY <1>7 DEF ItemTaskEnds
    <2>2. exec[x].res[k] = "none" => ~Untouched(x, k, n)
        BY <2>1 DEF ItemRight, Batch!NoSession
    <2>3. try[x][k].n \in Batch!Attempt
        BY DEF BatchTypes, Trial
    <2> QED BY <1>7, <2>1, <2>2, <2>3 DEF ItemTaskEnds, ItemRight, Untouched
<1> QED BY <1>0, <1>1, <1>2, <1>3, <1>4, <1>5, <1>6, <1>7 DEF ItemStep

-----------------------------------------------------------------------------
(***************************************************************************)
(* Agents at work and open sessions, in a batch that closes its sessions   *)
(* and whose closes are not refused.                                       *)
(***************************************************************************)

\* Where an attempt is while its agent is at work, and while its session is open.
Working(t) == t.at \in {"wait", "closeForced", "catch"}
InSession(t) == t.at \in {"send", "wait", "close", "closeForced", "catch"}

\* Only the agent of the attempt a task is at is at work, and only until it is closed.
LiveItem(x, k) == \A n \in Batch!Attempt :
    sess[x][k][n].task = "live" => n = try[x][k].n /\ Working(try[x][k])
\* The same of open sessions, when no answer gets lost.
OpenItem(x, k) == \A n \in Batch!Attempt :
    sess[x][k][n].open => n = try[x][k].n /\ InSession(try[x][k])

\* What a move does to the session of its attempt.
LEMMA MoveShuts ==
    ASSUME CloseSessions, ~CloseFails, NEW t \in Trial, NEW u, NEW s \in Session, NEW r,
           OutcomeFits(t), Moves(t, u, s, r), s.task = "live" => Working(t)
    PROVE  r.task = "live" => u.n = t.n /\ Working(u)
<1>1. Fields(t, u, s, r)
    BY MoveFields
<1> QED BY <1>1 DEF Fields, Over, Goes, Is, IsShut, Working

\* The same of the session, when no answer gets lost.
LEMMA MoveCloses ==
    ASSUME CloseSessions, ~CloseFails, ~MayLose, NEW t \in Trial, NEW u, NEW s \in Session, NEW r,
           OutcomeFits(t), Moves(t, u, s, r), s.open => InSession(t)
    PROVE  r.open => u.n = t.n /\ InSession(u)
<1>1. Fields(t, u, s, r)
    BY MoveFields
<1> QED BY <1>1 DEF Fields, Over, Goes, Is, IsShut, InSession

\* An agent at work stays that of the attempt its task is at.
LEMMA LiveStep ==
    ASSUME Batch!CountsAreNat, BatchTypes, [Batch!Next]_Batch!vars, CloseSessions, ~CloseFails,
           NEW x \in Exec, NEW k \in Batch!Key, ItemRight(x, k), LiveItem(x, k)
    PROVE  LiveItem(x, k)'
<1>0. /\ ItemStep(x, k) /\ try[x][k] \in Trial /\ try[x][k].n \in Batch!Attempt
      /\ OutcomeFits(try[x][k]) /\ sess[x][k][try[x][k].n] \in Session
    BY ItemSteps DEF BatchTypes, Trial
<1>1. CASE \/ ItemRests(x, k) \/ ItemBegins(x, k) \/ ItemPassedOver(x, k) \/ ItemStarts(x, k)
           \/ ItemCollected(x, k)
    <2>1. /\ sess'[x][k] = sess[x][k]
          /\ try'[x][k] = try[x][k] \/ try[x][k].at \in {"rest", "answered"}
        BY <1>1 DEF ItemRests, ItemBegins, ItemPassedOver, ItemStarts, ItemCollected, ItemRight
    <2> QED BY <2>1 DEF LiveItem, Working
<1>2. CASE ItemMoves(x, k)
    <2>1. Moves(try[x][k], try'[x][k], sess[x][k][try[x][k].n], sess'[x][k][try[x][k].n])
        BY <1>2 DEF ItemMoves
    <2>2. sess'[x][k][try[x][k].n].task = "live" => /\ try'[x][k].n = try[x][k].n
                                                    /\ Working(try'[x][k])
        BY <1>0, <2>1, MoveShuts DEF LiveItem
    <2> QED BY <1>2, <2>2 DEF ItemMoves, LiveItem, Working
<1>3. CASE ItemTaskEnds(x, k)
    BY <1>3 DEF ItemTaskEnds, LiveItem, Working
<1> QED BY <1>0, <1>1, <1>2, <1>3 DEF ItemStep

\* So does an open session.
LEMMA OpenStep ==
    ASSUME Batch!CountsAreNat, BatchTypes, [Batch!Next]_Batch!vars, CloseSessions, ~CloseFails,
           ~MayLose, NEW x \in Exec, NEW k \in Batch!Key, ItemRight(x, k), OpenItem(x, k)
    PROVE  OpenItem(x, k)'
<1>0. /\ ItemStep(x, k) /\ try[x][k] \in Trial /\ try[x][k].n \in Batch!Attempt
      /\ OutcomeFits(try[x][k]) /\ sess[x][k][try[x][k].n] \in Session
    BY ItemSteps DEF BatchTypes, Trial
<1>1. CASE \/ ItemRests(x, k) \/ ItemBegins(x, k) \/ ItemPassedOver(x, k) \/ ItemStarts(x, k)
           \/ ItemCollected(x, k)
    <2>1. /\ sess'[x][k] = sess[x][k]
          /\ try'[x][k] = try[x][k] \/ try[x][k].at \in {"rest", "answered"}
        BY <1>1 DEF ItemRests, ItemBegins, ItemPassedOver, ItemStarts, ItemCollected, ItemRight
    <2> QED BY <2>1 DEF OpenItem, InSession
<1>2. CASE ItemMoves(x, k)
    <2>1. Moves(try[x][k], try'[x][k], sess[x][k][try[x][k].n], sess'[x][k][try[x][k].n])
        BY <1>2 DEF ItemMoves
    <2>2. sess'[x][k][try[x][k].n].open => /\ try'[x][k].n = try[x][k].n
                                           /\ InSession(try'[x][k])
        <3>1. sess[x][k][try[x][k].n].open => InSession(try[x][k])
            BY <1>0 DEF OpenItem
        <3> QED BY <1>0, <2>1, <3>1, MoveCloses
    <2> QED BY <1>2, <2>2 DEF ItemMoves, OpenItem, InSession
<1>3. CASE ItemTaskEnds(x, k)
    BY <1>3 DEF ItemTaskEnds, OpenItem, InSession
<1> QED BY <1>0, <1>1, <1>2, <1>3 DEF ItemStep

\* What holds of every task of every execution from the start.
ItemInv == \A x \in Exec, k \in Batch!Key : ItemRight(x, k)
LiveInv == \A x \in Exec, k \in Batch!Key : LiveItem(x, k)
OpenInv == \A x \in Exec, k \in Batch!Key : OpenItem(x, k)

\* All of this holds of a batch nobody has begun.
LEMMA BatchBegins ==
    ASSUME Batch!CountsAreNat, Batch!Init
    PROVE  BatchTypes /\ ItemInv /\ LiveInv /\ OpenInv
<1> USE DEF Batch!Init
<1>1. BatchTypes
    <2>1. /\ Batch!NoResults \in Results /\ Batch!AtRest \in Trial /\ Batch!NoSession \in Session
          /\ OutcomeFits(Batch!AtRest)
        BY DEF Batch!NoResults, Results, Batch!Outcome, Batch!AtRest, Trial, Place, Batch!Attempt,
               Batch!CountsAreNat, Batch!NoSession, Session, OutcomeFits
    <2>2. entry \in [run : Runs, res : Results]
        BY <2>1 DEF Batch!NoEntry, Runs
    <2>3. [at |-> "idle", run |-> NoRun, pos |-> [wave |-> 1, chunk |-> 0],
           res |-> Batch!NoResults, jres |-> Batch!NoResults, old |-> {}] \in Execution
        BY <2>1 DEF Execution, Runs
    <2> QED BY <2>1, <2>2, <2>3 DEF BatchTypes
<1>2. ItemInv
    BY DEF ItemInv, ItemRight, Batch!NoResults, Batch!AtRest
<1> QED BY <1>1, <1>2 DEF LiveInv, OpenInv, LiveItem, OpenItem, Batch!NoSession

\* The types and what is known of each task hold for good.
LEMMA BatchStep ==
    ASSUME Batch!CountsAreNat, BatchTypes, ItemInv, [Batch!Next]_Batch!vars
    PROVE  BatchTypes' /\ ItemInv'
<1>1. Batch!Key' = Batch!Key
    BY DEF Batch!Key
<1> QED BY <1>1, BatchTypeStep, ItemRightStep DEF ItemInv

\* The tool counts as we do.
LEMMA SameCount ==
    ASSUME NEW S
    PROVE  Batch!Cardinality(S) = Cardinality(S)
    BY DEF Batch!Cardinality, Cardinality

\* An attempt is over, for its agent too, before the next one of its task begins: the
\* agent of an attempt that failed has been stopped by a forced close.
THEOREM OneAttemptOnly ==
    ASSUME Batch!CountsAreNat, CloseSessions, ~CloseFails
    PROVE  Batch!Spec => []Batch!OneAttemptAtATime
<1>1. Batch!Init => BatchTypes /\ ItemInv /\ LiveInv
    BY BatchBegins
<1>2. BatchTypes /\ ItemInv /\ LiveInv /\ [Batch!Next]_Batch!vars
        => (BatchTypes /\ ItemInv /\ LiveInv)'
    BY BatchStep, LiveStep DEF LiveInv, ItemInv
<1>3. LiveInv => Batch!OneAttemptAtATime
    <2>1. ASSUME LiveInv, NEW x \in Exec, NEW k \in Batch!Key
          PROVE  Cardinality(Batch!LiveWork(x, k)) <= 1
        <3> DEFINE L == Batch!LiveWork(x, k)
                   S == {try[x][k].n}
        <3>1. L \subseteq S
            BY <2>1 DEF LiveInv, LiveItem, Batch!LiveWork
        <3>2. IsFiniteSet(S) /\ Cardinality(S) = 1
            BY FS_Singleton
        <3> HIDE DEF L, S
        <3>3. IsFiniteSet(L) /\ Cardinality(L) <= Cardinality(S)
            BY <3>1, <3>2, FS_Subset
        <3>4. Cardinality(L) <= 1
            BY <3>2, <3>3
        <3> QED BY <3>4 DEF L
    <2>2. ASSUME LiveInv, NEW x \in Exec, NEW k \in Batch!Key
          PROVE  Batch!Cardinality(Batch!LiveWork(x, k)) <= 1
        BY <2>1, <2>2 DEF Batch!Cardinality, Cardinality
    <2> QED BY <2>2 DEF Batch!OneAttemptAtATime
<1> QED BY <1>1, <1>2, <1>3, PTL DEF Batch!Spec

\* An execution that has ended leaves no session open and no agent at work, as long as
\* no answer to a call gets lost.
THEOREM NothingIsLeft ==
    ASSUME Batch!CountsAreNat, CloseSessions, ~CloseFails, ~MayLose
    PROVE  Batch!Spec => []Batch!NothingLeft
<1>1. Batch!Init => BatchTypes /\ ItemInv /\ LiveInv /\ OpenInv
    BY BatchBegins
<1>2. BatchTypes /\ ItemInv /\ LiveInv /\ OpenInv /\ [Batch!Next]_Batch!vars
        => (BatchTypes /\ ItemInv /\ LiveInv /\ OpenInv)'
    BY BatchStep, LiveStep, OpenStep DEF LiveInv, OpenInv, ItemInv
<1>3. ItemInv /\ LiveInv /\ OpenInv => Batch!NothingLeft
    BY DEF ItemInv, ItemRight, LiveInv, LiveItem, OpenInv, OpenItem, Working, InSession,
           Batch!NothingLeft
<1> QED BY <1>1, <1>2, <1>3, PTL DEF Batch!Spec

-----------------------------------------------------------------------------
(***************************************************************************)
(* Results.  The journal's entry, the results of an execution and what it  *)
(* will journal are written by three actions, here without the rest of     *)
(* what they do.                                                           *)
(***************************************************************************)

ResultsBegin(x) ==
    /\ exec'[x].res \in {entry.res, Batch!NoResults} /\ exec'[x].jres = exec'[x].res
    /\ UNCHANGED entry
ResultsPassOver(x) ==
    /\ \A k \in Batch!Key : \/ exec'[x].res[k] = exec[x].res[k]
                            \/ exec[x].res[k] = "none" /\ exec'[x].res[k] = "skipped"
    /\ exec'[x].jres = exec[x].jres
    /\ UNCHANGED entry
ResultsEnd(x) ==
    exec'[x].res = Final(x) /\ exec'[x].jres = Final(x) /\ entry'.res = Final(x)
ResultsGoOn(x) ==
    /\ ~Stopped(x)
    /\ exec'[x].res = Gathered(x) /\ exec'[x].jres = Journal(x) /\ entry'.res = Journal(x)
ResultsRest(x) == exec'[x].res = exec[x].res /\ exec'[x].jres = exec[x].jres

ResultsStep ==
    \/ /\ \A x \in Exec : ResultsRest(x)
       /\ entry'.res \in {entry.res, Batch!NoResults}
    \/ \E x \in Exec :
          /\ \A y \in Exec : y # x => ResultsRest(y)
          /\ ResultsBegin(x) \/ ResultsPassOver(x) \/ ResultsEnd(x) \/ ResultsGoOn(x)

\* Every step of the batch writes the results in one of these ways.
LEMMA ResultSteps ==
    ASSUME BatchTypes, [Batch!Next]_Batch!vars
    PROVE  ResultsStep /\ UNCHANGED <<deps, policy>>
<1>1. ASSUME NEW x \in Exec, NEW run \in RunId, NEW from \in Runs, Batch!Begin(x, run, from)
      PROVE  ResultsStep /\ UNCHANGED <<deps, policy>>
    <2>1. ResultsBegin(x) /\ \A y \in Exec : y # x => ResultsRest(y)
        BY <1>1 DEF Batch!Begin, BatchTypes, Execution, ResultsBegin, ResultsRest
    <2> QED BY <1>1, <2>1 DEF ResultsStep, Batch!Begin
<1>2. ASSUME NEW x \in Exec, Batch!StartChunk(x)
      PROVE  ResultsStep /\ UNCHANGED <<deps, policy>>
    <2>1. \A y \in Exec : y # x => ResultsRest(y)
        BY <1>2 DEF Batch!StartChunk, BatchTypes, ResultsRest
    <2>2. ResultsPassOver(x)
        BY <1>2 DEF Batch!StartChunk, BatchTypes, Execution, ResultsPassOver
    <2> QED BY <1>2, <2>1, <2>2 DEF ResultsStep, Batch!StartChunk
<1>3. ASSUME NEW x \in Exec, Batch!Collect(x)
      PROVE  ResultsStep /\ UNCHANGED <<deps, policy>>
    <2>1. CASE EndsWith(x)
        <3>1. ResultsEnd(x) /\ \A y \in Exec : y # x => ResultsRest(y)
            BY <2>1 DEF EndsWith, BatchTypes, Execution, ResultsEnd, ResultsRest
        <3> QED BY <1>3, <3>1, CollectWrites DEF ResultsStep
    <2>2. CASE GoesOnWith(x)
        <3>1. ResultsGoOn(x) /\ \A y \in Exec : y # x => ResultsRest(y)
            BY <2>2 DEF GoesOnWith, BatchTypes, Execution, ResultsGoOn, ResultsRest
        <3> QED BY <1>3, <3>1, CollectWrites DEF ResultsStep
    <2> QED BY <1>3, <2>1, <2>2, CollectWrites
<1>4. ASSUME UNCHANGED exec, entry'.res \in {entry.res, Batch!NoResults}
      PROVE  ResultsStep
    BY <1>4 DEF ResultsStep, ResultsRest
<1>5. ASSUME NEW x \in Exec, NEW k \in Batch!Key, Batch!AttemptStep(x, k)
      PROVE  UNCHANGED <<deps, policy, entry, exec>>
    BY <1>5 DEF Batch!AttemptStep, Batch!Spawn, Batch!Send, Batch!WaitDone, Batch!WaitTimesOut,
               Batch!WaitThrows, Batch!Close, Batch!Catch
<1>6. ASSUME NEW x \in Exec, NEW k \in Batch!Key, NEW n \in Batch!Attempt,
             Batch!TaskEnds(x, k, n)
      PROVE  UNCHANGED <<deps, policy, entry, exec>>
    BY <1>6 DEF Batch!TaskEnds
<1>7. CASE Batch!Trim
    BY <1>4, <1>7 DEF Batch!Trim, Batch!NoEntry
<1>8. CASE UNCHANGED Batch!vars
    BY <1>4, <1>8 DEF Batch!vars
<1> QED BY <1>1, <1>2, <1>3, <1>4, <1>5, <1>6, <1>7, <1>8 DEF Batch!Next, Runs

\* Once a task has stopped the batch every task has a result.
Settled(f) ==
    (\E j \in Batch!Key : Batch!Stops(j, f[j])) => \A k \in Batch!Key : f[k] # "none"
StopInv ==
    /\ Settled(entry.res)
    /\ \A x \in Exec : Settled(exec[x].res) /\ Settled(exec[x].jres)

\* The results of a chunk nobody stopped change nothing about that.
LEMMA ChunkSettles ==
    ASSUME BatchTypes, NEW x \in Exec, ~Stopped(x), NEW f, Settled(f)
    PROVE  Settled([k \in Batch!Key |-> IF k \in Won(x) THEN try[x][k].out ELSE f[k]])
<1> DEFINE g == [k \in Batch!Key |-> IF k \in Won(x) THEN try[x][k].out ELSE f[k]]
<1>1. \A k \in Won(x) : try[x][k].out # "none" /\ ~Batch!Stops(k, try[x][k].out)
    BY DEF BatchTypes, OutcomeFits, Won, Stopped, Gathered
<1>2. ASSUME NEW j \in Batch!Key, Batch!Stops(j, g[j]), NEW k \in Batch!Key
      PROVE  g[k] # "none"
    <2>1. j \notin Won(x) /\ g[j] = f[j]
        BY <1>1, <1>2
    <2>2. f[k] # "none"
        BY <1>2, <2>1 DEF Settled
    <2> QED BY <1>1, <2>2
<1> QED BY <1>2 DEF Settled

\* Passing tasks over stops nothing, and leaves a batch that has been stopped as it is.
LEMMA StopStep ==
    ASSUME BatchTypes, StopInv, [Batch!Next]_Batch!vars
    PROVE  StopInv'
<1>1. ResultsStep /\ UNCHANGED policy
    BY ResultSteps
<1>2. Settled(Batch!NoResults)
    BY DEF Settled, Batch!Stops, Batch!NoResults
<1>3. ASSUME NEW x \in Exec
      PROVE  Settled(Final(x))
    BY DEF Settled, Final
<1>4. ASSUME NEW x \in Exec, ~Stopped(x)
      PROVE  Settled(Gathered(x)) /\ Settled(Journal(x))
    BY <1>4, ChunkSettles DEF StopInv, Gathered, Journal
<1>5. ASSUME NEW x \in Exec, ResultsPassOver(x)
      PROVE  Settled(exec'[x].res)
    BY <1>5 DEF ResultsPassOver, StopInv, Settled, Batch!Stops
<1>6. /\ Settled(entry'.res)
      /\ \A x \in Exec : Settled(exec'[x].res) /\ Settled(exec'[x].jres)
    <2>1. ASSUME NEW x \in Exec, ResultsRest(x)
          PROVE  Settled(exec'[x].res) /\ Settled(exec'[x].jres)
        BY <2>1 DEF StopInv, ResultsRest
    <2>2. CASE /\ \A x \in Exec : ResultsRest(x)
               /\ entry'.res \in {entry.res, Batch!NoResults}
        BY <1>2, <2>1, <2>2 DEF StopInv
    <2>3. ASSUME NEW x \in Exec,
                 ResultsBegin(x) \/ ResultsPassOver(x) \/ ResultsEnd(x) \/ ResultsGoOn(x)
          PROVE  /\ Settled(entry'.res)
                 /\ Settled(exec'[x].res) /\ Settled(exec'[x].jres)
        <3>1. CASE ResultsBegin(x)
            BY <1>2, <3>1 DEF ResultsBegin, StopInv
        <3>2. CASE ResultsPassOver(x)
            BY <1>5, <3>2 DEF ResultsPassOver, StopInv
        <3>3. CASE ResultsEnd(x)
            BY <1>3, <3>3 DEF ResultsEnd
        <3>4. CASE ResultsGoOn(x)
            BY <1>4, <3>4 DEF ResultsGoOn
        <3> QED BY <2>3, <3>1, <3>2, <3>3, <3>4
    <2> QED BY <1>1, <2>1, <2>2, <2>3 DEF ResultsStep
<1> QED BY <1>1, <1>6 DEF StopInv, Settled, Batch!Stops

\* After a failure that stops the batch no task of it is begun or tried again, whichever
\* chunk or wave the failure happened in and whoever took its result over.
THEOREM NothingAfterAStop ==
    ASSUME Batch!CountsAreNat
    PROVE  Batch!Spec => []Batch!StopMeansStop
<1>1. Batch!Init => BatchTypes /\ ItemInv /\ StopInv
    <2>1. Batch!Init => Settled(Batch!NoResults)
        BY DEF Settled, Batch!Stops, Batch!NoResults
    <2> QED BY <2>1, BatchBegins DEF StopInv, Batch!Init, Batch!NoEntry
<1>2. BatchTypes /\ ItemInv /\ StopInv /\ [Batch!Next]_Batch!vars
        => (BatchTypes /\ ItemInv /\ StopInv)'
    BY BatchStep, StopStep
<1>3. ItemInv /\ StopInv => Batch!StopMeansStop
    BY DEF ItemInv, ItemRight, StopInv, Settled, Batch!Stops, Batch!Trying, Batch!StopMeansStop
<1> QED BY <1>1, <1>2, <1>3, PTL DEF Batch!Spec

-----------------------------------------------------------------------------
(***************************************************************************)
(* Success, in a batch that closes its sessions, whose closes are not      *)
(* refused, and whose tasks do not fail in the runtime.                    *)
(***************************************************************************)

Completed(s) == s.task \in Batch!EndedItself
Done(k) == \E y \in Exec, n \in Batch!Attempt : Completed(sess[y][k][n])

\* What a task depends on has succeeded before it is tried.
DepsSucceeded(x, k) ==
    Batch!Trying(x, k) => \A d \in deps[k] : exec[x].res[d] = "succeeded"
Succeeds(t) == t.at = "close" \/ (t.at = "answered" /\ t.out = "succeeded")
\* The task of an attempt that has succeeded ended by itself in the runtime.
SuccessItem(x, k) == Succeeds(try[x][k]) => Completed(sess[x][k][try[x][k].n])
\* A result says so only then.
Earned(f) == \A k \in Batch!Key : f[k] = "succeeded" => Done(k)

DepsInv == \A x \in Exec, k \in Batch!Key : DepsSucceeded(x, k)
SuccessInv == \A x \in Exec, k \in Batch!Key : SuccessItem(x, k)
EarnedInv == Earned(entry.res) /\ \A x \in Exec : Earned(exec[x].res) /\ Earned(exec[x].jres)

\* While a task is tried the results of its execution stay as they are, and when it
\* starts they let it.
LEMMA DepsStep ==
    ASSUME Batch!CountsAreNat, BatchTypes, ItemInv, DepsInv, [Batch!Next]_Batch!vars,
           NEW x \in Exec, NEW k \in Batch!Key
    PROVE  DepsSucceeded(x, k)'
<1> SUFFICES ASSUME Batch!Trying(x, k)', NEW d \in deps[k]
             PROVE  exec'[x].res[d] = "succeeded"
    BY ResultSteps DEF DepsSucceeded
<1>0. d \in Batch!Key
    BY DEF BatchTypes
<1>1. ItemStep(x, k) /\ ItemStep(x, d)
    BY <1>0, ItemSteps
<1>2. ItemRight(x, k) /\ ItemRight(x, d) /\ ItemRight(x, k)'
    BY <1>0, BatchStep DEF ItemInv
<1>3. exec'[x].at = "running"
    BY <1>2 DEF ItemRight, Batch!Trying
<1>4. CASE ItemStarts(x, k)
    <2>1. exec[x].res[d] = "succeeded" /\ exec[x].at = "chunk"
        BY <1>4 DEF ItemStarts, Batch!Blocked
    <2> QED BY <1>1, <1>3, <2>1 DEF ItemStep, ItemRests, ItemBegins, ItemPassedOver, ItemStarts,
                                    ItemCollected, ItemMoves, ItemTaskEnds
<1>5. CASE ~ItemStarts(x, k)
    <2>1. Batch!Trying(x, k)
        <3>1. CASE ItemRests(x, k) \/ ItemTaskEnds(x, k)
            BY <3>1 DEF ItemRests, ItemTaskEnds, Batch!Trying
        <3>2. CASE ItemMoves(x, k)
            BY <3>2 DEF ItemMoves, Moves, Batch!Trying
        <3>3. CASE ItemBegins(x, k) \/ ItemCollected(x, k)
            BY <1>3, <3>3 DEF ItemBegins, ItemCollected
        <3>4. CASE ItemPassedOver(x, k)
            BY <1>2, <3>4 DEF ItemPassedOver, ItemRight, Batch!Trying
        <3> QED BY <1>1, <1>5, <3>1, <3>2, <3>3, <3>4 DEF ItemStep
    <2>2. exec[x].res[d] = "succeeded" /\ exec[x].at = "running"
        BY <1>2, <2>1 DEF DepsInv, DepsSucceeded, ItemRight, Batch!Trying
    <2> QED BY <1>1, <1>3, <2>2 DEF ItemStep, ItemRests, ItemBegins, ItemPassedOver, ItemStarts,
                                    ItemCollected, ItemMoves, ItemTaskEnds
<1> QED BY <1>4, <1>5

\* A move keeps success honest: an attempt succeeds when its task has ended by itself,
\* and closing it changes nothing about that.
LEMMA MoveSucceeds ==
    ASSUME NEW t \in Trial, NEW u, NEW s \in Session, NEW r,
           OutcomeFits(t), Moves(t, u, s, r), Succeeds(t) => Completed(s),
           t.at = "wait" => s.task \in {"live", "completed", "failed"},
           t.at \in {"spawn", "send"} => s.task = "none"
    PROVE  /\ Succeeds(u) => u.n = t.n /\ Completed(r)
           /\ Completed(s) => Completed(r)
<1>1. Fields(t, u, s, r)
    BY MoveFields
<1> QED BY <1>1 DEF Fields, Over, Goes, Is, IsShut, Completed, Succeeds, Batch!EndedItself

\* A task that ended by itself stays so, and that of an attempt that has succeeded has.
LEMMA SuccessStep ==
    ASSUME Batch!CountsAreNat, BatchTypes, [Batch!Next]_Batch!vars,
           NEW x \in Exec, NEW k \in Batch!Key, ItemRight(x, k), SuccessItem(x, k)
    PROVE  /\ SuccessItem(x, k)'
           /\ \A n \in Batch!Attempt : Completed(sess[x][k][n]) => Completed(sess'[x][k][n])
<1>0. /\ ItemStep(x, k) /\ try[x][k] \in Trial /\ try[x][k].n \in Batch!Attempt
      /\ OutcomeFits(try[x][k]) /\ sess[x][k][try[x][k].n] \in Session
    BY ItemSteps DEF BatchTypes, Trial
<1>1. CASE \/ ItemRests(x, k) \/ ItemBegins(x, k) \/ ItemPassedOver(x, k) \/ ItemStarts(x, k)
           \/ ItemCollected(x, k)
    <2>1. /\ sess'[x][k] = sess[x][k]
          /\ try'[x][k] = try[x][k] \/ try'[x][k].at \in {"rest", "spawn"}
        BY <1>1 DEF ItemRests, ItemBegins, ItemPassedOver, ItemStarts, ItemCollected
    <2> QED BY <2>1 DEF SuccessItem, Succeeds
<1>2. CASE ItemMoves(x, k)
    <2> DEFINE t == try[x][k]
               u == try'[x][k]
               s == sess[x][k][t.n]
               r == sess'[x][k][t.n]
    <2>1. Moves(t, u, s, r) /\ (Succeeds(t) => Completed(s))
        BY <1>0, <1>2 DEF ItemMoves, SuccessItem
    <2>2. t.at = "wait" => s.task \in {"live", "completed", "failed"}
        BY DEF ItemRight
    <2>3. t.at \in {"spawn", "send"} => s.task = "none"
        BY <1>0 DEF ItemRight, Untouched, Batch!NoSession
    <2> HIDE DEF u, r
    <2>4. /\ Succeeds(u) => u.n = t.n /\ Completed(r)
          /\ Completed(s) => Completed(r)
        BY <1>0, <2>1, <2>2, <2>3, MoveSucceeds
    <2> QED BY <1>2, <2>4 DEF ItemMoves, SuccessItem, Succeeds, u, r
<1>3. CASE ItemTaskEnds(x, k)
    <2>1. PICK n \in Batch!Attempt :
             /\ sess[x][k][n].task = "live" /\ sess'[x][k][n].task \in {"completed", "failed"}
             /\ \A m \in Batch!Attempt : m # n => sess'[x][k][m] = sess[x][k][m]
        BY <1>3 DEF ItemTaskEnds
    <2>2. try'[x][k] = try[x][k]
        BY <1>3 DEF ItemTaskEnds
    <2> QED BY <1>0, <2>1, <2>2 DEF SuccessItem, Succeeds, Completed, Batch!EndedItself
<1> QED BY <1>0, <1>1, <1>2, <1>3 DEF ItemStep

\* Results that say a task has succeeded come from an attempt that has.
LEMMA EarnedStep ==
    ASSUME Batch!CountsAreNat, BatchTypes, ItemInv, SuccessInv, EarnedInv,
           [Batch!Next]_Batch!vars
    PROVE  EarnedInv'
<1>1. ResultsStep
    BY ResultSteps
<1>2. ASSUME NEW k \in Batch!Key, Done(k)
      PROVE  Done(k)'
    <2>1. PICK y \in Exec, n \in Batch!Attempt : Completed(sess[y][k][n])
        BY <1>2 DEF Done
    <2>2. Completed(sess'[y][k][n])
        BY <2>1, SuccessStep DEF ItemInv, SuccessInv
    <2> QED BY <2>2 DEF Done, Completed, Batch!EndedItself
<1> DEFINE Holds(f) == \A k \in Batch!Key : f[k] = "succeeded" => Done(k)'
<1>3. /\ Holds(entry.res) /\ Holds(Batch!NoResults)
      /\ \A x \in Exec : Holds(exec[x].res) /\ Holds(exec[x].jres)
    BY <1>2 DEF EarnedInv, Earned, Batch!NoResults
<1>4. ASSUME NEW x \in Exec
      PROVE  Holds(Gathered(x)) /\ Holds(Journal(x)) /\ Holds(Final(x))
    <2>1. ASSUME NEW k \in Won(x), try[x][k].out = "succeeded"
          PROVE  Done(k)'
        <3>1. k \in Batch!Key /\ try[x][k].n \in Batch!Attempt
            BY DEF Won, BatchTypes, Trial
        <3>2. Done(k)
            BY <2>1, <3>1 DEF Won, SuccessInv, SuccessItem, Succeeds, Done
        <3> QED BY <1>2, <3>1, <3>2
    <2> QED BY <1>3, <2>1 DEF Gathered, Journal, Final
<1>5. ASSUME NEW x \in Exec, ResultsPassOver(x)
      PROVE  Holds(exec'[x].res)
    BY <1>3, <1>5 DEF ResultsPassOver
<1>6. /\ Holds(entry'.res)
      /\ \A x \in Exec : Holds(exec'[x].res) /\ Holds(exec'[x].jres)
    <2> HIDE DEF Holds
    <2>1. ASSUME NEW x \in Exec, ResultsRest(x)
          PROVE  Holds(exec'[x].res) /\ Holds(exec'[x].jres)
        BY <1>3, <2>1 DEF ResultsRest
    <2>2. CASE /\ \A x \in Exec : ResultsRest(x)
               /\ entry'.res \in {entry.res, Batch!NoResults}
        BY <1>3, <2>1, <2>2
    <2>3. ASSUME NEW x \in Exec,
                 ResultsBegin(x) \/ ResultsPassOver(x) \/ ResultsEnd(x) \/ ResultsGoOn(x)
          PROVE  /\ Holds(entry'.res)
                 /\ Holds(exec'[x].res) /\ Holds(exec'[x].jres)
        <3>1. CASE ResultsBegin(x)
            BY <1>3, <3>1 DEF ResultsBegin
        <3>2. CASE ResultsPassOver(x)
            BY <1>3, <1>5, <3>2 DEF ResultsPassOver
        <3>3. CASE ResultsEnd(x)
            BY <1>4, <3>3 DEF ResultsEnd
        <3>4. CASE ResultsGoOn(x)
            BY <1>4, <3>4 DEF ResultsGoOn
        <3> QED BY <2>3, <3>1, <3>2, <3>3, <3>4
    <2> QED BY <1>1, <2>1, <2>2, <2>3 DEF ResultsStep
<1>7. Batch!Key' = Batch!Key
    BY DEF Batch!Key
<1> QED BY <1>6, <1>7 DEF EarnedInv, Earned

DependInv == BatchTypes /\ ItemInv /\ LiveInv /\ DepsInv /\ SuccessInv /\ EarnedInv

\* While a task is tried what it depends on was reported as succeeded and has run to its end,
\* for this execution or the one whose results it took over, and no agent is still at work on
\* it: tasks may fail, answers get lost, attempts be repeated and executions overlap, as long
\* as the sessions are closed and can be.
THEOREM DependenciesAreDone ==
    ASSUME Batch!CountsAreNat, CloseSessions, ~CloseFails
    PROVE  Batch!Spec => []Batch!DependenciesDone
<1>1. Batch!Init => DependInv
    <2>1. Batch!Init => Earned(Batch!NoResults)
        BY DEF Earned, Batch!NoResults
    <2>2. Batch!Init => DepsInv /\ SuccessInv /\ EarnedInv
        BY <2>1 DEF Batch!Init, DepsInv, DepsSucceeded, SuccessInv, SuccessItem, Succeeds,
                    EarnedInv, Batch!Trying, Batch!AtRest, Batch!NoSession, Batch!NoEntry
    <2> QED BY <2>2, BatchBegins DEF DependInv
<1>2. DependInv /\ [Batch!Next]_Batch!vars => DependInv'
    <2> SUFFICES ASSUME DependInv, [Batch!Next]_Batch!vars
                 PROVE  DependInv'
        OBVIOUS
    <2>1. Batch!Key' = Batch!Key
        BY DEF Batch!Key
    <2>2. BatchTypes' /\ ItemInv' /\ EarnedInv'
        BY BatchStep, EarnedStep DEF DependInv
    <2>3. LiveInv'
        BY <2>1, LiveStep DEF DependInv, LiveInv, ItemInv
    <2>4. DepsInv'
        BY <2>1, DepsStep DEF DependInv, DepsInv
    <2>5. SuccessInv'
        BY <2>1, SuccessStep DEF DependInv, SuccessInv, ItemInv
    <2> QED BY <2>2, <2>3, <2>4, <2>5 DEF DependInv
<1>3. DependInv => Batch!DependenciesDone
    <2> SUFFICES ASSUME DependInv, NEW x \in Exec, NEW k \in Batch!Key, Batch!Trying(x, k),
                        NEW d \in deps[k]
                 PROVE  /\ exec[x].res[d] = "succeeded" /\ Batch!LiveWork(x, d) = {}
                        /\ Done(d)
        BY DEF Batch!DependenciesDone, Batch!RanToItsEnd, Done, Completed
    <2>1. d \in Batch!Key
        BY DEF DependInv, BatchTypes
    <2>2. exec[x].res[d] = "succeeded"
        BY DEF DependInv, DepsInv, DepsSucceeded
    <2>3. try[x][d].at = "rest"
        BY <2>1, <2>2 DEF DependInv, ItemInv, ItemRight
    <2>4. Batch!LiveWork(x, d) = {}
        BY <2>1, <2>3 DEF DependInv, LiveInv, LiveItem, Working, Batch!LiveWork
    <2>5. Done(d)
        BY <2>1, <2>2 DEF DependInv, EarnedInv, Earned
    <2> QED BY <2>2, <2>4, <2>5
<1> QED BY <1>1, <1>2, <1>3, PTL DEF Batch!Spec

-----------------------------------------------------------------------------
(***************************************************************************)
(* Executions one after another under one idempotency key and one run,     *)
(* with one attempt for each task and no entry lost: the first does the    *)
(* batch, the others find all of its results in the journal and do         *)
(* nothing.                                                                *)
(***************************************************************************)

OneByOne ==
    /\ ~Overlap /\ ~JournalFull /\ Retries = 0 /\ Batch!NoRunIsNone
    /\ \A r, s \in RunId : r = s

Busy(x) == exec[x].at \in {"chunk", "running"}
Ended(x) == exec[x].at = "ended"
Full(f) == \A k \in Batch!Key : f[k] # "none"

\* An execution with nothing to do.
Late(x) ==
    /\ Full(exec[x].res) /\ Full(exec[x].jres)
    /\ \A k \in Batch!Key : try[x][k].at = "rest"
    /\ \A k \in Batch!Key, n \in Batch!Attempt : sess[x][k][n] = Batch!NoSession

OnceInv ==
    /\ \A x \in Exec : Busy(x) \/ Ended(x) => exec[x].run \in RunId
    /\ \A x \in Exec : Ended(x) => entry.run \in RunId /\ Full(entry.res)
    /\ \A x, y \in Exec : Busy(x) /\ Busy(y) => x = y
    /\ \A x, y \in Exec : Busy(x) /\ Ended(y) => Late(x)
    /\ \A x, y \in Exec : Ended(x) /\ Ended(y) /\ x # y => Late(x) \/ Late(y)

\* What an execution that was idle has touched: nothing.
LEMMA IdleUntouched ==
    ASSUME BatchTypes, ItemInv, NEW x \in Exec, exec[x].at = "idle"
    PROVE  /\ \A k \in Batch!Key : try[x][k].at = "rest"
           /\ \A k \in Batch!Key, n \in Batch!Attempt : sess[x][k][n] = Batch!NoSession
    BY DEF ItemInv, ItemRight, Untouched

\* A batch that ends leaves no task without a result.
LEMMA FinalIsFull ==
    ASSUME NEW x \in Exec
    PROVE  Full(Final(x))
    BY DEF Full, Final

\* An execution with nothing to do journals the results it took over.
LEMMA LateJournal ==
    ASSUME NEW x \in Exec, Late(x)
    PROVE  Full(Journal(x))
<1>1. Won(x) = {}
    BY DEF Won, Late
<1> QED BY <1>1 DEF Late, Journal, Full

\* An execution with nothing to do stays so: there is nothing to start, to collect or to
\* end.
LEMMA LateStays ==
    ASSUME Batch!CountsAreNat, BatchTypes, [Batch!Next]_Batch!vars, NEW x \in Exec, Late(x),
           exec[x].at # "idle"
    PROVE  Late(x)'
<1>1. \A k \in Batch!Key : ItemStep(x, k)
    BY ItemSteps
<1>2. ASSUME NEW k \in Batch!Key
      PROVE  /\ exec'[x].res[k] = exec[x].res[k] /\ try'[x][k].at = "rest"
             /\ \A n \in Batch!Attempt : sess'[x][k][n] = Batch!NoSession
    <2>1. exec[x].res[k] # "none" /\ try[x][k].at = "rest"
        BY DEF Late, Full
    <2>2. \A n \in Batch!Attempt : sess[x][k][n] = Batch!NoSession
        BY DEF Late
    <2>3. ~ItemTaskEnds(x, k)
        BY <2>2 DEF ItemTaskEnds, Batch!NoSession
    <2>4. ~ItemMoves(x, k)
        BY <2>1 DEF ItemMoves, Moves
    <2> QED BY <1>1, <2>1, <2>2, <2>3, <2>4 DEF ItemStep, ItemRests, ItemBegins, ItemPassedOver,
                                                 ItemStarts, ItemCollected
<1>3. Full(exec'[x].jres)
    <2>1. Full(Journal(x)) /\ Full(Final(x))
        BY FinalIsFull, LateJournal
    <2>2. exec'[x].jres \in {exec[x].jres, Journal(x), Final(x)} \/ ResultsBegin(x)
        BY ResultSteps DEF ResultsStep, ResultsRest, ResultsPassOver, ResultsEnd, ResultsGoOn
    <2>3. ResultsBegin(x) => exec'[x].jres = exec'[x].res
        BY DEF ResultsBegin
    <2>4. Full(exec'[x].res)
        BY <1>2 DEF Late, Full
    <2> QED BY <2>1, <2>2, <2>3, <2>4 DEF Late
<1> QED BY <1>2, <1>3 DEF Late, Full, Batch!Key, Batch!Attempt, Batch!NoSession

\* One execution runs at a time, and one that begins after another has ended finds all of
\* its results.
LEMMA OnceStep ==
    ASSUME Batch!CountsAreNat, OneByOne, BatchTypes, ItemInv, OnceInv, [Batch!Next]_Batch!vars
    PROVE  OnceInv'
<1>1. \A x \in Exec : Late(x) /\ exec[x].at # "idle" => Late(x)'
    BY LateStays
<1>2. ASSUME NEW x \in Exec, NEW run \in RunId, NEW from \in Runs, Batch!Begin(x, run, from)
      PROVE  OnceInv'
    <2>1. /\ exec[x].at = "idle" /\ UNCHANGED <<entry, try, sess>>
          /\ \A y \in Exec : exec[y].at \in {"idle", "ended"}
        BY <1>2 DEF Batch!Begin, OneByOne
    <2>2. /\ exec'[x].at = "chunk" /\ \A y \in Exec : y # x => exec'[y] = exec[y]
          /\ exec'[x].run = IF Batch!Matches(run, from) THEN entry.run ELSE run
          /\ Batch!Matches(run, from) => exec'[x].res = entry.res /\ exec'[x].jres = entry.res
        BY <1>2 DEF Batch!Begin, BatchTypes, Execution
    <2>3. exec'[x].run \in RunId
        BY <2>2 DEF Batch!Matches, Runs
    <2>4. ASSUME NEW y \in Exec, Ended(y)
          PROVE  Late(x)'
        <3>1. entry.run \in RunId /\ Full(entry.res)
            BY <2>4 DEF OnceInv
        <3>2. entry # Batch!NoEntry
            BY <3>1 DEF Batch!NoEntry, OneByOne, Batch!NoRunIsNone
        <3>3. Batch!Matches(run, from)
            BY <3>1, <3>2 DEF Batch!Matches, Runs, OneByOne
        <3> QED BY <2>1, <2>2, <3>1, <3>3, IdleUntouched
                DEF Late, Full, Batch!Key, Batch!Attempt, Batch!NoSession
    <2>5. ASSUME NEW y \in Exec
          PROVE  /\ Busy(y)' => y = x
                 /\ Ended(y)' => Ended(y) /\ y # x
        BY <2>1, <2>2 DEF Busy, Ended
    <2>6. \A y \in Exec : Ended(y) /\ Late(y) => Late(y)'
        BY <1>1 DEF Ended
    <2>7. \A y \in Exec : Busy(y)' \/ Ended(y)' => exec'[y].run \in RunId
        BY <2>2, <2>3, <2>5 DEF OnceInv
    <2>8. \A y \in Exec : Ended(y)' => entry'.run \in RunId /\ Full(entry.res)
        BY <2>1, <2>5 DEF OnceInv
    <2>9. \A y, z \in Exec : Busy(y)' /\ Ended(z)' => Late(y)'
        BY <2>4, <2>5
    <2>10. \A y, z \in Exec : Ended(y)' /\ Ended(z)' /\ y # z => Late(y)' \/ Late(z)'
        BY <2>5, <2>6 DEF OnceInv
    <2> QED BY <2>1, <2>5, <2>7, <2>8, <2>9, <2>10 DEF OnceInv, Full, Batch!Key
<1>3. ASSUME NEW x \in Exec, Batch!Collect(x)
      PROVE  OnceInv'
    <2>1. /\ exec'[x].run = exec[x].run /\ exec'[x].at \in {"chunk", "ended"}
          /\ entry'.run = exec[x].run
          /\ \/ entry'.res = Final(x)
             \/ entry'.res = Journal(x) /\ exec'[x].at = "chunk"
          /\ \A y \in Exec : y # x => exec'[y] = exec[y]
        <3>1. CASE EndsWith(x)
            BY <3>1 DEF EndsWith, BatchTypes, Execution
        <3>2. CASE GoesOnWith(x)
            BY <3>2 DEF GoesOnWith, BatchTypes, Execution
        <3> QED BY <1>3, <3>1, <3>2, CollectWrites
    <2>2. Busy(x) /\ \A y \in Exec : Busy(y) => y = x
        BY <1>3, CollectWrites DEF OnceInv, Busy
    <2>3. ASSUME NEW y \in Exec
          PROVE  /\ Busy(y)' => y = x
                 /\ Ended(y)' => Ended(y) \/ y = x
        BY <2>1, <2>2 DEF Busy, Ended
    <2>4. ASSUME NEW y \in Exec, Ended(y)', y # x
          PROVE  Late(x) /\ Late(x)'
        <3>1. Ended(y)
            BY <2>3, <2>4
        <3>2. Late(x)
            BY <2>2, <3>1 DEF OnceInv
        <3> QED BY <1>1, <2>2, <3>2 DEF Busy
    <2>5. \A y \in Exec : Busy(y)' \/ Ended(y)' => exec'[y].run \in RunId
        BY <2>1, <2>2, <2>3 DEF OnceInv
    <2>6. \A y \in Exec : Ended(y)' => entry'.run \in RunId /\ Full(entry'.res)
        <3>1. entry'.run \in RunId
            BY <2>1, <2>2 DEF OnceInv
        <3>2. ASSUME NEW y \in Exec, Ended(y)'
              PROVE  Full(entry'.res)
            <4>1. CASE y = x
                BY <2>1, <3>2, <4>1, FinalIsFull DEF Ended
            <4>2. CASE y # x
                BY <2>1, <2>4, <3>2, <4>2, FinalIsFull, LateJournal
            <4> QED BY <4>1, <4>2
        <3> QED BY <3>1, <3>2
    <2>7. \A y, z \in Exec : Busy(y)' /\ Ended(z)' => Late(y)'
        <3>1. ~(Busy(x)' /\ Ended(x)')
            BY DEF Busy, Ended
        <3> QED BY <2>3, <2>4, <3>1
    <2>8. \A y, z \in Exec : Ended(y)' /\ Ended(z)' /\ y # z => Late(y)' \/ Late(z)'
        <3>1. \A y \in Exec : Ended(y) /\ Late(y) => Late(y)'
            BY <1>1 DEF Ended
        <3> QED BY <2>3, <2>4, <3>1 DEF OnceInv
    <2> QED BY <2>3, <2>5, <2>6, <2>7, <2>8 DEF OnceInv, Full, Batch!Key
<1>4. ASSUME UNCHANGED entry,
             \A y \in Exec : /\ exec'[y].run = exec[y].run
                              /\ Busy(y)' = Busy(y) /\ Ended(y)' = Ended(y)
      PROVE  OnceInv'
    <2>1. \A y \in Exec : (Busy(y) \/ Ended(y)) /\ Late(y) => Late(y)'
        BY <1>1 DEF Busy, Ended
    <2> QED BY <1>4, <2>1 DEF OnceInv, Full, Batch!Key
<1>5. ASSUME NEW x \in Exec, Batch!StartChunk(x)
      PROVE  OnceInv'
    <2>1. /\ exec'[x].run = exec[x].run /\ exec[x].at = "chunk" /\ exec'[x].at = "running"
          /\ \A y \in Exec : y # x => exec'[y] = exec[y]
          /\ UNCHANGED entry
        BY <1>5 DEF Batch!StartChunk, BatchTypes, Execution
    <2> QED BY <1>4, <2>1 DEF Busy, Ended
<1>6. ASSUME UNCHANGED <<entry, exec>>
      PROVE  OnceInv'
    BY <1>4, <1>6 DEF Busy, Ended
<1>7. ASSUME NEW x \in Exec, NEW k \in Batch!Key, Batch!AttemptStep(x, k)
      PROVE  UNCHANGED <<entry, exec>>
    BY <1>7 DEF Batch!AttemptStep, Batch!Spawn, Batch!Send, Batch!WaitDone, Batch!WaitTimesOut,
               Batch!WaitThrows, Batch!Close, Batch!Catch
<1>8. ASSUME NEW x \in Exec, NEW k \in Batch!Key, NEW n \in Batch!Attempt,
             Batch!TaskEnds(x, k, n)
      PROVE  UNCHANGED <<entry, exec>>
    BY <1>8 DEF Batch!TaskEnds
<1>9. ~Batch!Trim
    BY DEF Batch!Trim, OneByOne
<1>10. UNCHANGED Batch!vars => UNCHANGED <<entry, exec>>
    BY DEF Batch!vars
<1> QED BY <1>2, <1>3, <1>5, <1>6, <1>7, <1>8, <1>9, <1>10 DEF Batch!Next, Runs

\* Under one idempotency key and one run no task is completed twice, however many
\* executions are started one after another.
THEOREM NothingTwice ==
    ASSUME Batch!CountsAreNat, OneByOne
    PROVE  Batch!Spec => []Batch!DoneOnce
<1>1. Batch!Init => BatchTypes /\ ItemInv /\ OnceInv
    BY BatchBegins DEF Batch!Init, OnceInv, Busy, Ended
<1>2. BatchTypes /\ ItemInv /\ OnceInv /\ [Batch!Next]_Batch!vars
        => (BatchTypes /\ ItemInv /\ OnceInv)'
    BY BatchStep, OnceStep
<1>3. BatchTypes /\ ItemInv /\ OnceInv => Batch!DoneOnce
    <2>1. ASSUME BatchTypes, ItemInv, OnceInv, NEW k \in Batch!Key
          PROVE  Cardinality({w \in Exec \X Batch!Attempt :
                                sess[w[1]][k][w[2]].task = "completed"}) <= 1
        <3> DEFINE D == {w \in Exec \X Batch!Attempt : sess[w[1]][k][w[2]].task = "completed"}
        <3>1. ASSUME NEW x \in Exec, NEW n \in Batch!Attempt, sess[x][k][n].task = "completed"
              PROVE  (Busy(x) \/ Ended(x)) /\ ~Late(x)
            <4>1. sess[x][k][n] # Batch!NoSession
                BY <3>1 DEF Batch!NoSession
            <4>2. exec[x].at # "idle" /\ ~Late(x)
                BY <2>1, <4>1, IdleUntouched DEF Late
            <4> QED BY <2>1, <4>2 DEF BatchTypes, Execution, Busy, Ended
        <3>2. \A n \in Batch!Attempt : n = 1
            BY DEF Batch!Attempt, OneByOne
        <3>3. ASSUME NEW v \in D, NEW w \in D
              PROVE  v = w
            <4>1. v[1] = w[1]
                BY <2>1, <3>1, <3>3 DEF OnceInv
            <4> QED BY <3>2, <3>3, <4>1
        <3>4. CASE D = {}
            <4>1. Cardinality(D) = 0
                BY <3>4, FS_EmptySet
            <4> QED BY <4>1
        <3>5. ASSUME NEW w \in D
              PROVE  Cardinality(D) = 1
            <4>1. D = {w}
                BY <3>3, <3>5
            <4> QED BY <4>1, FS_Singleton
        <3> QED BY <3>4, <3>5
    <2>2. ASSUME BatchTypes, ItemInv, OnceInv, NEW k \in Batch!Key
          PROVE  Batch!Cardinality({w \in Exec \X Batch!Attempt :
                                      sess[w[1]][k][w[2]].task = "completed"}) <= 1
        BY <2>1, <2>2 DEF Batch!Cardinality, Cardinality
    <2> QED BY <2>2 DEF Batch!DoneOnce
<1> QED BY <1>1, <1>2, <1>3, PTL DEF Batch!Spec

\* What is reported as succeeded has run to its end, whatever is refused, lost, repeated,
\* overlaps or fails, and whether sessions are closed or not.
THEOREM SuccessIsEarned ==
    ASSUME Batch!CountsAreNat
    PROVE  Batch!Spec => []Batch!SucceededIsDone
<1> DEFINE EarnsInv == BatchTypes /\ ItemInv /\ SuccessInv /\ EarnedInv
<1>1. Batch!Init => EarnsInv
    <2>1. Batch!Init => Earned(Batch!NoResults)
        BY DEF Earned, Batch!NoResults
    <2>2. Batch!Init => SuccessInv /\ EarnedInv
        BY <2>1 DEF Batch!Init, SuccessInv, SuccessItem, Succeeds, EarnedInv, Batch!AtRest,
                    Batch!NoSession, Batch!NoEntry
    <2> QED BY <2>2, BatchBegins
<1>2. EarnsInv /\ [Batch!Next]_Batch!vars => EarnsInv'
    <2> SUFFICES ASSUME EarnsInv, [Batch!Next]_Batch!vars
                 PROVE  EarnsInv'
        OBVIOUS
    <2>1. Batch!Key' = Batch!Key
        BY DEF Batch!Key
    <2>2. BatchTypes' /\ ItemInv' /\ EarnedInv'
        BY BatchStep, EarnedStep
    <2>3. SuccessInv'
        BY <2>1, SuccessStep DEF SuccessInv, ItemInv
    <2> QED BY <2>2, <2>3
<1>3. EarnsInv => Batch!SucceededIsDone
    BY DEF EarnedInv, Earned, Done, Completed, Batch!SucceededIsDone, Batch!RanToItsEnd
<1> QED BY <1>1, <1>2, <1>3, PTL DEF Batch!Spec

\* The variables have their types, and what an execution reports in the end is what the
\* journal keeps of it.
THEOREM BatchTypeOK ==
    ASSUME Batch!CountsAreNat
    PROVE  Batch!Spec => []Batch!TypeOK
<1> DEFINE Kept(x) == exec[x].at = "ended" => exec[x].res = exec[x].jres
           KeptInv == BatchTypes /\ \A x \in Exec : Kept(x)
<1>1. Batch!Init => KeptInv
    BY BatchBegins DEF Batch!Init
<1>2. KeptInv /\ [Batch!Next]_Batch!vars => KeptInv'
    <2> SUFFICES ASSUME KeptInv, [Batch!Next]_Batch!vars, NEW y \in Exec
                 PROVE  Kept(y)'
        BY BatchTypeStep
    <2>1. ASSUME NEW x \in Exec, NEW run \in RunId, NEW from \in Runs, Batch!Begin(x, run, from)
          PROVE  exec'[y] = exec[y] \/ exec'[y].at = "chunk"
        BY <2>1 DEF Batch!Begin, BatchTypes, Execution
    <2>2. ASSUME NEW x \in Exec, Batch!StartChunk(x)
          PROVE  exec'[y] = exec[y] \/ exec'[y].at = "running"
        BY <2>2 DEF Batch!StartChunk, BatchTypes, Execution
    <2>3. ASSUME NEW x \in Exec, Batch!Collect(x)
          PROVE  Kept(y)'
        <3>1. CASE EndsWith(x)
            BY <3>1 DEF EndsWith, BatchTypes, Execution
        <3>2. CASE GoesOnWith(x)
            BY <3>2 DEF GoesOnWith, BatchTypes, Execution
        <3> QED BY <2>3, <3>1, <3>2, CollectWrites
    <2>4. ASSUME NEW x \in Exec, NEW k \in Batch!Key, Batch!AttemptStep(x, k)
          PROVE  UNCHANGED exec
        BY <2>4 DEF Batch!AttemptStep, Batch!Spawn, Batch!Send, Batch!WaitDone,
                    Batch!WaitTimesOut, Batch!WaitThrows, Batch!Close, Batch!Catch
    <2>5. ASSUME NEW x \in Exec, NEW k \in Batch!Key, NEW n \in Batch!Attempt,
                 Batch!TaskEnds(x, k, n)
          PROVE  UNCHANGED exec
        BY <2>5 DEF Batch!TaskEnds
    <2>6. Batch!Trim \/ UNCHANGED Batch!vars => UNCHANGED exec
        BY DEF Batch!Trim, Batch!vars
    <2> QED BY <2>1, <2>2, <2>3, <2>4, <2>5, <2>6 DEF Batch!Next, Runs
<1>3. KeptInv => Batch!TypeOK
    BY DEF BatchTypes, Execution, Trial, Results, Batch!TypeOK
<1> QED BY <1>1, <1>2, <1>3, PTL DEF Batch!Spec
=============================================================================
