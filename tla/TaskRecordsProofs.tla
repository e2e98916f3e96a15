-------------------------- MODULE TaskRecordsProofs --------------------------
(***************************************************************************)
(* The records of agent tasks: a queued task has somebody who will run it, *)
(* through refusals, failed writes and crashes; only a record made before  *)
(* its end replaces the end of a task; starts with one request id that do  *)
(* not overlap share one task; the store keeps to its limit, and a restart *)
(* finds what is queued.  For any callers, requests, tasks and limits.     *)
(*                                                                         *)
(* After them, what runs those tasks: the runs of an ACP backend (module   *)
(* AcpTask, as Acp), and the guardrails of the tools that are called       *)
(* (module ToolGuardrails, as Guard).                                      *)
(***************************************************************************)
EXTENDS TaskRecords, Sequences, WellFoundedInduction, FiniteSetTheorems, TLAPS

Status == Active \cup Terminal \cup {"absent"}
NoCall == [pc |-> "idle", req |-> None, task |-> None]
Write1 == [task : Task, row : Row]

-----------------------------------------------------------------------------
(* The invariants.                                                         *)

\* The types, but for the order of the store.
Shape ==
  /\ status \in [Task -> Status]
  /\ request \in [Task -> Request \cup {None}]
  /\ runner \in [Task -> {"none", "waiting", "running"}]
  /\ call \in [Caller -> [pc : {"idle", "looked", "inserted"},
                          req : Request \cup {None}, task : Task \cup {None}]]
  /\ disk \in [Task -> Row \cup {NoRow}]
  /\ writes \subseteq Write1 /\ failures \in Nat /\ now \in 0 .. MaxTime

\* A start that is under way has its request, and a task of its own once it inserted one.
Callers ==
  /\ \A c \in Caller : call[c].pc # "idle" => call[c].req \in Request
  /\ \A c \in Caller : call[c].pc = "inserted" => call[c].task \in Task \ Fresh
  /\ \A c, d \in Caller : call[c].pc = "inserted" /\ call[d].pc = "inserted"
                          /\ call[c].task = call[d].task => c = d

\* Nothing is known of a task that does not exist yet.
FreshIsUnknown ==
  /\ \A t \in Fresh : status[t] = "absent" /\ disk[t] = NoRow /\ runner[t] = "none"
  /\ \A w \in writes : w.task \notin Fresh

Inv == Shape /\ Callers /\ FreshIsUnknown

\* The statuses that end a task for good.
Ended == {"completed", "interrupted"}

\* No record is from the future.  What the disk or a write says of an end is what the store
\* says, and every later record of the task says the same.
EndInv ==
  /\ \A t \in Task : disk[t].at <= now
  /\ \A w \in writes : w.row.at <= now
  /\ \A t \in Task : disk[t].status \in Ended => status[t] \in {disk[t].status, "absent"}
  /\ \A w \in writes : w.row.status \in Ended => status[w.task] \in {w.row.status, "absent"}
  /\ \A w \in writes : disk[w.task].status \in Ended /\ disk[w.task].at <= w.row.at
                         => w.row.status = disk[w.task].status
  /\ \A v, w \in writes : v.task = w.task /\ v.row.status \in Ended /\ v.row.at <= w.row.at
                            => w.row.status = v.row.status

\* A caller that looked and found nothing still would find nothing.
RequestInv ==
  /\ \A t \in Task : status[t] # "recovered"
  /\ OneTaskPerRequest
  /\ \A c \in Caller : call[c].pc = "looked" => SameRequest(call[c].req) = {}

-----------------------------------------------------------------------------
(* The shape, the callers and the runners.                                 *)

\* A checkpoint adds at most one write, of the record as it is.
LEMMA CheckpointIs ==
  ASSUME RecordsAssumption, Shape, NEW t \in Task, NEW s \in Active \cup Terminal,
         Checkpoint(t, s)
  PROVE  /\ UNCHANGED <<disk, failures>> /\ now' \in 0 .. MaxTime
         /\ writes' \subseteq Write1 /\ writes \subseteq writes'
         /\ \A w \in writes' : w \in writes \/ (w.task = t /\ w.row.status = s)
<1> DEFINE new == [task |-> t, row |-> [status |-> s, at |-> now + 1]]
<1>1. now \in Nat /\ MaxTime \in Nat /\ now < MaxTime /\ now' = now + 1
  BY DEF RecordsAssumption, Shape, Checkpoint
<1>2. new \in Write1 /\ new.task = t /\ new.row.status = s
  BY <1>1 DEF Write1, Row
<1>3. writes' = writes \cup {new} \/ writes' = writes
  BY DEF Checkpoint
<1> HIDE DEF new
<1> QED BY <1>1, <1>2, <1>3 DEF Shape, Checkpoint

\* Nothing is known at the start.
LEMMA InitInv == ASSUME RecordsAssumption, Init PROVE Inv /\ QueuedHasRunner
<1>1. /\ status = [t \in Task |-> "absent"] /\ request = [t \in Task |-> None]
      /\ runner = [t \in Task |-> "none"] /\ call = [c \in Caller |-> NoCall]
      /\ disk = [t \in Task |-> NoRow] /\ writes = {} /\ failures = 0 /\ now = 0
  BY DEF Init, NoCall
<1>2. MaxTime \in Nat
  BY DEF RecordsAssumption
<1>3. Shape
  BY <1>1, <1>2 DEF Shape, Status, NoCall
<1>4. Callers
  BY <1>1 DEF Callers, NoCall
<1> QED BY <1>1, <1>3, <1>4 DEF Inv, FreshIsUnknown, QueuedHasRunner, Fresh

\* A start keeps them.
LEMMA StartInv ==
  ASSUME RecordsAssumption, Inv, NEW c \in Caller,
         Look(c) \/ Insert(c) \/ Launch(c) \/ RollBack(c)
  PROVE  Inv' /\ (QueuedHasRunner => QueuedHasRunner')
<1> USE DEF Inv
<1>0. None \notin Task \cup Request
  BY DEF RecordsAssumption
<1>c. DOMAIN call = Caller /\ \A d \in Caller :
        call[d] \in [pc : {"idle", "looked", "inserted"}, req : Request \cup {None},
                     task : Task \cup {None}]
  BY DEF Shape
<1>1. CASE Look(c)
  <2>1. PICK r \in Request :
          /\ UNCHANGED <<status, request, runner, disk, writes, failures, now>>
          /\ \/ UNCHANGED call
             \/ call[c].pc = "idle" /\ call' = [call EXCEPT ![c].pc = "looked", ![c].req = r]
    BY <1>1 DEF Look, durable
  <2>2. CASE UNCHANGED call
    BY <2>1, <2>2 DEF Shape, Callers, FreshIsUnknown, Fresh, QueuedHasRunner
  <2>3. CASE call[c].pc = "idle" /\ call' = [call EXCEPT ![c].pc = "looked", ![c].req = r]
    <3>1. /\ call'[c].pc = "looked" /\ call'[c].req = r
          /\ \A d \in Caller : d # c => call'[d] = call[d]
          /\ call' \in [Caller -> [pc : {"idle", "looked", "inserted"},
                                   req : Request \cup {None}, task : Task \cup {None}]]
      <4> DEFINE k == call[c]
                 n == [[k EXCEPT !.pc = "looked"] EXCEPT !.req = r]
      <4>1. call' = [call EXCEPT ![c] = n]
        BY <1>c, <2>3
      <4>2. /\ n \in [pc : {"idle", "looked", "inserted"}, req : Request \cup {None},
                      task : Task \cup {None}]
            /\ n.pc = "looked" /\ n.req = r
        BY <1>c
      <4> HIDE DEF n
      <4> QED BY <1>c, <4>1, <4>2
    <3>2. Shape'
      BY <2>1, <3>1 DEF Shape
    <3>3. Callers'
      BY <2>1, <3>1 DEF Callers, Fresh
    <3> QED BY <2>1, <2>3, <3>1, <3>2, <3>3 DEF FreshIsUnknown, Fresh, QueuedHasRunner
  <2> QED BY <2>1, <2>2, <2>3
<1>i. ASSUME call' = Idle(c)
      PROVE  /\ call'[c] = NoCall /\ \A d \in Caller : d # c => call'[d] = call[d]
             /\ call' \in [Caller -> [pc : {"idle", "looked", "inserted"},
                                      req : Request \cup {None}, task : Task \cup {None}]]
  BY <1>c, <1>i DEF Idle, NoCall
<1> DEFINE left == [t \in Task |-> IF t \in Evicted THEN "absent" ELSE status[t]]
<1>l. left \in [Task -> Status] /\ \A t \in Task : left[t] \in {"absent", status[t]}
  BY DEF Shape, Status
<1>2. CASE Insert(c) /\ status' = left /\ call' = Idle(c) /\ UNCHANGED <<request, durable, now>>
  <2>1. UNCHANGED <<request, runner, disk, writes, failures, now>>
    BY <1>2 DEF Insert, durable
  <2> HIDE DEF left
  <2>2. Shape'
    BY <1>2, <1>i, <1>l, <2>1 DEF Shape
  <2>3. Callers'
    BY <1>2, <1>i, <2>1 DEF Callers, Fresh, NoCall
  <2>4. FreshIsUnknown'
    BY <1>2, <1>l, <2>1 DEF FreshIsUnknown, Fresh
  <2>5. QueuedHasRunner => QueuedHasRunner'
    <3>1. call[c].pc = "looked"
      BY <1>2 DEF Insert
    <3>2. \A t \in Task : status'[t] = "queued" => status[t] = "queued"
      BY <1>2, <1>l
    <3> QED BY <1>2, <1>i, <2>1, <3>1, <3>2 DEF QueuedHasRunner
  <2> QED BY <2>2, <2>3, <2>4, <2>5
<1>3. ASSUME Insert(c), NEW t \in Fresh,
             status' = [left EXCEPT ![t] = "queued"],
             request' = [request EXCEPT ![t] = call[c].req],
             call' = [call EXCEPT ![c].pc = "inserted", ![c].task = t],
             Checkpoint(t, "queued")
      PROVE  Inv' /\ (QueuedHasRunner => QueuedHasRunner')
  <2> HIDE DEF left
  <2>1. call[c].pc = "looked" /\ call[c].req \in Request /\ t \in Task /\ request[t] = None
        /\ UNCHANGED runner
    BY <1>3 DEF Insert, Callers, Fresh
  <2>2. /\ UNCHANGED <<disk, failures>> /\ now' \in 0 .. MaxTime
        /\ writes' \subseteq Write1 /\ writes \subseteq writes'
        /\ \A w \in writes' : w \in writes \/ (w.task = t /\ w.row.status = "queued")
    BY <1>3, <2>1, CheckpointIs DEF Active
  <2>3. /\ call'[c].pc = "inserted" /\ call'[c].req = call[c].req /\ call'[c].task = t
        /\ \A d \in Caller : d # c => call'[d] = call[d]
        /\ call' \in [Caller -> [pc : {"idle", "looked", "inserted"},
                                 req : Request \cup {None}, task : Task \cup {None}]]
    <3> DEFINE k == call[c]
               n == [[k EXCEPT !.pc = "inserted"] EXCEPT !.task = t]
    <3>1. call' = [call EXCEPT ![c] = n]
      BY <1>3, <1>c
    <3>2. /\ n \in [pc : {"idle", "looked", "inserted"}, req : Request \cup {None},
                    task : Task \cup {None}]
          /\ n.pc = "inserted" /\ n.req = call[c].req /\ n.task = t
      BY <1>c, <2>1
    <3> HIDE DEF n
    <3> QED BY <1>c, <3>1, <3>2
  <2>4. /\ status' \in [Task -> Status] /\ status'[t] = "queued"
        /\ \A u \in Task \ {t} : status'[u] \in {"absent", status[u]}
    BY <1>3, <1>l, <2>1 DEF Status, Active
  <2>5. /\ request' \in [Task -> Request \cup {None}]
        /\ \A u \in Task \ {t} : request'[u] = request[u]
        /\ request'[t] \in Request /\ Fresh' = Fresh \ {t}
    BY <1>0, <1>3, <2>1 DEF Shape, Fresh
  <2>6. Shape'
    BY <2>1, <2>2, <2>3, <2>4, <2>5 DEF Shape
  <2>7. Callers'
    BY <1>3, <2>1, <2>3, <2>5 DEF Callers
  <2>8. FreshIsUnknown'
    <3>1. \A u \in Fresh' : u \in Task \ {t} /\ u \in Fresh
      BY <2>5 DEF Fresh
    <3> QED BY <2>1, <2>2, <2>4, <2>5, <3>1 DEF FreshIsUnknown
  <2>9. QueuedHasRunner => QueuedHasRunner'
    BY <2>1, <2>3, <2>4 DEF QueuedHasRunner
  <2> QED BY <2>6, <2>7, <2>8, <2>9
<1>4. CASE Launch(c)
  <2>1. /\ call[c].pc = "inserted" /\ call' = Idle(c)
        /\ runner' = [runner EXCEPT ![call[c].task] = "waiting"]
        /\ UNCHANGED <<status, request, disk, writes, failures, now>>
    BY <1>4 DEF Launch, durable
  <2>2. call[c].task \in Task \ Fresh
    BY <2>1 DEF Callers
  <2>3. Shape'
    BY <1>i, <2>1, <2>2 DEF Shape
  <2>4. Callers'
    BY <1>i, <2>1 DEF Callers, Fresh, NoCall
  <2>5. FreshIsUnknown'
    BY <2>1, <2>2 DEF FreshIsUnknown, Fresh, Shape
  <2>6. QueuedHasRunner => QueuedHasRunner'
    BY <1>i, <2>1, <2>2 DEF QueuedHasRunner, Shape
  <2> QED BY <2>3, <2>4, <2>5, <2>6
<1>5. CASE RollBack(c)
  <2>1. /\ call[c].pc = "inserted" /\ call' = Idle(c)
        /\ status' = [status EXCEPT ![call[c].task] = "absent"]
        /\ UNCHANGED <<request, runner, disk, writes, failures, now>>
    BY <1>5 DEF RollBack, durable
  <2>2. call[c].task \in Task \ Fresh
    BY <2>1 DEF Callers
  <2>3. status' \in [Task -> Status] /\ status'[call[c].task] = "absent"
        /\ \A t \in Task : t # call[c].task => status'[t] = status[t]
    BY <2>1, <2>2 DEF Shape, Status
  <2>4. Shape'
    BY <1>i, <2>1, <2>3 DEF Shape
  <2>5. Callers'
    <3>1. call'[c].pc = "idle" /\ Fresh' = Fresh
      BY <1>i, <2>1 DEF NoCall, Fresh
    <3>2. \A d \in Caller : d # c => call'[d] = call[d]
      BY <1>i, <2>1
    <3>3. \A d \in Caller : call'[d].pc # "idle" => d # c /\ call'[d] = call[d]
      BY <3>1, <3>2
    <3> QED BY <3>1, <3>3 DEF Callers
  <2>6. FreshIsUnknown'
    BY <2>1, <2>2, <2>3 DEF FreshIsUnknown, Fresh
  <2>7. QueuedHasRunner => QueuedHasRunner'
    BY <1>i, <2>1, <2>3 DEF QueuedHasRunner
  <2> QED BY <2>4, <2>5, <2>6, <2>7
<1> QED BY <1>1, <1>2, <1>3, <1>4, <1>5 DEF Insert

\* What a task does, or is told, keeps them; a resume reads nothing back.
LEMMA TaskInv ==
  ASSUME RecordsAssumption, "evicted" \notin Happens, Inv, NEW t \in Task,
         Begin(t) \/ Finish(t) \/ Interrupt(t) \/ Resume(t)
  PROVE  Inv' /\ (QueuedHasRunner => QueuedHasRunner')
<1> USE DEF Inv
<1>1. UNCHANGED <<request, call>> /\ Fresh' = Fresh
  BY DEF Begin, Finish, Interrupt, Resume, history, Fresh
<1>2. PICK s \in Active \cup Terminal :
        /\ status' = [status EXCEPT ![t] = s] \/ UNCHANGED status
        /\ Checkpoint(t, s) \/ UNCHANGED <<durable, now>>
        /\ t \notin Fresh
  <2>0. t \in Fresh => status[t] = "absent" /\ runner[t] = "none" /\ t \notin Present
    BY DEF FreshIsUnknown, Present
  <2>1. CASE Begin(t)
    BY <2>0, <2>1 DEF Begin, Active
  <2>2. CASE Finish(t)
    BY <2>0, <2>2 DEF Finish, Terminal
  <2>3. CASE Interrupt(t)
    BY <2>0, <2>3 DEF Interrupt, Active, Terminal
  <2>4. CASE Resume(t)
    BY <2>0, <2>4 DEF Resume, Active
  <2> QED BY <2>1, <2>2, <2>3, <2>4
<1>3. /\ UNCHANGED <<disk, failures>> /\ now' \in 0 .. MaxTime
      /\ writes' \subseteq Write1 /\ writes \subseteq writes'
      /\ \A w \in writes' : w \in writes \/ (w.task = t /\ w.row.status = s)
  BY <1>2, CheckpointIs DEF durable, Shape
<1>4. status' \in [Task -> Status] /\ \A u \in Task \ {t} : status'[u] = status[u]
  BY <1>2 DEF Shape, Status
<1>5. /\ runner' \in [Task -> {"none", "waiting", "running"}]
      /\ \A u \in Task \ {t} : runner'[u] = runner[u]
  BY DEF Begin, Finish, Interrupt, Resume, Shape
<1>6. status'[t] = "queued" =>
        runner'[t] = "waiting" \/ (status[t] = "queued" /\ runner'[t] = runner[t])
  <2>1. CASE Begin(t)
    BY <2>1 DEF Begin, Shape
  <2>2. CASE Finish(t)
    BY <2>2 DEF Finish, Shape
  <2>3. CASE Interrupt(t)
    BY <2>3 DEF Interrupt, Shape
  <2>4. CASE Resume(t)
    BY <2>4 DEF Resume, Shape, Present
  <2> QED BY <2>1, <2>2, <2>3, <2>4
<1>7. Shape'
  BY <1>1, <1>3, <1>4, <1>5 DEF Shape
<1>8. Callers'
  BY <1>1 DEF Callers
<1>9. FreshIsUnknown'
  <2>1. \A u \in Fresh : u \in Task \ {t}
    BY <1>2 DEF Fresh
  <2> QED BY <1>1, <1>2, <1>3, <1>4, <1>5, <2>1 DEF FreshIsUnknown
<1>10. QueuedHasRunner => QueuedHasRunner'
  BY <1>1, <1>4, <1>5, <1>6 DEF QueuedHasRunner
<1> QED BY <1>7, <1>8, <1>9, <1>10

\* A write that lands or fails, and a restart keep them.
LEMMA DiskInv ==
  ASSUME RecordsAssumption, Inv, (\E w \in writes : Write(w) \/ WriteFails(w)) \/ Restart
  PROVE  Inv' /\ (QueuedHasRunner => QueuedHasRunner')
<1> USE DEF Inv
<1>1. ASSUME NEW w \in writes, Write(w) \/ WriteFails(w)
      PROVE  Inv' /\ (QueuedHasRunner => QueuedHasRunner')
  <2>1. /\ UNCHANGED <<status, request, runner, call, now>> /\ Fresh' = Fresh
        /\ writes' \subseteq writes /\ failures' \in Nat
        /\ disk' = [disk EXCEPT ![w.task] = w.row] \/ UNCHANGED disk
        /\ w \in Write1
    BY <1>1 DEF Write, WriteFails, memory, Shape, Fresh
  <2>2. w.task \in Task \ Fresh /\ w.row \in Row
    BY <2>1 DEF FreshIsUnknown, Write1
  <2>3. disk' \in [Task -> Row \cup {NoRow}] /\ \A t \in Fresh : disk'[t] = disk[t]
    BY <2>1, <2>2 DEF Shape, Fresh
  <2> QED BY <2>1, <2>3 DEF Shape, Callers, FreshIsUnknown, QueuedHasRunner
<1>2. CASE Restart
  <2>1. /\ status' = [t \in Task |-> IF t \in NewestRows THEN Hydrated(disk[t]) ELSE "absent"]
        /\ runner' = [t \in Task |-> IF t \in NewestRows /\ disk[t].status = "queued"
                                     THEN "waiting" ELSE "none"]
        /\ call' = [c \in Caller |-> NoCall] /\ writes' = {} /\ failures' = 0
        /\ UNCHANGED <<request, disk, now>> /\ Fresh' = Fresh
    BY <1>2 DEF Restart, NoCall, Fresh
  <2>2. \A t \in NewestRows : t \in Task /\ disk[t] # NoRow
    BY DEF NewestRows
  <2> HIDE DEF NewestRows
  <2>3. \A t \in Task : t \in NewestRows => Hydrated(disk[t]) \in Status
    BY <2>2 DEF Shape, Row, Status, Hydrated, Terminal
  <2>4. \A t \in Task : t \in NewestRows /\ Hydrated(disk[t]) = "queued"
                        => disk[t].status = "queued"
    BY DEF Hydrated
  <2>5. Shape'
    BY <2>1, <2>3 DEF Shape, NoCall, Status
  <2>6. Callers'
    BY <2>1 DEF Callers, NoCall
  <2>7. FreshIsUnknown'
    BY <2>1, <2>2 DEF FreshIsUnknown, Fresh
  <2>8. QueuedHasRunner'
    BY <2>1, <2>4 DEF QueuedHasRunner
  <2> QED BY <2>5, <2>6, <2>7, <2>8
<1> QED BY <1>1, <1>2

\* Every step keeps them.
LEMMA NextInv ==
  ASSUME RecordsAssumption, "evicted" \notin Happens, Inv, [Next]_vars
  PROVE  Inv' /\ (QueuedHasRunner => QueuedHasRunner')
<1>1. CASE UNCHANGED vars
  BY <1>1 DEF vars, memory, durable, history, Inv, Shape, Callers, FreshIsUnknown, Fresh,
              QueuedHasRunner
<1> QED BY <1>1, StartInv, TaskInv, DiskInv DEF Next

\* The invariants hold of every behaviour in which no evicted task is named again.
THEOREM InvHolds ==
  ASSUME RecordsAssumption, "evicted" \notin Happens
  PROVE  Spec => []Inv
  BY InitInv, NextInv, PTL DEF Spec

\* A queued task will be run: through starts that are refused, rolled back or evicted,
\* interrupts, writes that fail or are lost, and crashes at any moment, it has an execution
\* that waits for its turn, or a caller that is about to spawn it.
THEOREM HasRunner ==
  ASSUME RecordsAssumption, "evicted" \notin Happens
  PROVE  Spec => []QueuedHasRunner
<1>1. Init => QueuedHasRunner
  BY InitInv
<1>2. Inv /\ QueuedHasRunner /\ [Next]_vars => QueuedHasRunner'
  BY NextInv
<1> QED BY InvHolds, <1>1, <1>2, PTL DEF Spec

-----------------------------------------------------------------------------
(* The end of a task.                                                      *)

\* A checkpoint adds at most one write, of now, which no other record is as late as.
LEMMA CheckpointIsLatest ==
  ASSUME RecordsAssumption, Shape, EndInv, NEW t \in Task, NEW s \in Active \cup Terminal,
         Checkpoint(t, s)
  PROVE  \E new : /\ new.task = t /\ new.row.status = s /\ new.row.at = now'
                  /\ writes' \subseteq writes \cup {new} /\ UNCHANGED disk
                  /\ \A u \in Task : disk[u].at < now' /\ \A w \in writes : w.row.at < now'
<1> DEFINE new == [task |-> t, row |-> [status |-> s, at |-> now + 1]]
<1>1. now \in Nat /\ now' = now + 1 /\ UNCHANGED disk
  BY DEF Shape, Checkpoint
<1>2. writes' \subseteq writes \cup {new}
  BY DEF Checkpoint
<1>3. new.task = t /\ new.row.status = s /\ new.row.at = now'
  BY <1>1
<1> HIDE DEF new
<1>4. /\ \A u \in Task : disk[u].at \in Nat
      /\ \A w \in writes : w.row.at \in Nat
  BY DEF Shape, Write1, Row, NoRow
<1>5. \A u \in Task : disk[u].at < now' /\ \A w \in writes : w.row.at < now'
  BY <1>1, <1>4 DEF EndInv
<1> QED BY <1>1, <1>2, <1>3, <1>5

\* What a task is, or becomes, when its record is written agrees with its end, if there is one.
Agrees(t, s) ==
  /\ status'[t] = s
  /\ \A u \in Task \ {t} : status'[u] \in {"absent", status[u]}
  /\ disk[t].status \in Ended => disk[t].status = s
  /\ \A w \in writes : w.task = t /\ w.row.status \in Ended => w.row.status = s

\* A step that writes such a record keeps the ends.
LEMMA WriteKeepsEnds ==
  ASSUME RecordsAssumption, Inv, EndInv, NEW t \in Task,
         NEW s \in Active \cup Terminal, Checkpoint(t, s), Agrees(t, s)
  PROVE  EndInv'
<1>1. PICK new : /\ new.task = t /\ new.row.status = s /\ new.row.at = now'
                 /\ writes' \subseteq writes \cup {new} /\ UNCHANGED disk
                 /\ \A u \in Task : disk[u].at < now'
                 /\ \A w \in writes : w.row.at < now'
  BY CheckpointIsLatest DEF Inv
<1>2. /\ now' \in Nat
      /\ \A u \in Task : disk[u].at \in Nat
      /\ \A w \in writes : w.task \in Task /\ w.row.at \in Nat
  <2>1. now' \in 0 .. MaxTime
    BY CheckpointIs DEF Inv
  <2>2. MaxTime \in Nat
    BY DEF RecordsAssumption
  <2> QED BY <2>1, <2>2 DEF Inv, Shape, Write1, Row, NoRow
<1>3. /\ \A u \in Task : disk'[u].at <= now'
      /\ \A w \in writes' : w.row.at <= now'
  BY <1>1, <1>2
<1>4. \A u \in Task : disk'[u].status \in Ended => status'[u] \in {disk'[u].status, "absent"}
  BY <1>1 DEF EndInv, Agrees
<1>5. \A w \in writes' : w.row.status \in Ended => status'[w.task] \in {w.row.status, "absent"}
  <2> SUFFICES ASSUME NEW w \in writes', w.row.status \in Ended
               PROVE  status'[w.task] \in {w.row.status, "absent"}
    OBVIOUS
  <2>1. CASE w = new
    BY <1>1, <2>1 DEF Agrees
  <2>2. CASE w \in writes
    <3>1. w.task \in Task /\ status[w.task] \in {w.row.status, "absent"}
      BY <1>2, <2>2 DEF EndInv
    <3> QED BY <2>2, <3>1 DEF Agrees
  <2> QED BY <1>1, <2>1, <2>2
<1>6. \A w \in writes' : disk'[w.task].status \in Ended /\ disk'[w.task].at <= w.row.at
                          => w.row.status = disk'[w.task].status
  <2> SUFFICES ASSUME NEW w \in writes',
                      disk[w.task].status \in Ended, disk[w.task].at <= w.row.at
               PROVE  w.row.status = disk[w.task].status
    BY <1>1
  <2>1. CASE w = new
    BY <1>1, <2>1 DEF Agrees
  <2>2. CASE w \in writes
    BY <2>2 DEF EndInv
  <2> QED BY <1>1, <2>1, <2>2
<1>7. \A v, w \in writes' : v.task = w.task /\ v.row.status \in Ended /\ v.row.at <= w.row.at
                             => w.row.status = v.row.status
  <2> SUFFICES ASSUME NEW v \in writes', NEW w \in writes', v.task = w.task,
                      v.row.status \in Ended, v.row.at <= w.row.at
               PROVE  w.row.status = v.row.status
    OBVIOUS
  <2>1. CASE v \in writes /\ w \in writes
    BY <2>1 DEF EndInv
  <2>2. CASE v = new /\ w = new
    BY <2>2
  <2>3. CASE v \in writes /\ w = new
    BY <1>1, <2>3 DEF Agrees
  <2>4. CASE v = new /\ w \in writes
    <3>1. w.row.at < v.row.at /\ w.row.at \in Nat /\ v.row.at \in Nat
      BY <1>1, <1>2, <2>4
    <3> QED BY <3>1
  <2> QED BY <1>1, <2>1, <2>2, <2>3, <2>4
<1> QED BY <1>3, <1>4, <1>5, <1>6, <1>7 DEF EndInv

\* So does one that lets tasks go at most.
LEMMA RestKeepsEnds ==
  ASSUME Inv, EndInv, UNCHANGED <<durable, now>>,
         \A t \in Task : status'[t] \in {"absent", status[t]}
  PROVE  EndInv'
<1>1. UNCHANGED <<disk, writes, now>> /\ \A w \in writes : w.task \in Task
  BY DEF durable, Inv, Shape, Write1
<1> QED BY <1>1 DEF EndInv

\* Every step keeps the ends, and only what an end overtook replaces it.
LEMMA EndNext ==
  ASSUME RecordsAssumption, "evicted" \notin Happens, Inv, EndInv, [Next]_vars
  PROVE  EndInv' /\ EndStays
<1> USE DEF Inv
<1>1. CASE UNCHANGED vars
  <2>1. UNCHANGED <<durable, now>> /\ UNCHANGED status
    BY <1>1 DEF vars, memory
  <2> QED BY <2>1, RestKeepsEnds DEF EndStays, durable
<1>2. ASSUME NEW c \in Caller, Look(c) \/ Launch(c) \/ RollBack(c)
      PROVE  EndInv' /\ EndStays
  <2>1. UNCHANGED <<durable, now>> /\ \A t \in Task : status'[t] \in {"absent", status[t]}
    BY <1>2 DEF Look, Launch, RollBack, Shape
  <2> QED BY <2>1, RestKeepsEnds DEF EndStays, durable
<1>3. ASSUME NEW c \in Caller, Insert(c)
      PROVE  EndInv' /\ EndStays
  <2> DEFINE left == [t \in Task |-> IF t \in Evicted THEN "absent" ELSE status[t]]
  <2>1. \A t \in Task : left[t] \in {"absent", status[t]}
    OBVIOUS
  <2>2. left \in [Task -> Status]
    BY DEF Shape, Status
  <2>3. CASE status' = left /\ UNCHANGED <<durable, now>>
    BY <2>1, <2>3, RestKeepsEnds DEF EndStays, durable
  <2>4. ASSUME NEW t \in Fresh, status' = [left EXCEPT ![t] = "queued"], Checkpoint(t, "queued")
        PROVE  EndInv' /\ EndStays
    <3>1. /\ t \in Task /\ disk[t].status \notin Ended /\ "queued" \in Active \cup Terminal
          /\ \A w \in writes : w.task # t
      BY DEF Fresh, FreshIsUnknown, NoRow, Ended, Active
    <3> HIDE DEF left
    <3>2. Agrees(t, "queued")
      BY <2>1, <2>2, <2>4, <3>1 DEF Agrees
    <3>3. UNCHANGED disk
      BY <2>4 DEF Checkpoint
    <3> QED BY <2>4, <3>1, <3>2, <3>3, WriteKeepsEnds DEF EndStays
  <2> QED BY <1>3, <2>3, <2>4 DEF Insert
<1>4. ASSUME NEW t \in Task, Begin(t) \/ Finish(t) \/ Interrupt(t) \/ Resume(t)
      PROVE  EndInv' /\ EndStays
  <2>1. UNCHANGED disk
    BY <1>4 DEF Begin, Finish, Interrupt, Resume, Checkpoint, durable
  <2>2. CASE UNCHANGED <<durable, now>> /\ UNCHANGED status
    BY <2>1, <2>2, RestKeepsEnds DEF EndStays
  <2>3. CASE ~(UNCHANGED <<durable, now>> /\ UNCHANGED status)
    <3>1. PICK s \in Active \cup Terminal :
            /\ status' = [status EXCEPT ![t] = s] /\ Checkpoint(t, s)
            /\ status[t] \in Ended => s = status[t]
            /\ t \in Present
      <4>1. CASE Begin(t)
        BY <2>3, <4>1 DEF Begin, Active, Ended, Present
      <4>2. CASE Finish(t)
        BY <2>3, <4>2 DEF Finish, Terminal, Ended, Present, Shape
      <4>3. CASE Interrupt(t)
        BY <2>3, <4>3 DEF Interrupt, Active, Terminal, Ended, Present
      <4>4. CASE Resume(t)
        BY <2>3, <4>4 DEF Resume, Active, Ended, Present
      <4> QED BY <1>4, <4>1, <4>2, <4>3, <4>4
    <3>2. /\ disk[t].status \in Ended => disk[t].status = s
          /\ \A w \in writes : w.task = t /\ w.row.status \in Ended => w.row.status = s
      BY <3>1 DEF EndInv, Present
    <3>3. Agrees(t, s)
      BY <3>1, <3>2 DEF Agrees, Shape
    <3> QED BY <2>1, <3>1, <3>3, WriteKeepsEnds DEF EndStays
  <2> QED BY <2>2, <2>3
<1>5. ASSUME NEW w \in writes, Write(w) \/ WriteFails(w)
      PROVE  EndInv' /\ EndStays
  <2>1. /\ UNCHANGED <<status, now>> /\ writes' = writes \ {w} /\ w \in Write1
        /\ disk' = [disk EXCEPT ![w.task] = w.row] \/ UNCHANGED disk
    BY <1>5 DEF Write, WriteFails, memory, Shape
  <2>2. \A t \in Task : disk'[t] = disk[t] \/ (t = w.task /\ disk'[t] = w.row)
    BY <2>1 DEF Shape
  <2>3. writes' \subseteq writes /\ \A v \in writes : v.task \in Task
    BY <2>1 DEF Shape, Write1
  <2>4. /\ \A t \in Task : disk'[t].at <= now'
        /\ \A v \in writes' : v.row.at <= now'
    BY <2>1, <2>2, <2>3 DEF EndInv
  <2>5. \A t \in Task : disk'[t].status \in Ended => status'[t] \in {disk'[t].status, "absent"}
    BY <2>1, <2>2 DEF EndInv
  <2>6. \A v \in writes' : disk'[v.task].status \in Ended /\ disk'[v.task].at <= v.row.at
                            => v.row.status = disk'[v.task].status
    BY <2>2, <2>3 DEF EndInv
  <2>7. EndInv'
    BY <2>1, <2>3, <2>4, <2>5, <2>6 DEF EndInv
  <2>8. EndStays
    <3> SUFFICES ASSUME NEW t \in Task, disk[t].status \in Ended, disk'[t].status # disk[t].status
                 PROVE  disk'[t].at < disk[t].at
      BY DEF EndStays, Ended
    <3>1. t = w.task /\ disk'[t] = w.row
      BY <2>2
    <3>2. ~(disk[t].at <= w.row.at)
      BY <3>1 DEF EndInv
    <3>3. disk[t].at \in Nat /\ w.row.at \in Nat
      BY <2>1 DEF Shape, Write1, Row, NoRow
    <3> QED BY <3>1, <3>2, <3>3
  <2> QED BY <2>7, <2>8
<1>6. CASE Restart
  <2>1. /\ status' = [t \in Task |-> IF t \in NewestRows THEN Hydrated(disk[t]) ELSE "absent"]
        /\ writes' = {} /\ UNCHANGED <<disk, now>>
    BY <1>6 DEF Restart
  <2>2. \A t \in Task : disk[t].status \in Ended => Hydrated(disk[t]) = disk[t].status
    BY DEF Hydrated, Ended
  <2> HIDE DEF NewestRows
  <2> QED BY <2>1, <2>2 DEF EndInv, EndStays
<1> QED BY <1>1, <1>2, <1>3, <1>4, <1>5, <1>6 DEF Next

\* Only a record made before the end of a task, which the end overtook on its way to the
\* disk, can replace the record of the end there: any number of checkpoints may be under way
\* and be written in any order or lost, and the service may crash and restart at any moment.
THEOREM EndsStay ==
  ASSUME RecordsAssumption, "evicted" \notin Happens
  PROVE  Spec => EndIsFinal
<1>1. Init => EndInv
  <2> SUFFICES ASSUME Init PROVE EndInv
    OBVIOUS
  <2>1. disk = [t \in Task |-> NoRow] /\ writes = {} /\ now = 0
    BY DEF Init
  <2> QED BY <2>1 DEF EndInv, NoRow, Ended
<1>2. Inv /\ EndInv /\ [Next]_vars => EndInv' /\ [EndStays]_vars
  BY EndNext
<1> QED BY InvHolds, <1>1, <1>2, PTL DEF Spec, EndIsFinal

-----------------------------------------------------------------------------
(* One request, one task.                                                  *)

\* Starts that do not overlap keep it: between the look and the insertion nothing that ended
\* becomes active again, and no other task of the request is inserted.
LEMMA RequestNext ==
  ASSUME RecordsAssumption, "evicted" \notin Happens, "crash" \notin Happens,
         StartsApart, Inv, RequestInv, [Next]_vars
  PROVE  RequestInv'
<1> USE DEF Inv
<1>1. CASE UNCHANGED vars
  BY <1>1 DEF vars, memory, RequestInv, OneTaskPerRequest, SameRequest
<1>2. ASSUME UNCHANGED request, \A t \in Task : status'[t] # "recovered",
             \A t \in Task : status'[t] \in Active => status[t] \in Active,
             \A c \in Caller : call'[c].pc = "looked" =>
               (call[c].pc = "looked" /\ call'[c].req = call[c].req)
                 \/ SameRequest(call'[c].req) = {}
      PROVE  RequestInv'
  BY <1>2 DEF RequestInv, OneTaskPerRequest, SameRequest
<1>3. ASSUME NEW c \in Caller, Look(c) \/ Launch(c) \/ RollBack(c)
      PROVE  RequestInv'
  <2>1. UNCHANGED request /\ \A t \in Task : status'[t] \in {"absent", status[t]}
    BY <1>3 DEF Look, Launch, RollBack, Shape
  <2>2. "absent" \notin Active
    BY DEF Active
  <2>3. ASSUME NEW d \in Caller, call'[d].pc = "looked"
        PROVE  SameRequest(call'[d].req) = {}
    <3>1. call[d].pc = "looked" => SameRequest(call[d].req) = {}
      BY DEF RequestInv
    <3>2. CASE call' = call \/ call' = Idle(c)
      <4>1. call'[d] = call[d]
        BY <2>3, <3>2 DEF Idle, Shape
      <4> QED BY <2>3, <3>1, <4>1
    <3>3. ASSUME NEW r \in Request, SameRequest(r) = {},
                 call' = [call EXCEPT ![c].pc = "looked", ![c].req = r]
          PROVE  SameRequest(call'[d].req) = {}
      <4>1. d = c => call'[d].req = r
        BY <3>3 DEF Shape
      <4>2. d # c => call'[d] = call[d]
        BY <3>3 DEF Shape
      <4> QED BY <2>3, <3>1, <3>3, <4>1, <4>2
    <3> QED BY <1>3, <3>2, <3>3 DEF Look, Launch, RollBack
  <2> QED BY <1>2, <2>1, <2>2, <2>3 DEF RequestInv
<1>4. ASSUME NEW c \in Caller, Insert(c)
      PROVE  RequestInv'
  <2> DEFINE left == [t \in Task |-> IF t \in Evicted THEN "absent" ELSE status[t]]
  <2>1. left \in [Task -> Status] /\ \A t \in Task : left[t] \in {"absent", status[t]}
    BY DEF Shape, Status
  <2>2. "absent" \notin Active /\ "queued" \in Active /\ "queued" # "recovered"
    BY DEF Active
  <2> HIDE DEF left
  <2>3. CASE status' = left /\ call' = Idle(c) /\ UNCHANGED request
    <3>1. \A d \in Caller : call'[d].pc = "looked" => call'[d] = call[d]
      BY <2>3 DEF Idle, Shape
    <3> QED BY <1>2, <2>1, <2>2, <2>3, <3>1 DEF RequestInv
  <2>4. ASSUME NEW t \in Fresh, status' = [left EXCEPT ![t] = "queued"],
               request' = [request EXCEPT ![t] = call[c].req],
               call' = [call EXCEPT ![c].pc = "inserted", ![c].task = t]
        PROVE  RequestInv'
    <3>1. t \in Task /\ call[c].pc = "looked"
      BY <1>4 DEF Fresh, Insert
    <3>2. /\ status'[t] = "queued" /\ request'[t] = call[c].req
          /\ \A u \in Task \ {t} : request'[u] = request[u] /\ status'[u] \in {"absent", status[u]}
      BY <2>1, <2>4, <3>1 DEF Shape
    <3>3. \A u \in Task \ {t} : status'[u] \in Active => request'[u] # request'[t]
      BY <2>2, <3>1, <3>2 DEF RequestInv, SameRequest
    <3>4. \A u, v \in Task \ {t} : status'[u] \in Active /\ status'[v] \in Active
                                   /\ request'[u] = request'[v] => u = v
      BY <2>2, <3>2 DEF RequestInv, OneTaskPerRequest
    <3>5. OneTaskPerRequest'
      BY <3>3, <3>4 DEF OneTaskPerRequest
    <3>6. ASSUME NEW d \in Caller, call'[d].pc = "looked"
          PROVE  SameRequest(call[d].req)' = {}
      <4>1. d # c /\ call'[d] = call[d]
        BY <2>4, <3>6 DEF Shape
      <4>2. call[d].pc = "looked" /\ call[d].req # call[c].req
        BY <3>1, <3>6, <4>1 DEF StartsApart
      <4>3. \A u \in Task : request[u] = call[d].req => status[u] \notin Active
        BY <4>2 DEF RequestInv, SameRequest
      <4>4. \A u \in Task : request'[u] = call[d].req => status'[u] \notin Active
        BY <2>2, <3>1, <3>2, <4>2, <4>3 DEF Shape
      <4> QED BY <4>1, <4>4 DEF SameRequest
    <3>7. \A u \in Task : status'[u] # "recovered"
      BY <2>2, <3>2 DEF RequestInv
    <3> QED BY <3>5, <3>6, <3>7 DEF RequestInv
  <2> QED BY <1>4, <2>3, <2>4 DEF Insert, left
<1>5. ASSUME NEW t \in Task, Begin(t) \/ Finish(t) \/ Interrupt(t) \/ Resume(t)
      PROVE  RequestInv'
  <2>1. UNCHANGED <<request, call>>
    BY <1>5 DEF Begin, Finish, Interrupt, Resume
  <2>2. /\ \A u \in Task \ {t} : status'[u] = status[u]
        /\ status'[t] # "recovered" /\ (status'[t] \in Active => status[t] \in Active)
    <3>1. CASE Begin(t)
      BY <3>1 DEF Begin, Shape, RequestInv, Active
    <3>2. CASE Finish(t)
      BY <3>2 DEF Finish, Shape, RequestInv, Active
    <3>3. CASE Interrupt(t)
      BY <3>3 DEF Interrupt, Shape, Active
    <3>4. CASE Resume(t)
      BY <3>4 DEF Resume, Shape, RequestInv, Present
    <3> QED BY <1>5, <3>1, <3>2, <3>3, <3>4
  <2> QED BY <1>2, <2>1, <2>2 DEF RequestInv
<1>6. ASSUME NEW w \in writes, Write(w) \/ WriteFails(w)
      PROVE  RequestInv'
  BY <1>6 DEF Write, WriteFails, memory, RequestInv, OneTaskPerRequest, SameRequest
<1> QED BY <1>1, <1>3, <1>4, <1>5, <1>6 DEF Next, Restart

\* As long as no two starts of one request overlap between their look and their insertion,
\* starts with one request id share one task that has not ended, whoever makes them, whatever
\* is refused, evicted or interrupted: that overlap is all that breaks it while the service
\* does not restart.
THEOREM RequestsShare ==
  ASSUME RecordsAssumption, "evicted" \notin Happens, "crash" \notin Happens
  PROVE  Spec /\ []StartsApart => []OneTaskPerRequest
<1>1. Init => RequestInv
  BY DEF Init, RequestInv, OneTaskPerRequest, Active
<1>2. Inv /\ StartsApart /\ RequestInv /\ [Next]_vars => RequestInv'
  BY RequestNext
<1>3. RequestInv => OneTaskPerRequest
  BY DEF RequestInv
<1> QED BY InvHolds, <1>1, <1>2, <1>3, PTL DEF Spec

-----------------------------------------------------------------------------
(* The store, its order and its limit, and the rows a restart reads.       *)

\* The order lists the tasks of the store, each at a place of its own, and there is room for
\* them.
Listed ==
  /\ order \in [Task -> Nat] /\ \A t \in Task \ Present : order[t] = 0
  /\ \A t \in Present : order[t] \in 1 .. Cardinality(Present)
  /\ \A t, u \in Present : order[t] = order[u] => t = u
StoreOK == IsFiniteSet(Present) /\ Listed /\ Cardinality(Present) <= HistoryLimit

\* No two records were written at the same time, on disk or under way, and none later than now.
Rows == {t \in Task : disk[t] # NoRow}
RowsOK ==
  /\ IsFiniteSet(Rows)
  /\ \A t \in Rows : disk[t].at <= now
  /\ \A t, u \in Rows : disk[t].at = disk[u].at => t = u
  /\ \A w \in writes : w.row.at <= now
  /\ \A v, w \in writes : v.row.at = w.row.at => v = w
  /\ \A w \in writes, t \in Rows : disk[t].at # w.row.at

\* Of a task that is not in the store, and was not refused, nothing is on disk or will be.
KnownOK ==
  \A t \in Task \ refused : status[t] = "absent" => t \notin Rows /\ \A w \in writes : w.task # t

\* Places by a number that no two share: each has one of its own, from one on.
LEMMA PlacesAre ==
  ASSUME NEW K, IsFiniteSet(K), NEW f, \A t \in K : f[t] \in Nat,
         \A t, u \in K : f[t] = f[u] => t = u
  PROVE  LET nth(t) == Cardinality({u \in K : f[u] <= f[t]})
         IN /\ \A t \in K : nth(t) \in 1 .. Cardinality(K)
            /\ \A t, u \in K : nth(t) = nth(u) => t = u
<1> DEFINE S(t) == {u \in K : f[u] <= f[t]}
<1>1. ASSUME NEW t \in K
      PROVE  /\ t \in S(t) /\ IsFiniteSet(S(t)) /\ Cardinality(S(t)) \in Nat
             /\ Cardinality(S(t)) <= Cardinality(K)
  BY FS_Subset, FS_CardinalityType
<1>2. Cardinality(K) \in Nat
  BY FS_CardinalityType
<1>3. ASSUME NEW t \in K
      PROVE  Cardinality(S(t)) \in 1 .. Cardinality(K)
  <2> HIDE DEF S
  <2>1. Cardinality(S(t)) # 0
    BY <1>1, FS_EmptySet
  <2> QED BY <1>1, <1>2, <2>1
<1>4. ASSUME NEW t \in K, NEW u \in K, f[t] < f[u]
      PROVE  Cardinality(S(t)) # Cardinality(S(u))
  <2>1. S(t) \subseteq S(u) \ {u}
    BY <1>4
  <2> HIDE DEF S
  <2>2. IsFiniteSet(S(u) \ {u}) /\ Cardinality(S(u) \ {u}) = Cardinality(S(u)) - 1
    BY <1>1, FS_RemoveElement
  <2>3. Cardinality(S(t)) <= Cardinality(S(u) \ {u})
    BY <2>1, <2>2, FS_Subset
  <2>4. Cardinality(S(t)) \in Nat /\ Cardinality(S(u)) \in Nat
    BY <1>1
  <2> QED BY <2>2, <2>3, <2>4
<1>5. ASSUME NEW t \in K, NEW u \in K, Cardinality(S(t)) = Cardinality(S(u))
      PROVE  t = u
  <2> HIDE DEF S
  <2>1. f[t] = f[u] \/ f[t] < f[u] \/ f[u] < f[t]
    OBVIOUS
  <2> QED BY <1>4, <1>5, <2>1
<1> HIDE DEF S
<1>6. /\ \A t \in K : Cardinality(S(t)) \in 1 .. Cardinality(K)
      /\ \A t, u \in K : Cardinality(S(t)) = Cardinality(S(u)) => t = u
  BY <1>3, <1>5
<1> QED BY <1>6 DEF S

\* What a step does to the store.
LEMMA StoreSteps ==
  ASSUME RecordsAssumption, "evicted" \notin Happens, Inv, [Next]_vars
  PROVE  \/ Present' = Present /\ UNCHANGED order
         \/ Present' \subseteq Present /\ order' = MovedUp(Present')
         \/ \E kept \in SUBSET Present, t \in Task \ Present :
              /\ Present' = kept \cup {t} /\ HasRoom(kept)
              /\ order' = [MovedUp(kept) EXCEPT ![t] = Cardinality(kept) + 1]
         \/ Restart
<1> USE DEF Inv
<1>1. CASE UNCHANGED vars
  BY <1>1 DEF vars, memory, Present
<1>2. ASSUME NEW c \in Caller, Look(c) \/ Launch(c)
      PROVE  Present' = Present /\ UNCHANGED order
  BY <1>2 DEF Look, Launch, Present
<1> DEFINE kept == Present \ Evicted
           left == [t \in Task |-> IF t \in Evicted THEN "absent" ELSE status[t]]
<1>3. ASSUME NEW c \in Caller, Insert(c)
      PROVE  \/ Present' \subseteq Present /\ order' = MovedUp(Present')
             \/ \E t \in Task \ Present :
                  /\ Present' = kept \cup {t} /\ HasRoom(kept)
                  /\ order' = [MovedUp(kept) EXCEPT ![t] = Cardinality(kept) + 1]
  <2>1. \A t \in Task : left[t] # "absent" <=> t \in kept
    BY DEF Present
  <2>2. CASE status' = left /\ order' = MovedUp(kept)
    <3> HIDE DEF left
    <3>1. Present' = kept
      BY <2>1, <2>2 DEF Present
    <3> HIDE DEF kept
    <3>2. order' = MovedUp(Present')
      BY <2>2, <3>1
    <3> QED BY <3>1, <3>2 DEF kept
  <2>3. ASSUME NEW t \in Fresh, HasRoom(kept), status' = [left EXCEPT ![t] = "queued"],
               order' = [MovedUp(kept) EXCEPT ![t] = Cardinality(kept) + 1]
        PROVE  \E u \in Task \ Present :
                 /\ Present' = kept \cup {u} /\ HasRoom(kept)
                 /\ order' = [MovedUp(kept) EXCEPT ![u] = Cardinality(kept) + 1]
    <3>1. t \in Task \ Present
      BY DEF Fresh, FreshIsUnknown, Present
    <3>2. DOMAIN left = Task
      OBVIOUS
    <3> HIDE DEF left
    <3>3. \A u \in Task : status'[u] # "absent" <=> u = t \/ u \in kept
      BY <2>1, <2>3, <3>1, <3>2
    <3>4. Present' = kept \cup {t}
      BY <3>1, <3>3 DEF Present
    <3> HIDE DEF kept
    <3> QED BY <2>3, <3>1, <3>4
  <2> QED BY <1>3, <2>2, <2>3 DEF Insert
<1>4. ASSUME NEW c \in Caller, RollBack(c)
      PROVE  Present' \subseteq Present /\ order' = MovedUp(Present')
  <2> DEFINE t == call[c].task
  <2>1. status' = [status EXCEPT ![t] = "absent"] /\ order' = MovedUp(Present \ {t})
    BY <1>4 DEF RollBack
  <2>2. \A u \in Task : status'[u] # "absent" <=> u \in Present \ {t}
    BY <2>1 DEF Present, Shape
  <2>3. Present' = Present \ {t}
    BY <2>2 DEF Present
  <2> HIDE DEF t
  <2> QED BY <2>1, <2>3
<1>5. ASSUME NEW t \in Task, Begin(t) \/ Finish(t) \/ Interrupt(t) \/ Resume(t)
      PROVE  Present' = Present /\ UNCHANGED order
  <2>1. UNCHANGED order /\ (UNCHANGED status \/ \E s \in Active \cup Terminal :
          status' = [status EXCEPT ![t] = s] /\ t \in Present)
    <3>1. CASE Begin(t)
      BY <3>1 DEF Begin, Active, Present
    <3>2. CASE Finish(t)
      BY <3>2 DEF Finish, Terminal, Present
    <3>3. CASE Interrupt(t)
      BY <3>3 DEF Interrupt, Active, Terminal, Present
    <3>4. CASE Resume(t)
      BY <3>4 DEF Resume, Active, Present
    <3> QED BY <1>5, <3>1, <3>2, <3>3, <3>4
  <2>2. \A s \in Active \cup Terminal : s # "absent"
    BY DEF Active, Terminal
  <2> QED BY <2>1, <2>2 DEF Present, Shape
<1>6. ASSUME NEW w \in writes, Write(w) \/ WriteFails(w)
      PROVE  Present' = Present /\ UNCHANGED order
  BY <1>6 DEF Write, WriteFails, memory, Present
<1>7. kept \in SUBSET Present
  OBVIOUS
<1> HIDE DEF kept
<1> QED BY <1>1, <1>2, <1>3, <1>4, <1>5, <1>6, <1>7 DEF Next

\* A restart reads no more rows than the limit.
LEMMA NewestFit ==
  ASSUME RecordsAssumption, Inv, RowsOK
  PROVE  /\ IsFiniteSet(NewestRows) /\ NewestRows \subseteq Rows
         /\ Cardinality(NewestRows) <= HistoryLimit
         /\ \A t \in Rows : disk[t].at \in Nat
<1> DEFINE newer(t) == {u \in Rows : disk[u].at > disk[t].at}
           T == NewestRows
<1>1. T = {t \in Rows : Cardinality(newer(t)) < HistoryLimit}
  BY DEF NewestRows, Rows
<1>2. \A t \in Rows : disk[t].at \in Nat
  BY DEF Rows, Inv, Shape, Row
<1> HIDE DEF T
<1>3. IsFiniteSet(T) /\ T \subseteq Rows
  BY <1>1, FS_Subset DEF RowsOK
<1>4. HistoryLimit \in Nat /\ HistoryLimit >= 1
  BY DEF RecordsAssumption
<1>5. Cardinality(T) <= HistoryLimit
  <2>1. CASE T = {}
    BY <1>4, <2>1, FS_EmptySet
  <2>2. CASE T # {}
    <3> DEFINE N == {disk[t].at : t \in T}
               R == OpToRel(<, Nat)
    <3>1. N \subseteq Nat /\ N # {}
      BY <1>2, <1>3, <2>2
    <3>2. IsWellFoundedOn(R, Nat)
      BY NatLessThanWellFounded
    <3>3. PICK n \in N : \A k \in N : <<k, n>> \notin R
      <4> HIDE DEF N, R
      <4> QED BY <3>1, <3>2, WFMin
    <3>4. \A k \in Nat, m \in Nat : k < m => <<k, m>> \in R
      BY DEF OpToRel
    <3>5. PICK s \in T : n = disk[s].at
      OBVIOUS
    <3>6. \A t \in T : disk[t].at \in N /\ disk[t].at \in Nat
      BY <1>2, <1>3
    <3> HIDE DEF N, R
    <3>7. \A t \in T : ~ (disk[t].at < disk[s].at)
      BY <3>3, <3>4, <3>5, <3>6
    <3>8. T \ {s} \subseteq newer(s)
      <4> SUFFICES ASSUME NEW t \in T, t # s PROVE t \in newer(s)
        OBVIOUS
      <4>1. disk[t].at # disk[s].at
        BY <1>3 DEF RowsOK
      <4> QED BY <1>3, <3>6, <3>7, <4>1
    <3>9. IsFiniteSet(newer(s)) /\ Cardinality(newer(s)) < HistoryLimit
      BY <1>1, FS_Subset DEF RowsOK
    <3> HIDE DEF newer
    <3>10. Cardinality(T \ {s}) <= Cardinality(newer(s)) /\ Cardinality(newer(s)) \in Nat
      BY <3>8, <3>9, FS_Subset, FS_CardinalityType
    <3>11. Cardinality(T \ {s}) = Cardinality(T) - 1 /\ Cardinality(T) \in Nat
      BY <1>3, FS_RemoveElement, FS_CardinalityType
    <3> QED BY <1>4, <3>9, <3>10, <3>11
  <2> QED BY <2>1, <2>2
<1> QED BY <1>2, <1>3, <1>5 DEF T

\* Every step keeps the store in order and within its limit.
LEMMA StoreNext ==
  ASSUME RecordsAssumption, "evicted" \notin Happens, Inv, StoreOK, RowsOK, [Next]_vars
  PROVE  StoreOK'
<1>0. /\ IsFiniteSet(Present) /\ order \in [Task -> Nat] /\ \A t \in Task \ Present : order[t] = 0
      /\ \A t \in Present : order[t] \in 1 .. Cardinality(Present)
      /\ \A t, u \in Present : order[t] = order[u] => t = u
      /\ Cardinality(Present) <= HistoryLimit /\ Cardinality(Present) \in Nat
      /\ HistoryLimit \in Nat /\ Present \subseteq Task
  BY FS_CardinalityType DEF StoreOK, Listed, RecordsAssumption, Present
<1>k. ASSUME NEW P, P = Present', IsFiniteSet(P), Cardinality(P) <= HistoryLimit,
             NEW o, o = order', o \in [Task -> Nat], \A t \in Task \ P : o[t] = 0,
             \A t \in P : o[t] \in 1 .. Cardinality(P),
             \A t, u \in P : o[t] = o[u] => t = u
      PROVE  StoreOK'
  BY <1>k DEF StoreOK, Listed
<1>m. ASSUME NEW K \in SUBSET Present
      PROVE  /\ IsFiniteSet(K) /\ Cardinality(K) \in Nat /\ Cardinality(K) <= Cardinality(Present)
             /\ MovedUp(K) \in [Task -> Nat] /\ \A t \in Task \ K : MovedUp(K)[t] = 0
             /\ \A t \in K : MovedUp(K)[t] \in 1 .. Cardinality(K)
             /\ \A t, u \in K : MovedUp(K)[t] = MovedUp(K)[u] => t = u
  <2> DEFINE nth(t) == Cardinality({u \in K : order[u] <= order[t]})
  <2>1. IsFiniteSet(K) /\ Cardinality(K) \in Nat /\ Cardinality(K) <= Cardinality(Present)
    BY <1>0, FS_Subset, FS_CardinalityType
  <2>2. /\ \A t \in K : nth(t) \in 1 .. Cardinality(K)
        /\ \A t, u \in K : nth(t) = nth(u) => t = u
    <3>1. /\ \A t \in K : order[t] \in Nat
          /\ \A t, u \in K : order[t] = order[u] => t = u
      BY <1>0
    <3> QED BY <2>1, <3>1, PlacesAre
  <2>3. MovedUp(K) = [t \in Task |-> IF t \in K THEN nth(t) ELSE 0]
    BY DEF MovedUp
  <2> HIDE DEF nth
  <2> QED BY <1>0, <2>1, <2>2, <2>3
<1>1. CASE Present' = Present /\ UNCHANGED order
  BY <1>0, <1>k, <1>1
<1>2. CASE Present' \subseteq Present /\ order' = MovedUp(Present')
  <2> DEFINE P == Present'
  <2>1. P \in SUBSET Present /\ order' = MovedUp(P)
    BY <1>2
  <2> HIDE DEF P
  <2>2. Cardinality(P) <= HistoryLimit
    BY <1>0, <1>m, <2>1
  <2> QED BY <1>k, <1>m, <2>1, <2>2 DEF P
<1>3. ASSUME NEW kept \in SUBSET Present, NEW t \in Task \ Present,
             Present' = kept \cup {t}, HasRoom(kept),
             order' = [MovedUp(kept) EXCEPT ![t] = Cardinality(kept) + 1]
      PROVE  StoreOK'
  <2> DEFINE P == kept \cup {t}
             n == Cardinality(kept)
             m == MovedUp(kept)
             o == [m EXCEPT ![t] = n + 1]
  <2>1. /\ IsFiniteSet(kept) /\ n \in Nat /\ m \in [Task -> Nat]
        /\ \A u \in Task \ kept : m[u] = 0
        /\ \A u \in kept : m[u] \in 1 .. n
        /\ \A u, v \in kept : m[u] = m[v] => u = v
    BY <1>m
  <2>2. n < HistoryLimit /\ t \notin kept
    BY <1>3 DEF HasRoom
  <2>3. IsFiniteSet(P) /\ Cardinality(P) = n + 1
    BY <2>1, <2>2, FS_AddElement
  <2>4. P = Present' /\ o = order'
    BY <1>3
  <2> HIDE DEF m, n
  <2>5. o[t] = n + 1 /\ \A u \in Task \ {t} : o[u] = m[u]
    BY <2>1
  <2>6. o \in [Task -> Nat]
    BY <2>1
  <2> HIDE DEF o
  <2>7. \A u \in Task \ P : o[u] = 0
    BY <2>1, <2>5
  <2>8. \A u \in P : o[u] \in 1 .. (n + 1)
    BY <1>0, <2>1, <2>5
  <2>9. \A u, v \in P : o[u] = o[v] => u = v
    <3>1. \A u \in kept : o[u] \in 1 .. n /\ o[u] = m[u]
      BY <1>0, <2>1, <2>2, <2>5
    <3>2. \A u \in kept : o[u] # o[t]
      BY <2>1, <2>5, <3>1
    <3> QED BY <2>1, <3>1, <3>2
  <2>10. Cardinality(P) <= HistoryLimit
    BY <1>0, <2>1, <2>2, <2>3
  <2>11. \A u \in P : o[u] \in 1 .. Cardinality(P)
    BY <2>3, <2>8
  <2> HIDE DEF P
  <2> QED BY <1>k, <2>3, <2>4, <2>6, <2>7, <2>9, <2>10, <2>11
<1>4. CASE Restart
  <2> DEFINE T == NewestRows
             f == [t \in Task |-> disk[t].at]
             nth(t) == Cardinality({u \in T : disk[u].at <= disk[t].at})
             nthf(t) == Cardinality({u \in T : f[u] <= f[t]})
             o == ReadBack(T)
  <2>1. /\ IsFiniteSet(T) /\ T \subseteq Rows /\ Cardinality(T) <= HistoryLimit
        /\ \A t \in Rows : disk[t].at \in Nat
    BY NewestFit
  <2>2. /\ status' = [t \in Task |-> IF t \in T THEN Hydrated(disk[t]) ELSE "absent"]
        /\ order' = o
    BY <1>4 DEF Restart
  <2> HIDE DEF T
  <2>3. T \subseteq Task
    BY <2>1 DEF Rows
  <2>4. \A t \in T : Hydrated(disk[t]) # "absent"
    <3> SUFFICES ASSUME NEW t \in T PROVE Hydrated(disk[t]) # "absent"
      OBVIOUS
    <3>1. disk[t] \in Row
      BY <2>1, <2>3 DEF Rows, Inv, Shape
    <3>2. disk[t].status \in Active \cup Terminal
      BY <3>1 DEF Row
    <3> QED BY <3>2 DEF Hydrated, Active, Terminal
  <2>5. Present' = T
    BY <2>2, <2>3, <2>4 DEF Present
  <2>6. \A t \in T : nthf(t) = nth(t)
    BY <2>3
  <2>7. /\ \A t \in T : nthf(t) \in 1 .. Cardinality(T)
        /\ \A t, u \in T : nthf(t) = nthf(u) => t = u
    <3>1. /\ \A t \in T : f[t] \in Nat
          /\ \A t, u \in T : f[t] = f[u] => t = u
      BY <2>1, <2>3 DEF RowsOK
    <3> HIDE DEF f
    <3> QED BY <2>1, <3>1, PlacesAre
  <2>8. o = [t \in Task |-> IF t \in T THEN nth(t) ELSE 0]
    BY DEF ReadBack
  <2>9. Cardinality(T) \in Nat
    BY <2>1, FS_CardinalityType
  <2> HIDE DEF nth, nthf, o
  <2>10. \A t \in T : o[t] = nthf(t)
    BY <2>3, <2>6, <2>8
  <2>11. \A t \in T : o[t] \in 1 .. Cardinality(T)
    BY <2>7, <2>10
  <2>12. \A t, u \in T : o[t] = o[u] => t = u
    BY <2>7, <2>10
  <2>13. o \in [Task -> Nat] /\ \A t \in Task \ T : o[t] = 0
    <3>1. \A t \in T : nth(t) \in Nat
      BY <2>6, <2>7, <2>9
    <3> QED BY <2>3, <2>8, <3>1
  <2> QED BY <1>k, <2>1, <2>2, <2>5, <2>11, <2>12, <2>13
<1> QED BY <1>1, <1>2, <1>3, <1>4, StoreSteps

\* A store with a place for every task evicts none, and a restart reads every row.
LEMMA RoomForAll ==
  ASSUME RecordsAssumption, Inv, StoreOK, IsFiniteSet(Task), Cardinality(Task) <= HistoryLimit
  PROVE  /\ NewestRows = Rows
         /\ Fresh # {} \/ ~HasRoom(Present \ Evicted) => Evicted = {}
<1>1. HistoryLimit \in Nat /\ Cardinality(Task) \in Nat /\ Present \subseteq Task
  BY FS_CardinalityType DEF RecordsAssumption, Present
<1>2. ASSUME NEW t \in Rows
      PROVE  Cardinality({u \in Rows : disk[u].at > disk[t].at}) < HistoryLimit
  <2> DEFINE newer == {u \in Rows : disk[u].at > disk[t].at}
  <2>1. disk[t].at \in Nat /\ t \in Task
    BY DEF Rows, Inv, Shape, Row
  <2>2. newer \subseteq Task \ {t}
    BY <2>1 DEF Rows
  <2> HIDE DEF newer
  <2>3. IsFiniteSet(Task \ {t}) /\ Cardinality(Task \ {t}) = Cardinality(Task) - 1
    BY <2>1, FS_RemoveElement
  <2>4. Cardinality(newer) \in Nat /\ Cardinality(newer) <= Cardinality(Task \ {t})
    BY <2>2, <2>3, FS_Subset, FS_CardinalityType
  <2>5. Cardinality(newer) < HistoryLimit
    BY <1>1, <2>3, <2>4
  <2> QED BY <2>5 DEF newer
<1>3. NewestRows = Rows
  BY <1>2 DEF NewestRows, Rows
<1> DEFINE ended == {t \in Present : status[t] \in Terminal}
           nth(t) == Cardinality({u \in ended : order[u] <= order[t]})
<1>4. /\ IsFiniteSet(Present) /\ Cardinality(Present) \in Nat
      /\ Cardinality(Present) <= HistoryLimit
  BY FS_CardinalityType DEF StoreOK
<1>5. Evicted = {t \in ended : nth(t) + HistoryLimit <= Cardinality(Present) + 1}
  BY DEF Evicted
<1>6. \A t \in ended : nth(t) \in Nat /\ nth(t) >= 1
  <2>1. IsFiniteSet(ended) /\ \A t \in ended : order[t] \in Nat
    BY <1>1, <1>4, FS_Subset DEF StoreOK, Listed
  <2> HIDE DEF ended
  <2>2. /\ \A t \in ended : order[t] \in Nat
        /\ \A t, u \in ended : order[t] = order[u] => t = u
    BY <2>1 DEF StoreOK, Listed, ended
  <2>3. Cardinality(ended) \in Nat /\ \A t \in ended : nth(t) \in 1 .. Cardinality(ended)
    BY <2>1, <2>2, PlacesAre, FS_CardinalityType
  <2> HIDE DEF nth
  <2> QED BY <2>3
<1>7. Evicted = {} \/ Cardinality(Present) >= HistoryLimit
  <2> HIDE DEF nth, ended
  <2> QED BY <1>1, <1>4, <1>5, <1>6
<1>8. CASE Fresh # {}
  <2>1. PICK t \in Task : t \notin Present
    BY <1>8 DEF Fresh, Inv, FreshIsUnknown, Present
  <2>2. IsFiniteSet(Task \ {t}) /\ Cardinality(Task \ {t}) = Cardinality(Task) - 1
    BY FS_RemoveElement
  <2>3. Cardinality(Present) <= Cardinality(Task \ {t})
    BY <1>1, <2>1, <2>2, FS_Subset
  <2> QED BY <1>1, <1>3, <1>4, <1>7, <2>2, <2>3
<1>9. CASE ~HasRoom(Present \ Evicted)
  <2> DEFINE kept == Present \ Evicted
  <2>1. SUFFICES ASSUME NEW t \in Evicted PROVE FALSE
    BY <1>3
  <2>2. t \in Present
    BY <1>5
  <2>3. IsFiniteSet(Present \ {t}) /\ Cardinality(Present \ {t}) = Cardinality(Present) - 1
    BY <1>4, <2>2, FS_RemoveElement
  <2>4. kept \subseteq Present \ {t}
    OBVIOUS
  <2>5. ~ (Cardinality(kept) < HistoryLimit)
    BY <1>9 DEF HasRoom
  <2> HIDE DEF kept
  <2>6. Cardinality(kept) <= Cardinality(Present \ {t}) /\ Cardinality(kept) \in Nat
    BY <2>3, <2>4, FS_Subset, FS_CardinalityType
  <2> QED BY <1>1, <1>4, <2>3, <2>5, <2>6
<1> QED BY <1>3, <1>8, <1>9

\* What a step does to the disk and to what is under way.
LEMMA DiskSteps ==
  ASSUME RecordsAssumption, "evicted" \notin Happens, Inv, [Next]_vars
  PROVE  \/ UNCHANGED <<disk, writes, now>>
         \/ \E t \in Task, s \in Active \cup Terminal : Checkpoint(t, s) /\ status'[t] # "absent"
         \/ \E w \in writes : Write(w) \/ WriteFails(w)
         \/ Restart
<1> USE DEF Inv
<1>1. CASE UNCHANGED vars
  BY <1>1 DEF vars, durable
<1>2. ASSUME NEW c \in Caller, Look(c) \/ Launch(c) \/ RollBack(c)
      PROVE  UNCHANGED <<disk, writes, now>>
  BY <1>2 DEF Look, Launch, RollBack, durable
<1>3. ASSUME NEW c \in Caller, Insert(c)
      PROVE  \/ UNCHANGED <<disk, writes, now>>
             \/ \E t \in Task, s \in Active \cup Terminal :
                  Checkpoint(t, s) /\ status'[t] # "absent"
  <2> DEFINE left == [t \in Task |-> IF t \in Evicted THEN "absent" ELSE status[t]]
  <2>1. DOMAIN left = Task
    OBVIOUS
  <2>2. \/ UNCHANGED <<durable, now>>
        \/ \E t \in Fresh : status' = [left EXCEPT ![t] = "queued"] /\ Checkpoint(t, "queued")
    BY <1>3 DEF Insert
  <2> HIDE DEF left
  <2>3. Fresh \subseteq Task
    BY DEF Fresh
  <2> QED BY <2>1, <2>2, <2>3 DEF durable, Active
<1>4. ASSUME NEW t \in Task, Begin(t) \/ Finish(t) \/ Interrupt(t) \/ Resume(t)
      PROVE  \/ UNCHANGED <<disk, writes, now>>
             \/ \E s \in Active \cup Terminal : Checkpoint(t, s) /\ status'[t] # "absent"
  <2>1. DOMAIN status = Task
    BY DEF Shape
  <2>2. CASE Begin(t)
    BY <2>1, <2>2 DEF Begin, Active, durable
  <2>3. CASE Finish(t)
    BY <2>1, <2>3 DEF Finish, Terminal, durable
  <2>4. CASE Interrupt(t)
    BY <2>1, <2>4 DEF Interrupt, Terminal
  <2>5. CASE Resume(t)
    BY <2>1, <2>5 DEF Resume, Active, durable
  <2> QED BY <1>4, <2>2, <2>3, <2>4, <2>5
<1> QED BY <1>1, <1>2, <1>3, <1>4 DEF Next

\* A write that lands takes its row, and its row only.
LEMMA WriteLands ==
  ASSUME Inv, NEW w \in writes, Write(w)
  PROVE  /\ w.task \in Task /\ w.row \in Row /\ w.row # NoRow
         /\ disk'[w.task] = w.row /\ \A t \in Task \ {w.task} : disk'[t] = disk[t]
         /\ Rows' = Rows \cup {w.task} /\ writes' = writes \ {w}
         /\ UNCHANGED <<status, refused, now>>
<1>1. w.task \in Task /\ w.row \in Row
  BY DEF Inv, Shape, Write1
<1>2. w.row # NoRow
  BY <1>1 DEF Row, NoRow, Active, Terminal
<1>3. disk'[w.task] = w.row /\ \A t \in Task \ {w.task} : disk'[t] = disk[t]
  BY <1>1 DEF Write, Inv, Shape
<1>4. Rows' = Rows \cup {w.task}
  BY <1>1, <1>2, <1>3 DEF Rows
<1> QED BY <1>1, <1>2, <1>3, <1>4 DEF Write, memory, history

\* Every step keeps the times of the records apart.
LEMMA RowsNext ==
  ASSUME RecordsAssumption, "evicted" \notin Happens, Inv, RowsOK, [Next]_vars
  PROVE  RowsOK'
<1>0. /\ now \in Nat /\ \A t \in Rows : disk[t].at \in Nat
      /\ \A w \in writes : w.row.at \in Nat
  BY DEF Inv, Shape, Row, Rows, Write1, RecordsAssumption
<1>1. CASE UNCHANGED <<disk, writes, now>>
  BY <1>1 DEF RowsOK, Rows
<1>2. ASSUME NEW t \in Task, NEW s \in Active \cup Terminal, Checkpoint(t, s)
      PROVE  RowsOK'
  <2> DEFINE new == [task |-> t, row |-> [status |-> s, at |-> now + 1]]
  <2>1. new.row.at = now + 1
    OBVIOUS
  <2>2. /\ disk' = disk /\ Rows' = Rows /\ now' = now + 1
        /\ writes' = writes \cup {new} \/ writes' = writes
    BY <1>2 DEF Checkpoint, Rows
  <2> HIDE DEF new
  <2>3. \A w \in writes' : w.row.at <= now' /\ (w = new \/ (w \in writes /\ w.row.at <= now))
    BY <1>0, <2>1, <2>2 DEF RowsOK
  <2>4. \A u \in Rows' : disk'[u].at <= now /\ disk'[u].at <= now'
    BY <1>0, <2>2 DEF RowsOK
  <2>5. \A v, w \in writes' : v.row.at = w.row.at => v = w
    BY <1>0, <2>1, <2>3 DEF RowsOK
  <2>6. \A w \in writes', u \in Rows' : disk'[u].at # w.row.at
    BY <1>0, <2>1, <2>2, <2>3, <2>4 DEF RowsOK
  <2> QED BY <2>2, <2>3, <2>4, <2>5, <2>6 DEF RowsOK
<1>3. ASSUME NEW w \in writes, Write(w)
      PROVE  RowsOK'
  <2>1. /\ disk'[w.task] = w.row /\ \A t \in Task \ {w.task} : disk'[t] = disk[t]
        /\ Rows' = Rows \cup {w.task} /\ writes' = writes \ {w} /\ now' = now
    BY <1>3, WriteLands
  <2>2. IsFiniteSet(Rows')
    BY <2>1, FS_AddElement DEF RowsOK
  <2>3. Rows' \subseteq Task
    BY DEF Rows
  <2>4. \A t \in Rows' : disk'[t].at <= now'
    BY <2>1, <2>3 DEF RowsOK
  <2>5. \A t, u \in Rows' : disk'[t].at = disk'[u].at => t = u
    BY <2>1, <2>3 DEF RowsOK
  <2>6. \A v \in writes', t \in Rows' : disk'[t].at # v.row.at
    BY <2>1, <2>3 DEF RowsOK
  <2>7. /\ \A v \in writes' : v.row.at <= now'
        /\ \A u, v \in writes' : u.row.at = v.row.at => u = v
    BY <2>1 DEF RowsOK
  <2> QED BY <2>2, <2>4, <2>5, <2>6, <2>7 DEF RowsOK
<1>4. ASSUME NEW w \in writes, WriteFails(w)
      PROVE  RowsOK'
  <2>1. writes' \subseteq writes /\ disk' = disk /\ now' = now /\ Rows' = Rows
    BY <1>4 DEF WriteFails, Rows
  <2> QED BY <2>1 DEF RowsOK
<1>5. CASE Restart
  <2>1. writes' = {} /\ disk' = disk /\ now' = now /\ Rows' = Rows
    BY <1>5 DEF Restart, Rows
  <2> QED BY <2>1 DEF RowsOK
<1> QED BY <1>1, <1>2, <1>3, <1>4, <1>5, DiskSteps

\* Every step keeps what is on disk known, with a place for every task.
LEMMA KnownNext ==
  ASSUME RecordsAssumption, "evicted" \notin Happens, Inv, StoreOK, RowsOK, KnownOK,
         IsFiniteSet(Task), Cardinality(Task) <= HistoryLimit, [Next]_vars
  PROVE  KnownOK'
<1>r. /\ NewestRows = Rows
      /\ Fresh # {} \/ ~HasRoom(Present \ Evicted) => Evicted = {}
  BY RoomForAll
<1>1. ASSUME UNCHANGED <<status, disk, writes>>, refused \subseteq refused'
      PROVE  KnownOK'
  BY <1>1 DEF KnownOK, Rows
<1>2. ASSUME NEW t \in Task, NEW s \in Active \cup Terminal, Checkpoint(t, s),
             status'[t] # "absent", refused' = refused,
             \A u \in Task \ {t} : status'[u] = status[u]
      PROVE  KnownOK'
  <2>1. Rows' = Rows /\ \A w \in writes' : w \in writes \/ w.task = t
    BY <1>2, CheckpointIs DEF Inv, Rows
  <2> QED BY <1>2, <2>1 DEF KnownOK
<1>3. CASE UNCHANGED vars
  BY <1>1, <1>3 DEF vars, memory, durable, history
<1>4. ASSUME NEW c \in Caller, Look(c) \/ Launch(c)
      PROVE  KnownOK'
  BY <1>1, <1>4 DEF Look, Launch, durable
<1>5. ASSUME NEW c \in Caller, Insert(c)
      PROVE  KnownOK'
  <2> DEFINE left == [t \in Task |-> IF t \in Evicted THEN "absent" ELSE status[t]]
  <2>1. Evicted = {} => left = status
    BY DEF Inv, Shape
  <2>2. refused' = refused
    BY <1>5 DEF Insert, history
  <2>3. CASE /\ ~HasRoom(Present \ Evicted) /\ status' = left
             /\ UNCHANGED <<request, durable, now>>
    BY <1>1, <1>r, <2>1, <2>2, <2>3 DEF durable
  <2>4. ASSUME NEW t \in Fresh, status' = [left EXCEPT ![t] = "queued"], Checkpoint(t, "queued")
        PROVE  KnownOK'
    <3>1. left = status /\ t \in Task
      BY <1>r, <2>1 DEF Fresh
    <3> HIDE DEF left
    <3>2. status'[t] = "queued" /\ \A u \in Task \ {t} : status'[u] = status[u]
      BY <2>4, <3>1 DEF Inv, Shape
    <3> QED BY <1>2, <2>2, <2>4, <3>1, <3>2 DEF Active
  <2> QED BY <1>5, <2>3, <2>4 DEF Insert
<1>6. ASSUME NEW c \in Caller, RollBack(c)
      PROVE  KnownOK'
  <2> DEFINE t == call[c].task
  <2>1. /\ status' = [status EXCEPT ![t] = "absent"] /\ refused' = refused \cup {t}
        /\ UNCHANGED <<disk, writes>>
    BY <1>6 DEF RollBack, durable
  <2> HIDE DEF t
  <2>2. \A u \in Task \ refused' : status'[u] = status[u] /\ u \notin refused
    BY <2>1 DEF Inv, Shape
  <2> QED BY <2>1, <2>2 DEF KnownOK, Rows
<1>7. ASSUME NEW t \in Task, Begin(t) \/ Finish(t) \/ Interrupt(t) \/ Resume(t)
      PROVE  KnownOK'
  <2>0. DOMAIN status = Task /\ refused' = refused
    BY <1>7 DEF Inv, Shape, Begin, Finish, Interrupt, Resume, history
  <2>1. \/ UNCHANGED <<status, disk, writes>>
        \/ \E s \in Active \cup Terminal :
             Checkpoint(t, s) /\ status'[t] # "absent" /\ \A u \in Task \ {t} : status'[u] = status[u]
    <3>1. CASE Begin(t)
      BY <2>0, <3>1 DEF Begin, Active, durable
    <3>2. CASE Finish(t)
      BY <2>0, <3>2 DEF Finish, Terminal, durable
    <3>3. CASE Interrupt(t)
      BY <2>0, <3>3 DEF Interrupt, Terminal
    <3>4. CASE Resume(t)
      BY <2>0, <3>4 DEF Resume, Active, durable
    <3> QED BY <1>7, <3>1, <3>2, <3>3, <3>4
  <2> QED BY <1>1, <1>2, <2>0, <2>1
<1>8. ASSUME NEW w \in writes, Write(w)
      PROVE  KnownOK'
  <2>1. /\ w.task \in Task /\ Rows' = Rows \cup {w.task} /\ writes' = writes \ {w}
        /\ UNCHANGED <<status, refused>>
    BY <1>8, WriteLands
  <2> QED BY <2>1 DEF KnownOK
<1>9. ASSUME NEW w \in writes, WriteFails(w)
      PROVE  KnownOK'
  <2>1. writes' \subseteq writes /\ Rows' = Rows /\ UNCHANGED <<status, refused>>
    BY <1>9 DEF WriteFails, memory, history, Rows
  <2> QED BY <2>1 DEF KnownOK
<1>10. CASE Restart
  <2>1. /\ status' = [t \in Task |-> IF t \in NewestRows THEN Hydrated(disk[t]) ELSE "absent"]
        /\ writes' = {} /\ Rows' = Rows
    BY <1>10 DEF Restart, Rows
  <2>2. ASSUME NEW t \in Rows
        PROVE  t \in Task /\ status'[t] # "absent"
    <3>1. t \in Task /\ disk[t].status \in Active \cup Terminal
      BY DEF Rows, Inv, Shape, Row
    <3> HIDE DEF Rows
    <3> QED BY <1>r, <2>1, <3>1 DEF Hydrated, Active, Terminal
  <2> QED BY <2>1, <2>2 DEF KnownOK
<1> QED BY <1>3, <1>4, <1>5, <1>6, <1>7, <1>8, <1>9, <1>10 DEF Next

\* At the start the store is empty.
LEMMA StoreBegins ==
  ASSUME RecordsAssumption, Init
  PROVE  StoreOK /\ RowsOK /\ KnownOK
<1>1. /\ status = [t \in Task |-> "absent"] /\ order = [t \in Task |-> 0]
      /\ disk = [t \in Task |-> NoRow] /\ writes = {}
  BY DEF Init
<1>2. Present = {} /\ Rows = {} /\ 0 <= HistoryLimit
  BY <1>1 DEF Present, Rows, RecordsAssumption
<1> QED BY <1>1, <1>2, FS_EmptySet DEF StoreOK, Listed, RowsOK, KnownOK

\* The store, the rows and the shape together, in every state.
LEMMA StoreHolds ==
  ASSUME RecordsAssumption, "evicted" \notin Happens
  PROVE  Spec => [](Inv /\ StoreOK /\ RowsOK)
<1>1. Init => Inv /\ StoreOK /\ RowsOK
  BY InitInv, StoreBegins
<1>2. Inv /\ StoreOK /\ RowsOK /\ [Next]_vars => (Inv /\ StoreOK /\ RowsOK)'
  BY NextInv, StoreNext, RowsNext
<1> QED BY <1>1, <1>2, PTL DEF Spec

\* The store never holds more tasks than the history limit, whatever is started, evicted, taken
\* back and recovered, unless a resume reads an evicted task back.
THEOREM StoreIsBounded ==
  ASSUME RecordsAssumption, "evicted" \notin Happens PROVE Spec => []StoreBounded
<1>1. Inv /\ StoreOK /\ RowsOK => StoreBounded
  BY DEF StoreOK, StoreBounded
<1> QED BY StoreHolds, <1>1, PTL

\* The variables have their types, and the order of the store lists its tasks, each once.
THEOREM RecordTypes ==
  ASSUME RecordsAssumption, "evicted" \notin Happens PROVE Spec => []TypeOK
<1> DEFINE H == refused \subseteq Task /\ told \subseteq Task
<1>1. Init => H
  BY DEF Init
<1>2. ASSUME Inv, H, [Next]_vars PROVE H'
  <2> USE DEF Inv
  <2>1. CASE UNCHANGED vars
    BY <1>2, <2>1 DEF vars, history
  <2>2. ASSUME NEW c \in Caller, Look(c) \/ Insert(c)
        PROVE  H'
    BY <1>2, <2>2 DEF Look, Insert, SameRequest, history
  <2>3. ASSUME NEW c \in Caller, Launch(c) \/ RollBack(c)
        PROVE  H'
    BY <1>2, <2>3 DEF Launch, RollBack, Callers
  <2>4. ASSUME NEW t \in Task, Begin(t) \/ Finish(t) \/ Interrupt(t) \/ Resume(t)
        PROVE  H'
    BY <1>2, <2>4 DEF Begin, Finish, Interrupt, Resume, history
  <2>5. CASE (\E w \in writes : Write(w) \/ WriteFails(w)) \/ Restart
    BY <1>2, <2>5 DEF Write, WriteFails, Restart, history
  <2> QED BY <1>2, <2>1, <2>2, <2>3, <2>4, <2>5 DEF Next
<1>3. Inv /\ StoreOK /\ H => TypeOK
  BY DEF Inv, Shape, Status, Write1, StoreOK, Listed, TypeOK
<1>4. Inv /\ H /\ [Next]_vars => H'
  BY <1>2
<1> HIDE DEF H
<1> QED BY StoreHolds, <1>1, <1>3, <1>4, PTL DEF Spec

\* A history limit that every task fits in loses none: a task that the disk knows as queued is in
\* the store, and so a restart finds all the work it has to take up again, whatever is refused,
\* is not written, or dies on the way.
THEOREM QueuedIsFound ==
  ASSUME RecordsAssumption, "evicted" \notin Happens,
         IsFiniteSet(Task), Cardinality(Task) <= HistoryLimit
  PROVE  Spec => []QueuedIsKnown
<1>1. Init => KnownOK
  BY StoreBegins
<1>2. Inv /\ StoreOK /\ RowsOK /\ KnownOK /\ [Next]_vars => KnownOK'
  BY KnownNext
<1>3. KnownOK => QueuedIsKnown
  BY DEF KnownOK, QueuedIsKnown, Rows, NoRow, Present
<1> QED BY StoreHolds, <1>1, <1>2, <1>3, PTL DEF Spec

-----------------------------------------------------------------------------
(***************************************************************************)
(* Tasks and turns that an external agent executes (module AcpTask): for   *)
(* any tasks, turns and sessions, and wherever the operator stops them.    *)
(***************************************************************************)

CONSTANTS Turn, Key, KeyOf, StopIn, MaxUpdate

VARIABLES
  pc, acpStatus, lock, stop, asked, wire, waiting, sessions, bound, working, cancelled, answer,
  updates

Acp == INSTANCE AcpTask WITH status <- acpStatus

What == {"session", "prompt", "cancel", "runnerCancel"}
Commands == {Acp!Command(u, w) : u \in Acp!User, w \in What}

AcpPc == {"start", "ensure", "bound", "prompt", "event", "cancelling", "ok", "err", "fail",
          "release", "done"}
AcpStatus == {"running", "interrupted", "completed", "failed"}
Answer == {"none", "session", "refused", "ended", "cancelled", "failed"}

\* The types but for the wire.
AcpShape ==
  /\ pc \in [Acp!User -> AcpPc] /\ acpStatus \in [Acp!User -> AcpStatus]
  /\ lock \in Task \cup {None} /\ (lock # None => stop[lock] = "cancel")
  /\ stop \in [Acp!User -> {"none", "cancel"}] /\ asked \subseteq Acp!User
  /\ waiting \in Key \cup {None} /\ sessions \subseteq Key /\ bound \subseteq Acp!User
  /\ working \subseteq Acp!User /\ cancelled \subseteq Key
  /\ answer \in [Acp!User -> Answer] /\ updates \in [Acp!User -> 0 .. MaxUpdate]

\* Together they are the types.
LEMMA TypesAre ==
  /\ Acp!TypeOK <=> AcpShape /\ wire \in Seq(Commands)
  /\ Acp!TypeOK' <=> AcpShape' /\ wire' \in Seq(Commands)
<1> DEFINE C == {Acp!Command(u, w) : u \in Acp!User,
                                    w \in {"session", "prompt", "cancel", "runnerCancel"}}
<1>1. C = Commands
  BY DEF Commands, What
<1>2. Acp!TypeOK <=> AcpShape /\ wire \in Seq(C)
  BY DEF Acp!TypeOK, AcpShape, AcpPc, AcpStatus, Answer
<1>3. Acp!TypeOK' <=> AcpShape' /\ wire' \in Seq(C)
  BY DEF Acp!TypeOK, AcpShape, AcpPc, AcpStatus, Answer
<1> HIDE DEF C
<1> QED BY <1>1, <1>2, <1>3

\* A command is of a user.
LEMMA CommandFields ==
  ASSUME NEW c \in Commands
  PROVE  c.user \in Acp!User /\ c.what \in What /\ c = Acp!Command(c.user, c.what)
  BY DEF Commands, Acp!Command

\* The loop takes the first command off the wire.
LEMMA TakeFirst ==
  ASSUME wire \in Seq(Commands), wire # << >>
  PROVE  /\ Head(wire) \in Commands /\ Tail(wire) \in Seq(Commands)
         /\ Acp!Queued(Head(wire).user, Head(wire).what)
<1>1. Head(wire) \in Commands /\ Tail(wire) \in Seq(Commands) /\ 1 \in DOMAIN wire
  OBVIOUS
<1>2. wire[1] = Head(wire)
  OBVIOUS
<1> QED BY <1>1, <1>2, CommandFields DEF Acp!Queued

\* What is on the wire after a step was there or has been added by it.
LEMMA WireKeeps ==
  ASSUME wire \in Seq(Commands),
         NEW v \in Acp!User, NEW w \in What,
         \/ wire' = wire
         \/ wire # << >> /\ wire' = Tail(wire)
         \/ wire' = Append(wire, Acp!Command(v, w)),
         NEW u, NEW what, Acp!Queued(u, what)'
  PROVE  Acp!Queued(u, what) \/ (u = v /\ what = w)
<1>1. CASE wire' = wire
  BY <1>1 DEF Acp!Queued
<1>2. CASE wire # << >> /\ wire' = Tail(wire)
  <2>1. PICK i \in DOMAIN wire' : wire'[i] = Acp!Command(u, what)
    BY DEF Acp!Queued, Acp!Command
  <2>2. i + 1 \in DOMAIN wire /\ wire[i + 1] = wire'[i]
    BY <1>2, <2>1
  <2> QED BY <2>1, <2>2 DEF Acp!Queued
<1>3. CASE wire' = Append(wire, Acp!Command(v, w))
  <2>1. PICK i \in DOMAIN wire' : wire'[i] = Acp!Command(u, what)
    BY DEF Acp!Queued, Acp!Command
  <2>2. CASE i \in DOMAIN wire
    BY <1>3, <2>1, <2>2 DEF Acp!Queued
  <2>3. CASE i \notin DOMAIN wire
    <3>1. wire'[i] = Acp!Command(v, w)
      BY <1>3, <2>1, <2>3
    <3> QED BY <2>1, <3>1 DEF Acp!Command
  <2> QED BY <2>2, <2>3
<1> QED BY <1>1, <1>2, <1>3

\* How a step changes the wire.
LEMMA WireStep ==
  ASSUME Acp!Next
  PROVE  \/ wire' = wire
         \/ wire # << >> /\ wire' = Tail(wire)
         \/ \E u \in Acp!User, w \in What : wire' = Append(wire, Acp!Command(u, w))
<1> USE DEF Acp!operator, Acp!client
<1>1. ASSUME NEW u \in Acp!User,
             \/ Acp!Ensured(u) \/ Acp!EnsureFails(u) \/ Acp!Update(u) \/ Acp!Event(u)
             \/ Acp!Answered(u) \/ Acp!Cancelled(u) \/ Acp!Finish(u) \/ Acp!Release(u)
             \/ Acp!AgentEnds(u) \/ Acp!AgentFails(u) \/ Acp!AgentObeys(u)
             \/ Acp!WaitForExit(u)
      PROVE  wire' = wire
  BY <1>1 DEF Acp!Ensured, Acp!EnsureFails, Acp!Update, Acp!Event, Acp!Answered, Acp!Cancelled,
              Acp!Finish, Acp!EndOf, Acp!Release, Acp!AgentEnds, Acp!AgentFails, Acp!AgentObeys,
              Acp!WaitForExit
<1>2. ASSUME NEW u \in Acp!User, Acp!Ensure(u) \/ Acp!Prompt(u) \/ Acp!Stop(u) \/ Acp!Stopped(u)
      PROVE  wire' = wire \/ \E w \in What : wire' = Append(wire, Acp!Command(u, w))
  BY <1>2 DEF Acp!Ensure, Acp!Prompt, Acp!Stop, Acp!Stopped, What
<1>3. Acp!Deliver => wire # << >> /\ wire' = Tail(wire)
  BY DEF Acp!Deliver
<1>4. Acp!CommandEnds => wire' = wire
  BY DEF Acp!CommandEnds
<1> QED BY <1>1, <1>2, <1>3, <1>4 DEF Acp!Next

\* The types hold for good, and so does who holds the store.
LEMMA AcpTypeStep ==
  ASSUME Acp!AcpAssumption, AcpShape, wire \in Seq(Commands), [Acp!Next]_Acp!vars
  PROVE  AcpShape' /\ wire' \in Seq(Commands)
<1> USE DEF Acp!runner, Acp!operator, Acp!client, Acp!store, Acp!agent, Acp!Go, Acp!AcpAssumption
<1>0. Acp!Next => wire' \in Seq(Commands)
  <2>1. \A u \in Acp!User, w \in What : Append(wire, Acp!Command(u, w)) \in Seq(Commands)
    BY DEF Commands
  <2> QED BY <2>1, WireStep, TakeFirst
<1>9. UNCHANGED Acp!vars => wire' \in Seq(Commands)
  BY DEF Acp!vars
<1>1. ASSUME NEW u \in Acp!User,
             \/ Acp!Ensure(u) \/ Acp!Ensured(u) \/ Acp!EnsureFails(u) \/ Acp!Prompt(u)
             \/ Acp!Event(u) \/ Acp!Answered(u) \/ Acp!Cancelled(u)
             \/ Acp!Finish(u) \/ Acp!Release(u)
      PROVE  AcpShape'
  <2>1. UNCHANGED <<lock, stop, asked, waiting, working, cancelled, updates>>
    BY <1>1 DEF Acp!Ensure, Acp!Ensured, Acp!EnsureFails, Acp!Prompt, Acp!Event,
                Acp!Answered, Acp!Cancelled, Acp!Finish, Acp!EndOf, Acp!Release
  <2>2. /\ pc' \in [Acp!User -> AcpPc]
        /\ acpStatus' \in [Acp!User -> AcpStatus]
    BY <1>1 DEF AcpShape, AcpPc, AcpStatus, Answer, Acp!Ensure, Acp!Ensured, Acp!EnsureFails,
                Acp!Prompt, Acp!Event, Acp!Answered, Acp!Cancelled, Acp!Finish, Acp!EndOf,
                Acp!Release
  <2>3. /\ UNCHANGED answer \/ answer' = [answer EXCEPT ![u] = "none"]
        /\ sessions' \subseteq sessions \cup {KeyOf[u]} /\ bound' \subseteq bound \cup {u}
    BY <1>1 DEF Acp!Ensure, Acp!Ensured, Acp!EnsureFails, Acp!Prompt, Acp!Event, Acp!Answered,
                Acp!Cancelled, Acp!Finish, Acp!EndOf, Acp!Release
  <2>4. /\ sessions' \subseteq Key /\ bound' \subseteq Acp!User
        /\ answer' \in [Acp!User -> Answer]
    <3>1. sessions' \subseteq Key /\ bound' \subseteq Acp!User
      <4>1. KeyOf[u] \in Key
        OBVIOUS
      <4> QED BY <2>3, <4>1 DEF AcpShape
    <3>2. answer' \in [Acp!User -> Answer]
      <4>1. CASE UNCHANGED answer
        BY <4>1 DEF AcpShape
      <4>2. CASE answer' = [answer EXCEPT ![u] = "none"]
        BY <4>2 DEF AcpShape, Answer
      <4> QED BY <2>3, <4>1, <4>2
    <3> QED BY <3>1, <3>2
  <2> QED BY <2>1, <2>2, <2>4 DEF AcpShape
<1>2. ASSUME NEW u \in Acp!User, Acp!Update(u)
      PROVE  AcpShape'
  BY <1>2 DEF Acp!Update, AcpShape, AcpPc
<1>3. ASSUME NEW u \in Acp!User, Acp!Stop(u)
      PROVE  AcpShape'
  <2>1. /\ lock' \in Task \cup {None} /\ (lock' # None => stop'[lock'] = "cancel")
        /\ stop' \in [Acp!User -> {"none", "cancel"}]
    BY <1>3 DEF Acp!Stop, Acp!CanWrite, AcpShape, Acp!User
  <2> QED BY <1>3, <2>1 DEF Acp!Stop, AcpShape
<1>4. ASSUME NEW u \in Acp!User, Acp!Stopped(u)
      PROVE  AcpShape'
  <2>1. /\ lock' \in Task \cup {None} /\ (lock' # None => stop'[lock'] = "cancel")
        /\ stop' \in [Acp!User -> {"none", "cancel"}] /\ asked' \subseteq Acp!User
    BY <1>4 DEF Acp!Stopped, AcpShape, Acp!User
  <2>2. /\ pc' \in [Acp!User -> AcpPc]
        /\ acpStatus' \in [Acp!User -> AcpStatus]
    BY <1>4 DEF Acp!Stopped, AcpShape, AcpPc, AcpStatus
  <2> QED BY <1>4, <2>1, <2>2 DEF Acp!Stopped, AcpShape, AcpPc, AcpStatus
<1>5. ASSUME NEW u \in Acp!User, Acp!AgentEnds(u) \/ Acp!AgentFails(u) \/ Acp!AgentObeys(u)
             \/ Acp!WaitForExit(u)
      PROVE  AcpShape'
  BY <1>5 DEF Acp!AgentEnds, Acp!AgentFails, Acp!AgentObeys, Acp!WaitForExit, AcpShape, Answer
<1>6. CASE Acp!Deliver
  <2>1. Head(wire).user \in Acp!User
    <3>1. Head(wire) \in Commands
      BY <1>6, TakeFirst DEF Acp!Deliver
    <3> QED BY <3>1, CommandFields
  <2>2. /\ working' \subseteq working \cup {Head(wire).user}
        /\ cancelled' \subseteq cancelled \cup {KeyOf[Head(wire).user]}
        /\ \/ UNCHANGED answer
           \/ \E a \in {"session", "refused"} : answer' = [answer EXCEPT ![Head(wire).user] = a]
    BY <1>6 DEF Acp!Deliver
  <2>3. working' \subseteq Acp!User /\ cancelled' \subseteq Key
    <3>1. KeyOf[Head(wire).user] \in Key
      BY <2>1
    <3> QED BY <2>1, <2>2, <3>1 DEF AcpShape
  <2>4. answer' \in [Acp!User -> Answer]
    <3> DEFINE h == Head(wire).user
    <3>1. h \in Acp!User /\ (UNCHANGED answer
            \/ \E a \in {"session", "refused"} : answer' = [answer EXCEPT ![h] = a])
      BY <2>1, <2>2
    <3> HIDE DEF h
    <3> QED BY <3>1 DEF AcpShape, Answer
  <2>5. /\ pc' = pc /\ acpStatus' = acpStatus /\ lock' = lock /\ stop' = stop
        /\ asked' = asked /\ waiting' = waiting /\ sessions' = sessions /\ bound' = bound
        /\ updates' = updates
    BY <1>6 DEF Acp!Deliver
  <2>6. wire' \in Seq(Commands)
    BY <1>0, <1>6 DEF Acp!Next
  <2> QED BY <2>3, <2>4, <2>5, <2>6 DEF AcpShape
<1>7. CASE Acp!CommandEnds
  BY <1>7 DEF Acp!CommandEnds, AcpShape
<1>8. CASE UNCHANGED Acp!vars
  BY <1>8 DEF Acp!vars, AcpShape
<1> QED BY <1>0, <1>1, <1>2, <1>3, <1>4, <1>5, <1>6, <1>7, <1>8, <1>9 DEF Acp!Next

\* They hold before anything has been started.
LEMMA AcpBegins ==
  ASSUME Acp!AcpAssumption, Acp!Init
  PROVE  Acp!TypeOK
<1>1. wire \in Seq(Commands)
  BY DEF Acp!Init
<1> QED BY <1>1, TypesAre DEF Acp!Init, AcpShape, AcpPc, AcpStatus, Answer, Acp!AcpAssumption

\* The types of the records of a run over an agent; the store is held only by an interrupt
\* that is under way.
THEOREM AcpTypes == ASSUME Acp!AcpAssumption PROVE Acp!Spec => []Acp!TypeOK
<1>1. Acp!Init => Acp!TypeOK
  BY AcpBegins
<1>2. Acp!TypeOK /\ [Acp!Next]_Acp!vars => Acp!TypeOK'
  BY AcpTypeStep, TypesAre
<1> QED BY <1>1, <1>2, PTL DEF Acp!Spec

\* A run that is over, or has not got a session yet, is bound to none, and a session of
\* its own is open only in between.
BoundWhileRunning ==
  /\ \A u \in bound : pc[u] \notin {"start", "ensure", "done"}
  /\ \A u \in Task : Acp!Hidden(KeyOf[u]) /\ KeyOf[u] \in sessions =>
       pc[u] \notin {"start", "ensure", "done"}

\* Sessions are opened and released with the runs they are for.
LEMMA BoundStep ==
  ASSUME Acp!AcpAssumption, AcpShape, BoundWhileRunning, [Acp!Next]_Acp!vars
  PROVE  BoundWhileRunning'
<1> USE DEF Acp!runner, Acp!operator, Acp!client, Acp!store, Acp!agent, Acp!Go
<1>1. ASSUME UNCHANGED <<sessions, bound>>,
             \A u \in Acp!User : pc'[u] \in {"start", "ensure", "done"} =>
                                   pc[u] \in {"start", "ensure", "done"}
      PROVE  BoundWhileRunning'
  BY <1>1 DEF BoundWhileRunning, AcpShape, Acp!Hidden, Acp!User
<1>2. ASSUME NEW u \in Acp!User,
             \/ Acp!Ensure(u) \/ Acp!EnsureFails(u) \/ Acp!Prompt(u) \/ Acp!Update(u)
             \/ Acp!Event(u) \/ Acp!Answered(u) \/ Acp!Cancelled(u)
             \/ Acp!Finish(u) \/ Acp!Stop(u) \/ Acp!Stopped(u)
             \/ Acp!AgentEnds(u) \/ Acp!AgentFails(u) \/ Acp!AgentObeys(u)
             \/ Acp!WaitForExit(u)
      PROVE  BoundWhileRunning'
  <2>1. UNCHANGED <<sessions, bound>>
    BY <1>2 DEF Acp!Ensure, Acp!EnsureFails, Acp!Prompt, Acp!Update, Acp!Event, Acp!Answered,
                Acp!Cancelled, Acp!Finish, Acp!EndOf, Acp!Stop, Acp!Stopped, Acp!AgentEnds,
                Acp!AgentFails, Acp!AgentObeys, Acp!WaitForExit
  <2>2. \A v \in Acp!User : pc'[v] \in {"start", "ensure", "done"} =>
                              pc[v] \in {"start", "ensure", "done"}
    BY <1>2 DEF AcpShape, Acp!Ensure, Acp!EnsureFails, Acp!Prompt, Acp!Update, Acp!Event,
                Acp!Answered, Acp!Cancelled, Acp!Finish, Acp!EndOf, Acp!Stop, Acp!Stopped,
                Acp!AgentEnds, Acp!AgentFails, Acp!AgentObeys, Acp!WaitForExit
  <2> QED BY <1>1, <2>1, <2>2
<1>3. ASSUME NEW u \in Acp!User, Acp!Ensured(u)
      PROVE  BoundWhileRunning'
  <2>1. /\ sessions' = sessions \cup {KeyOf[u]} /\ bound' = bound \cup {u}
        /\ pc' = [pc EXCEPT ![u] = "bound"]
    BY <1>3 DEF Acp!Ensured
  <2>2. \A v \in Task : Acp!Hidden(KeyOf[v]) /\ KeyOf[v] = KeyOf[u] => v = u
    BY DEF Acp!Hidden, Acp!User
  <2> QED BY <2>1, <2>2 DEF BoundWhileRunning, AcpShape, Acp!Hidden, Acp!User
<1>4. ASSUME NEW u \in Acp!User, Acp!Release(u)
      PROVE  BoundWhileRunning'
  <2>1. /\ bound' = bound \ {u} /\ pc' = [pc EXCEPT ![u] = "done"]
        /\ sessions' = IF Acp!Hidden(KeyOf[u]) THEN sessions \ {KeyOf[u]} ELSE sessions
    BY <1>4 DEF Acp!Release
  <2> QED BY <2>1 DEF BoundWhileRunning, AcpShape, Acp!Hidden, Acp!User
<1>5. CASE Acp!Deliver \/ Acp!CommandEnds \/ UNCHANGED Acp!vars
  <2>1. UNCHANGED <<sessions, bound, pc>>
    BY <1>5 DEF Acp!Deliver, Acp!CommandEnds, Acp!vars
  <2> QED BY <1>1, <2>1
<1> QED BY <1>2, <1>3, <1>4, <1>5 DEF Acp!Next

\* Nothing is left of a task whose run is over: it is bound to no session, and a session
\* of its own is gone, whichever way the run ended.
THEOREM AcpLeavesNothing == ASSUME Acp!AcpAssumption PROVE Acp!Spec => []Acp!NothingLeft
<1>1. Acp!Init => Acp!TypeOK /\ BoundWhileRunning
  BY AcpBegins DEF Acp!Init, BoundWhileRunning
<1>2. Acp!TypeOK /\ BoundWhileRunning /\ [Acp!Next]_Acp!vars => (Acp!TypeOK /\ BoundWhileRunning)'
  BY AcpTypeStep, TypesAre, BoundStep
<1>3. BoundWhileRunning => Acp!NothingLeft
  BY DEF BoundWhileRunning, Acp!NothingLeft
<1> QED BY <1>1, <1>2, <1>3, PTL DEF Acp!Spec

\* Each run has a session of its own.
OwnSessions == \A u, v \in Acp!User : KeyOf[u] = KeyOf[v] => u = v

\* What the operator has been asked to stop.
Halted(u) == u \in asked \/ stop[u] # "none"

\* Whatever tells of a cancellation, from the commands on the wire to the record, tells of
\* one the operator asked for.
CancelledIsHalted == \A u \in Acp!User :
  /\ acpStatus[u] = "interrupted" => Halted(u)
  /\ pc[u] \in {"cancelling", "err"} => Halted(u)
  /\ Acp!Queued(u, "cancel") \/ Acp!Queued(u, "runnerCancel") => Halted(u)
  /\ KeyOf[u] \in cancelled => Halted(u)
  /\ answer[u] = "cancelled" => Halted(u)

\* What has been stopped has been stopped for good.
LEMMA HaltedStays ==
  ASSUME AcpShape, [Acp!Next]_Acp!vars, NEW v \in Acp!User, Halted(v)
  PROVE  Halted(v)'
<1> USE DEF Acp!runner, Acp!operator, Acp!client, Acp!store, Acp!agent
<1>1. ASSUME NEW u \in Acp!User, Acp!Stop(u) \/ Acp!Stopped(u)
      PROVE  Halted(v)'
  BY <1>1 DEF Acp!Stop, Acp!Stopped, Halted, AcpShape
<1>2. ASSUME NEW u \in Acp!User,
             \/ Acp!Ensure(u) \/ Acp!Ensured(u) \/ Acp!EnsureFails(u) \/ Acp!Prompt(u)
             \/ Acp!Update(u) \/ Acp!Event(u) \/ Acp!Answered(u) \/ Acp!Cancelled(u)
             \/ Acp!Finish(u) \/ Acp!Release(u)
             \/ Acp!AgentEnds(u) \/ Acp!AgentFails(u) \/ Acp!AgentObeys(u)
             \/ Acp!WaitForExit(u)
      PROVE  UNCHANGED <<stop, asked>>
  BY <1>2 DEF Acp!Ensure, Acp!Ensured, Acp!EnsureFails, Acp!Prompt, Acp!Update, Acp!Event,
              Acp!Answered, Acp!Cancelled, Acp!Finish, Acp!EndOf, Acp!Release, Acp!AgentEnds,
              Acp!AgentFails, Acp!AgentObeys,
              Acp!WaitForExit
<1>3. Acp!Deliver \/ Acp!CommandEnds \/ UNCHANGED Acp!vars => UNCHANGED <<stop, asked>>
  BY DEF Acp!Deliver, Acp!CommandEnds, Acp!vars
<1> QED BY <1>1, <1>2, <1>3 DEF Acp!Next, Halted

\* A step asks for no cancellation unless the operator does.
LEMMA HaltedStep ==
  ASSUME Acp!AcpAssumption, OwnSessions, AcpShape, wire \in Seq(Commands), CancelledIsHalted,
         [Acp!Next]_Acp!vars
  PROVE  CancelledIsHalted'
<1> USE DEF Acp!runner, Acp!operator, Acp!client, Acp!store, Acp!agent, Acp!Go
<1>0. \A v \in Acp!User : Halted(v) => Halted(v)'
  BY HaltedStays
<1> DEFINE Signs(v) == /\ acpStatus[v] = "interrupted" => Halted(v)
                       /\ pc[v] \in {"cancelling", "err"} => Halted(v)
                       /\ KeyOf[v] \in cancelled => Halted(v)
                       /\ answer[v] = "cancelled" => Halted(v)
           Tells(v) == Acp!Queued(v, "cancel") \/ Acp!Queued(v, "runnerCancel")
<1>1. \A v \in Acp!User : Signs(v) /\ (Tells(v) => Halted(v))
  BY DEF CancelledIsHalted
<1>2. ASSUME \A v \in Acp!User : Signs(v)', \A v \in Acp!User : Tells(v)' => Halted(v)'
      PROVE  CancelledIsHalted'
  BY <1>2 DEF CancelledIsHalted, Acp!User
<1>3. ASSUME NEW u \in Acp!User, NEW w \in What,
             wire' = wire \/ (wire # << >> /\ wire' = Tail(wire))
               \/ wire' = Append(wire, Acp!Command(u, w)),
             w \in {"cancel", "runnerCancel"} => Halted(u)'
      PROVE  \A v \in Acp!User : Tells(v)' => Halted(v)'
  <2>1. ASSUME NEW v \in Acp!User, NEW what \in {"cancel", "runnerCancel"}, Acp!Queued(v, what)'
        PROVE  Halted(v)'
    <3>1. Acp!Queued(v, what) \/ (v = u /\ what = w)
      BY <1>3, <2>1, WireKeeps
    <3> QED BY <1>0, <1>1, <1>3, <2>1, <3>1
  <2> QED BY <2>1
<1> HIDE DEF Tells
<1>4. ASSUME NEW u \in Acp!User, Acp!Ensure(u) \/ Acp!Prompt(u)
      PROVE  CancelledIsHalted'
  <2>1. /\ \E w \in {"session", "prompt"} : wire' = Append(wire, Acp!Command(u, w))
        /\ \E at \in {"ensure", "prompt"} : pc' = [pc EXCEPT ![u] = at]
        /\ UNCHANGED <<acpStatus, cancelled, answer>>
    BY <1>4 DEF Acp!Ensure, Acp!Prompt
  <2>2. \A v \in Acp!User : Tells(v)' => Halted(v)'
    BY <1>3, <2>1 DEF What
  <2>3. \A v \in Acp!User : Signs(v)'
    BY <1>0, <1>1, <2>1 DEF AcpShape
  <2> QED BY <1>2, <2>2, <2>3
<1>5. ASSUME NEW u \in Acp!User,
             \/ Acp!Ensured(u) \/ Acp!EnsureFails(u) \/ Acp!Update(u) \/ Acp!Event(u)
             \/ Acp!Answered(u) \/ Acp!Cancelled(u) \/ Acp!Finish(u) \/ Acp!Release(u)
             \/ Acp!AgentEnds(u) \/ Acp!AgentFails(u) \/ Acp!AgentObeys(u)
             \/ Acp!WaitForExit(u)
      PROVE  CancelledIsHalted'
  <2>1. UNCHANGED <<wire, cancelled>>
    BY <1>5 DEF Acp!Ensured, Acp!EnsureFails, Acp!Update, Acp!Event, Acp!Answered, Acp!Cancelled,
                Acp!Finish, Acp!EndOf, Acp!Release, Acp!AgentEnds, Acp!AgentFails,
                Acp!AgentObeys, Acp!WaitForExit
  <2>2. \A v \in Acp!User : Tells(v)' => Halted(v)'
    BY <1>0, <1>1, <2>1 DEF Tells, Acp!Queued
  <2>3. ASSUME NEW v \in Acp!User
        PROVE  /\ acpStatus'[v] = "interrupted" =>
                    acpStatus[v] = "interrupted" \/ pc[v] = "err" \/ Halted(v)
               /\ pc'[v] \in {"cancelling", "err"} =>
                    pc[v] \in {"cancelling", "err"} \/ answer[v] = "cancelled"
               /\ answer'[v] = "cancelled" => answer[v] = "cancelled" \/ KeyOf[v] \in cancelled
    BY <1>5 DEF Halted, AcpShape, Acp!Ensured, Acp!EnsureFails, Acp!Update, Acp!Event, Acp!Answered,
                Acp!Cancelled, Acp!Finish, Acp!EndOf, Acp!Release, Acp!AgentEnds, Acp!AgentFails,
                Acp!AgentObeys,
                Acp!WaitForExit
  <2>4. \A v \in Acp!User : Signs(v)'
    BY <1>0, <1>1, <2>1, <2>3
  <2> QED BY <1>2, <2>2, <2>4
<1>6. ASSUME NEW u \in Acp!User, Acp!Stop(u)
      PROVE  CancelledIsHalted'
  <2>1. Halted(u)' /\ UNCHANGED <<pc, acpStatus, cancelled, answer>>
    BY <1>6 DEF Acp!Stop, Halted, AcpShape
  <2>2. \A v \in Acp!User : Tells(v)' => Halted(v)'
    BY <1>3, <1>6, <2>1 DEF Acp!Stop, What
  <2>3. \A v \in Acp!User : Signs(v)'
    BY <1>0, <1>1, <2>1
  <2> QED BY <1>2, <2>2, <2>3
<1>7. ASSUME NEW u \in Acp!User, Acp!Stopped(u)
      PROVE  CancelledIsHalted'
  <2>1. /\ Halted(u)' /\ UNCHANGED <<cancelled, answer>>
        /\ \A v \in Acp!User : v # u => pc'[v] = pc[v] /\ acpStatus'[v] = acpStatus[v]
    BY <1>7 DEF Acp!Stopped, Halted, AcpShape
  <2>2. \A v \in Acp!User : Tells(v)' => Halted(v)'
    BY <1>3, <1>7, <2>1 DEF Acp!Stopped, What
  <2>3. \A v \in Acp!User : Signs(v)'
    BY <1>0, <1>1, <2>1
  <2> QED BY <1>2, <2>2, <2>3
<1>8. CASE Acp!Deliver
  <2> DEFINE h == Head(wire)
  <2>1. h \in Commands /\ Acp!Queued(h.user, h.what) /\ h.user \in Acp!User
    BY <1>8, TakeFirst, CommandFields DEF Acp!Deliver
  <2>2. /\ wire # << >> /\ wire' = Tail(wire) /\ UNCHANGED <<pc, acpStatus>>
        /\ \/ UNCHANGED answer
           \/ \E a \in {"session", "refused"} : answer' = [answer EXCEPT ![h.user] = a]
        /\ \/ cancelled' \subseteq cancelled
           \/ cancelled' = cancelled \cup {KeyOf[h.user]} /\ h.what \in {"cancel", "runnerCancel"}
    BY <1>8 DEF Acp!Deliver
  <2> HIDE DEF h
  <2>3. h.what \in {"cancel", "runnerCancel"} => Halted(h.user)
    BY <1>1, <2>1 DEF Tells
  <2>4. \A v \in Acp!User : Tells(v)' => Halted(v)'
    BY <1>3, <2>1, <2>2 DEF What
  <2>5. ASSUME NEW v \in Acp!User, KeyOf[v] \in cancelled'
        PROVE  Halted(v)
    BY <1>1, <2>1, <2>2, <2>3, <2>5 DEF OwnSessions
  <2>6. \A v \in Acp!User : answer'[v] = "cancelled" => answer[v] = "cancelled"
    BY <2>2 DEF AcpShape
  <2>7. \A v \in Acp!User : Signs(v)'
    BY <1>0, <1>1, <2>2, <2>5, <2>6
  <2> QED BY <1>2, <2>4, <2>7
<1>9. CASE Acp!CommandEnds \/ UNCHANGED Acp!vars
  <2>1. UNCHANGED <<pc, acpStatus, wire, cancelled, answer>>
    BY <1>9 DEF Acp!CommandEnds, Acp!vars
  <2>2. \A v \in Acp!User : Tells(v)' => Halted(v)'
    BY <1>0, <1>1, <2>1 DEF Tells, Acp!Queued
  <2> QED BY <1>0, <1>1, <1>2, <2>1, <2>2
<1> QED BY <1>4, <1>5, <1>6, <1>7, <1>8, <1>9 DEF Acp!Next

\* Where every run has a session of its own, only what the operator stopped is recorded as
\* interrupted: no other run's cancellation reaches it.
THEOREM OnlyStoppedAreInterrupted ==
  ASSUME Acp!AcpAssumption, OwnSessions
  PROVE  Acp!Spec => []Acp!InterruptedWasStopped
<1>1. Acp!Init => Acp!TypeOK /\ CancelledIsHalted
  BY AcpBegins DEF Acp!Init, CancelledIsHalted, Acp!Queued
<1>2. Acp!TypeOK /\ CancelledIsHalted /\ [Acp!Next]_Acp!vars => (Acp!TypeOK /\ CancelledIsHalted)'
  BY AcpTypeStep, TypesAre, HaltedStep
<1>3. CancelledIsHalted => Acp!InterruptedWasStopped
  BY DEF CancelledIsHalted, Halted, Acp!InterruptedWasStopped
<1> QED BY <1>1, <1>2, <1>3, PTL DEF Acp!Spec

-----------------------------------------------------------------------------
(***************************************************************************)
(* The guardrails of runtime tools (module ToolGuardrails): for any        *)
(* callers, limits and windows, with and without failures.                 *)
(***************************************************************************)

CONSTANTS
  RateLimit, RateWindow, Window, MinCompleted, OpenTime, MaxProbes, Required, DryRuns, Faults

VARIABLES mem, guardDisk, writable, caller, calm, seen, probes, good, strays

Guard == INSTANCE ToolGuardrails WITH disk <- guardDisk

\* A state of the guardrails, taken apart; the histories may be whatever they are.
Parts(m) == m = [circuit |-> m.circuit, history |-> m.history, hits |-> m.hits,
                 healthy |-> m.healthy]
Circuits == [state : {"closed", "open", "half_open"}, age : 0 .. OpenTime,
             attempts : 0 .. MaxProbes, successes : Nat]
HalfOpen(m) == m.circuit.state = "half_open"

\* The circuits, in memory and on disk, and the callers.
GuardShape ==
  /\ Parts(mem) /\ mem.circuit \in Circuits
  /\ Parts(guardDisk) /\ guardDisk.circuit \in Circuits
  /\ caller \in [Caller -> [at : {"idle", "runs", "ok", "fail", "blocked"}, probe : BOOLEAN]]
  /\ probes \in Nat /\ good \in Nat

\* Every call that went ahead in this half-open phase is an attempt of its circuit, in memory
\* and, if the disk knows of a half-open circuit, on disk, which a crash falls back to.
ProbesCounted ==
  HalfOpen(mem) => /\ probes <= mem.circuit.attempts
                   /\ HalfOpen(guardDisk) => probes <= guardDisk.circuit.attempts

\* Nothing else of a state changes when one part does.
LEMMA PartsExcept ==
  ASSUME NEW m, Parts(m)
  PROVE  /\ \A x : /\ Parts([m EXCEPT !.hits = x]) /\ [m EXCEPT !.hits = x].circuit = m.circuit
                   /\ [m EXCEPT !.hits = x].healthy = m.healthy
         /\ \A x : Parts([m EXCEPT !.circuit = x]) /\ [m EXCEPT !.circuit = x].circuit = x
         /\ \A x : /\ Parts([m EXCEPT !.healthy = x])
                   /\ [m EXCEPT !.healthy = x].circuit = m.circuit
         /\ \A x : /\ Parts([m EXCEPT !.history = x])
                   /\ [m EXCEPT !.history = x].circuit = m.circuit
<1> DEFINE a == m.circuit
           b == m.history
           c == m.hits
           d == m.healthy
<1>1. m = [circuit |-> a, history |-> b, hits |-> c, healthy |-> d]
  BY DEF Parts
<1> HIDE DEF a, b, c, d
<1>2. \A x : [m EXCEPT !.hits = x] = [circuit |-> a, history |-> b, hits |-> x, healthy |-> d]
  BY <1>1
<1>3. \A x : [m EXCEPT !.circuit = x] = [circuit |-> x, history |-> b, hits |-> c, healthy |-> d]
  BY <1>1
<1>4. \A x : [m EXCEPT !.healthy = x] = [circuit |-> a, history |-> b, hits |-> c, healthy |-> x]
  BY <1>1
<1>5. \A x : [m EXCEPT !.history = x] = [circuit |-> a, history |-> x, hits |-> c, healthy |-> d]
  BY <1>1
<1>6. m.circuit = a /\ m.healthy = d
  BY DEF a, d
<1>7. ASSUME NEW w, NEW x, NEW y, NEW z, NEW r,
             r = [circuit |-> w, history |-> x, hits |-> y, healthy |-> z]
      PROVE  Parts(r) /\ r.circuit = w /\ r.healthy = z
  BY <1>7 DEF Parts
<1>8. ASSUME NEW x
      PROVE  /\ Parts([m EXCEPT !.hits = x]) /\ [m EXCEPT !.hits = x].circuit = a
             /\ [m EXCEPT !.hits = x].healthy = d
             /\ Parts([m EXCEPT !.circuit = x]) /\ [m EXCEPT !.circuit = x].circuit = x
             /\ Parts([m EXCEPT !.healthy = x]) /\ [m EXCEPT !.healthy = x].circuit = a
             /\ Parts([m EXCEPT !.history = x]) /\ [m EXCEPT !.history = x].circuit = a
  <2>1. /\ Parts([m EXCEPT !.hits = x]) /\ [m EXCEPT !.hits = x].circuit = a
        /\ [m EXCEPT !.hits = x].healthy = d
    <3> DEFINE r == [m EXCEPT !.hits = x]
    <3>1. r = [circuit |-> a, history |-> b, hits |-> x, healthy |-> d]
      BY <1>2
    <3> HIDE DEF r
    <3>2. Parts(r) /\ r.circuit = a /\ r.healthy = d
      BY <1>7, <3>1
    <3> QED BY <3>2 DEF r
  <2>2. Parts([m EXCEPT !.circuit = x]) /\ [m EXCEPT !.circuit = x].circuit = x
    <3> DEFINE r == [m EXCEPT !.circuit = x]
    <3>1. r = [circuit |-> x, history |-> b, hits |-> c, healthy |-> d]
      BY <1>3
    <3> HIDE DEF r
    <3>2. Parts(r) /\ r.circuit = x
      BY <1>7, <3>1
    <3> QED BY <3>2 DEF r
  <2>3. Parts([m EXCEPT !.healthy = x]) /\ [m EXCEPT !.healthy = x].circuit = a
    <3> DEFINE r == [m EXCEPT !.healthy = x]
    <3>1. r = [circuit |-> a, history |-> b, hits |-> c, healthy |-> x]
      BY <1>4
    <3> HIDE DEF r
    <3>2. Parts(r) /\ r.circuit = a
      BY <1>7, <3>1
    <3> QED BY <3>2 DEF r
  <2>4. Parts([m EXCEPT !.history = x]) /\ [m EXCEPT !.history = x].circuit = a
    <3> DEFINE r == [m EXCEPT !.history = x]
    <3>1. r = [circuit |-> a, history |-> x, hits |-> c, healthy |-> d]
      BY <1>5
    <3> HIDE DEF r
    <3>2. Parts(r) /\ r.circuit = a
      BY <1>7, <3>1
    <3> QED BY <3>2 DEF r
  <2> QED BY <2>1, <2>2, <2>3, <2>4
<1> QED BY <1>6, <1>8

\* What evaluate leaves of the circuit: the phase may begin, and one attempt is added or the
\* circuit opens again.
LEMMA VerdictIs ==
  ASSUME Guard!LimitsAreCounts, NEW m, Parts(m), m.circuit \in Circuits, NEW large \in BOOLEAN
  PROVE  LET v == Guard!Verdict(m, large)
             begins == m.circuit.state = "open" /\ v.mem.circuit.state = "half_open"
             n == IF begins THEN 0 ELSE m.circuit.attempts
         IN /\ Parts(v.mem) /\ v.mem.circuit \in Circuits
            /\ v.allowed \in BOOLEAN
            /\ m.circuit.state = "closed" => v.mem.circuit = m.circuit
            /\ HalfOpen(v.mem) =>
                 /\ m.circuit.state \in {"open", "half_open"}
                 /\ v.mem.circuit.attempts = n + (IF v.allowed THEN 1 ELSE 0)
                 /\ v.mem.circuit.successes = IF begins THEN 0 ELSE m.circuit.successes
            /\ HalfOpen(m) => v.mem.circuit.state # "closed"
<1> DEFINE p == Guard!Pruned(m)
           q == Guard!Refreshed(p)
           hit == IF RateLimit > 0 THEN [q EXCEPT !.hits = Append(@, 0)] ELSE q
           tried == [hit EXCEPT !.circuit.attempts = @ + 1]
           opened == [hit EXCEPT !.circuit = Guard!Open]
           full == RateLimit > 0 /\ Len(q.hits) >= RateLimit
           spent == q.circuit.attempts >= MaxProbes
           v == Guard!Verdict(m, large)
<1>0. /\ Guard!Open = [state |-> "open", age |-> 0, attempts |-> 0, successes |-> 0]
      /\ Guard!HalfOpen = [state |-> "half_open", age |-> 0, attempts |-> 0, successes |-> 0]
      /\ Guard!Open \in Circuits /\ Guard!HalfOpen \in Circuits
  BY DEF Guard!Open, Guard!HalfOpen, Guard!Closed, Circuits, Guard!LimitsAreCounts
<1>1. Parts(p) /\ p.circuit = m.circuit
  BY PartsExcept DEF Guard!Pruned
<1>2. /\ Parts(q) /\ q.circuit \in Circuits
      /\ \/ q.circuit = m.circuit
         \/ m.circuit.state = "open" /\ q.circuit = Guard!HalfOpen
  <2> HIDE DEF p
  <2> QED BY <1>0, <1>1, PartsExcept DEF Guard!Refreshed
<1>3. Parts(hit) /\ hit.circuit = q.circuit
  <2> HIDE DEF q
  <2> QED BY <1>2, PartsExcept
<1>4. /\ Parts(tried) /\ tried.circuit.state = q.circuit.state
      /\ tried.circuit.attempts = q.circuit.attempts + 1
      /\ tried.circuit.successes = q.circuit.successes
      /\ q.circuit.attempts < MaxProbes => tried.circuit \in Circuits
  <2> DEFINE r == [hit.circuit EXCEPT !.attempts = @ + 1]
  <2>1. tried = [hit EXCEPT !.circuit = r]
    OBVIOUS
  <2> HIDE DEF q, hit
  <2>2. hit.circuit \in [state : {"closed", "open", "half_open"}, age : 0 .. OpenTime,
                         attempts : 0 .. MaxProbes, successes : Nat]
    BY <1>2, <1>3 DEF Circuits
  <2>3. r = [state |-> hit.circuit.state, age |-> hit.circuit.age,
             attempts |-> hit.circuit.attempts + 1, successes |-> hit.circuit.successes]
    BY <2>2
  <2>4. MaxProbes \in Nat
    BY DEF Guard!LimitsAreCounts
  <2>5. Parts(tried) /\ tried.circuit = r
    <3> HIDE DEF r, tried
    <3> QED BY <1>3, <2>1, PartsExcept
  <2>6. hit.circuit.attempts < MaxProbes => r \in Circuits
    BY <2>2, <2>3, <2>4 DEF Circuits
  <2> HIDE DEF tried, r
  <2> QED BY <1>3, <2>3, <2>5, <2>6
<1>5. \/ v = [allowed |-> FALSE, mem |-> q]
      \/ q.circuit.state = "closed" /\ v = [allowed |-> TRUE, mem |-> hit]
      \/ q.circuit.state = "open" /\ v = [allowed |-> FALSE, mem |-> hit]
      \/ q.circuit.state = "half_open" /\ v = [allowed |-> FALSE, mem |-> [hit EXCEPT !.circuit = Guard!Open]]
      \/ q.circuit.state = "half_open" /\ ~spent /\ v = [allowed |-> TRUE, mem |-> tried]
  <2>1. v = IF ~q.healthy \/ large \/ full THEN [allowed |-> FALSE, mem |-> q]
            ELSE CASE q.circuit.state = "closed" -> [allowed |-> TRUE, mem |-> hit]
                   [] q.circuit.state = "open" -> [allowed |-> FALSE, mem |-> hit]
                   [] q.circuit.state = "half_open" /\ spent ->
                        [allowed |-> FALSE, mem |-> [hit EXCEPT !.circuit = Guard!Open]]
                   [] OTHER -> [allowed |-> TRUE, mem |-> tried]
    BY DEF Guard!Verdict
  <2>2. q.circuit.state \in {"closed", "open", "half_open"}
    BY <1>2 DEF Circuits
  <2> HIDE DEF v, q, hit, tried, spent, full
  <2> QED BY <2>1, <2>2
<1>6. Parts(opened) /\ opened.circuit = Guard!Open
  <2> HIDE DEF hit
  <2> QED BY <1>3, PartsExcept
<1>7. \/ q.circuit = m.circuit
      \/ m.circuit.state = "open" /\ q.circuit.state = "half_open" /\ q.circuit.attempts = 0
         /\ q.circuit.successes = 0
  BY <1>0, <1>2
<1>8. /\ m.circuit.attempts \in Nat /\ q.circuit.attempts \in Nat
      /\ m.circuit.state \in {"closed", "open", "half_open"}
      /\ q.circuit.state \in {"closed", "open", "half_open"}
  BY <1>2 DEF Circuits
<1>9. spent \in BOOLEAN /\ (~spent => q.circuit.attempts < MaxProbes)
  BY <1>8 DEF Guard!LimitsAreCounts
<1> HIDE DEF p, q, hit, tried, spent, full, v
<1>10. CASE v.mem.circuit = q.circuit /\ Parts(v.mem)
            /\ (v.allowed = FALSE \/ (v.allowed = TRUE /\ q.circuit.state = "closed"))
  <2>1. /\ Parts(v.mem) /\ v.mem.circuit \in Circuits /\ v.mem.circuit = q.circuit
        /\ v.allowed \in BOOLEAN
        /\ m.circuit.state = "closed" => v.mem.circuit = m.circuit
        /\ HalfOpen(m) => v.mem.circuit.state # "closed"
    BY <1>2, <1>7, <1>10 DEF HalfOpen
  <2>2. HalfOpen(v.mem) => v.allowed = FALSE /\ q.circuit.state = "half_open"
    BY <1>10 DEF HalfOpen
  <2>3. CASE q.circuit = m.circuit
    BY <1>8, <2>1, <2>2, <2>3 DEF v
  <2>4. CASE /\ m.circuit.state = "open" /\ q.circuit.state = "half_open"
             /\ q.circuit.attempts = 0 /\ q.circuit.successes = 0
    BY <1>8, <2>1, <2>2, <2>4 DEF v
  <2> QED BY <1>7, <2>3, <2>4
<1>11. CASE v.mem.circuit = Guard!Open /\ Parts(v.mem) /\ v.allowed = FALSE
            /\ q.circuit.state = "half_open"
  <2>1. /\ v.mem.circuit.state = "open" /\ v.mem.circuit \in Circuits
        /\ m.circuit.state # "closed" /\ v.mem.circuit.state # "closed"
    BY <1>0, <1>7, <1>11
  <2> QED BY <1>11, <2>1 DEF v, HalfOpen
<1>12. CASE /\ v.mem = tried /\ v.allowed = TRUE /\ q.circuit.state = "half_open"
            /\ q.circuit.attempts < MaxProbes
  <2>1. /\ Parts(v.mem) /\ v.mem.circuit \in Circuits /\ v.mem.circuit.state = "half_open"
        /\ v.mem.circuit.attempts = q.circuit.attempts + 1
        /\ v.mem.circuit.successes = q.circuit.successes
    BY <1>4, <1>12
  <2>2. CASE q.circuit = m.circuit
    BY <1>12, <2>1, <2>2 DEF v, HalfOpen
  <2>3. CASE /\ m.circuit.state = "open" /\ q.circuit.state = "half_open"
             /\ q.circuit.attempts = 0 /\ q.circuit.successes = 0
    BY <1>12, <2>1, <2>3 DEF v, HalfOpen
  <2> QED BY <1>7, <2>2, <2>3
<1>13. \/ /\ v.mem.circuit = q.circuit /\ Parts(v.mem)
          /\ (v.allowed = FALSE \/ (v.allowed = TRUE /\ q.circuit.state = "closed"))
       \/ /\ v.mem.circuit = Guard!Open /\ Parts(v.mem) /\ v.allowed = FALSE
          /\ q.circuit.state = "half_open"
       \/ /\ v.mem = tried /\ v.allowed = TRUE /\ q.circuit.state = "half_open"
          /\ q.circuit.attempts < MaxProbes
  <2> HIDE DEF opened
  <2>1. ASSUME NEW a, NEW x, v = [allowed |-> a, mem |-> x]
        PROVE  v.allowed = a /\ v.mem = x
    BY <2>1
  <2>2. CASE v = [allowed |-> FALSE, mem |-> q]
    <3>1. v.allowed = FALSE /\ v.mem = q
      BY <2>1, <2>2
    <3>2. v.mem.circuit = q.circuit /\ Parts(v.mem)
      BY <1>2, <3>1
    <3> QED BY <3>1, <3>2
  <2>3. CASE q.circuit.state = "closed" /\ v = [allowed |-> TRUE, mem |-> hit]
    <3>1. v.allowed = TRUE /\ v.mem = hit
      BY <2>1, <2>3
    <3>2. v.mem.circuit = q.circuit /\ Parts(v.mem)
      BY <1>3, <3>1
    <3> QED BY <2>3, <3>1, <3>2
  <2>4. CASE q.circuit.state = "open" /\ v = [allowed |-> FALSE, mem |-> hit]
    <3>1. v.allowed = FALSE /\ v.mem = hit
      BY <2>1, <2>4
    <3>2. v.mem.circuit = q.circuit /\ Parts(v.mem)
      BY <1>3, <3>1
    <3> QED BY <3>1, <3>2
  <2>5. CASE q.circuit.state = "half_open" /\ v = [allowed |-> FALSE, mem |-> opened]
    BY <1>6, <2>1, <2>5
  <2>6. CASE q.circuit.state = "half_open" /\ ~spent /\ v = [allowed |-> TRUE, mem |-> tried]
    BY <1>9, <2>1, <2>6
  <2> QED BY <1>5, <2>2, <2>3, <2>4, <2>5, <2>6 DEF opened
<1> QED BY <1>10, <1>11, <1>12, <1>13

\* What an outcome leaves of the circuit: another success, or the end of the phase; and it
\* may open a circuit that is closed.
LEMMA CircuitAfterIs ==
  ASSUME Guard!LimitsAreCounts, NEW r \in Circuits, NEW h, NEW how
  PROVE  LET s == Guard!CircuitAfter(r, h, how)
             n == r.successes + (IF how = "ok" THEN 1 ELSE 0)
         IN /\ s \in Circuits
            /\ s.state = "half_open" =>
                 r.state = "half_open" /\ s.attempts = r.attempts /\ s.successes = n
            /\ r.state = "half_open" /\ s.state = "closed" => n >= Required
<1> DEFINE s == Guard!CircuitAfter(r, h, how)
           n == r.successes + (IF how = "ok" THEN 1 ELSE 0)
           more == [r EXCEPT !.successes = n]
<1>1. r \in [state : {"closed", "open", "half_open"}, age : 0 .. OpenTime,
             attempts : 0 .. MaxProbes, successes : Nat]
  BY DEF Circuits
<1>2. n \in Nat
  BY <1>1
<1>3. more = [state |-> r.state, age |-> r.age, attempts |-> r.attempts, successes |-> n]
  <2> HIDE DEF n
  <2> QED BY <1>1
<1>4. /\ Guard!Open.state = "open" /\ Guard!Closed.state = "closed"
      /\ 0 \in 0 .. MaxProbes => Guard!Open \in Circuits /\ Guard!Closed \in Circuits
  BY DEF Guard!Open, Guard!Closed, Circuits, Guard!LimitsAreCounts
<1>5. 0 \in 0 .. MaxProbes
  BY DEF Guard!LimitsAreCounts
<1>6. more \in Circuits /\ more.state = r.state /\ more.attempts = r.attempts /\ more.successes = n
  <2> HIDE DEF n, more
  <2> QED BY <1>1, <1>2, <1>3 DEF Circuits
<1>7. s = IF r.state = "half_open"
          THEN IF r.attempts < MaxProbes THEN more
               ELSE IF n >= Required THEN Guard!Closed ELSE Guard!Open
          ELSE IF Guard!LowRate(h) THEN Guard!Open ELSE r
  BY DEF Guard!CircuitAfter
<1> HIDE DEF n, more, s
<1>8. s \in Circuits
  BY <1>4, <1>5, <1>6, <1>7
<1>9. s.state = "half_open" => r.state = "half_open" /\ s.attempts = r.attempts /\ s.successes = n
  BY <1>4, <1>6, <1>7
<1>10. r.state = "half_open" /\ s.state = "closed" => n >= Required
  BY <1>4, <1>6, <1>7
<1> QED BY <1>8, <1>9, <1>10 DEF s, n

\* The same of the state that records it.
LEMMA RecordedIs ==
  ASSUME Guard!LimitsAreCounts, NEW m, Parts(m), m.circuit \in Circuits, NEW how
  PROVE  LET r == Guard!Recorded(m, how)
             n == m.circuit.successes + (IF how = "ok" THEN 1 ELSE 0)
         IN /\ Parts(r) /\ r.circuit \in Circuits
            /\ HalfOpen(r) => HalfOpen(m) /\ r.circuit.attempts = m.circuit.attempts
                              /\ r.circuit.successes = n
            /\ HalfOpen(m) /\ r.circuit.state = "closed" => n >= Required
<1> DEFINE h == Append(m.history, how)
           kept == SubSeq(h, IF Len(h) > Window THEN 2 ELSE 1, Len(h))
           c == Guard!CircuitAfter(m.circuit, kept, how)
           r == Guard!Recorded(m, how)
           m1 == [m EXCEPT !.history = kept]
           m2 == [m1 EXCEPT !.healthy = TRUE]
<1>1. r = [m2 EXCEPT !.circuit = Guard!CircuitAfter(m2.circuit, kept, how)]
  BY DEF Guard!Recorded
<1>2. Parts(m1) /\ m1.circuit = m.circuit
  <2> HIDE DEF kept
  <2> QED BY PartsExcept
<1>3. Parts(m2) /\ m2.circuit = m.circuit
  <2> HIDE DEF m1
  <2> QED BY <1>2, PartsExcept
<1>4. Parts(r) /\ r.circuit = c
  <2> HIDE DEF m2, kept, r
  <2> QED BY <1>1, <1>3, PartsExcept
<1> HIDE DEF r, kept
<1> QED BY <1>4, CircuitAfterIs DEF HalfOpen, r

\* A state when a unit of time has passed: the age of an open circuit and of the calls.
Aged(m) == [m EXCEPT !.circuit.age = IF m.circuit.state = "open" /\ @ < OpenTime THEN @ + 1 ELSE @,
                     !.hits = Guard!Older(@, RateWindow + 1)]

\* Time leaves the rest as it is.
LEMMA AgedIs ==
  ASSUME Guard!LimitsAreCounts, NEW m, Parts(m), m.circuit \in Circuits
  PROVE  /\ Parts(Aged(m)) /\ Aged(m).circuit \in Circuits
         /\ Aged(m).circuit.state = m.circuit.state
         /\ Aged(m).circuit.attempts = m.circuit.attempts
         /\ Aged(m).circuit.successes = m.circuit.successes
         /\ Aged(m).circuit = [m.circuit EXCEPT !.age =
                                 IF m.circuit.state = "open" /\ m.circuit.age < OpenTime
                                 THEN m.circuit.age + 1 ELSE m.circuit.age]
<1> DEFINE n == IF m.circuit.state = "open" /\ m.circuit.age < OpenTime THEN m.circuit.age + 1
                ELSE m.circuit.age
           r == [m.circuit EXCEPT !.age = n]
           m1 == [m EXCEPT !.circuit = r]
<1>1. m.circuit \in [state : {"closed", "open", "half_open"}, age : 0 .. OpenTime,
                     attempts : 0 .. MaxProbes, successes : Nat]
  BY DEF Circuits
<1>2. n \in 0 .. OpenTime
  BY <1>1 DEF Guard!LimitsAreCounts
<1>3. Aged(m) = [m1 EXCEPT !.hits = Guard!Older(m1.hits, RateWindow + 1)]
  BY DEF Aged
<1>4. /\ r \in Circuits /\ r.state = m.circuit.state /\ r.attempts = m.circuit.attempts
      /\ r.successes = m.circuit.successes
  <2>1. r = [state |-> m.circuit.state, age |-> n, attempts |-> m.circuit.attempts,
             successes |-> m.circuit.successes]
    <3> HIDE DEF n
    <3> QED BY <1>1
  <2> HIDE DEF n, r
  <2> QED BY <1>1, <1>2, <2>1 DEF Circuits
<1>5. Parts(m1) /\ m1.circuit = r
  <2> HIDE DEF r
  <2> QED BY PartsExcept
<1> HIDE DEF m1
<1>6. Parts(Aged(m)) /\ Aged(m).circuit = r
  <2> HIDE DEF r, n
  <2> QED BY <1>3, <1>5, PartsExcept
<1>7. Aged(m).circuit = [m.circuit EXCEPT !.age = n]
  BY <1>6
<1> HIDE DEF r
<1> QED BY <1>4, <1>6, <1>7

\* Whoever is let through as a probe is none once the phase is over.
LEMMA PhaseIs ==
  ASSUME GuardShape, NEW m
  PROVE  /\ Guard!Phase(m) \in [Caller -> [at : {"idle", "runs", "ok", "fail", "blocked"},
                                           probe : BOOLEAN]]
         /\ \A c \in Caller : Guard!Phase(m)[c].at = caller[c].at
         /\ HalfOpen(m) /\ HalfOpen(mem) => Guard!Phase(m) = caller
<1>1. CASE HalfOpen(m) /\ HalfOpen(mem)
  BY <1>1 DEF Guard!Phase, HalfOpen, GuardShape
<1>2. CASE ~(HalfOpen(m) /\ HalfOpen(mem))
  <2>1. Guard!Phase(m) = [c \in Caller |-> [caller[c] EXCEPT !.probe = FALSE]]
    BY <1>2 DEF Guard!Phase, HalfOpen
  <2>2. ASSUME NEW r \in [at : {"idle", "runs", "ok", "fail", "blocked"}, probe : BOOLEAN]
        PROVE  /\ [r EXCEPT !.probe = FALSE] \in [at : {"idle", "runs", "ok", "fail", "blocked"},
                                                  probe : BOOLEAN]
               /\ [r EXCEPT !.probe = FALSE].at = r.at
    OBVIOUS
  <2>3. \A c \in Caller : caller[c] \in [at : {"idle", "runs", "ok", "fail", "blocked"},
                                         probe : BOOLEAN]
    BY DEF GuardShape
  <2> QED BY <1>2, <2>1, <2>2, <2>3
<1> QED BY <1>1, <1>2

\* At the start the circuit is closed.
LEMMA GuardBegins ==
  ASSUME Guard!LimitsAreCounts, Guard!Init
  PROVE  GuardShape /\ ProbesCounted /\ ~HalfOpen(mem) /\ writable = TRUE
<1>1. /\ mem.circuit = [state |-> "closed", age |-> 0, attempts |-> 0, successes |-> 0]
      /\ Parts(mem) /\ guardDisk = mem /\ writable = TRUE /\ probes = 0 /\ good = 0
      /\ caller = [c \in Caller |-> [at |-> "idle", probe |-> FALSE]]
  BY DEF Guard!Init, Guard!Closed, Guard!Idle, Parts
<1>2. mem.circuit \in Circuits /\ mem.circuit.state = "closed"
  BY <1>1 DEF Circuits, Guard!LimitsAreCounts
<1> QED BY <1>1, <1>2 DEF GuardShape, ProbesCounted, HalfOpen

\* What asking leaves: the verdict's circuit, on disk too if it can be written.
LEMMA EvaluateIs ==
  ASSUME Guard!LimitsAreCounts, GuardShape, NEW c \in Caller, NEW large \in BOOLEAN,
         Guard!Evaluate(c, large)
  PROVE  LET v == Guard!Verdict(mem, large)
             probe == v.allowed /\ HalfOpen(v.mem)
         IN /\ caller[c].at = "idle" /\ UNCHANGED writable
            /\ Parts(mem') /\ mem'.circuit = v.mem.circuit
            /\ guardDisk' = IF writable THEN v.mem ELSE guardDisk
            /\ probes' = Guard!Fresh(v.mem, probes) + (IF probe /\ writable THEN 1 ELSE 0)
            /\ good' = Guard!Fresh(v.mem, good) /\ strays' = Guard!Unstrayed(v.mem)
            /\ \E at \in {"idle", "runs", "fail", "blocked"} :
                 /\ at = "runs" => v.allowed
                 /\ caller' = [Guard!Phase(v.mem) EXCEPT ![c] =
                                 [at |-> at, probe |-> probe /\ at = "runs"]]
<1> DEFINE v == Guard!Verdict(mem, large)
           probe == v.allowed /\ v.mem.circuit.state = "half_open"
           to(at) == [Guard!Phase(v.mem) EXCEPT ![c] = [at |-> at, probe |-> probe /\ at = "runs"]]
<1>1. Parts(mem) /\ mem.circuit \in Circuits
  BY DEF GuardShape
<1>2. Parts(v.mem)
  BY <1>1, VerdictIs
<1>3. /\ caller[c].at = "idle" /\ UNCHANGED writable
      /\ \/ /\ writable /\ mem' = v.mem /\ guardDisk' = v.mem
            /\ caller' = to(IF v.allowed THEN "runs" ELSE "blocked")
         \/ /\ ~writable /\ UNCHANGED guardDisk
            /\ \/ mem' = Guard!Unavailable(v.mem) /\ caller' \in {to("idle"), to("fail")}
               \/ mem' = v.mem /\ caller' = to("fail")
      /\ probes' = Guard!Fresh(v.mem, probes) + (IF probe /\ writable THEN 1 ELSE 0)
      /\ good' = Guard!Fresh(v.mem, good) /\ strays' = Guard!Unstrayed(v.mem)
  BY DEF Guard!Evaluate
<1> HIDE DEF v
<1>4. Parts(Guard!Unavailable(v.mem)) /\ Guard!Unavailable(v.mem).circuit = v.mem.circuit
  BY <1>2, PartsExcept DEF Guard!Unavailable
<1>5. Parts(mem') /\ mem'.circuit = v.mem.circuit
  BY <1>2, <1>3, <1>4
<1>6. guardDisk' = IF writable THEN v.mem ELSE guardDisk
  BY <1>3
<1>7. \E at \in {"idle", "runs", "fail", "blocked"} : (at = "runs" => v.allowed) /\ caller' = to(at)
  <2> HIDE DEF to
  <2> QED BY <1>3
<1> QED BY <1>3, <1>5, <1>6, <1>7 DEF v, HalfOpen

\* A step counts the calls that go ahead.
LEMMA GuardStep ==
  ASSUME Guard!LimitsAreCounts, GuardShape, ProbesCounted, [Guard!Next]_(Guard!vars)
  PROVE  GuardShape' /\ ProbesCounted'
<1> DEFINE C == [Caller -> [at : {"idle", "runs", "ok", "fail", "blocked"}, probe : BOOLEAN]]
<1>0. /\ Parts(mem) /\ mem.circuit \in Circuits /\ Parts(guardDisk) /\ guardDisk.circuit \in Circuits
      /\ caller \in C /\ probes \in Nat /\ good \in Nat
  BY DEF GuardShape
<1>1. ASSUME NEW c \in Caller, NEW large \in BOOLEAN, Guard!Evaluate(c, large)
      PROVE  GuardShape' /\ ProbesCounted'
  <2> DEFINE v == Guard!Verdict(mem, large)
             probe == v.allowed /\ HalfOpen(v.mem)
             begins == mem.circuit.state = "open" /\ v.mem.circuit.state = "half_open"
             n == IF begins THEN 0 ELSE mem.circuit.attempts
  <2>1. /\ Parts(mem') /\ mem'.circuit = v.mem.circuit
        /\ guardDisk' = IF writable THEN v.mem ELSE guardDisk
        /\ probes' = Guard!Fresh(v.mem, probes) + (IF probe /\ writable THEN 1 ELSE 0)
        /\ good' = Guard!Fresh(v.mem, good)
    BY <1>1, EvaluateIs
  <2>2. PICK at \in {"idle", "runs", "fail", "blocked"} :
          caller' = [Guard!Phase(v.mem) EXCEPT ![c] = [at |-> at, probe |-> probe /\ at = "runs"]]
    BY <1>1, EvaluateIs
  <2>3. /\ Parts(v.mem) /\ v.mem.circuit \in Circuits /\ v.allowed \in BOOLEAN
        /\ HalfOpen(v.mem) => /\ mem.circuit.state \in {"open", "half_open"}
                              /\ v.mem.circuit.attempts = n + (IF v.allowed THEN 1 ELSE 0)
    BY <1>0, VerdictIs
  <2>4. Guard!Phase(v.mem) \in C
    BY PhaseIs
  <2> HIDE DEF v
  <2>5. caller' \in C
    <3>1. [at |-> at, probe |-> probe /\ at = "runs"]
            \in [at : {"idle", "runs", "ok", "fail", "blocked"}, probe : BOOLEAN]
      OBVIOUS
    <3> HIDE DEF probe
    <3> QED BY <2>2, <2>4, <3>1
  <2>6. /\ Guard!Fresh(v.mem, probes) \in {0, probes} /\ Guard!Fresh(v.mem, good) \in {0, good}
        /\ HalfOpen(v.mem) /\ begins => Guard!Fresh(v.mem, probes) = 0
        /\ HalfOpen(v.mem) /\ ~begins /\ mem.circuit.state \in {"open", "half_open"} =>
             HalfOpen(mem) /\ Guard!Fresh(v.mem, probes) = probes
    BY DEF Guard!Fresh, Guard!Begins, HalfOpen
  <2>7. probes' \in Nat /\ good' \in Nat
    BY <1>0, <2>1, <2>6
  <2>8. guardDisk' = v.mem \/ (~writable /\ guardDisk' = guardDisk)
    BY <2>1
  <2>9. GuardShape'
    BY <1>0, <2>1, <2>3, <2>5, <2>7, <2>8 DEF GuardShape
  <2>10. ASSUME HalfOpen(v.mem)
         PROVE  /\ probes' <= v.mem.circuit.attempts
                /\ guardDisk' = guardDisk /\ HalfOpen(guardDisk) /\ ~writable =>
                     probes' <= guardDisk.circuit.attempts
    <3>1. mem.circuit.attempts \in Nat /\ guardDisk.circuit.attempts \in Nat
      BY <1>0 DEF Circuits
    <3>2. v.mem.circuit.attempts = n + (IF v.allowed THEN 1 ELSE 0)
          /\ mem.circuit.state \in {"open", "half_open"}
      BY <2>3, <2>10
    <3>3. CASE begins
      BY <2>1, <2>6, <2>10, <3>1, <3>2, <3>3
    <3>4. CASE ~begins
      <4>1. /\ Guard!Fresh(v.mem, probes) = probes /\ probes <= mem.circuit.attempts
            /\ HalfOpen(guardDisk) => probes <= guardDisk.circuit.attempts
        BY <2>6, <2>10, <3>2, <3>4 DEF ProbesCounted
      <4> QED BY <1>0, <2>1, <3>1, <3>2, <3>4, <4>1
    <3> QED BY <3>3, <3>4
  <2>11. ProbesCounted'
    <3>1. HalfOpen(mem)' => HalfOpen(v.mem)
      BY <2>1 DEF HalfOpen
    <3> QED BY <2>1, <2>8, <2>10, <3>1 DEF ProbesCounted, HalfOpen
  <2> QED BY <2>9, <2>11
<1>2. ASSUME NEW c \in Caller, Guard!Report(c)
      PROVE  GuardShape' /\ ProbesCounted'
  <2> DEFINE m == Guard!Recorded(mem, caller[c].at)
             u == Guard!Unavailable(m)
  <2>1. /\ IF writable THEN mem' = m /\ guardDisk' = m ELSE mem' = u /\ UNCHANGED guardDisk
        /\ caller' = [Guard!Phase(m) EXCEPT ![c] = Guard!Idle]
        /\ good' = good + (IF caller[c].probe /\ caller[c].at = "ok" THEN 1 ELSE 0)
        /\ UNCHANGED probes
    BY <1>2 DEF Guard!Report
  <2>2. /\ Parts(m) /\ m.circuit \in Circuits
        /\ HalfOpen(m) => HalfOpen(mem) /\ m.circuit.attempts = mem.circuit.attempts
    BY <1>0, RecordedIs
  <2>3. Guard!Phase(m) \in C
    BY PhaseIs
  <2> HIDE DEF m
  <2>4. Parts(u) /\ u.circuit = m.circuit
    BY <2>2, PartsExcept DEF Guard!Unavailable
  <2> HIDE DEF u
  <2>5. caller' \in C
    BY <2>1, <2>3 DEF Guard!Idle
  <2>6. good' \in Nat
    BY <1>0, <2>1
  <2>7. Parts(mem') /\ mem'.circuit = m.circuit /\ guardDisk' \in {m, guardDisk}
    BY <2>1, <2>2, <2>4
  <2>8. GuardShape'
    BY <1>0, <2>1, <2>2, <2>5, <2>6, <2>7 DEF GuardShape
  <2>9. ProbesCounted'
    BY <2>1, <2>2, <2>7 DEF ProbesCounted, HalfOpen
  <2> QED BY <2>8, <2>9
<1>3. ASSUME NEW c \in Caller, Guard!Finish(c) \/ Guard!Lose(c)
      PROVE  GuardShape' /\ ProbesCounted'
  <2>1. UNCHANGED <<mem, guardDisk, probes, good>>
    BY <1>3 DEF Guard!Finish, Guard!Lose
  <2>2. caller' \in C
    <3>1. CASE Guard!Finish(c)
      <4>1. \E how \in {"ok", "fail", "blocked"} : caller' = [caller EXCEPT ![c].at = how]
        BY <3>1 DEF Guard!Finish, Guard!Status
      <4> QED BY <1>0, <4>1
    <3>2. CASE Guard!Lose(c)
      BY <1>0, <3>2 DEF Guard!Lose, Guard!Idle
    <3> QED BY <1>3, <3>1, <3>2
  <2> QED BY <1>0, <2>1, <2>2 DEF GuardShape, ProbesCounted, HalfOpen
<1>4. CASE Guard!MetricsFail
  <2> DEFINE u == Guard!Unavailable(mem)
  <2>1. /\ mem' = u /\ guardDisk' \in {u, guardDisk} /\ UNCHANGED <<caller, probes, good>>
    BY <1>4 DEF Guard!MetricsFail
  <2>2. Parts(u) /\ u.circuit = mem.circuit
    BY <1>0, PartsExcept DEF Guard!Unavailable
  <2> HIDE DEF u
  <2> QED BY <1>0, <2>1, <2>2 DEF GuardShape, ProbesCounted, HalfOpen
<1>5. CASE Guard!Crash
  <2>1. /\ mem' = guardDisk /\ UNCHANGED guardDisk
        /\ probes' = Guard!Fresh(guardDisk, probes) /\ good' = Guard!Fresh(guardDisk, good)
    BY <1>5 DEF Guard!Crash
  <2>2. caller' \in C
    <3>1. PICK gone \in SUBSET Caller :
            caller' = [c \in Caller |-> IF c \in gone THEN Guard!Idle
                                        ELSE Guard!Phase(guardDisk)[c]]
      BY <1>5 DEF Guard!Crash
    <3>2. Guard!Phase(guardDisk) \in C
      BY PhaseIs
    <3> QED BY <3>1, <3>2 DEF Guard!Idle
  <2>3. /\ HalfOpen(guardDisk) /\ ~HalfOpen(mem) => Guard!Fresh(guardDisk, probes) = 0
        /\ HalfOpen(mem) => Guard!Fresh(guardDisk, probes) = probes
        /\ Guard!Fresh(guardDisk, probes) \in {0, probes}
        /\ Guard!Fresh(guardDisk, good) \in {0, good}
    BY DEF Guard!Fresh, Guard!Begins, HalfOpen
  <2>4. GuardShape'
    BY <1>0, <2>1, <2>2, <2>3 DEF GuardShape
  <2>5. guardDisk.circuit.attempts \in Nat
    BY <1>0 DEF Circuits
  <2>6. ProbesCounted'
    <3>1. HalfOpen(guardDisk) => probes' <= guardDisk.circuit.attempts
      BY <2>1, <2>3, <2>5 DEF ProbesCounted
    <3> QED BY <2>1, <3>1 DEF ProbesCounted, HalfOpen
  <2> QED BY <2>4, <2>6
<1>6. CASE Guard!Tick
  <2>1. mem' = Aged(mem) /\ guardDisk' = Aged(guardDisk) /\ UNCHANGED <<caller, probes, good>>
    BY <1>6 DEF Guard!Tick, Aged
  <2>2. /\ Parts(Aged(mem)) /\ Aged(mem).circuit \in Circuits
        /\ Aged(mem).circuit.state = mem.circuit.state
        /\ Aged(mem).circuit.attempts = mem.circuit.attempts
    BY <1>0, AgedIs
  <2>3. /\ Parts(Aged(guardDisk)) /\ Aged(guardDisk).circuit \in Circuits
        /\ Aged(guardDisk).circuit.state = guardDisk.circuit.state
        /\ Aged(guardDisk).circuit.attempts = guardDisk.circuit.attempts
    BY <1>0, AgedIs
  <2> QED BY <1>0, <2>1, <2>2, <2>3 DEF GuardShape, ProbesCounted, HalfOpen
<1>7. CASE Guard!Disk \/ Guard!Settle \/ UNCHANGED Guard!vars
  <2>1. UNCHANGED <<mem, guardDisk, caller, probes, good>>
    BY <1>7 DEF Guard!Disk, Guard!Settle, Guard!vars
  <2> QED BY <1>0, <2>1 DEF GuardShape, ProbesCounted, HalfOpen
<1> QED BY <1>1, <1>2, <1>3, <1>4, <1>5, <1>6, <1>7 DEF Guard!Next

\* Of a scope whose circuit is half open no more calls go ahead than there are probes, for any
\* callers, limits and windows, with dry runs, crashes and writes that fail.
THEOREM ProbesAreBounded == ASSUME Guard!LimitsAreCounts PROVE Guard!Spec => []Guard!ProbesBounded
<1>1. Guard!Init => GuardShape /\ ProbesCounted
  BY GuardBegins
<1>2. GuardShape /\ ProbesCounted /\ [Guard!Next]_(Guard!vars) => (GuardShape /\ ProbesCounted)'
  BY GuardStep
<1>3. ASSUME GuardShape, ProbesCounted
      PROVE  Guard!ProbesBounded
  <2>1. mem.circuit.attempts \in 0 .. MaxProbes /\ probes \in Nat /\ MaxProbes \in Nat
    BY <1>3 DEF GuardShape, Circuits, Guard!LimitsAreCounts
  <2> QED BY <1>3, <2>1 DEF ProbesCounted, HalfOpen, Guard!ProbesBounded
<1> QED BY <1>1, <1>2, <1>3, PTL DEF Guard!Spec

\* The snapshot on disk is the state in memory; and the successes of a half-open circuit are
\* those of its probes and of the calls from before it that were counted, one for each of
\* their callers: whoever has reported such a call runs nothing but probes until the phase ends.
SuccessesAreCounted ==
  /\ writable = TRUE /\ guardDisk.circuit = mem.circuit
  /\ strays \subseteq Caller /\ IsFiniteSet(strays)
  /\ HalfOpen(mem) => /\ mem.circuit.successes <= good + Cardinality(strays)
                      /\ \A c \in strays : caller[c].at \in {"runs", "ok"} => caller[c].probe

\* The instance counts a set as this module does.
LEMMA GuardCounts == ASSUME NEW S PROVE Guard!Cardinality(S) = Cardinality(S)
  BY DEF Guard!Cardinality, Cardinality

\* A step counts the successes, while callers ask before they run a tool and the disk works.
LEMMA SuccessesStep ==
  ASSUME Guard!LimitsAreCounts, DryRuns = FALSE, "disk" \notin Faults,
         GuardShape, SuccessesAreCounted, [Guard!Next]_(Guard!vars)
  PROVE  SuccessesAreCounted' /\ (Guard!EnoughProbes \/ UNCHANGED Guard!vars)
<1>0. /\ Parts(mem) /\ mem.circuit \in Circuits /\ good \in Nat /\ mem.circuit.successes \in Nat
      /\ caller \in [Caller -> [at : {"idle", "runs", "ok", "fail", "blocked"}, probe : BOOLEAN]]
      /\ Cardinality(strays) \in Nat
  BY FS_CardinalityType DEF GuardShape, Circuits, SuccessesAreCounted
<1>1. ASSUME NEW c \in Caller, NEW large \in BOOLEAN, Guard!Evaluate(c, large)
      PROVE  SuccessesAreCounted' /\ Guard!EnoughProbes
  <2> DEFINE v == Guard!Verdict(mem, large)
             probe == v.allowed /\ HalfOpen(v.mem)
             begins == mem.circuit.state = "open" /\ v.mem.circuit.state = "half_open"
  <2>1. /\ writable' = TRUE /\ mem'.circuit = v.mem.circuit /\ guardDisk' = v.mem
        /\ good' = Guard!Fresh(v.mem, good) /\ strays' = Guard!Unstrayed(v.mem)
    BY <1>1, EvaluateIs DEF SuccessesAreCounted
  <2>2. PICK at \in {"idle", "runs", "fail", "blocked"} :
          /\ at = "runs" => v.allowed
          /\ caller' = [Guard!Phase(v.mem) EXCEPT ![c] = [at |-> at, probe |-> probe /\ at = "runs"]]
    BY <1>1, EvaluateIs
  <2>3. /\ v.allowed \in BOOLEAN /\ v.mem.circuit.successes \in Nat
        /\ HalfOpen(v.mem) =>
             /\ mem.circuit.state \in {"open", "half_open"}
             /\ v.mem.circuit.successes = IF begins THEN 0 ELSE mem.circuit.successes
        /\ HalfOpen(mem) => v.mem.circuit.state # "closed"
    BY <1>0, VerdictIs DEF Circuits
  <2>4. /\ DOMAIN Guard!Phase(v.mem) = Caller
        /\ HalfOpen(v.mem) /\ HalfOpen(mem) => Guard!Phase(v.mem) = caller
    BY PhaseIs
  <2> HIDE DEF v
  <2>5. /\ caller'[c].at = at /\ caller'[c].probe = (probe /\ at = "runs")
        /\ \A d \in Caller : d # c => caller'[d] = Guard!Phase(v.mem)[d]
    <3> HIDE DEF probe
    <3> QED BY <2>2, <2>4
  <2>6. strays' \in {{}, strays} /\ strays' \subseteq Caller /\ IsFiniteSet(strays')
    BY <2>1, FS_EmptySet DEF Guard!Unstrayed, SuccessesAreCounted
  <2>7. ASSUME HalfOpen(v.mem)
        PROVE  /\ v.mem.circuit.successes <= good' + Cardinality(strays')
               /\ \A d \in strays' : caller'[d].at \in {"runs", "ok"} => caller'[d].probe
    <3>1. CASE begins
      <4>1. strays' = {} /\ good' = 0
        BY <2>1, <2>7, <3>1 DEF Guard!Fresh, Guard!Unstrayed, Guard!Begins
      <4>2. Cardinality(strays') = 0
        BY <4>1, FS_EmptySet
      <4> QED BY <2>3, <2>7, <3>1, <4>1, <4>2
    <3>2. CASE ~begins
      <4>1. HalfOpen(mem)
        BY <2>3, <2>7, <3>2 DEF HalfOpen
      <4>2. strays' = strays /\ good' = good
        BY <2>1, <4>1 DEF Guard!Fresh, Guard!Unstrayed, Guard!Begins, HalfOpen
      <4>3. v.mem.circuit.successes = mem.circuit.successes
        BY <2>3, <2>7, <3>2
      <4>4. ASSUME NEW d \in strays, caller'[d].at \in {"runs", "ok"}
            PROVE  caller'[d].probe
        <5>1. CASE d = c
          <6>1. at = "runs"
            BY <2>5, <4>4, <5>1
          <6>2. probe
            BY <2>2, <2>7, <6>1
          <6> QED BY <2>5, <5>1, <6>1, <6>2
        <5>2. CASE d # c
          BY <2>4, <2>5, <2>7, <4>1, <4>4, <5>2 DEF SuccessesAreCounted
        <5> QED BY <5>1, <5>2
      <4> QED BY <4>1, <4>2, <4>3, <4>4 DEF SuccessesAreCounted
    <3> QED BY <3>1, <3>2
  <2>8. HalfOpen(mem)' => HalfOpen(v.mem)
    BY <2>1 DEF HalfOpen
  <2>9. Guard!EnoughProbes
    BY <2>1, <2>3 DEF Guard!EnoughProbes, HalfOpen
  <2> QED BY <2>1, <2>6, <2>7, <2>8, <2>9 DEF SuccessesAreCounted
<1>2. ASSUME NEW c \in Caller, Guard!Report(c)
      PROVE  SuccessesAreCounted' /\ Guard!EnoughProbes
  <2> DEFINE m == Guard!Recorded(mem, caller[c].at)
             ok == caller[c].at = "ok"
             n == mem.circuit.successes + (IF ok THEN 1 ELSE 0)
             stray == HalfOpen(mem) /\ ~caller[c].probe /\ ok
  <2>1. /\ mem' = m /\ guardDisk' = m /\ writable' = TRUE
        /\ caller' = [Guard!Phase(m) EXCEPT ![c] = Guard!Idle]
        /\ good' = good + (IF caller[c].probe /\ ok THEN 1 ELSE 0)
        /\ strays' = IF stray THEN strays \cup {c} ELSE strays
    BY <1>2 DEF Guard!Report, SuccessesAreCounted, HalfOpen
  <2>2. /\ HalfOpen(m) => HalfOpen(mem) /\ m.circuit.successes = n
        /\ HalfOpen(mem) /\ m.circuit.state = "closed" => n >= Required
    BY <1>0, RecordedIs
  <2>3. /\ DOMAIN Guard!Phase(m) = Caller
        /\ HalfOpen(m) /\ HalfOpen(mem) => Guard!Phase(m) = caller
    BY PhaseIs
  <2> HIDE DEF m
  <2>4. strays' \subseteq Caller /\ IsFiniteSet(strays')
    BY <2>1, FS_AddElement DEF SuccessesAreCounted
  <2>5. Cardinality(strays') \in Nat
    BY <2>4, FS_CardinalityType
  <2>6. HalfOpen(mem) => n <= good' + Cardinality(strays')
    <3>1. CASE stray
      <4>1. c \notin strays
        BY <3>1 DEF SuccessesAreCounted
      <4>2. Cardinality(strays') = Cardinality(strays) + 1
        <5>1. strays' = strays \cup {c} /\ IsFiniteSet(strays)
          BY <2>1, <3>1 DEF SuccessesAreCounted
        <5> QED BY <4>1, <5>1, FS_AddElement
      <4>3. good' = good
        <5>1. good' = good + 0
          BY <2>1, <3>1
        <5> QED BY <1>0, <5>1
      <4>4. n <= mem.circuit.successes + 1
        BY <1>0
      <4>5. HalfOpen(mem) => mem.circuit.successes <= good + Cardinality(strays)
        BY DEF SuccessesAreCounted
      <4>6. /\ good \in Nat /\ Cardinality(strays) \in Nat
            /\ mem.circuit.successes \in Nat /\ n \in Nat
        BY <1>0
      <4> HIDE DEF n
      <4> QED BY <4>2, <4>3, <4>4, <4>5, <4>6
    <3>2. CASE ~stray
      <4>1. strays' = strays
        BY <2>1, <3>2
      <4>2. HalfOpen(mem) => good' = good + (IF ok THEN 1 ELSE 0)
        BY <2>1, <3>2
      <4>3. HalfOpen(mem) => mem.circuit.successes <= good + Cardinality(strays)
        BY DEF SuccessesAreCounted
      <4> HIDE DEF ok
      <4> QED BY <1>0, <4>1, <4>2, <4>3
    <3> QED BY <3>1, <3>2
  <2>7. good' \in Nat /\ n \in Nat /\ Required \in Nat
    <3> HIDE DEF ok
    <3>1. good' = good + 1 \/ good' = good + 0
      BY <2>1
    <3> QED BY <1>0, <3>1 DEF Guard!LimitsAreCounts
  <2>8. HalfOpen(m) => m.circuit.successes <= good' + Cardinality(strays')
    BY <2>2, <2>6
  <2>9. ASSUME HalfOpen(m), NEW d \in strays', caller'[d].at \in {"runs", "ok"}
        PROVE  caller'[d].probe
    <3>1. HalfOpen(mem) /\ Guard!Phase(m) = caller
      BY <2>2, <2>3, <2>9
    <3>2. d # c
      BY <2>1, <2>3, <2>9, <3>1 DEF Guard!Idle
    <3>3. d \in strays
      BY <2>1, <2>9, <3>2
    <3>4. caller'[d] = caller[d]
      BY <2>1, <2>4, <2>9, <3>1, <3>2
    <3> QED BY <2>9, <3>1, <3>3, <3>4 DEF SuccessesAreCounted
  <2>10. Guard!EnoughProbes
    <3>1. HalfOpen(mem) /\ m.circuit.state = "closed" => good' + Cardinality(strays') >= Required
      <4> HIDE DEF n
      <4> SUFFICES ASSUME HalfOpen(mem), m.circuit.state = "closed"
                   PROVE  good' + Cardinality(strays') >= Required
        OBVIOUS
      <4>1. n >= Required
        BY <2>2
      <4>2. n <= good' + Cardinality(strays')
        BY <2>6
      <4> QED BY <2>5, <2>7, <4>1, <4>2
    <3>2. mem' = m
      BY <2>1
    <3> QED BY <3>1, <3>2, GuardCounts DEF Guard!EnoughProbes, HalfOpen
  <2>11. HalfOpen(mem)' => HalfOpen(m)
    BY <2>1 DEF HalfOpen
  <2> QED BY <2>1, <2>4, <2>8, <2>9, <2>10, <2>11 DEF SuccessesAreCounted
<1>3. ASSUME NEW c \in Caller, Guard!Finish(c)
      PROVE  SuccessesAreCounted' /\ Guard!EnoughProbes
  <2>1. /\ caller[c].at = "runs" /\ UNCHANGED <<mem, guardDisk, writable, good, strays>>
        /\ \E how : caller' = [caller EXCEPT ![c].at = how]
    BY <1>3 DEF Guard!Finish
  <2>2. \A d \in Caller : /\ caller'[d].probe = caller[d].probe
                          /\ caller'[d].at = caller[d].at \/ caller[d].at = "runs"
    BY <1>0, <2>1
  <2>3. HalfOpen(mem) => \A d \in strays : caller'[d].at \in {"runs", "ok"} => caller'[d].probe
    BY <2>2 DEF SuccessesAreCounted
  <2> QED BY <2>1, <2>3 DEF SuccessesAreCounted, HalfOpen, Guard!EnoughProbes
<1>4. ASSUME NEW c \in Caller, Guard!Lose(c)
      PROVE  SuccessesAreCounted' /\ Guard!EnoughProbes
  <2>1. /\ UNCHANGED <<mem, guardDisk, writable, good, strays>>
        /\ caller' = [caller EXCEPT ![c] = Guard!Idle]
    BY <1>4 DEF Guard!Lose
  <2>2. \A d \in Caller : caller'[d].at = "idle" \/ caller'[d] = caller[d]
    BY <1>0, <2>1 DEF Guard!Idle
  <2>3. HalfOpen(mem) => \A d \in strays : caller'[d].at \in {"runs", "ok"} => caller'[d].probe
    BY <2>2 DEF SuccessesAreCounted
  <2> QED BY <2>1, <2>3 DEF SuccessesAreCounted, HalfOpen, Guard!EnoughProbes
<1>5. CASE Guard!MetricsFail
  <2> DEFINE u == Guard!Unavailable(mem)
  <2>1. mem' = u /\ guardDisk' = u /\ UNCHANGED <<writable, caller, good, strays>>
    BY <1>5 DEF Guard!MetricsFail, SuccessesAreCounted
  <2>2. u.circuit = mem.circuit
    BY <1>0, PartsExcept DEF Guard!Unavailable
  <2> HIDE DEF u
  <2> QED BY <2>1, <2>2 DEF SuccessesAreCounted, HalfOpen, Guard!EnoughProbes
<1>6. CASE Guard!Crash
  <2>1. /\ mem' = guardDisk /\ UNCHANGED <<guardDisk, writable>>
        /\ good' = Guard!Fresh(guardDisk, good) /\ strays' = Guard!Unstrayed(guardDisk)
    BY <1>6 DEF Guard!Crash
  <2>2. PICK gone \in SUBSET Caller :
          caller' = [c \in Caller |-> IF c \in gone THEN Guard!Idle ELSE Guard!Phase(guardDisk)[c]]
    BY <1>6 DEF Guard!Crash
  <2>3. mem'.circuit = mem.circuit /\ good' = good /\ strays' = strays
    BY <2>1 DEF SuccessesAreCounted, Guard!Fresh, Guard!Unstrayed, Guard!Begins
  <2>4. ASSUME HalfOpen(mem), NEW d \in strays, caller'[d].at \in {"runs", "ok"}
        PROVE  caller'[d].probe
    <3>1. Guard!Phase(guardDisk) = caller
      BY <2>4, PhaseIs DEF SuccessesAreCounted, HalfOpen
    <3>2. caller'[d] = caller[d]
      BY <2>2, <2>4, <3>1 DEF Guard!Idle, SuccessesAreCounted
    <3> QED BY <2>4, <3>2 DEF SuccessesAreCounted
  <2> QED BY <2>1, <2>3, <2>4 DEF SuccessesAreCounted, HalfOpen, Guard!EnoughProbes
<1>7. CASE Guard!Tick
  <2>1. mem' = Aged(mem) /\ guardDisk' = Aged(guardDisk) /\ UNCHANGED <<writable, caller, good, strays>>
    BY <1>7 DEF Guard!Tick, Aged
  <2>2. /\ Aged(mem).circuit.state = mem.circuit.state
        /\ Aged(mem).circuit.successes = mem.circuit.successes
    BY <1>0, AgedIs
  <2>3. Aged(guardDisk).circuit = Aged(mem).circuit
    <3>1. Parts(guardDisk) /\ guardDisk.circuit \in Circuits /\ guardDisk.circuit = mem.circuit
      BY <1>0 DEF GuardShape, SuccessesAreCounted
    <3> DEFINE C(q) == [q EXCEPT !.age = IF q.state = "open" /\ q.age < OpenTime
                                        THEN q.age + 1 ELSE q.age]
    <3>2. Aged(mem).circuit = C(mem.circuit)
      BY <1>0, AgedIs
    <3>3. Aged(guardDisk).circuit = C(guardDisk.circuit)
      BY <3>1, AgedIs
    <3> QED BY <3>1, <3>2, <3>3
  <2> QED BY <2>1, <2>2, <2>3 DEF SuccessesAreCounted, HalfOpen, Guard!EnoughProbes
<1>8. CASE Guard!Disk \/ Guard!Settle
  <2>1. UNCHANGED <<mem, guardDisk, caller, good, strays>> /\ writable' = TRUE
    BY <1>8 DEF Guard!Disk, Guard!Settle
  <2> QED BY <2>1 DEF SuccessesAreCounted, HalfOpen, Guard!EnoughProbes
<1>9. CASE UNCHANGED Guard!vars
  BY <1>9 DEF Guard!vars, SuccessesAreCounted, HalfOpen
<1> QED BY <1>1, <1>2, <1>3, <1>4, <1>5, <1>6, <1>7, <1>8, <1>9 DEF Guard!Next

\* A circuit is closed by the successes of as many calls as are required: of probes and, of
\* any number of callers, of at most one call of each from before the half-open phase; over
\* lost reports, crashes and executions that cannot be recorded.
THEOREM ProbesClose ==
  ASSUME Guard!LimitsAreCounts, DryRuns = FALSE, "disk" \notin Faults
  PROVE  Guard!Spec => Guard!ClosedByProbes
<1>1. Guard!Init => GuardShape /\ ProbesCounted /\ SuccessesAreCounted
  <2>1. Guard!Init => guardDisk = mem /\ strays = {}
    BY DEF Guard!Init
  <2> QED BY <2>1, GuardBegins, FS_EmptySet DEF SuccessesAreCounted
<1>2. GuardShape /\ ProbesCounted /\ SuccessesAreCounted /\ [Guard!Next]_(Guard!vars)
        => (GuardShape /\ ProbesCounted /\ SuccessesAreCounted)'
  BY GuardStep, SuccessesStep
<1>3. GuardShape /\ SuccessesAreCounted /\ [Guard!Next]_(Guard!vars)
        => [Guard!EnoughProbes]_(Guard!vars)
  BY SuccessesStep
<1> QED BY <1>1, <1>2, <1>3, PTL DEF Guard!Spec, Guard!ClosedByProbes

-----------------------------------------------------------------------------
\* The calls of the window, oldest first.
Ordered(s) == \A i, j \in 1 .. Len(s) : i <= j => s[j] <= s[i]

\* The hits that are kept fit the limit, and the last of them are at most as old as what they
\* stand for, the calls that were allowed: none of these leaves the hits before the window.
Covers(h, s) ==
  /\ h \in Seq(0 .. (RateWindow + 1)) /\ Len(h) <= RateLimit /\ Len(s) <= Len(h)
  /\ \A k \in 0 .. (Len(s) - 1) : h[Len(h) - k] <= s[Len(s) - k]

RateKept ==
  /\ seen \in Seq(0 .. RateWindow) /\ Ordered(seen)
  /\ Covers(mem.hits, seen) /\ Covers(guardDisk.hits, seen)

\* What is remembered of the outcomes, and the health.
LogKept ==
  \A m \in {mem, guardDisk} :
     m.history \in Seq(Guard!Status) /\ Len(m.history) <= Window /\ m.healthy \in BOOLEAN

\* Each hit of a window is an age.
LEMMA HitsAre ==
  ASSUME NEW A, NEW q \in Seq(A)
  PROVE  Len(q) \in Nat /\ \A i \in 1 .. Len(q) : q[i] \in A
OBVIOUS

\* Dropping old hits from the front: up to the first that is within the window.
LEMMA RecentIs ==
  ASSUME Guard!LimitsAreCounts, NEW h \in Seq(0 .. (RateWindow + 1))
  PROVE  \E n \in 0 .. Len(h) : /\ Guard!Recent(h) = SubSeq(h, n + 1, Len(h))
                                /\ \A i \in 1 .. n : h[i] > RateWindow
                                /\ n < Len(h) => h[n + 1] <= RateWindow
<1> DEFINE P(n) == /\ \A i \in 1 .. n : h[i] > RateWindow
                   /\ n < Len(h) => h[n + 1] <= RateWindow
           T == {i \in 1 .. Len(h) : h[i] <= RateWindow}
<1>0. /\ RateWindow \in Nat /\ Len(h) \in Nat
      /\ \A i \in 1 .. Len(h) : h[i] \in Nat
  BY DEF Guard!LimitsAreCounts
<1>1. \E n \in 0 .. Len(h) : P(n)
  <2>1. CASE T = {}
    <3>1. Len(h) \in 0 .. Len(h) /\ P(Len(h))
      BY <1>0, <2>1
    <3> QED BY <3>1
  <2>2. CASE T # {}
    <3> DEFINE R == OpToRel(<, Nat)
    <3>1. PICK i \in T : \A j \in T : <<j, i>> \notin R
      <4>1. T \subseteq Nat
        BY <1>0
      <4>2. IsWellFoundedOn(R, Nat)
        BY NatLessThanWellFounded
      <4> HIDE DEF T, R
      <4> QED BY <2>2, <4>1, <4>2, WFMin
    <3>2. ASSUME NEW j \in T
          PROVE  ~ (j < i)
      <4>1. \A k, l \in Nat : k < l => <<k, l>> \in R
        BY DEF OpToRel
      <4>2. i \in Nat /\ j \in Nat
        BY <1>0
      <4> HIDE DEF R
      <4> QED BY <3>1, <4>1, <4>2
    <3>3. i \in 1 .. Len(h) /\ h[i] <= RateWindow /\ i - 1 \in 0 .. Len(h) /\ i - 1 + 1 = i
      BY <1>0
    <3>4. ASSUME NEW j \in 1 .. (i - 1)
          PROVE  h[j] > RateWindow
      <4>1. j \in 1 .. Len(h) /\ j < i
        BY <1>0, <3>3
      <4>2. j \notin T
        BY <3>2, <4>1
      <4> QED BY <1>0, <4>1, <4>2
    <3>5. P(i - 1)
      BY <3>3, <3>4
    <3> HIDE DEF P
    <3> QED BY <3>3, <3>5
  <2> QED BY <2>1, <2>2
<1>2. Guard!LeftWindow(h) = CHOOSE n \in 0 .. Len(h) : P(n)
  BY DEF Guard!LeftWindow
<1>3. Guard!LeftWindow(h) \in 0 .. Len(h) /\ P(Guard!LeftWindow(h))
  <2> HIDE DEF P
  <2> QED BY <1>1, <1>2
<1> QED BY <1>3 DEF Guard!Recent

\* What is dropped stood for no call that is still counted.
LEMMA CoversRecent ==
  ASSUME Guard!LimitsAreCounts, NEW s \in Seq(0 .. RateWindow), NEW h, Covers(h, s)
  PROVE  Covers(Guard!Recent(h), s)
<1> DEFINE r == Guard!Recent(h)
<1>0. /\ RateWindow \in Nat /\ RateLimit \in Nat /\ Len(h) \in Nat /\ Len(s) \in Nat
      /\ h \in Seq(0 .. (RateWindow + 1)) /\ Len(h) <= RateLimit /\ Len(s) <= Len(h)
      /\ \A k \in 0 .. (Len(s) - 1) : h[Len(h) - k] <= s[Len(s) - k]
      /\ \A i \in 1 .. Len(s) : s[i] \in 0 .. RateWindow
      /\ \A i \in 1 .. Len(h) : h[i] \in 0 .. (RateWindow + 1)
  <2>1. /\ h \in Seq(0 .. (RateWindow + 1)) /\ Len(h) <= RateLimit /\ Len(s) <= Len(h)
        /\ \A k \in 0 .. (Len(s) - 1) : h[Len(h) - k] <= s[Len(s) - k]
    BY DEF Covers
  <2>2. Len(s) \in Nat /\ \A i \in 1 .. Len(s) : s[i] \in 0 .. RateWindow
    BY HitsAre
  <2>3. Len(h) \in Nat /\ \A i \in 1 .. Len(h) : h[i] \in 0 .. (RateWindow + 1)
    BY <2>1, HitsAre
  <2>4. RateWindow \in Nat /\ RateLimit \in Nat
    BY DEF Guard!LimitsAreCounts
  <2> QED BY <2>1, <2>2, <2>3, <2>4
<1>1. PICK n \in 0 .. Len(h) : /\ r = SubSeq(h, n + 1, Len(h))
                               /\ \A i \in 1 .. n : h[i] > RateWindow
  BY <1>0, RecentIs
<1>2. n <= Len(h) - Len(s)
  <2>1. SUFFICES ASSUME n > Len(h) - Len(s) PROVE FALSE
    BY <1>0
  <2>2. Len(s) - 1 \in 0 .. (Len(s) - 1) /\ Len(h) - (Len(s) - 1) \in 1 .. n
        /\ Len(s) - (Len(s) - 1) = 1 /\ 1 \in 1 .. Len(s)
        /\ Len(h) - (Len(s) - 1) \in 1 .. Len(h)
    BY <1>0, <2>1
  <2>3. s[1] \in 0 .. RateWindow
    BY <1>0, <2>2
  <2>4. h[Len(h) - (Len(s) - 1)] \in 0 .. (RateWindow + 1)
    BY <1>0, <2>2
  <2>5. h[Len(h) - (Len(s) - 1)] > RateWindow /\ h[Len(h) - (Len(s) - 1)] <= s[1]
    BY <1>0, <1>1, <2>2
  <2> QED BY <1>0, <2>3, <2>4, <2>5
<1> HIDE DEF r
<1>3. /\ r \in Seq(0 .. (RateWindow + 1)) /\ Len(r) = Len(h) - n
      /\ \A i \in 1 .. (Len(h) - n) : r[i] = h[n + i]
  BY <1>0, <1>1
<1>4. ASSUME NEW k \in 0 .. (Len(s) - 1)
      PROVE  r[Len(r) - k] <= s[Len(s) - k]
  <2>1. Len(r) - k \in 1 .. (Len(h) - n) /\ n + (Len(r) - k) = Len(h) - k
    <3>1. /\ n \in Nat /\ Len(r) = Len(h) - n /\ n <= Len(h) - Len(s) /\ k \in Nat
          /\ k <= Len(s) - 1
      BY <1>0, <1>2, <1>3
    <3>2. Len(h) \in Nat /\ Len(s) \in Nat
      BY <1>0
    <3> HIDE DEF r
    <3> QED BY <3>1, <3>2
  <2>2. r[Len(r) - k] = h[n + (Len(r) - k)]
    BY <1>3, <2>1
  <2> QED BY <1>0, <2>1, <2>2
<1>5. Len(r) <= RateLimit /\ Len(s) <= Len(r)
  BY <1>0, <1>2, <1>3
<1> QED BY <1>3, <1>4, <1>5 DEF Covers, r

\* A hit of now covers a call of now, and leaves the others covered.
LEMMA CoversNow ==
  ASSUME Guard!LimitsAreCounts, NEW s \in Seq(0 .. RateWindow), Ordered(s), NEW h, Covers(h, s),
         Len(h) < RateLimit
  PROVE  /\ Covers(Append(h, 0), s) /\ Covers(Append(h, 0), Append(s, 0))
         /\ Append(s, 0) \in Seq(0 .. RateWindow) /\ Ordered(Append(s, 0))
<1> DEFINE r == Append(h, 0)
           t == Append(s, 0)
<1>0. /\ RateWindow \in Nat /\ RateLimit \in Nat /\ Len(h) \in Nat /\ Len(s) \in Nat
      /\ h \in Seq(0 .. (RateWindow + 1)) /\ Len(h) <= RateLimit /\ Len(s) <= Len(h)
      /\ \A k \in 0 .. (Len(s) - 1) : h[Len(h) - k] <= s[Len(s) - k]
      /\ \A i, j \in 1 .. Len(s) : i <= j => s[j] <= s[i]
      /\ \A i \in 1 .. Len(s) : s[i] \in 0 .. RateWindow
      /\ \A i \in 1 .. Len(h) : h[i] \in 0 .. (RateWindow + 1)
  <2>1. /\ h \in Seq(0 .. (RateWindow + 1)) /\ Len(h) <= RateLimit /\ Len(s) <= Len(h)
        /\ \A k \in 0 .. (Len(s) - 1) : h[Len(h) - k] <= s[Len(s) - k]
    BY DEF Covers
  <2>2. \A i, j \in 1 .. Len(s) : i <= j => s[j] <= s[i]
    BY DEF Ordered
  <2>3. Len(s) \in Nat /\ \A i \in 1 .. Len(s) : s[i] \in 0 .. RateWindow
    BY HitsAre
  <2>4. Len(h) \in Nat /\ \A i \in 1 .. Len(h) : h[i] \in 0 .. (RateWindow + 1)
    BY <2>1, HitsAre
  <2>5. RateWindow \in Nat /\ RateLimit \in Nat
    BY DEF Guard!LimitsAreCounts
  <2> QED BY <2>1, <2>2, <2>3, <2>4, <2>5
<1>1. /\ r \in Seq(0 .. (RateWindow + 1)) /\ Len(r) = Len(h) + 1 /\ r[Len(h) + 1] = 0
      /\ \A i \in 1 .. Len(h) : r[i] = h[i]
  BY <1>0
<1>2. /\ t \in Seq(0 .. RateWindow) /\ Len(t) = Len(s) + 1 /\ t[Len(s) + 1] = 0
      /\ \A i \in 1 .. Len(s) : t[i] = s[i]
  BY <1>0
<1> HIDE DEF r, t
<1>3. ASSUME NEW k \in 0 .. (Len(s) - 1)
      PROVE  r[Len(r) - k] <= s[Len(s) - k]
  <2>0. Len(s) - k \in 1 .. Len(s)
    BY <1>0
  <2>1. CASE k = 0
    <3>1. r[Len(r) - k] = 0
      BY <1>0, <1>1, <2>1
    <3>2. s[Len(s) - k] \in 0 .. RateWindow
      <4> DEFINE p == Len(s) - k
      <4>1. p \in 1 .. Len(s)
        BY <2>0
      <4> HIDE DEF p
      <4>2. s[p] \in 0 .. RateWindow
        BY <4>1, HitsAre
      <4> QED BY <4>2 DEF p
    <3>3. s[Len(s) - k] >= 0
      BY <3>2
    <3> QED BY <3>1, <3>3
  <2>2. CASE k # 0
    <3>1. /\ k - 1 \in 0 .. (Len(s) - 1) /\ Len(h) - (k - 1) \in 1 .. Len(h)
          /\ Len(r) - k = Len(h) - (k - 1) /\ Len(s) - (k - 1) \in 1 .. Len(s)
          /\ Len(s) - k <= Len(s) - (k - 1)
      <4>1. /\ k \in 1 .. (Len(s) - 1) /\ Len(r) = Len(h) + 1 /\ Len(s) \in Nat /\ Len(h) \in Nat
            /\ Len(s) <= Len(h)
        BY <1>0, <1>1, <2>2
      <4> QED BY <4>1
    <3>2. r[Len(r) - k] = h[Len(h) - (k - 1)] /\ h[Len(h) - (k - 1)] <= s[Len(s) - (k - 1)]
      BY <1>0, <1>1, <3>1
    <3>3. s[Len(s) - (k - 1)] <= s[Len(s) - k]
      BY <1>0, <2>0, <3>1
    <3>4. /\ h[Len(h) - (k - 1)] \in Nat /\ s[Len(s) - (k - 1)] \in Nat /\ s[Len(s) - k] \in Nat
      <4>1. /\ h[Len(h) - (k - 1)] \in 0 .. (RateWindow + 1)
            /\ s[Len(s) - (k - 1)] \in 0 .. RateWindow /\ s[Len(s) - k] \in 0 .. RateWindow
        BY <1>0, <2>0, <3>1
      <4> QED BY <4>1
    <3> QED BY <3>2, <3>3, <3>4
  <2> QED BY <2>1, <2>2
<1>4. ASSUME NEW k \in 0 .. (Len(t) - 1)
      PROVE  r[Len(r) - k] <= t[Len(t) - k]
  <2>1. CASE k = 0
    BY <1>0, <1>1, <1>2, <2>1
  <2>2. CASE k # 0
    <3>1. /\ k - 1 \in 0 .. (Len(s) - 1) /\ Len(h) - (k - 1) \in 1 .. Len(h)
          /\ Len(r) - k = Len(h) - (k - 1) /\ Len(s) - (k - 1) \in 1 .. Len(s)
          /\ Len(t) - k = Len(s) - (k - 1)
      BY <1>0, <1>1, <1>2, <2>2
    <3> QED BY <1>0, <1>1, <1>2, <3>1
  <2> QED BY <2>1, <2>2
<1>5. ASSUME NEW i \in 1 .. Len(t), NEW j \in 1 .. Len(t), i <= j
      PROVE  t[j] <= t[i]
  <2>1. CASE j = Len(s) + 1
    <3>1. t[j] = 0
      BY <1>2, <2>1
    <3>2. t[i] \in 0 .. RateWindow
      BY <1>2, HitsAre
    <3> QED BY <1>0, <3>1, <3>2
  <2>2. CASE j # Len(s) + 1
    <3>1. i \in 1 .. Len(s) /\ j \in 1 .. Len(s)
      <4>1. /\ i \in 1 .. (Len(s) + 1) /\ j \in 1 .. (Len(s) + 1) /\ i <= j /\ j # Len(s) + 1
            /\ Len(s) \in Nat
        BY <1>0, <1>2, <1>5, <2>2
      <4> QED BY <4>1
    <3> QED BY <1>0, <1>2, <1>5, <3>1
  <2> QED BY <2>1, <2>2
<1>6. Covers(r, s)
  BY <1>0, <1>1, <1>3 DEF Covers
<1>7. Covers(r, t)
  BY <1>0, <1>1, <1>2, <1>4 DEF Covers
<1>8. Ordered(t)
  BY <1>5 DEF Ordered
<1> QED BY <1>2, <1>6, <1>7, <1>8 DEF r, t

\* When a unit of time has passed each is older by one.
LEMMA OlderIs ==
  ASSUME Guard!LimitsAreCounts, NEW h \in Seq(0 .. (RateWindow + 1))
  PROVE  LET r == Guard!Older(h, RateWindow + 1)
         IN /\ r \in Seq(0 .. (RateWindow + 1)) /\ Len(r) = Len(h)
            /\ \A i \in 1 .. Len(h) : r[i] = IF h[i] < RateWindow + 1 THEN h[i] + 1 ELSE RateWindow + 1
<1> DEFINE a(i) == IF h[i] < RateWindow + 1 THEN h[i] + 1 ELSE RateWindow + 1
           r == Guard!Older(h, RateWindow + 1)
<1>1. \A i \in 1 .. Len(h) : a(i) \in 0 .. (RateWindow + 1)
  <2>1. RateWindow \in Nat /\ \A i \in 1 .. Len(h) : h[i] \in 0 .. (RateWindow + 1)
    BY HitsAre DEF Guard!LimitsAreCounts
  <2> QED BY <2>1
<1>2. r = [i \in 1 .. Len(h) |-> a(i)]
  BY DEF Guard!Older
<1> HIDE DEF a, r
<1>3. r \in Seq(0 .. (RateWindow + 1)) /\ Len(r) = Len(h) /\ \A i \in 1 .. Len(h) : r[i] = a(i)
  BY <1>1, <1>2
<1> QED BY <1>3 DEF a, r

\* What is left of a sequence when the first of it are dropped; and a sequence whose elements
\* are of a set.
LEMMA TailIs ==
  ASSUME NEW S, NEW h \in Seq(S), NEW n \in 0 .. Len(h)
  PROVE  SubSeq(h, n + 1, Len(h)) \in Seq(S)
OBVIOUS

LEMMA ElementsOf ==
  ASSUME NEW S, NEW T, NEW h \in Seq(S), \A i \in 1 .. Len(h) : h[i] \in T
  PROVE  h \in Seq(T)
<1>1. h \in [1 .. Len(h) -> S] /\ Len(h) \in Nat
  OBVIOUS
<1>2. h \in [1 .. Len(h) -> T]
  BY <1>1
<1> QED BY <1>1, <1>2

\* Of the calls those of the window are left, and the hits, older too, cover them.
LEMMA CoversOlder ==
  ASSUME Guard!LimitsAreCounts, NEW s \in Seq(0 .. RateWindow), Ordered(s)
  PROVE  LET t == Guard!Recent(Guard!Older(s, RateWindow + 1))
         IN /\ t \in Seq(0 .. RateWindow) /\ Ordered(t)
            /\ \A h : Covers(h, s) => Covers(Guard!Older(h, RateWindow + 1), t)
<1> DEFINE o == Guard!Older(s, RateWindow + 1)
           t == Guard!Recent(o)
<1>0. /\ RateWindow \in Nat /\ RateLimit \in Nat /\ Len(s) \in Nat
      /\ s \in Seq(0 .. (RateWindow + 1))
      /\ \A i, j \in 1 .. Len(s) : i <= j => s[j] <= s[i]
      /\ \A i \in 1 .. Len(s) : s[i] \in 0 .. RateWindow
  <2>1. RateWindow \in Nat /\ RateLimit \in Nat
    BY DEF Guard!LimitsAreCounts
  <2>2. Len(s) \in Nat /\ \A i \in 1 .. Len(s) : s[i] \in 0 .. RateWindow
    BY HitsAre
  <2>3. \A i \in 0 .. RateWindow : i \in 0 .. (RateWindow + 1)
    BY <2>1
  <2>4. s \in Seq(0 .. (RateWindow + 1))
    BY <2>2, <2>3, ElementsOf
  <2>5. \A i, j \in 1 .. Len(s) : i <= j => s[j] <= s[i]
    BY DEF Ordered
  <2> QED BY <2>1, <2>2, <2>4, <2>5
<1>1. /\ o \in Seq(0 .. (RateWindow + 1)) /\ Len(o) = Len(s)
      /\ \A i \in 1 .. Len(s) : o[i] = s[i] + 1
  BY <1>0, OlderIs
<1> HIDE DEF o
<1>2. PICK n \in 0 .. Len(s) : /\ t = SubSeq(o, n + 1, Len(s))
                               /\ n < Len(s) => o[n + 1] <= RateWindow
  BY <1>1, RecentIs
<1> HIDE DEF t
<1>3. /\ Len(t) = Len(s) - n
      /\ \A i \in 1 .. (Len(s) - n) : t[i] = o[n + i]
  BY <1>0, <1>1, <1>2
<1>4. \A i \in 1 .. (Len(s) - n) : t[i] = s[n + i] + 1
  BY <1>0, <1>1, <1>3
<1>5. \A i, j \in 1 .. (Len(s) - n) : i <= j => t[j] <= t[i]
  <2>1. ASSUME NEW i \in 1 .. (Len(s) - n), NEW j \in 1 .. (Len(s) - n), i <= j
        PROVE  t[j] <= t[i]
    <3>1. n + i \in 1 .. Len(s) /\ n + j \in 1 .. Len(s) /\ n + i <= n + j
      BY <1>0, <2>1
    <3>2. s[n + j] <= s[n + i] /\ s[n + j] \in Nat /\ s[n + i] \in Nat
      BY <1>0, <3>1
    <3> QED BY <1>4, <3>2
  <2> QED BY <2>1
<1>6. \A i \in 1 .. (Len(s) - n) : t[i] \in 0 .. RateWindow
  <2>1. ASSUME NEW i \in 1 .. (Len(s) - n)
        PROVE  t[i] \in 0 .. RateWindow
    <3>1. 1 \in 1 .. (Len(s) - n) /\ n < Len(s) /\ n + i \in 1 .. Len(s) /\ 1 <= i
      BY <1>0, <2>1
    <3>2. t[1] <= RateWindow
      BY <1>2, <1>3, <3>1
    <3>3. t[i] <= t[1]
      BY <1>5, <3>1
    <3>4. t[i] \in Nat /\ t[1] \in Nat
      <4>1. n + 1 \in 1 .. Len(s) /\ t[i] = s[n + i] + 1 /\ t[1] = s[n + 1] + 1
        BY <1>0, <1>4, <3>1
      <4>2. s[n + i] \in 0 .. RateWindow /\ s[n + 1] \in 0 .. RateWindow
        BY <1>0, <3>1, <4>1
      <4> QED BY <4>1, <4>2
    <3> QED BY <1>0, <3>2, <3>3, <3>4
  <2> QED BY <2>1
<1>7. t \in Seq(0 .. RateWindow)
  <2>1. t = SubSeq(o, n + 1, Len(o)) /\ n \in 0 .. Len(o) /\ o \in Seq(0 .. (RateWindow + 1))
    BY <1>1, <1>2
  <2>2. t \in Seq(0 .. (RateWindow + 1))
    BY <2>1, TailIs
  <2>3. \A i \in 1 .. Len(t) : t[i] \in 0 .. RateWindow
    BY <1>3, <1>6
  <2> QED BY <2>2, <2>3, ElementsOf
<1>8. Ordered(t)
  BY <1>3, <1>5 DEF Ordered
<1>9. ASSUME NEW h, Covers(h, s)
      PROVE  Covers(Guard!Older(h, RateWindow + 1), t)
  <2> DEFINE r == Guard!Older(h, RateWindow + 1)
  <2>1. /\ h \in Seq(0 .. (RateWindow + 1)) /\ Len(h) <= RateLimit /\ Len(s) <= Len(h)
        /\ Len(h) \in Nat
        /\ \A k \in 0 .. (Len(s) - 1) : h[Len(h) - k] <= s[Len(s) - k]
    BY <1>9 DEF Covers
  <2>a. \A i \in 1 .. Len(h) : h[i] \in 0 .. (RateWindow + 1)
    <3> DEFINE S == 0 .. (RateWindow + 1)
    <3>1. h \in Seq(S)
      BY <2>1
    <3> HIDE DEF S
    <3>2. \A i \in 1 .. Len(h) : h[i] \in S
      BY <3>1
    <3> QED BY <3>2 DEF S
  <2>2. /\ r \in Seq(0 .. (RateWindow + 1)) /\ Len(r) = Len(h)
        /\ \A i \in 1 .. Len(h) : r[i] = IF h[i] < RateWindow + 1 THEN h[i] + 1 ELSE RateWindow + 1
    BY <2>1, OlderIs
  <2> HIDE DEF r
  <2>3. ASSUME NEW k \in 0 .. (Len(t) - 1)
        PROVE  r[Len(r) - k] <= t[Len(t) - k]
    <3>1. /\ k \in 0 .. (Len(s) - 1) /\ Len(h) - k \in 1 .. Len(h) /\ Len(t) - k \in 1 .. (Len(s) - n)
          /\ n + (Len(t) - k) = Len(s) - k /\ Len(s) - k \in 1 .. Len(s)
      <4>1. /\ Len(t) = Len(s) - n /\ Len(s) \in Nat /\ Len(h) \in Nat /\ Len(s) <= Len(h)
            /\ n \in 0 .. Len(s)
        BY <1>0, <1>3, <2>1
      <4>2. k \in 0 .. (Len(s) - n - 1)
        BY <4>1
      <4> QED BY <4>1, <4>2
    <3>2. /\ h[Len(h) - k] <= s[Len(s) - k] /\ h[Len(h) - k] \in 0 .. (RateWindow + 1)
          /\ s[Len(s) - k] \in 0 .. RateWindow
      BY <1>0, <2>1, <2>a, <3>1
    <3> DEFINE a == h[Len(h) - k]
               b == s[Len(s) - k]
    <3>3. r[Len(r) - k] = IF a < RateWindow + 1 THEN a + 1 ELSE RateWindow + 1
      BY <2>2, <3>1
    <3>4. t[Len(t) - k] = b + 1
      BY <1>4, <3>1
    <3>5. a <= b /\ a \in 0 .. (RateWindow + 1) /\ b \in 0 .. RateWindow /\ RateWindow \in Nat
      BY <1>0, <3>2
    <3> HIDE DEF a, b, r
    <3> QED BY <3>3, <3>4, <3>5
  <2>4. Len(t) <= Len(r)
    BY <1>0, <1>3, <2>1, <2>2
  <2> QED BY <2>1, <2>2, <2>3, <2>4 DEF Covers, r
<1> QED BY <1>7, <1>8, <1>9 DEF t, o

\* What else is left of a state when one part of it changes.
LEMMA RestExcept ==
  ASSUME NEW m, Parts(m), NEW x
  PROVE  /\ /\ [m EXCEPT !.hits = x].hits = x /\ [m EXCEPT !.hits = x].history = m.history
            /\ [m EXCEPT !.hits = x].healthy = m.healthy
         /\ /\ [m EXCEPT !.circuit = x].hits = m.hits
            /\ [m EXCEPT !.circuit = x].history = m.history
            /\ [m EXCEPT !.circuit = x].healthy = m.healthy
         /\ /\ [m EXCEPT !.healthy = x].hits = m.hits
            /\ [m EXCEPT !.healthy = x].history = m.history
            /\ [m EXCEPT !.healthy = x].healthy = x
         /\ /\ [m EXCEPT !.history = x].hits = m.hits /\ [m EXCEPT !.history = x].history = x
            /\ [m EXCEPT !.history = x].healthy = m.healthy
<1> DEFINE a == m.circuit
           b == m.history
           c == m.hits
           d == m.healthy
<1>1. m = [circuit |-> a, history |-> b, hits |-> c, healthy |-> d]
  BY DEF Parts
<1>2. m.history = b /\ m.hits = c /\ m.healthy = d
  OBVIOUS
<1> HIDE DEF a, b, c, d
<1>3. [m EXCEPT !.hits = x] = [circuit |-> a, history |-> b, hits |-> x, healthy |-> d]
  BY <1>1
<1>4. [m EXCEPT !.circuit = x] = [circuit |-> x, history |-> b, hits |-> c, healthy |-> d]
  BY <1>1
<1>5. [m EXCEPT !.healthy = x] = [circuit |-> a, history |-> b, hits |-> c, healthy |-> x]
  BY <1>1
<1>6. [m EXCEPT !.history = x] = [circuit |-> a, history |-> x, hits |-> c, healthy |-> d]
  BY <1>1
<1>7. ASSUME NEW w, NEW y, NEW z, NEW u, NEW r,
             r = [circuit |-> w, history |-> y, hits |-> z, healthy |-> u]
      PROVE  r.history = y /\ r.hits = z /\ r.healthy = u
  BY <1>7
<1>8. [m EXCEPT !.hits = x].history = b /\ [m EXCEPT !.hits = x].hits = x
      /\ [m EXCEPT !.hits = x].healthy = d
  BY <1>3, <1>7
<1>9. [m EXCEPT !.circuit = x].history = b /\ [m EXCEPT !.circuit = x].hits = c
      /\ [m EXCEPT !.circuit = x].healthy = d
  BY <1>4, <1>7
<1>10. [m EXCEPT !.healthy = x].history = b /\ [m EXCEPT !.healthy = x].hits = c
       /\ [m EXCEPT !.healthy = x].healthy = x
  BY <1>5, <1>7
<1>11. [m EXCEPT !.history = x].history = x /\ [m EXCEPT !.history = x].hits = c
       /\ [m EXCEPT !.history = x].healthy = d
  BY <1>6, <1>7
<1> QED BY <1>2, <1>8, <1>9, <1>10, <1>11

\* A call that goes ahead under a limit adds its hit, and only when there is room for one.
LEMMA VerdictHits ==
  ASSUME Guard!LimitsAreCounts, NEW m, Parts(m), m.circuit \in Circuits, NEW large \in BOOLEAN,
         m.hits \in Seq(0 .. (RateWindow + 1))
  PROVE  LET v == Guard!Verdict(m, large)
             r == Guard!Recent(m.hits)
         IN /\ v.mem.history = m.history /\ v.mem.healthy = m.healthy
            /\ \/ v.mem.hits = r /\ (v.allowed => RateLimit = 0)
               \/ RateLimit > 0 /\ Len(r) < RateLimit /\ v.mem.hits = Append(r, 0)
<1> DEFINE p == Guard!Pruned(m)
           q == Guard!Refreshed(p)
           hit == IF RateLimit > 0 THEN [q EXCEPT !.hits = Append(@, 0)] ELSE q
           c == [hit.circuit EXCEPT !.attempts = @ + 1]
           tried == [hit EXCEPT !.circuit.attempts = @ + 1]
           opened == [hit EXCEPT !.circuit = Guard!Open]
           full == RateLimit > 0 /\ Len(q.hits) >= RateLimit
           spent == q.circuit.attempts >= MaxProbes
           r == Guard!Recent(m.hits)
           v == Guard!Verdict(m, large)
           Log(s, h) == s.history = m.history /\ s.healthy = m.healthy /\ s.hits = h
<1>1. Parts(p) /\ Log(p, r) /\ p.circuit = m.circuit
  <2>1. p = [m EXCEPT !.hits = r]
    BY DEF Guard!Pruned
  <2> HIDE DEF p, r
  <2>2. Parts(p) /\ p.circuit = m.circuit
    BY <2>1, PartsExcept
  <2>3. Log(p, r)
    BY <2>1, RestExcept
  <2> QED BY <2>2, <2>3
<1>2. Parts(q) /\ Log(q, r)
  <2> HIDE DEF p
  <2>1. q = p \/ q = [p EXCEPT !.circuit = Guard!HalfOpen]
    BY DEF Guard!Refreshed
  <2> DEFINE half == [p EXCEPT !.circuit = Guard!HalfOpen]
  <2> HIDE DEF r
  <2>2. Parts(half)
    BY <1>1, PartsExcept
  <2>3. Log(half, r)
    BY <1>1, RestExcept
  <2> QED BY <1>1, <2>1, <2>2, <2>3
<1>3. Len(r) \in Nat
  <2>1. \E n \in 0 .. Len(m.hits) : r = SubSeq(m.hits, n + 1, Len(m.hits))
    BY RecentIs
  <2>2. r \in Seq(0 .. (RateWindow + 1))
    BY <2>1, TailIs
  <2> QED BY <2>2
<1> DEFINE all == IF RateLimit > 0 THEN Append(r, 0) ELSE r
<1>4. Parts(hit) /\ Log(hit, all)
  <2> HIDE DEF q, r
  <2>1. CASE RateLimit > 0
    <3>1. hit = [q EXCEPT !.hits = Append(q.hits, 0)] /\ all = Append(r, 0)
      BY <2>1
    <3>2. Parts([q EXCEPT !.hits = Append(q.hits, 0)])
      BY <1>2, PartsExcept
    <3>3. Log([q EXCEPT !.hits = Append(q.hits, 0)], Append(q.hits, 0)) /\ q.hits = r
      BY <1>2, RestExcept
    <3> HIDE DEF hit, Log
    <3> QED BY <3>1, <3>2, <3>3
  <2>2. CASE ~(RateLimit > 0)
    <3>1. hit = q /\ all = r
      BY <2>2
    <3> HIDE DEF hit, all, Log
    <3> QED BY <1>2, <3>1
  <2> QED BY <2>1, <2>2
<1>5. Log(opened, all) /\ Log(tried, all)
  <2>1. tried = [hit EXCEPT !.circuit = c]
    OBVIOUS
  <2> HIDE DEF hit, c, all
  <2> QED BY <1>4, <2>1, RestExcept
<1>6. \/ v = [allowed |-> FALSE, mem |-> q]
      \/ /\ ~full
         /\ \E x \in {hit, opened, tried} : v.mem = x
  <2>1. v = IF ~q.healthy \/ large \/ full THEN [allowed |-> FALSE, mem |-> q]
            ELSE CASE q.circuit.state = "closed" -> [allowed |-> TRUE, mem |-> hit]
                   [] q.circuit.state = "open" -> [allowed |-> FALSE, mem |-> hit]
                   [] q.circuit.state = "half_open" /\ spent -> [allowed |-> FALSE, mem |-> opened]
                   [] OTHER -> [allowed |-> TRUE, mem |-> tried]
    BY DEF Guard!Verdict
  <2> HIDE DEF v, q, hit, tried, spent, full, opened
  <2>2. CASE ~q.healthy \/ large \/ full
    BY <2>1, <2>2
  <2>3. CASE ~(~q.healthy \/ large \/ full)
    <3>1. v = CASE q.circuit.state = "closed" -> [allowed |-> TRUE, mem |-> hit]
                [] q.circuit.state = "open" -> [allowed |-> FALSE, mem |-> hit]
                [] q.circuit.state = "half_open" /\ spent -> [allowed |-> FALSE, mem |-> opened]
                [] OTHER -> [allowed |-> TRUE, mem |-> tried]
      BY <2>1, <2>3
    <3>2. \/ v = [allowed |-> TRUE, mem |-> hit] \/ v = [allowed |-> FALSE, mem |-> hit]
          \/ v = [allowed |-> FALSE, mem |-> opened] \/ v = [allowed |-> TRUE, mem |-> tried]
      BY <3>1
    <3>3. v.mem \in {hit, opened, tried}
      BY <3>2
    <3> QED BY <2>3, <3>3
  <2> QED BY <2>2, <2>3
<1>7. ~full => ~(RateLimit > 0) \/ Len(r) < RateLimit
  <2> HIDE DEF q, r
  <2> QED BY <1>2, <1>3 DEF Guard!LimitsAreCounts
<1>8. ~(RateLimit > 0) => RateLimit = 0
  BY DEF Guard!LimitsAreCounts
<1> HIDE DEF q, r, hit, opened, tried, full, v
<1>9. CASE v = [allowed |-> FALSE, mem |-> q]
  <2>1. v.allowed = FALSE /\ v.mem = q
    BY <1>9
  <2> QED BY <1>2, <2>1 DEF v, r
<1>10. ASSUME ~full, NEW x \in {hit, opened, tried}, v.mem = x
       PROVE  /\ v.mem.history = m.history /\ v.mem.healthy = m.healthy
              /\ \/ v.mem.hits = r /\ (v.allowed => RateLimit = 0)
                 \/ RateLimit > 0 /\ Len(r) < RateLimit /\ v.mem.hits = Append(r, 0)
  <2>1. Log(v.mem, all)
    <3> HIDE DEF Log
    <3> QED BY <1>4, <1>5, <1>10
  <2> QED BY <1>7, <1>8, <1>10, <2>1
<1> QED BY <1>6, <1>9, <1>10 DEF v, r

\* An outcome leaves the hits as they are, and no more of the history than the window.
LEMMA RecordedLog ==
  ASSUME Guard!LimitsAreCounts, NEW m, Parts(m), NEW how \in Guard!Status,
         m.history \in Seq(Guard!Status), Len(m.history) <= Window
  PROVE  LET r == Guard!Recorded(m, how)
         IN /\ r.hits = m.hits /\ r.healthy = TRUE
            /\ r.history \in Seq(Guard!Status) /\ Len(r.history) <= Window
<1> DEFINE h == Append(m.history, how)
           kept == SubSeq(h, IF Len(h) > Window THEN 2 ELSE 1, Len(h))
           m1 == [m EXCEPT !.history = kept]
           m2 == [m1 EXCEPT !.healthy = TRUE]
           c == Guard!CircuitAfter(m2.circuit, kept, how)
           r == Guard!Recorded(m, how)
<1>1. r = [m2 EXCEPT !.circuit = c]
  BY DEF Guard!Recorded
<1>2. kept \in Seq(Guard!Status) /\ Len(kept) <= Window
  <2> DEFINE S == Guard!Status
  <2>0. m.history \in Seq(S) /\ how \in S
    OBVIOUS
  <2> HIDE DEF S
  <2>1. h \in Seq(S) /\ Len(h) = Len(m.history) + 1 /\ Len(h) \in Nat
    BY <2>0
  <2> HIDE DEF h
  <2>2. Window \in Nat \ {0}
    BY DEF Guard!LimitsAreCounts
  <2>3. CASE Len(h) > Window
    <3>1. kept = SubSeq(h, 2, Len(h))
      BY <2>3
    <3> HIDE DEF kept
    <3>2. 1 \in 0 .. Len(h) /\ 1 + 1 = 2
      BY <2>1, <2>2, <2>3
    <3>3. SubSeq(h, 1 + 1, Len(h)) \in Seq(S)
      BY <2>1, <3>2, TailIs
    <3>4. kept \in Seq(S)
      BY <3>1, <3>2, <3>3
    <3>5. Len(kept) = Len(h) - 1
      BY <2>1, <3>1, <3>2
    <3>6. Len(kept) <= Window
      BY <2>1, <2>2, <3>5
    <3> QED BY <3>4, <3>6 DEF S
  <2>4. CASE ~(Len(h) > Window)
    <3>1. kept = SubSeq(h, 1, Len(h))
      BY <2>4
    <3> HIDE DEF kept
    <3>2. 0 \in 0 .. Len(h) /\ 0 + 1 = 1
      BY <2>1
    <3>3. SubSeq(h, 0 + 1, Len(h)) \in Seq(S)
      BY <2>1, <3>2, TailIs
    <3>4. kept \in Seq(S)
      BY <3>1, <3>2, <3>3
    <3>5. Len(kept) = Len(h)
      BY <2>1, <3>1
    <3>6. Len(kept) <= Window
      BY <2>1, <2>2, <2>4, <3>5
    <3> QED BY <3>4, <3>6 DEF S
  <2> QED BY <2>3, <2>4
<1>3. Parts(m1) /\ m1.hits = m.hits /\ m1.history = kept
  <2> HIDE DEF kept
  <2>1. Parts(m1)
    BY PartsExcept
  <2>2. m1.hits = m.hits /\ m1.history = kept
    BY RestExcept
  <2> QED BY <2>1, <2>2
<1>4. Parts(m2) /\ m2.hits = m.hits /\ m2.history = kept /\ m2.healthy = TRUE
  <2> HIDE DEF kept, m1
  <2> QED BY <1>3, PartsExcept, RestExcept
<1>5. r.hits = m.hits /\ r.history = kept /\ r.healthy = TRUE
  <2> HIDE DEF kept, m2, c, r
  <2> QED BY <1>1, <1>4, RestExcept
<1> HIDE DEF r, kept
<1> QED BY <1>2, <1>5 DEF r

\* Time changes nothing but the hits.
LEMMA AgedLog ==
  ASSUME NEW m, Parts(m)
  PROVE  /\ Aged(m).hits = Guard!Older(m.hits, RateWindow + 1)
         /\ Aged(m).history = m.history /\ Aged(m).healthy = m.healthy
<1> DEFINE n == IF m.circuit.state = "open" /\ m.circuit.age < OpenTime THEN m.circuit.age + 1
                ELSE m.circuit.age
           r == [m.circuit EXCEPT !.age = n]
           m1 == [m EXCEPT !.circuit = r]
<1>1. Aged(m) = [m1 EXCEPT !.hits = Guard!Older(m1.hits, RateWindow + 1)]
  BY DEF Aged
<1>2. Parts(m1) /\ m1.hits = m.hits /\ m1.history = m.history /\ m1.healthy = m.healthy
  <2> HIDE DEF r
  <2> QED BY PartsExcept, RestExcept
<1> HIDE DEF m1
<1> QED BY <1>1, <1>2, RestExcept

\* A state whose write failed keeps its hits and its history.
LEMMA UnavailableLog ==
  ASSUME NEW m, Parts(m)
  PROVE  LET u == Guard!Unavailable(m)
         IN u.hits = m.hits /\ u.history = m.history /\ u.healthy = FALSE
BY RestExcept DEF Guard!Unavailable

\* Every step keeps the hits that cover the calls, and the log.
LEMMA RateStep ==
  ASSUME Guard!LimitsAreCounts, GuardShape, RateKept, LogKept, [Guard!Next]_(Guard!vars)
  PROVE  RateKept' /\ LogKept'
<1> DEFINE Held(m) == /\ m.history \in Seq(Guard!Status) /\ Len(m.history) <= Window
                      /\ m.healthy \in BOOLEAN
<1>0. /\ Parts(mem) /\ mem.circuit \in Circuits /\ Parts(guardDisk) /\ guardDisk.circuit \in Circuits
      /\ Covers(mem.hits, seen) /\ Covers(guardDisk.hits, seen)
      /\ seen \in Seq(0 .. RateWindow) /\ Ordered(seen)
      /\ Held(mem) /\ Held(guardDisk)
  BY DEF GuardShape, RateKept, LogKept
<1>a. mem.hits \in Seq(0 .. (RateWindow + 1))
  BY <1>0 DEF Covers
<1>k. ASSUME NEW s, s = seen', s \in Seq(0 .. RateWindow), Ordered(s),
             NEW a, a = mem', Covers(a.hits, s), Held(a),
             NEW b, b = guardDisk', Covers(b.hits, s), Held(b)
      PROVE  RateKept' /\ LogKept'
  <2>1. RateKept'
    <3>1. /\ seen' \in Seq(0 .. RateWindow) /\ Ordered(seen') /\ Covers(mem'.hits, seen')
          /\ Covers(guardDisk'.hits, seen')
      BY <1>k
    <3> QED BY <3>1 DEF RateKept, Covers, Ordered
  <2>2. LogKept'
    <3>1. Held(mem') /\ Held(guardDisk')
      BY <1>k
    <3> QED BY <3>1 DEF LogKept, Guard!Status
  <2> QED BY <2>1, <2>2
<1>1. ASSUME NEW c \in Caller, NEW large \in BOOLEAN, Guard!Evaluate(c, large)
      PROVE  RateKept' /\ LogKept'
  <2> DEFINE v == Guard!Verdict(mem, large)
             u == Guard!Unavailable(v.mem)
             r == Guard!Recent(mem.hits)
             t == IF v.allowed /\ RateLimit > 0 THEN Append(seen, 0) ELSE seen
  <2>1. \/ mem' = v.mem /\ guardDisk' = v.mem /\ seen' = t
        \/ mem' \in {v.mem, u} /\ UNCHANGED <<guardDisk, seen>>
    BY <1>1 DEF Guard!Evaluate
  <2>2. /\ v.mem.history = mem.history /\ v.mem.healthy = mem.healthy
        /\ \/ v.mem.hits = r /\ (v.allowed => RateLimit = 0)
           \/ RateLimit > 0 /\ Len(r) < RateLimit /\ v.mem.hits = Append(r, 0)
    BY <1>0, <1>a, VerdictHits
  <2>3. Parts(v.mem) /\ v.allowed \in BOOLEAN
    BY <1>0, VerdictIs
  <2>4. Covers(r, seen)
    BY <1>0, CoversRecent
  <2>5. Len(r) < RateLimit => /\ Covers(Append(r, 0), seen) /\ Covers(Append(r, 0), Append(seen, 0))
                              /\ Append(seen, 0) \in Seq(0 .. RateWindow) /\ Ordered(Append(seen, 0))
    <3> HIDE DEF r
    <3> QED BY <1>0, <2>4, CoversNow
  <2> HIDE DEF v, r
  <2>6. u.hits = v.mem.hits /\ u.history = v.mem.history /\ u.healthy = FALSE
    BY <2>3, UnavailableLog
  <2> HIDE DEF u
  <2>7. Held(v.mem) /\ Held(u)
    BY <1>0, <2>2, <2>6
  <2>8. Covers(v.mem.hits, seen) /\ Covers(u.hits, seen)
    BY <2>2, <2>4, <2>5, <2>6
  <2>9. Covers(v.mem.hits, t) /\ t \in Seq(0 .. RateWindow) /\ Ordered(t)
    <3>1. CASE v.allowed /\ RateLimit > 0
      <4>1. RateLimit # 0
        BY <3>1 DEF Guard!LimitsAreCounts
      <4>2. t = Append(seen, 0)
        BY <3>1
      <4> HIDE DEF t
      <4> QED BY <2>2, <2>5, <3>1, <4>1, <4>2
    <3>2. CASE ~(v.allowed /\ RateLimit > 0)
      <4>1. t = seen
        BY <3>2
      <4> HIDE DEF t
      <4> QED BY <1>0, <2>8, <4>1
    <3> QED BY <3>1, <3>2
  <2> HIDE DEF t, Held
  <2>10. CASE mem' = v.mem /\ guardDisk' = v.mem /\ seen' = t
    BY <1>k, <2>7, <2>9, <2>10
  <2>11. CASE mem' \in {v.mem, u} /\ UNCHANGED <<guardDisk, seen>>
    <3>1. CASE mem' = v.mem
      BY <1>0, <1>k, <2>7, <2>8, <2>11, <3>1
    <3>2. CASE mem' = u
      BY <1>0, <1>k, <2>7, <2>8, <2>11, <3>2
    <3> QED BY <2>11, <3>1, <3>2
  <2> QED BY <2>1, <2>10, <2>11
<1>2. ASSUME NEW c \in Caller, Guard!Report(c)
      PROVE  RateKept' /\ LogKept'
  <2> DEFINE m == Guard!Recorded(mem, caller[c].at)
             u == Guard!Unavailable(m)
  <2>1. /\ (mem' = m /\ guardDisk' = m) \/ (mem' = u /\ UNCHANGED guardDisk)
        /\ UNCHANGED seen /\ caller[c].at \in Guard!Status
    BY <1>2 DEF Guard!Report
  <2>2. m.hits = mem.hits /\ Held(m)
    BY <1>0, <2>1, RecordedLog
  <2>3. Parts(m)
    BY <1>0, RecordedIs
  <2> HIDE DEF m
  <2>4. u.hits = m.hits /\ Held(u)
    BY <2>2, <2>3, UnavailableLog
  <2> HIDE DEF u, Held
  <2>5. CASE mem' = m /\ guardDisk' = m
    BY <1>0, <1>k, <2>1, <2>2, <2>5
  <2>6. CASE mem' = u /\ UNCHANGED guardDisk
    BY <1>0, <1>k, <2>1, <2>2, <2>4, <2>6
  <2> QED BY <2>1, <2>5, <2>6
<1>3. CASE Guard!MetricsFail
  <2> DEFINE u == Guard!Unavailable(mem)
  <2>1. mem' = u /\ guardDisk' \in {u, guardDisk} /\ UNCHANGED seen
    BY <1>3 DEF Guard!MetricsFail
  <2>2. u.hits = mem.hits /\ Held(u)
    BY <1>0, UnavailableLog
  <2> HIDE DEF u, Held
  <2>3. CASE guardDisk' = u
    BY <1>0, <1>k, <2>1, <2>2, <2>3
  <2>4. CASE guardDisk' = guardDisk
    BY <1>0, <1>k, <2>1, <2>2, <2>4
  <2> QED BY <2>1, <2>3, <2>4
<1>4. CASE Guard!Crash
  <2>1. mem' = guardDisk /\ guardDisk' = guardDisk /\ seen' = seen
    BY <1>4 DEF Guard!Crash
  <2> HIDE DEF Held
  <2> QED BY <1>0, <1>k, <2>1
<1>5. CASE Guard!Tick
  <2> DEFINE t == Guard!Recent(Guard!Older(seen, RateWindow + 1))
  <2>1. mem' = Aged(mem) /\ guardDisk' = Aged(guardDisk) /\ seen' = t
    BY <1>5 DEF Guard!Tick, Aged
  <2>2. Held(Aged(mem)) /\ Held(Aged(guardDisk))
    BY <1>0, AgedLog
  <2>3. /\ t \in Seq(0 .. RateWindow) /\ Ordered(t)
        /\ Covers(Guard!Older(mem.hits, RateWindow + 1), t)
        /\ Covers(Guard!Older(guardDisk.hits, RateWindow + 1), t)
    BY <1>0, CoversOlder
  <2> HIDE DEF t, Held
  <2>4. Covers(Aged(mem).hits, t) /\ Covers(Aged(guardDisk).hits, t)
    BY <1>0, <2>3, AgedLog
  <2> QED BY <1>k, <2>1, <2>2, <2>3, <2>4
<1>6. CASE \/ \E c \in Caller : Guard!Finish(c) \/ Guard!Lose(c)
           \/ Guard!Disk \/ Guard!Settle \/ UNCHANGED Guard!vars
  <2>1. mem' = mem /\ guardDisk' = guardDisk /\ seen' = seen
    BY <1>6 DEF Guard!Finish, Guard!Lose, Guard!Disk, Guard!Settle, Guard!vars
  <2> HIDE DEF Held
  <2> QED BY <1>0, <1>k, <2>1
<1> QED BY <1>1, <1>2, <1>3, <1>4, <1>5, <1>6 DEF Guard!Next

\* At the start nothing has been allowed yet, and nothing is remembered.
LEMMA RateBegins ==
  ASSUME Guard!LimitsAreCounts, Guard!Init
  PROVE  GuardShape /\ ProbesCounted /\ RateKept /\ LogKept
<1>1. GuardShape /\ ProbesCounted
  BY GuardBegins
<1>2. /\ mem.hits = <<>> /\ guardDisk.hits = <<>> /\ seen = <<>>
      /\ mem.history = <<>> /\ guardDisk.history = <<>> /\ mem.healthy = TRUE
      /\ guardDisk.healthy = TRUE
  BY DEF Guard!Init
<1>3. RateKept
  <2>1. Covers(<<>>, <<>>)
    <3>1. RateLimit \in Nat /\ Len(<<>>) = 0 /\ <<>> \in Seq(0 .. (RateWindow + 1))
      BY DEF Guard!LimitsAreCounts
    <3> QED BY <3>1 DEF Covers
  <2>2. Ordered(<<>>)
    BY DEF Ordered
  <2> QED BY <1>2, <2>1, <2>2 DEF RateKept
<1>4. LogKept
  <2>1. /\ <<>> \in Seq(Guard!Status) /\ Len(<<>>) <= Window
    BY DEF Guard!LimitsAreCounts
  <2> QED BY <1>2, <2>1 DEF LogKept
<1> QED BY <1>1, <1>3, <1>4

\* Whatever callers ask, in whatever order, with writes that fail, crashes and time that
\* passes: no more calls go ahead within the window of the rate limit than it allows.
THEOREM RateIsRespected == ASSUME Guard!LimitsAreCounts PROVE Guard!Spec => []Guard!RateRespected
<1>1. Guard!Init => GuardShape /\ ProbesCounted /\ RateKept /\ LogKept
  BY RateBegins
<1>2. GuardShape /\ ProbesCounted /\ RateKept /\ LogKept /\ [Guard!Next]_(Guard!vars)
        => (GuardShape /\ ProbesCounted /\ RateKept /\ LogKept)'
  BY GuardStep, RateStep
<1>3. RateKept => Guard!RateRespected
  <2> SUFFICES ASSUME RateKept PROVE Len(seen) <= RateLimit
    BY DEF Guard!RateRespected
  <2>1. Len(seen) <= Len(mem.hits) /\ Len(mem.hits) <= RateLimit /\ Len(seen) \in Nat
        /\ Len(mem.hits) \in Nat /\ RateLimit \in Nat
    BY DEF RateKept, Covers, Guard!LimitsAreCounts
  <2> QED BY <2>1
<1> QED BY <1>1, <1>2, <1>3, PTL DEF Guard!Spec

\* The types of the guardrails.
THEOREM GuardTypes == ASSUME Guard!LimitsAreCounts PROVE Guard!Spec => []Guard!TypeOK
<1> DEFINE Flags == writable \in BOOLEAN /\ calm \in BOOLEAN /\ strays \subseteq Caller
           I == GuardShape /\ ProbesCounted /\ RateKept /\ LogKept /\ Flags
<1>1. Guard!Init => Flags
  BY DEF Guard!Init
<1>2. Guard!Init => I
  BY <1>1, RateBegins
<1>3. I /\ [Guard!Next]_(Guard!vars) => I'
  <2> SUFFICES ASSUME I, [Guard!Next]_(Guard!vars) PROVE I'
    OBVIOUS
  <2>1. Flags'
    BY DEF Guard!Next, Guard!Evaluate, Guard!Finish, Guard!Report, Guard!Lose, Guard!MetricsFail,
           Guard!Disk, Guard!Crash, Guard!Tick, Guard!Settle, Guard!Unstrayed, Guard!vars
  <2> QED BY <2>1, GuardStep, RateStep
<1>4. I => Guard!TypeOK
  <2> SUFFICES ASSUME I PROVE Guard!TypeOK
    OBVIOUS
  <2>1. ASSUME NEW m, Parts(m), m.circuit \in Circuits, Covers(m.hits, seen),
               m.history \in Seq(Guard!Status), m.healthy \in BOOLEAN
        PROVE  m \in Guard!Snapshots
    <3>1. m.hits \in Seq(0 .. (RateWindow + 1))
      BY <2>1 DEF Covers
    <3>2. m = [circuit |-> m.circuit, history |-> m.history, hits |-> m.hits, healthy |-> m.healthy]
      BY <2>1 DEF Parts
    <3> QED BY <2>1, <3>1, <3>2 DEF Guard!Snapshots, Circuits
  <2>2. mem \in Guard!Snapshots /\ guardDisk \in Guard!Snapshots
    BY <2>1 DEF GuardShape, RateKept, LogKept
  <2>3. caller \in [Caller -> [at : {"idle", "runs"} \cup Guard!Status, probe : BOOLEAN]]
    <3>1. {"idle", "runs", "ok", "fail", "blocked"} = {"idle", "runs"} \cup Guard!Status
      BY DEF Guard!Status
    <3> QED BY <3>1 DEF GuardShape
  <2> QED BY <2>2, <2>3 DEF Guard!TypeOK, GuardShape, RateKept, LogKept
<1> HIDE DEF I
<1> QED BY <1>2, <1>3, <1>4, PTL DEF Guard!Spec

=============================================================================
