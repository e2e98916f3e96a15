--------------------------- MODULE SubAgentsProofs ---------------------------
(***************************************************************************)
(* Proofs about the sub-agent sessions (module SubAgents), for any number  *)
(* of sessions, tasks and limits.  The types, the limit of the store and   *)
(* what closed sessions do hold of any clients.  That a session has one    *)
(* task that runs holds of any clients too, as long as each send is alone  *)
(* with its session, which the code leaves to its clients.  The others     *)
(* need that one client talks to the sessions, while the sweeper is at     *)
(* work at any moment: with two clients the code breaks them, because each *)
(* writes what it made of a session it read earlier.                       *)
(***************************************************************************)
EXTENDS SubAgents, WellFoundedInduction, FiniteSetTheorems, TLAPS

-----------------------------------------------------------------------------
(* Types.  Which operation a call belongs to says where it can be.          *)

TaskStatus == {"none", "running", "forgotten"} \cup Ended
Record == [status : {"none", "idle", "running"} \cup SessionEnded,
           active : Task \cup {NoTask}, timed : BOOLEAN,
           last : Task \cup {NoTask}, closed : BOOLEAN]
Place == {"rest", "sendCheck", "sendStart", "sendFailed", "summary", "update", "waitRead",
          "enforce", "expire", "expireMissing", "waitTask", "waitMissing", "mark",
          "interrupt", "close"}
Call == [op : {"none", "send", "wait", "look", "interrupt", "close"}, at : Place,
         s : Session, seen : Record, t : Task \cup {NoTask}, st : TaskStatus]

CallOK(k) ==
    /\ k.op = "none" => k = AtRest
    /\ k.op = "send" => k.at \in {"sendCheck", "sendStart", "sendFailed", "summary", "update"}
    /\ k.op = "wait" => k.at \in {"waitRead", "enforce", "expire", "expireMissing", "waitTask",
                                  "waitMissing", "update"}
    /\ k.op = "look" => k.at \in {"enforce", "expire", "expireMissing", "update"}
    /\ k.op = "interrupt" => k.at \in {"mark", "interrupt", "summary", "update"}
    /\ k.op = "close" => k.at \in {"interrupt", "close"}
    /\ k.at \in Place \ {"rest", "waitRead", "enforce", "waitTask", "mark", "close"} => k.t \in Task
    /\ k.at = "update" => k.st # "forgotten"

TypeInv ==
    /\ sess \in [Session -> Record]
    /\ order \in [Session -> Nat]
    /\ stored \in SUBSET Session
    /\ task \in [Task -> TaskStatus]
    /\ late \in [Task -> BOOLEAN]
    /\ owner \in [Task -> Session]
    /\ call \in [Actor -> Call]
    /\ \A a \in Actor : CallOK(call[a])

\* What the handlers write is a record again.
LEMMA RecordsWritten ==
    ASSUME NEW r \in Record, NEW t \in Task,
           NEW st \in TaskStatus \ {"forgotten"}, NEW status \in {"failed", "interrupted"}
    PROVE  /\ WithTask(r, t, st) \in Record
           /\ WithoutTask(r, status) \in Record
           /\ WithTaskMissing(r, t) \in Record
           /\ WithTaskTimeout(r, t) \in Record
           /\ AsClosed(r) \in Record
<1> USE DEF Record, TaskStatus, Ended, SessionEnded
<1>1. WithTask(r, t, st) \in Record
    BY DEF WithTask
<1>2. WithoutTask(r, status) \in Record
    BY DEF WithoutTask
<1>3. WithTaskMissing(r, t) \in Record /\ WithTaskTimeout(r, t) \in Record /\ AsClosed(r) \in Record
    BY DEF WithTaskMissing, WithTaskTimeout, AsClosed
<1> QED BY <1>1, <1>2, <1>3

\* Writing a record into a session keeps the sessions' records.
LEMMA WriteType ==
    ASSUME sess \in [Session -> Record], NEW s \in Session, NEW r \in Record, Write(s, r)
    PROVE  sess' \in [Session -> Record]
BY DEF Write

\* A call at rest is a call.
LEMMA RestType ==
    ASSUME Session # {}
    PROVE  AtRest \in Call /\ CallOK(AtRest) /\ Unborn \in Record /\ Newborn \in Record
<1>1. (CHOOSE s \in Session : TRUE) \in Session
    OBVIOUS
<1>2. Unborn \in Record
    BY DEF Unborn, Record
<1>3. Newborn \in Record
    BY <1>2 DEF Newborn, Unborn, Record
<1>4. AtRest \in Call /\ CallOK(AtRest)
    BY <1>1, <1>2 DEF AtRest, Call, CallOK, Place, TaskStatus
<1> QED BY <1>2, <1>3, <1>4

\* The calls keep their type when one of them is replaced by a call.
LEMMA CallType ==
    ASSUME call \in [Actor -> Call], \A a \in Actor : CallOK(call[a]),
           NEW c \in Actor, NEW k \in Call, CallOK(k), call' = [call EXCEPT ![c] = k]
    PROVE  call' \in [Actor -> Call] /\ (\A a \in Actor : CallOK(call[a])')
<1>1. call' \in [Actor -> Call]
    OBVIOUS
<1>2. ASSUME NEW a \in Actor PROVE CallOK(call'[a])
    OBVIOUS
<1> QED BY <1>1, <1>2 DEF CallOK

\* The place a call has come to says which operation it belongs to.
LEMMA WhereACallIs ==
    ASSUME NEW k \in Call, CallOK(k), AtRest.at = "rest"
    PROVE  /\ k.at # "rest" => k.op # "none"
           /\ k.at \in {"sendCheck", "sendStart", "sendFailed"} => k.op = "send"
           /\ k.at = "summary" => k.op \in {"send", "interrupt"}
           /\ k.at = "update" => k.op \in {"send", "interrupt", "wait", "look"}
           /\ k.at \in {"waitRead", "waitTask", "waitMissing"} => k.op = "wait"
           /\ k.at \in {"enforce", "expire", "expireMissing"} => k.op \in {"wait", "look"}
           /\ k.at = "mark" => k.op = "interrupt"
           /\ k.at = "interrupt" => k.op \in {"interrupt", "close"}
           /\ k.at = "close" => k.op = "close"
           /\ k.at \notin {"rest", "waitRead", "enforce", "waitTask", "mark", "close"} => k.t \in Task
<1>1. k.at # "rest" => k.op # "none"
    BY DEF CallOK
<1>2. k.op \in {"none", "send", "wait", "look", "interrupt", "close"} /\ k.at \in Place
    BY DEF Call
<1>3. k.at \notin {"rest", "waitRead", "enforce", "waitTask", "mark", "close"} => k.t \in Task
    BY <1>2 DEF CallOK
<1> QED BY <1>1, <1>2, <1>3 DEF CallOK

\* There are sessions to choose from, and finitely many of them.
SessionsAreFinite == Session # {} /\ IsFiniteSet(Session)

\* Every step keeps the types: one step below for each action, and what it makes of the call.
LEMMA TypeStep ==
    ASSUME SessionsAreFinite, NoTaskIsNoTask, TypeInv, [Next]_vars
    PROVE  TypeInv'
<1>r. /\ AtRest \in Call /\ CallOK(AtRest) /\ Unborn \in Record /\ Newborn \in Record
      /\ AtRest.op = "none" /\ AtRest.at = "rest" /\ AtRest.st = "none" /\ AtRest.t = NoTask
    BY RestType DEF AtRest, SessionsAreFinite
<1> DEFINE CallsOK == call' \in [Actor -> Call] /\ (\A a \in Actor : CallOK(call[a]))'
           Sessions == sess' \in [Session -> Record]
<1>c. ASSUME CallsOK, Sessions, UNCHANGED <<order, stored, late, owner>>,
             task' \in [Task -> TaskStatus]
      PROVE  TypeInv'
    BY <1>c DEF TypeInv
<1>rest. ASSUME NEW c \in Actor, Rest(c) PROVE CallsOK
    BY <1>rest, <1>r, CallType DEF Rest, TypeInv
<1>go. ASSUME NEW c \in Actor, NEW at \in Place, Go(c, at), CallOK([call[c] EXCEPT !.at = at])
       PROVE CallsOK
    <2> DEFINE k == [call[c] EXCEPT !.at = at]
    <2>1. k \in Call /\ call' = [call EXCEPT ![c] = k]
        BY <1>go DEF Go, TypeInv, Call
    <2> QED BY <2>1, <1>go, CallType DEF TypeInv
<1>new. ASSUME NEW c \in Actor, NEW k \in Call, CallOK(k), call' = [call EXCEPT ![c] = k]
        PROVE CallsOK
    BY <1>new, CallType DEF TypeInv
<1>w. ASSUME NEW c \in Actor, NEW r \in Record, Write(call[c].s, r)
      PROVE Sessions
    BY <1>w, WriteType DEF TypeInv, Call
<1>same. ASSUME UNCHANGED sess PROVE Sessions
    BY <1>same DEF TypeInv
<1>tasks. ASSUME UNCHANGED task PROVE task' \in [Task -> TaskStatus]
    BY <1>tasks DEF TypeInv
<1>k. ASSUME NEW c \in Actor PROVE call[c] \in Call /\ CallOK(call[c]) /\ sess[call[c].s] \in Record
    BY <1>k DEF TypeInv, Call
<1>at. ASSUME NEW c \in Actor
       PROVE  LET k == call[c] IN
              /\ k.at # "rest" => k.op # "none"
              /\ k.at \in {"sendCheck", "sendStart", "sendFailed"} => k.op = "send"
              /\ k.at = "summary" => k.op \in {"send", "interrupt"}
              /\ k.at = "update" => k.op \in {"send", "interrupt", "wait", "look"}
              /\ k.at \in {"waitRead", "waitTask", "waitMissing"} => k.op = "wait"
              /\ k.at \in {"enforce", "expire", "expireMissing"} => k.op \in {"wait", "look"}
              /\ k.at = "interrupt" => k.op \in {"interrupt", "close"}
              /\ k.at \notin {"rest", "waitRead", "enforce", "waitTask", "mark", "close"}
                    => k.t \in Task
    BY <1>k, <1>r, WhereACallIs
<1> HIDE DEF CallsOK, Sessions
<1>1. ASSUME NEW s \in Session, NEW Old \in SUBSET Session, Spawn(s, Old) PROVE TypeInv'
    <2> DEFINE made == {o \in Session : order[o] # 0}
    <2>1. 1 + Cardinality(made) \in Nat
        BY FS_Subset, FS_CardinalityType DEF SessionsAreFinite
    <2>2. stored' \in SUBSET Session
        BY <1>1 DEF Spawn, Trimmed, TypeInv
    <2>3. order' \in [Session -> Nat] /\ sess' \in [Session -> Record]
        BY <1>1, <1>r, <2>1 DEF Spawn, TypeInv
    <2> QED BY <1>1, <2>2, <2>3 DEF Spawn, TypeInv
<1>2. ASSUME NEW c \in Actor, NEW s \in Session, NEW t \in Task, SendRead(c, s, t) PROVE TypeInv'
    <2> DEFINE k == [AtRest EXCEPT !.op = "send", !.at = "sendCheck", !.s = s,
                                   !.seen = sess[s], !.t = t]
    <2>1. k \in Call /\ CallOK(k)
        BY <1>r DEF TypeInv, Call, CallOK, Place
    <2> QED BY <1>2, <2>1, <1>new, <1>c, <1>same, <1>tasks DEF SendRead
<1>3. ASSUME NEW c \in Actor, SendCheck(c) PROVE TypeInv'
    <2>1. call[c].op = "send" /\ call[c].t \in Task
        BY <1>3, <1>at DEF SendCheck
    <2>2. CallOK([call[c] EXCEPT !.at = "sendStart"])
        BY <2>1, <1>k DEF Call, CallOK
    <2> QED BY <1>3, <2>2, <1>rest, <1>go, <1>c, <1>same, <1>tasks DEF SendCheck, Place
<1>4. ASSUME NEW c \in Actor, SendStart(c) \/ SendRefused(c) PROVE TypeInv'
    <2>1. call[c].at = "sendStart" /\ call[c].op = "send" /\ call[c].t \in Task
        BY <1>4, <1>at DEF SendStart, SendRefused
    <2>2. CallOK([call[c] EXCEPT !.at = "summary"]) /\ CallOK([call[c] EXCEPT !.at = "sendFailed"])
        BY <2>1, <1>k DEF Call, CallOK
    <2>3. CASE SendRefused(c)
        BY <2>3, <2>1, <2>2, <1>go, <1>c, <1>same, <1>tasks DEF SendRefused, Place
    <2>4. CASE SendStart(c)
        <3>1. task' \in [Task -> TaskStatus] /\ owner' \in [Task -> Session]
            BY <2>1, <2>4, <1>k DEF SendStart, TypeInv, TaskStatus, Call
        <3>2. CallsOK
            BY <2>1, <2>2, <2>4, <1>go DEF SendStart, Place
        <3> QED BY <2>4, <3>1, <3>2 DEF SendStart, TypeInv, CallsOK
    <2> QED BY <1>4, <2>3, <2>4
<1>5. ASSUME NEW c \in Actor, SendFailed(c) PROVE TypeInv'
    <2>1. call[c].t \in Task
        BY <1>5, <1>at DEF SendFailed
    <2>2. WithoutTask(sess[call[c].s], "failed") \in Record
        BY <2>1, <1>k, RecordsWritten DEF TaskStatus
    <2> QED BY <1>5, <2>1, <2>2, <1>w, <1>rest, <1>c, <1>tasks DEF SendFailed
<1>6. ASSUME NEW c \in Actor, ReadSummary(c) PROVE TypeInv'
    <2>1. call[c].op \in {"send", "interrupt"} /\ call[c].t \in Task
        BY <1>6, <1>at DEF ReadSummary
    <2> DEFINE k == [call[c] EXCEPT !.st = task[call[c].t], !.at = "update"]
    <2>2. CASE task[call[c].t] = "forgotten"
        BY <1>6, <2>1, <2>2, <1>rest, <1>c, <1>same, <1>tasks DEF ReadSummary
    <2>3. CASE task[call[c].t] # "forgotten"
        <3>1. k \in Call /\ CallOK(k)
            BY <2>1, <2>3, <1>k DEF TypeInv, Call, CallOK, Place
        <3>2. call' = [call EXCEPT ![c] = k]
            BY <1>6, <2>3 DEF ReadSummary
        <3> QED BY <1>6, <2>1, <3>1, <3>2, <1>new, <1>c, <1>same, <1>tasks DEF ReadSummary
    <2> QED BY <2>2, <2>3
<1>7. ASSUME NEW c \in Actor, NEW s \in Session, Wait(c, s) PROVE TypeInv'
    <2> DEFINE k == [AtRest EXCEPT !.op = "wait", !.at = "waitRead", !.s = s]
    <2>1. k \in Call /\ CallOK(k)
        BY <1>r DEF Call, CallOK, Place
    <2> QED BY <1>7, <2>1, <1>new, <1>c, <1>same, <1>tasks DEF Wait
<1>8. ASSUME NEW c \in Actor, WaitRead(c) PROVE TypeInv'
    <2> DEFINE r == sess[call[c].s]
               k == [call[c] EXCEPT !.seen = r, !.at = "enforce",
                                    !.t = IF r.active # NoTask THEN r.active ELSE r.last]
    <2>0. call[c].op = "wait"
        BY <1>8, <1>at DEF WaitRead
    <2>1. k \in Call /\ CallOK(k)
        BY <2>0, <1>k DEF Call, CallOK, Place, Record
    <2>2. call' = [call EXCEPT ![c] = k] \/ Rest(c)
        BY <1>8 DEF WaitRead
    <2> QED BY <1>8, <2>1, <2>2, <1>new, <1>rest, <1>c, <1>same, <1>tasks DEF WaitRead
<1>9. ASSUME NEW c \in Actor, WaitTask(c) PROVE TypeInv'
    <2>1. call[c].op = "wait"
        BY <1>9, <1>at DEF WaitTask
    <2>2. CASE call[c].t = NoTask
        <3>1. CallOK([call[c] EXCEPT !.at = "waitRead"])
            BY <2>1, <1>k DEF Call, CallOK, Place
        <3> QED BY <1>9, <2>1, <2>2, <3>1, <1>go, <1>rest, <1>c, <1>same, <1>tasks
                DEF WaitTask, Place
    <2>3. CASE call[c].t # NoTask
        <3> DEFINE k == [call[c] EXCEPT !.st = task[call[c].t],
                                        !.at = IF task[call[c].t] = "forgotten"
                                               THEN "waitMissing" ELSE "update"]
        <3>1. k \in Call /\ CallOK(k)
            BY <2>1, <2>3, <1>k DEF TypeInv, Call, CallOK, Place
        <3>2. call' = [call EXCEPT ![c] = k]
            BY <1>9, <2>3 DEF WaitTask
        <3> QED BY <1>9, <2>1, <3>1, <3>2, <1>new, <1>c, <1>same, <1>tasks DEF WaitTask
    <2> QED BY <2>2, <2>3
<1>10. ASSUME NEW c \in Actor, WaitMissing(c) PROVE TypeInv'
    <2>1. call[c].t \in Task /\ call[c].op = "wait"
        BY <1>10, <1>at DEF WaitMissing
    <2>2. WithTaskMissing(sess[call[c].s], call[c].t) \in Record
        BY <2>1, <1>k DEF WithTaskMissing, Record, SessionEnded, Ended
    <2>3. CallOK([call[c] EXCEPT !.at = "waitRead"])
        BY <2>1, <1>k DEF Call, CallOK, Place
    <2> QED BY <1>10, <2>1, <2>2, <2>3, <1>w, <1>rest, <1>go, <1>c, <1>tasks DEF WaitMissing, Place
<1>11. ASSUME NEW c \in Actor, NEW s \in Session, InterruptRead(c, s) PROVE TypeInv'
    <2> DEFINE k == [AtRest EXCEPT !.op = "interrupt", !.s = s, !.seen = sess[s],
                                   !.t = sess[s].active,
                                   !.at = IF sess[s].active = NoTask THEN "mark" ELSE "interrupt"]
    <2>1. k \in Call /\ CallOK(k)
        BY <1>r DEF TypeInv, Call, CallOK, Place, Record
    <2> QED BY <1>11, <2>1, <1>new, <1>c, <1>same, <1>tasks DEF InterruptRead
<1>12. ASSUME NEW c \in Actor, InterruptMark(c) PROVE TypeInv'
    <2>2. WithoutTask(sess[call[c].s], "interrupted") \in Record
        BY <1>k DEF WithoutTask, Record, SessionEnded, Ended
    <2> QED BY <1>12, <2>2, <1>w, <1>rest, <1>c, <1>tasks DEF InterruptMark
<1>13. ASSUME NEW c \in Actor, InterruptTask(c) PROVE TypeInv'
    <2>1. call[c].t \in Task /\ call[c].op \in {"interrupt", "close"}
        BY <1>13, <1>at DEF InterruptTask
    <2> DEFINE at == IF call[c].op = "close" THEN "close" ELSE "summary"
    <2>2. CallOK([call[c] EXCEPT !.at = at])
        BY <2>1, <1>k DEF Call, CallOK, Place
    <2>3. task' \in [Task -> TaskStatus]
        BY <1>13 DEF InterruptTask, TypeInv, TaskStatus, Ended
    <2> QED BY <1>13, <2>1, <2>2, <2>3, <1>go, <1>c, <1>same DEF InterruptTask, Place
<1>14. ASSUME NEW c \in Actor, NEW s \in Session, NEW force \in BOOLEAN, CloseRead(c, s, force)
       PROVE TypeInv'
    <2> DEFINE k == [AtRest EXCEPT !.op = "close", !.s = s, !.seen = sess[s],
                        !.t = sess[s].active,
                        !.at = IF force /\ sess[s].active # NoTask THEN "interrupt" ELSE "close"]
    <2>1. k \in Call /\ CallOK(k)
        BY <1>r DEF TypeInv, Call, CallOK, Place, Record
    <2> QED BY <1>14, <2>1, <1>new, <1>c, <1>same, <1>tasks DEF CloseRead
<1>15. ASSUME NEW c \in Actor, CloseMark(c) PROVE TypeInv'
    <2>2. AsClosed(sess[call[c].s]) \in Record
        BY <1>k DEF AsClosed, Record, SessionEnded, Ended
    <2> QED BY <1>15, <2>2, <1>w, <1>rest, <1>c, <1>tasks DEF CloseMark
<1>16. ASSUME NEW c \in Actor, Update(c) PROVE TypeInv'
    <2>0. call[c].t \in Task
        BY <1>16, <1>at DEF Update
    <2>1. call[c].st \in TaskStatus \ {"forgotten"}
        BY <1>16, <1>k DEF Update, Call, CallOK
    <2>2. WithTask(sess[call[c].s], call[c].t, call[c].st) \in Record
        BY <2>0, <2>1, <1>k, RecordsWritten
    <2>3. call[c].op = "wait" => CallOK([call[c] EXCEPT !.at = "waitRead"])
        BY <1>k DEF Call, CallOK, Place
    <2> QED BY <1>16, <2>2, <2>3, <1>w, <1>rest, <1>go, <1>c, <1>tasks DEF Update, Place
<1>17. ASSUME NEW c \in Actor, Enforce(c) PROVE TypeInv'
    <2> DEFINE now == sess[call[c].s]
               k == [call[c] EXCEPT !.at = "expire", !.t = now.active]
    <2>1. call[c].op \in {"wait", "look"}
        BY <1>17, <1>at DEF Enforce
    <2>2. now.active # NoTask => k \in Call /\ CallOK(k)
        BY <2>1, <1>k DEF Call, CallOK, Place, Record
    <2>3. call[c].op = "wait" => CallOK([call[c] EXCEPT !.at = "waitTask"])
        BY <1>k DEF Call, CallOK, Place
    <2> QED BY <1>17, <2>1, <2>2, <2>3, <1>new, <1>rest, <1>go, <1>c, <1>same, <1>tasks
            DEF Enforce, Due, Place
<1>18. ASSUME NEW c \in Actor, Expire(c) PROVE TypeInv'
    <2> DEFINE t == call[c].t
               st == IF Live(t) THEN "interrupted" ELSE task[t]
               k == [call[c] EXCEPT !.st = st, !.at = IF st = "forgotten" THEN "expireMissing" ELSE "update"]
    <2>1. t \in Task /\ call[c].op \in {"wait", "look"}
        BY <1>18, <1>at DEF Expire
    <2>2. st \in TaskStatus
        BY <2>1 DEF TypeInv, TaskStatus, Ended
    <2>3. k \in Call /\ CallOK(k)
        BY <2>1, <2>2, <1>k DEF Call, CallOK, Place
    <2>4. call' = [call EXCEPT ![c] = k] /\ task' = [task EXCEPT ![t] = st]
        BY <1>18 DEF Expire
    <2>5. task' \in [Task -> TaskStatus]
        BY <2>2, <2>4 DEF TypeInv
    <2> QED BY <1>18, <2>3, <2>4, <2>5, <1>new, <1>c, <1>same DEF Expire
<1>19. ASSUME NEW c \in Actor, ExpireMissing(c) PROVE TypeInv'
    <2>1. call[c].t \in Task
        BY <1>19, <1>at DEF ExpireMissing
    <2> DEFINE r == sess[call[c].s]
               t == call[c].t
    <2>2. r \in Record /\ t \in Task
        BY <2>1, <1>k
    <2>3. WithTaskTimeout(r, t) \in Record
        <3> HIDE DEF r, t
        <3> QED BY <2>2 DEF WithTaskTimeout, Record, SessionEnded, Ended
    <2> QED BY <1>19, <2>3, <1>w, <1>rest, <1>c, <1>tasks DEF ExpireMissing
<1>20. ASSUME NEW c \in Actor, NEW s \in Session, Look(c, s) PROVE TypeInv'
    <2> DEFINE k == [AtRest EXCEPT !.op = "look", !.at = "enforce", !.s = s, !.seen = sess[s]]
    <2>1. k \in Call /\ CallOK(k)
        BY <1>r DEF TypeInv, Call, CallOK, Place
    <2> QED BY <1>20, <2>1, <1>new, <1>c, <1>same, <1>tasks DEF Look
<1>21. ASSUME NEW t \in Task, TaskEnds(t) \/ TaskForgotten(t) \/ TaskTurnsLate(t) PROVE TypeInv'
    BY <1>21 DEF TaskEnds, TaskForgotten, TaskTurnsLate, TypeInv, TaskStatus, Ended, CallOK, AtRest
<1>22. CASE UNCHANGED vars
    BY <1>22 DEF vars, TypeInv, CallOK, AtRest
<1> QED
    BY <1>1, <1>2, <1>3, <1>4, <1>5, <1>6, <1>7, <1>8, <1>9, <1>10, <1>11, <1>12, <1>13, <1>14,
       <1>15, <1>16, <1>17, <1>18, <1>19, <1>20, <1>21, <1>22 DEF Next, ClientStep, SharedStep, Actor

\* In the beginning.
LEMMA TypeInit == ASSUME SessionsAreFinite, Init PROVE TypeInv
<1>1. (CHOOSE s \in Session : TRUE) \in Session
    BY DEF SessionsAreFinite
<1> QED BY <1>1, RestType DEF SessionsAreFinite, Init, TypeInv, TaskStatus

\* A closed session has no task, whoever wrote into it what it had read before: for any
\* number of clients, whatever the sweeper does, and whatever fails or is forgotten
\* (update_sub_agent_session_with_task, handle_sub_agent_close).
THEOREM ClosedIsIdle ==
    ASSUME SessionsAreFinite, NoTaskIsNoTask
    PROVE  Spec => []ClosedHasNoTask
<1>1. Init => TypeInv /\ ClosedHasNoTask
    BY TypeInit DEF Init, ClosedHasNoTask, Unborn
<1>2. TypeInv /\ [Next]_vars => TypeInv'
    BY TypeStep
<1>3. ASSUME TypeInv, ClosedHasNoTask, [Next]_vars PROVE ClosedHasNoTask'
    <2>k. ASSUME NEW c \in Actor PROVE call[c].s \in Session /\ sess[call[c].s] \in Record
        BY <1>3, <2>k DEF TypeInv, Call
    <2>w. ASSUME NEW c \in Actor, NEW r \in Record, r.closed => r.active = NoTask,
                 Write(call[c].s, r)
          PROVE  ClosedHasNoTask'
        BY <1>3, <2>k, <2>w DEF Write, ClosedHasNoTask, TypeInv
    <2>1. ASSUME NEW c \in Actor, Update(c) PROVE ClosedHasNoTask'
        <3> DEFINE r == sess[call[c].s]
                   w == WithTask(r, call[c].t, call[c].st)
        <3>1. call[c].t \in Task /\ call[c].st \in TaskStatus \ {"forgotten"}
            BY <1>3, <2>1 DEF Update, TypeInv, Call, CallOK, Place
        <3>2. w \in Record
            BY <3>1, <2>k, RecordsWritten
        <3>3. r.closed => r.active = NoTask
            BY <1>3, <2>k DEF ClosedHasNoTask
        <3>4. w.closed => w.active = NoTask
            BY <2>k, <3>3 DEF WithTask, Record
        <3> QED BY <2>1, <3>2, <3>4, <2>w DEF Update
    <2>2. ASSUME NEW c \in Actor, SendFailed(c) \/ InterruptMark(c) PROVE ClosedHasNoTask'
        <3>1. ASSUME NEW status \in {"failed", "interrupted"}
              PROVE  LET w == WithoutTask(sess[call[c].s], status) IN
                     w \in Record /\ w.active = NoTask
            BY <2>k DEF WithoutTask, Record, SessionEnded, Ended
        <3> QED BY <2>2, <3>1, <2>w DEF SendFailed, InterruptMark
    <2>3. ASSUME NEW c \in Actor, CloseMark(c) PROVE ClosedHasNoTask'
        <3>1. AsClosed(sess[call[c].s]) \in Record /\ AsClosed(sess[call[c].s]).active = NoTask
            BY <2>k DEF AsClosed, Record, SessionEnded, Ended
        <3> QED BY <2>3, <3>1, <2>w DEF CloseMark
    <2>4. ASSUME NEW c \in Actor, WaitMissing(c) \/ ExpireMissing(c) PROVE ClosedHasNoTask'
        <3> DEFINE r == sess[call[c].s]
                   t == call[c].t
        <3>1. t \in Task
            BY <1>3, <2>4 DEF WaitMissing, ExpireMissing, TypeInv, Call, CallOK, Place
        <3>2. r \in Record /\ (r.closed => r.active = NoTask)
            BY <1>3, <2>k DEF ClosedHasNoTask
        <3>3. Write(call[c].s, WithTaskMissing(r, t)) \/ Write(call[c].s, WithTaskTimeout(r, t))
            BY <2>4 DEF WaitMissing, ExpireMissing
        <3> HIDE DEF r, t
        <3>4. WithTaskMissing(r, t) \in Record /\ WithTaskTimeout(r, t) \in Record
            BY <3>1, <3>2 DEF WithTaskMissing, WithTaskTimeout, Record, SessionEnded, Ended
        <3>5. /\ WithTaskMissing(r, t).closed => WithTaskMissing(r, t).active = NoTask
              /\ WithTaskTimeout(r, t).active = NoTask
            BY <3>1, <3>2 DEF WithTaskMissing, WithTaskTimeout, Record
        <3> QED BY <3>3, <3>4, <3>5, <2>w
    <2>5. ASSUME NEW s \in Session, NEW Old \in SUBSET Session, Spawn(s, Old)
          PROVE  ClosedHasNoTask'
        BY <1>3, <2>5 DEF Spawn, ClosedHasNoTask, TypeInv, Newborn, Unborn
    <2>6. CASE UNCHANGED sess
        BY <1>3, <2>6 DEF ClosedHasNoTask
    <2> QED
        BY <1>3, <2>1, <2>2, <2>3, <2>4, <2>5, <2>6 DEF Next, ClientStep, SharedStep, Actor, vars,
           SendRead, SendCheck, SendStart, SendRefused, ReadSummary, Wait, WaitRead, Look, Enforce,
           Expire, WaitTask, InterruptRead, InterruptTask, CloseRead,
           TaskEnds, TaskForgotten, TaskTurnsLate
<1> QED BY <1>1, <1>2, <1>3, PTL DEF Spec
-----------------------------------------------------------------------------
(* Sends that are alone with their session.  Calls and sweeps may overlap   *)
(* as they like, but for a send, which starts a task after a look at a copy *)
(* of the session: while it is under way nothing else is on that session.   *)
(* Then whoever has read a session knows the one task that can run there.   *)

Open(s) == Stored(s) /\ ~sess[s].closed
RunsFor(u, s) == task[u] = "running" /\ owner[u] = s

\* Call k is going to start its task.
Starting(k) == k.op = "send" /\ k.at \in {"sendCheck", "sendStart", "sendFailed"}
\* Call k has started task u and is about to write it into the session.
Delivers(k, u) == k.op = "send" /\ k.at \in {"summary", "update"} /\ k.t = u

\* The places where a call knows which task of its session can still run.
Informed(k) ==
    \/ k.at \in {"waitMissing", "expire", "expireMissing", "update", "interrupt", "summary",
                 "close", "mark"}
    \/ k.at \in {"enforce", "waitTask"} /\ k.op = "wait"

\* What call k knows of the tasks of its session, from the place it has come to.
CallKnows(k) ==
    /\ \A u \in Task : RunsFor(u, k.s) =>
          /\ k.at = "sendCheck" => u = k.seen.active
          /\ k.at \notin {"sendStart", "sendFailed"}
          /\ Open(k.s) /\ Informed(k) => u = k.t
    /\ k.op # "none" => order[k.s] # 0
    /\ Starting(k) => task[k.t] = "none"
    /\ ~Starting(k) /\ k.t # NoTask => task[k.t] # "none"
    /\ k.op = "send" /\ ~Starting(k) => owner[k.t] = k.s
    /\ k.at = "update" /\ task[k.t] = "running" => k.st = "running"
    /\ k.at \in {"waitMissing", "expireMissing"} => task[k.t] = "forgotten"
    /\ k.at = "mark" => k.t = NoTask

\* A session that can still be used names the task that runs for it.
SessionsKnow ==
    \A u \in Task : task[u] = "running" /\ Open(owner[u]) =>
        sess[owner[u]].active = u \/ \E a \in Actor : Delivers(call[a], u)

TasksHaveSessions ==
    /\ \A t \in Task : task[t] # "none" => order[owner[t]] # 0
    /\ \A s \in stored : order[s] # 0

\* A session names tasks that have been started.
NamesStarted(r) == {r.active, r.last} \subseteq {t \in Task : task[t] # "none"} \cup {NoTask}

\* Each send has a task of its own to start.
SendersDiffer ==
    \A a, b \in Actor : Starting(call[a]) =>
        a \in Client /\ (Starting(call[b]) /\ call[a].t = call[b].t => a = b)

OneInv ==
    /\ TasksHaveSessions /\ SessionsKnow /\ SendersDiffer /\ OneRunning
    /\ \A s \in Session : NamesStarted(sess[s])
    /\ \A a \in Actor : CallKnows(call[a])

TasksOnlyEnd ==
    \A u \in Task : /\ task'[u] = "running" => task[u] = "running"
                    /\ task'[u] = "none" <=> task[u] = "none"
                    /\ task[u] = "forgotten" => task'[u] = "forgotten"

\* A session whose task is missing names tasks that have been started, and stays open.
LEMMA NamesWritten ==
    ASSUME NEW r \in Record, NamesStarted(r), NEW t \in Task, task[t] # "none"
    PROVE  /\ WithTaskMissing(r, t).closed = r.closed /\ NamesStarted(WithTaskMissing(r, t))
           /\ WithTaskTimeout(r, t).closed = r.closed /\ NamesStarted(WithTaskTimeout(r, t))
<1>1. /\ WithTaskMissing(r, t).closed = r.closed /\ WithTaskMissing(r, t).last = t
      /\ WithTaskMissing(r, t).active \in {r.active, NoTask}
    BY DEF WithTaskMissing, Record
<1>2. /\ WithTaskTimeout(r, t).closed = r.closed /\ WithTaskTimeout(r, t).last = t
      /\ WithTaskTimeout(r, t).active = NoTask
    BY DEF WithTaskTimeout, Record
<1> QED BY <1>1, <1>2 DEF NamesStarted

\* A call that is not writing a task into its session knows the session's task from there.
LEMMA NamedInSession ==
    ASSUME SendsApart, OneInv, NEW a \in Actor, call[a].op # "none",
           NEW u \in Task, RunsFor(u, call[a].s), Open(call[a].s), ~Delivers(call[a], u)
    PROVE  sess[call[a].s].active = u
<1>1. ASSUME NEW b \in Actor, Delivers(call[b], u) PROVE FALSE
    <2>1. CallKnows(call[b]) /\ call[b].op = "send" /\ ~Starting(call[b]) /\ call[b].t = u
        BY <1>1 DEF OneInv, Delivers, Starting
    <2>2. call[b].s = call[a].s
        BY <2>1 DEF CallKnows, RunsFor
    <2>3. a = b
        BY <2>1, <2>2 DEF SendsApart
    <2> QED BY <1>1, <2>3
<1> QED BY <1>1 DEF OneInv, SessionsKnow, RunsFor

\* What a call knows it knows while tasks end.
LEMMA KnowsWhileTasksEnd ==
    ASSUME TasksOnlyEnd, UNCHANGED <<sess, order, stored, owner>>,
           NEW k \in Call, CallOK(k), AtRest.at = "rest", CallKnows(k)
    PROVE  CallKnows(k)'
<1>1. /\ Starting(k) => k.t \in Task
      /\ k.at \in {"update", "waitMissing", "expireMissing"} => k.t \in Task
      /\ k.t \in Task \cup {NoTask}
    BY DEF CallOK, Call, Starting, Place
<1>2. \A u \in Task : RunsFor(u, k.s)' => RunsFor(u, k.s)
    BY DEF TasksOnlyEnd, RunsFor
<1>3. Open(k.s)' <=> Open(k.s)
    BY DEF Open, Stored
<1>4. /\ Starting(k) => task'[k.t] = "none"
      /\ ~Starting(k) /\ k.t # NoTask => task'[k.t] # "none"
      /\ k.at = "update" /\ task'[k.t] = "running" => k.st = "running"
      /\ k.at \in {"waitMissing", "expireMissing"} => task'[k.t] = "forgotten"
    BY <1>1 DEF CallKnows, TasksOnlyEnd
<1> QED BY <1>2, <1>3, <1>4 DEF CallKnows, Starting, Informed

\* A step that ends or forgets tasks, or none, and changes one call or none.
LEMMA OnlyCallsAndTasks ==
    ASSUME TypeInv, OneInv, TasksOnlyEnd, UNCHANGED <<sess, order, stored, owner>>,
           AtRest.at = "rest",
           NEW a \in Actor, NEW n \in Call, call' = [call EXCEPT ![a] = n], CallKnows(n)',
           \A u \in Task : Delivers(call[a], u) /\ task'[u] = "running" => Delivers(n, u),
           Starting(n) => a \in Client /\ \A b \in Actor \ {a} : Starting(call[b]) => call[b].t # n.t
    PROVE  OneInv'
<1>0. call'[a] = n /\ \A b \in Actor \ {a} : call'[b] = call[b]
    BY DEF TypeInv
<1>1. TasksHaveSessions' /\ OneRunning' /\ (\A s \in Session : NamesStarted(sess[s])')
    BY DEF OneInv, TasksHaveSessions, OneRunning, NamesStarted, TasksOnlyEnd, Live, TypeInv
<1>2. SessionsKnow'
    <2> SUFFICES ASSUME NEW u \in Task, task'[u] = "running", Open(owner[u])',
                        sess'[owner'[u]].active # u
                 PROVE  \E b \in Actor : Delivers(call'[b], u)
        BY DEF SessionsKnow, Delivers
    <2>1. task[u] = "running" /\ Open(owner[u]) /\ sess[owner[u]].active # u
        BY DEF TasksOnlyEnd, Open, Stored
    <2>2. PICK b \in Actor : Delivers(call[b], u)
        BY <2>1 DEF OneInv, SessionsKnow
    <2> QED BY <1>0, <2>2
<1>3. SendersDiffer'
    <2> SUFFICES ASSUME NEW b \in Actor, NEW d \in Actor, Starting(call'[b])
                 PROVE  b \in Client /\ (Starting(call'[d]) /\ call'[b].t = call'[d].t => b = d)
        BY DEF SendersDiffer, Starting
    <2> QED BY <1>0 DEF OneInv, SendersDiffer
<1>4. ASSUME NEW b \in Actor PROVE CallKnows(call[b])'
    <2>1. CASE b = a
        BY <1>0, <2>1 DEF CallKnows, RunsFor, Open, Stored, Starting, Informed
    <2>2. CASE b # a
        <3>0. PICK k : k = call[b]
            OBVIOUS
        <3>1. call'[b] = k /\ CallKnows(k) /\ CallOK(k) /\ k \in Call
            BY <1>0, <2>2, <3>0 DEF OneInv, TypeInv
        <3>2. CallKnows(k)'
            BY <3>1, KnowsWhileTasksEnd
        <3> QED BY <3>1, <3>2 DEF CallKnows, RunsFor, Open, Stored, Starting, Informed
    <2> QED BY <2>1, <2>2
<1> QED BY <1>1, <1>2, <1>3, <1>4 DEF OneInv

\* A step that writes the session of a call and lets the call go.
LEMMA OnlyItsSession ==
    ASSUME SendsApart, TypeInv, OneInv, AtRest.at = "rest",
           NEW a \in Actor, call[a].op # "none", NEW r \in Record, Write(call[a].s, r),
           NamesStarted(r),
           NEW n \in Call, call' = [call EXCEPT ![a] = n], n.at \in {"rest", "waitRead"},
           CallKnows(n)', n.op # "send",
           UNCHANGED <<order, stored, task, owner>>,
           sess[call[a].s].closed => r.closed,
           \A u \in Task : RunsFor(u, call[a].s) /\ Open(call[a].s) => r.closed \/ r.active = u
    PROVE  OneInv'
<1>s. PICK s : s = call[a].s
    OBVIOUS
<1>0. /\ call'[a] = n /\ \A b \in Actor \ {a} : call'[b] = call[b]
      /\ s \in Session /\ ~Starting(n)
    BY <1>s DEF TypeInv, Call, Starting
<1>1. \A x \in Session : sess'[x] = sess[x] \/ (x = s /\ sess'[x] = r /\ Stored(s))
    BY <1>s DEF Write, TypeInv
<1>2. \A x \in Session : Open(x)' => Open(x) /\ (x = s => sess'[x] = r /\ ~r.closed)
    <2>1. Stored(s) => sess'[s] = r
        BY <1>0, <1>s DEF Write, TypeInv
    <2> QED BY <1>1, <1>s, <2>1 DEF Open, Stored
<1>3. TasksHaveSessions' /\ OneRunning' /\ (\A x \in Session : NamesStarted(sess[x])')
    BY <1>1 DEF OneInv, TasksHaveSessions, OneRunning, NamesStarted, Live, TypeInv
<1>4. SendersDiffer'
    <2> SUFFICES ASSUME NEW b \in Actor, NEW d \in Actor, Starting(call'[b])
                 PROVE  b \in Client /\ (Starting(call'[d]) /\ call'[b].t = call'[d].t => b = d)
        BY DEF SendersDiffer, Starting
    <2> QED BY <1>0 DEF OneInv, SendersDiffer
<1>5. SessionsKnow'
    <2> SUFFICES ASSUME NEW u \in Task, task[u] = "running", Open(owner[u])',
                        sess'[owner[u]].active # u
                 PROVE  \E b \in Actor : Delivers(call'[b], u)
        BY DEF SessionsKnow, Delivers
    <2>1. owner[u] \in Session /\ Open(owner[u])
        BY <1>2 DEF TypeInv
    <2>2. owner[u] # s
        BY <1>2, <1>s, <2>1 DEF RunsFor
    <2>3. sess[owner[u]].active # u
        BY <1>1, <2>1, <2>2
    <2>4. PICK b \in Actor : Delivers(call[b], u)
        BY <2>1, <2>3 DEF OneInv, SessionsKnow
    <2>5. b # a
        BY <1>s, <2>2, <2>4 DEF OneInv, CallKnows, Delivers, Starting
    <2> QED BY <1>0, <2>4, <2>5
<1>6. ASSUME NEW b \in Actor PROVE CallKnows(call[b])'
    <2>1. CASE b = a
        BY <1>0, <2>1 DEF CallKnows, RunsFor, Open, Stored, Starting, Informed
    <2>2. CASE b # a
        <3>0. PICK k : k = call[b]
            OBVIOUS
        <3>1. call'[b] = k /\ CallKnows(k) /\ k.s \in Session
            BY <1>0, <2>2, <3>0 DEF OneInv, TypeInv, Call
        <3>2. CallKnows(k)'
            BY <1>2, <3>1 DEF CallKnows, RunsFor, Starting, Informed
        <3> QED BY <3>1, <3>2 DEF CallKnows, RunsFor, Open, Stored, Starting, Informed
    <2> QED BY <2>1, <2>2
<1> QED BY <1>3, <1>4, <1>5, <1>6 DEF OneInv

\* Every step keeps it, one step below for each action.
LEMMA OneStep ==
    ASSUME SessionsAreFinite, NoTaskIsNoTask, SendsApart, SendsApart', TypeInv, OneInv, [Next]_vars
    PROVE  OneInv'
<1>r. /\ AtRest \in Call /\ CallOK(AtRest) /\ AtRest.at = "rest" /\ AtRest.t = NoTask
      /\ AtRest.op = "none" /\ AtRest.s \in Session
    BY RestType DEF AtRest, SessionsAreFinite, Call
<1>k. ASSUME NEW a \in Actor
      PROVE  /\ call[a] \in Call /\ CallOK(call[a]) /\ call[a].s \in Session
             /\ sess[call[a].s] \in Record /\ CallKnows(call[a]) /\ call[a].at \in Place
             /\ NamesStarted(sess[call[a].s])
    BY <1>k DEF TypeInv, Call, OneInv
<1>at. ASSUME NEW a \in Actor
       PROVE  LET k == call[a] IN
              /\ k.at # "rest" => k.op # "none"
              /\ k.op = "none" => k = AtRest
              /\ k.at \in {"sendCheck", "sendStart", "sendFailed"} => k.op = "send"
              /\ k.at = "summary" => k.op \in {"send", "interrupt"}
              /\ k.at = "update" => k.op \in {"send", "interrupt", "wait", "look"}
              /\ k.at \in {"waitRead", "waitTask", "waitMissing"} => k.op = "wait"
              /\ k.at \in {"enforce", "expire", "expireMissing"} => k.op \in {"wait", "look"}
              /\ k.at = "mark" => k.op = "interrupt"
              /\ k.at = "interrupt" => k.op \in {"interrupt", "close"}
              /\ k.at = "close" => k.op = "close"
              /\ k.at \notin {"rest", "waitRead", "enforce", "waitTask", "mark", "close"}
                    => k.t \in Task
    BY <1>k, <1>r, WhereACallIs DEF CallOK
<1>rest. CallKnows(AtRest) /\ CallKnows(AtRest)' /\ ~Starting(AtRest)
    BY <1>r DEF CallKnows, Starting, Informed
\* A call at the beginning of a wait's round knows nothing yet.
<1>round. ASSUME NEW n \in Call, n.at = "waitRead", n.op = "wait", order[n.s] # 0,
                 n.t # NoTask => task[n.t] # "none"
          PROVE  CallKnows(n)
    BY <1>round DEF CallKnows, Starting, Informed
<1>new. ASSUME NEW a \in Actor, NEW n \in Call, call' = [call EXCEPT ![a] = n], CallKnows(n),
               UNCHANGED <<sess, order, stored, task, owner>>,
               \A u \in Task : Delivers(call[a], u) /\ task[u] = "running" => Delivers(n, u),
               Starting(n) => a \in Client /\ \A b \in Actor \ {a} : Starting(call[b]) => call[b].t # n.t
        PROVE  OneInv'
    <2>1. CallKnows(n)'
        BY <1>new DEF CallKnows, RunsFor, Open, Stored, Starting, Informed
    <2>2. TasksOnlyEnd
        BY <1>new DEF TasksOnlyEnd
    <2> QED BY <1>new, <1>r, <2>1, <2>2, OnlyCallsAndTasks
<1>over. ASSUME NEW a \in Actor, Rest(a), UNCHANGED <<sess, order, stored, task, owner>>,
                \A u \in Task : Delivers(call[a], u) => task[u] # "running"
         PROVE  OneInv'
    BY <1>over, <1>r, <1>rest, <1>new DEF Rest
<1>1. ASSUME NEW n \in Session, NEW Old \in SUBSET Session, Spawn(n, Old) PROVE OneInv'
    <2>1. call = call' /\ stored' \subseteq stored \cup {n} /\ order[n] = 0 /\ UNCHANGED <<task, owner>>
        BY <1>1 DEF Spawn, Trimmed
    <2>2. \A u \in Task : task[u] # "none" => owner[u] \in Session /\ owner[u] # n
        BY <2>1 DEF OneInv, TasksHaveSessions, TypeInv
    <2>3. \A x \in Session : x # n => sess'[x] = sess[x] /\ order'[x] = order[x]
        BY <1>1 DEF Spawn, TypeInv
    <2>4. n \in stored' => order'[n] # 0
        <3> DEFINE made == {o \in Session : order[o] # 0}
        <3>1. 1 + Cardinality(made) # 0
            BY FS_Subset, FS_CardinalityType DEF SessionsAreFinite
        <3>2. n \notin stored
            BY <2>1 DEF OneInv, TasksHaveSessions
        <3> QED BY <1>1, <3>1, <3>2 DEF Spawn, TypeInv
    <2>5. OneRunning' /\ SendersDiffer'
        BY <2>1 DEF OneInv, OneRunning, Live, SendersDiffer, Starting
    <2>6. TasksHaveSessions'
        BY <2>1, <2>2, <2>3, <2>4 DEF OneInv, TasksHaveSessions, TypeInv
    <2>7. SessionsKnow'
        BY <2>1, <2>2, <2>3 DEF OneInv, SessionsKnow, Open, Stored, Delivers
    <2>8. ASSUME NEW x \in Session PROVE NamesStarted(sess[x])'
        <3>1. sess'[n] = sess[n] \/ sess'[n] = Newborn
            BY <1>1 DEF Spawn, TypeInv
        <3>2. NamesStarted(Newborn)'
            BY DEF NamesStarted, Newborn, Unborn
        <3>3. NamesStarted(sess[x])
            BY DEF OneInv
        <3> QED BY <2>1, <2>3, <3>1, <3>2, <3>3 DEF NamesStarted
    <2>9. ASSUME NEW b \in Actor PROVE CallKnows(call[b])'
        <3>0. PICK k : k = call[b]
            OBVIOUS
        <3>1. CallKnows(k) /\ k.s \in Session /\ call'[b] = k
            BY <1>k, <2>1, <3>0
        <3>2. k.op # "none" => order'[k.s] # 0 /\ (Open(k.s)' => Open(k.s))
            BY <2>1, <2>3, <3>1 DEF CallKnows, Open, Stored
        <3>3. CASE k.op # "none"
            <4>1. CallKnows(k)'
                BY <2>1, <3>1, <3>2, <3>3 DEF CallKnows, RunsFor, Starting, Informed
            <4> QED BY <3>1, <4>1 DEF CallKnows, RunsFor, Open, Stored, Starting, Informed
        <3>4. CASE k.op = "none"
            <4>1. call'[b] = AtRest
                BY <1>at, <3>0, <3>1, <3>4
            <4> QED BY <1>rest, <4>1 DEF CallKnows, RunsFor, Open, Stored, Starting, Informed
        <3> QED BY <3>3, <3>4
    <2> QED BY <2>5, <2>6, <2>7, <2>8, <2>9 DEF OneInv
<1>2. ASSUME NEW a \in Client, NEW x \in Session, NEW t \in Task, SendRead(a, x, t) PROVE OneInv'
    <2> DEFINE n == [AtRest EXCEPT !.op = "send", !.at = "sendCheck", !.s = x,
                                   !.seen = sess[x], !.t = t]
    <2>1. n \in Call /\ call[a] = AtRest /\ Open(x) /\ task[t] = "none" /\ a \in Actor
        BY <1>2, <1>r DEF SendRead, TypeInv, Call, Place, Open, Actor
    <2>2. n.op = "send" /\ n.at = "sendCheck" /\ n.s = x /\ n.t = t /\ n.seen = sess[x]
        BY <1>r DEF Call
    <2>3. call' = [call EXCEPT ![a] = n] /\ \A d \in Client : call[d].t # t
        BY <1>2 DEF SendRead
    <2> HIDE DEF n
    <2>4. ASSUME NEW u \in Task, RunsFor(u, x) PROVE u = sess[x].active
        <3>1. PICK b \in Actor : Delivers(call[b], u) \/ u = sess[x].active
            BY <2>1, <2>4 DEF OneInv, SessionsKnow, RunsFor
        <3>2. ASSUME Delivers(call[b], u) PROVE FALSE
            <4>1. call[b].op = "send" /\ call[b].s = x /\ b # a
                BY <1>r, <2>1, <2>4, <3>2 DEF OneInv, CallKnows, Delivers, Starting, RunsFor
            <4>2. call'[b] = call[b] /\ call'[a] = n
                BY <2>1, <2>3, <4>1 DEF TypeInv
            <4> QED BY <2>1, <2>2, <4>1, <4>2 DEF SendsApart
        <3> QED BY <3>1, <3>2
    <2>5. order[x] # 0
        BY <2>1 DEF OneInv, TasksHaveSessions, Open, Stored
    <2>6. CallKnows(n)
        BY <2>1, <2>2, <2>4, <2>5 DEF CallKnows, Starting, Informed
    <2>7. ASSUME NEW b \in Actor \ {a}, Starting(call[b]) PROVE call[b].t # n.t
        BY <2>2, <2>3, <2>7 DEF OneInv, SendersDiffer
    <2>8. \A u \in Task : ~Delivers(call[a], u)
        BY <1>r, <2>1 DEF Delivers
    <2> QED BY <1>2, <2>1, <2>3, <2>6, <2>7, <2>8, <1>new DEF SendRead
<1>3. ASSUME NEW a \in Actor, SendCheck(a) \/ SendRefused(a) PROVE OneInv'
    <2>0. PICK k : k = call[a]
        OBVIOUS
    <2>1. /\ k \in Call /\ CallKnows(k) /\ k.op = "send" /\ k.at \in {"sendCheck", "sendStart"}
          /\ Starting(k) /\ UNCHANGED <<sess, order, stored, task, owner>>
        BY <1>3, <1>k, <1>at, <2>0 DEF SendCheck, SendRefused, Starting
    <2>2. PICK at \in {"sendStart", "sendFailed"} :
            Rest(a) \/ (Go(a, at) /\ (k.at = "sendStart" \/ ~Live(k.seen.active)))
        BY <1>3, <2>0 DEF SendCheck, SendRefused
    <2> DEFINE n == [k EXCEPT !.at = at]
    <2>3. n \in Call /\ n.op = "send" /\ n.at = at /\ n.s = k.s /\ n.t = k.t
        BY <2>1, <2>2 DEF Call, Place
    <2>4. Go(a, at) => call' = [call EXCEPT ![a] = n]
        BY <2>0 DEF Go
    <2> HIDE DEF n
    <2>5. k.at = "sendStart" \/ ~Live(k.seen.active) => \A u \in Task : ~RunsFor(u, k.s)
        BY <2>1 DEF CallKnows, RunsFor, Live, NoTaskIsNoTask
    <2>6. k.at = "sendStart" \/ ~Live(k.seen.active) => CallKnows(n)
        BY <2>1, <2>2, <2>3, <2>5 DEF CallKnows, Starting, Informed
    <2>7. Starting(n) => a \in Client /\ \A b \in Actor \ {a} : Starting(call[b]) => call[b].t # n.t
        BY <2>0, <2>1, <2>3 DEF OneInv, SendersDiffer
    <2>8. \A u \in Task : ~Delivers(call[a], u)
        BY <2>0, <2>1 DEF Delivers
    <2> QED BY <2>1, <2>2, <2>3, <2>4, <2>6, <2>7, <2>8, <1>new, <1>over
<1>4. ASSUME NEW a \in Actor, SendStart(a) PROVE OneInv'
    <2>0. PICK k, s, t : k = call[a] /\ s = k.s /\ t = k.t
        OBVIOUS
    <2> DEFINE n == [k EXCEPT !.at = "summary"]
    <2>1. /\ k.at = "sendStart" /\ k.op = "send" /\ t \in Task /\ s \in Session /\ k \in Call
          /\ CallKnows(k) /\ Starting(k)
        BY <1>4, <1>at, <1>k, <2>0 DEF SendStart, Starting
    <2>2. /\ call' = [call EXCEPT ![a] = n]
          /\ task' = [task EXCEPT ![t] = "running"] /\ owner' = [owner EXCEPT ![t] = s]
          /\ UNCHANGED <<sess, order, stored>>
        BY <1>4, <2>0 DEF SendStart, Go
    <2>3. n \in Call /\ n.op = "send" /\ n.at = "summary" /\ n.s = s /\ n.t = t
        BY <2>0, <2>1 DEF Call, Place
    <2> HIDE DEF n
    <2>4. call'[a] = n /\ \A b \in Actor \ {a} : call'[b] = call[b]
        BY <2>2 DEF TypeInv
    <2>5. task[t] = "none" /\ order[s] # 0 /\ \A u \in Task : ~RunsFor(u, s)
        BY <2>0, <2>1 DEF CallKnows
    <2>6. /\ task'[t] = "running" /\ owner'[t] = s
          /\ \A u \in Task \ {t} : task'[u] = task[u] /\ owner'[u] = owner[u]
        BY <2>1, <2>2 DEF TypeInv
    <2>7. ASSUME NEW u \in Task, task'[u] = "running", owner'[u] = s PROVE u = t
        BY <2>5, <2>6, <2>7 DEF RunsFor
    <2>8. TasksHaveSessions'
        BY <2>2, <2>5, <2>6 DEF OneInv, TasksHaveSessions
    <2>9. OneRunning'
        <3>1. ASSUME NEW u \in Task, NEW v \in Task, (Live(u) /\ Live(v) /\ owner[u] = owner[v])', u # v
              PROVE  FALSE
            <4>1. u # t /\ v # t
                BY <2>6, <2>7, <3>1 DEF Live
            <4> QED BY <2>6, <3>1, <4>1 DEF OneInv, OneRunning, Live
        <3> QED BY <3>1 DEF OneRunning
    <2>10. \A x \in Session : NamesStarted(sess[x])'
        BY <2>2, <2>6 DEF OneInv, NamesStarted
    <2>11. SendersDiffer'
        <3> SUFFICES ASSUME NEW b \in Actor, NEW d \in Actor, Starting(call'[b])
                     PROVE  b \in Client /\ (Starting(call'[d]) /\ call'[b].t = call'[d].t => b = d)
            BY DEF SendersDiffer, Starting
        <3>1. ~Starting(n)
            BY <2>3 DEF Starting
        <3> QED BY <2>4, <3>1 DEF OneInv, SendersDiffer
    <2>12. SessionsKnow'
        <3> SUFFICES ASSUME NEW u \in Task, task'[u] = "running", Open(owner[u])',
                            sess'[owner'[u]].active # u
                     PROVE  \E b \in Actor : Delivers(call'[b], u)
            BY DEF SessionsKnow, Delivers
        <3>1. CASE u = t
            BY <2>3, <2>4, <3>1 DEF Delivers
        <3>2. CASE u # t
            <4>1. task[u] = "running" /\ Open(owner[u]) /\ sess[owner[u]].active # u
                BY <2>2, <2>6, <3>2 DEF Open, Stored
            <4>2. PICK b \in Actor : Delivers(call[b], u)
                BY <4>1 DEF OneInv, SessionsKnow
            <4>3. b # a
                BY <2>0, <2>1, <4>2 DEF Delivers
            <4> QED BY <2>4, <4>2, <4>3
        <3> QED BY <3>1, <3>2
    <2>13. ASSUME NEW b \in Actor PROVE CallKnows(call[b])'
        <3>1. CASE b = a
            <4>1. CallKnows(n)'
                BY <2>2, <2>3, <2>5, <2>6, <2>7 DEF CallKnows, RunsFor, Starting, Informed
            <4> QED BY <2>4, <3>1, <4>1 DEF CallKnows, RunsFor, Open, Stored, Starting, Informed
        <3>2. CASE b # a
            <4>0. PICK w : w = call[b]
                OBVIOUS
            <4>1. w \in Call /\ CallOK(w) /\ CallKnows(w) /\ call'[b] = w
                BY <1>k, <2>4, <3>2, <4>0
            <4>2. CASE w.op = "none"
                <5>1. call'[b] = AtRest
                    BY <1>at, <4>0, <4>1, <4>2
                <5> QED BY <1>rest, <5>1 DEF CallKnows, RunsFor, Open, Stored, Starting, Informed
            <4>3. CASE w.op # "none"
                <5>1. w.s # s
                    BY <2>0, <2>1, <3>2, <4>0, <4>3 DEF SendsApart
                <5>2. w.t # t
                    <6>1. Starting(w) => w.t # t
                        BY <2>0, <2>1, <3>2, <4>0 DEF OneInv, SendersDiffer
                    <6>2. ~Starting(w) => w.t # t
                        BY <2>1, <2>5, <4>1 DEF CallKnows, NoTaskIsNoTask
                    <6> QED BY <6>1, <6>2
                <5>3. w.t \in Task \cup {NoTask}
                      /\ (Starting(w) \/ w.at \in {"update", "waitMissing", "expireMissing"}
                            \/ w.op = "send" => w.t \in Task)
                    BY <4>1 DEF Call, CallOK, Starting, Place
                <5>4. /\ \A u \in Task : RunsFor(u, w.s)' => RunsFor(u, w.s)
                      /\ Open(w.s)' <=> Open(w.s)
                      /\ order'[w.s] = order[w.s]
                      /\ w.t \in Task => task'[w.t] = task[w.t] /\ owner'[w.t] = owner[w.t]
                    BY <2>2, <2>6, <5>1, <5>2 DEF RunsFor, Open, Stored
                <5>5. CallKnows(w)'
                    BY <4>1, <5>3, <5>4 DEF CallKnows, Starting, Informed
                <5> QED BY <4>1, <5>5 DEF CallKnows, RunsFor, Open, Stored, Starting, Informed
            <4> QED BY <4>2, <4>3
        <3> QED BY <3>1, <3>2
    <2> QED BY <2>8, <2>9, <2>10, <2>11, <2>12, <2>13 DEF OneInv
<1>5. ASSUME NEW a \in Actor, SendFailed(a) \/ InterruptMark(a) PROVE OneInv'
    <2>0. PICK k, s : k = call[a] /\ s = k.s
        OBVIOUS
    <2>1. PICK status \in {"failed", "interrupted"} :
            Write(s, WithoutTask(sess[s], status)) /\ k.at \in {"sendFailed", "mark"}
        BY <1>5, <2>0 DEF SendFailed, InterruptMark
    <2> DEFINE r == WithoutTask(sess[s], status)
    <2>2. r \in Record /\ r.closed = sess[s].closed /\ NamesStarted(r)
        <3>1. PICK q : q = sess[s]
            OBVIOUS
        <3>2. q \in Record /\ NamesStarted(q) /\ r = WithoutTask(q, status)
            BY <1>k, <2>0, <3>1
        <3> HIDE DEF r
        <3>3. WithoutTask(q, status) \in Record
            BY <3>2 DEF WithoutTask, Record, SessionEnded, Ended
        <3>4. WithoutTask(q, status).closed = q.closed /\ WithoutTask(q, status).active = NoTask
              /\ WithoutTask(q, status).last \in {q.active, q.last}
            BY <3>2 DEF WithoutTask, Record
        <3>5. NamesStarted(r)
            BY <3>2, <3>4 DEF NamesStarted
        <3> QED BY <3>1, <3>2, <3>3, <3>4, <3>5
    <2>3. \A u \in Task : ~(RunsFor(u, s) /\ Open(s))
        <3>1. CallKnows(k)
            BY <1>k, <2>0
        <3> QED BY <2>0, <2>1, <3>1 DEF CallKnows, Informed, NoTaskIsNoTask
    <2>4. call[a].op # "none" /\ Rest(a) /\ UNCHANGED <<order, stored, task, owner>>
        BY <1>5, <1>at, <2>0, <2>1 DEF SendFailed, InterruptMark
    <2> HIDE DEF r
    <2>5. Write(call[a].s, r)
        BY <2>0, <2>1 DEF r
    <2> QED BY <2>0, <2>2, <2>3, <2>4, <2>5, <1>r, <1>rest, OnlyItsSession DEF Rest
<1>6. ASSUME NEW a \in Actor, ReadSummary(a) PROVE OneInv'
    <2>0. PICK k : k = call[a]
        OBVIOUS
    <2> DEFINE n == [k EXCEPT !.st = task[k.t], !.at = "update"]
    <2>1. /\ k.at = "summary" /\ k.op \in {"send", "interrupt"} /\ k.t \in Task /\ k \in Call
          /\ CallKnows(k) /\ UNCHANGED <<sess, order, stored, task, owner>>
        BY <1>6, <1>k, <1>at, <2>0 DEF ReadSummary
    <2>2. CASE task[k.t] = "forgotten"
        BY <1>6, <2>0, <2>1, <2>2, <1>over DEF ReadSummary, Delivers
    <2>3. CASE task[k.t] # "forgotten"
        <3>1. n \in Call /\ call' = [call EXCEPT ![a] = n]
            BY <1>6, <2>0, <2>1, <2>3 DEF ReadSummary, Call, Place, TypeInv
        <3>2. n.op = k.op /\ n.at = "update" /\ n.s = k.s /\ n.t = k.t /\ n.st = task[k.t]
            BY <2>1 DEF Call
        <3> HIDE DEF n
        <3>3. CallKnows(n) /\ ~Starting(n)
            BY <2>1, <3>2 DEF CallKnows, Starting, Informed
        <3>4. \A u \in Task : Delivers(call[a], u) => Delivers(n, u)
            BY <2>0, <3>2 DEF Delivers
        <3> QED BY <2>1, <3>1, <3>3, <3>4, <1>new
    <2> QED BY <2>2, <2>3
<1>7. ASSUME NEW a \in Actor, Update(a) PROVE OneInv'
    <2>0. PICK k, s : k = call[a] /\ s = k.s
        OBVIOUS
    <2> DEFINE r == WithTask(sess[s], k.t, k.st)
               m == [k EXCEPT !.at = "waitRead"]
    <2>1. /\ k.at = "update" /\ k.t \in Task /\ k.st \in TaskStatus \ {"forgotten"} /\ k.op # "none"
          /\ k \in Call /\ CallKnows(k) /\ sess[s] \in Record /\ NamesStarted(sess[s])
        BY <1>7, <1>at, <1>k, <2>0 DEF Update, Call, CallOK
    <2>2. r \in Record
        BY <2>1, RecordsWritten
    <2>3. r.closed = sess[s].closed /\ (k.st = "running" => r.closed \/ r.active = k.t)
        BY <2>1 DEF WithTask, Record, Ended
    <2>4. \A u \in Task : RunsFor(u, s) /\ Open(s) => u = k.t /\ k.st = "running"
        BY <2>0, <2>1 DEF CallKnows, RunsFor, Informed
    <2>5. NamesStarted(r)
        <3>1. task[k.t] # "none"
            BY <2>1 DEF CallKnows, Starting, NoTaskIsNoTask
        <3> QED BY <2>1, <3>1 DEF NamesStarted, WithTask, Record
    <2>6. Write(s, r) /\ UNCHANGED <<order, stored, task, owner>>
        BY <1>7, <2>0 DEF Update
    <2>7. Rest(a) \/ (call' = [call EXCEPT ![a] = m] /\ k.op = "wait")
        BY <1>7, <2>0 DEF Update, Go
    <2>8. CASE Rest(a)
        <3> HIDE DEF r
        <3> QED BY <2>0, <2>1, <2>2, <2>3, <2>4, <2>5, <2>6, <2>8, <1>r, <1>rest, OnlyItsSession DEF Rest
    <2>9. CASE call' = [call EXCEPT ![a] = m] /\ k.op = "wait"
        <3>1. m \in Call /\ m.at = "waitRead" /\ m.op = "wait" /\ m.s = s /\ m.t = k.t
            BY <2>0, <2>1, <2>9 DEF Call, Place
        <3> HIDE DEF r, m
        <3>2. CallKnows(m)'
            BY <2>0, <2>1, <2>6, <3>1 DEF CallKnows, Starting, Informed
        <3> QED BY <2>0, <2>1, <2>2, <2>3, <2>4, <2>5, <2>6, <2>9, <3>1, <3>2, <1>r, OnlyItsSession
    <2> QED BY <2>7, <2>8, <2>9
<1>8. ASSUME NEW a \in Actor, NEW x \in Session, Wait(a, x) \/ Look(a, x) PROVE OneInv'
    <2> DEFINE w == [AtRest EXCEPT !.op = "wait", !.at = "waitRead", !.s = x]
               l == [AtRest EXCEPT !.op = "look", !.at = "enforce", !.s = x, !.seen = sess[x]]
    <2>0. /\ w \in Call /\ w.at = "waitRead" /\ w.op = "wait" /\ w.s = x /\ w.t = NoTask
          /\ l \in Call /\ l.at = "enforce" /\ l.op = "look" /\ l.s = x /\ l.t = NoTask
        BY <1>r DEF Call, Place, TypeInv
    <2>1. /\ call[a] = AtRest /\ Stored(x) /\ UNCHANGED <<sess, order, stored, task, owner>>
          /\ call' = [call EXCEPT ![a] = w] \/ call' = [call EXCEPT ![a] = l]
        BY <1>8 DEF Wait, Look
    <2> HIDE DEF w, l
    <2>2. order[x] # 0
        BY <2>1 DEF OneInv, TasksHaveSessions, Stored
    <2>3. CallKnows(w) /\ ~Starting(w) /\ CallKnows(l) /\ ~Starting(l)
        BY <2>0, <2>2 DEF CallKnows, Starting, Informed
    <2>4. \A u \in Task : ~Delivers(call[a], u)
        BY <2>1, <1>r DEF Delivers
    <2> QED BY <2>0, <2>1, <2>3, <2>4, <1>new
<1>9. ASSUME NEW a \in Actor, WaitRead(a) PROVE OneInv'
    <2>0. PICK k, s : k = call[a] /\ s = k.s
        OBVIOUS
    <2> DEFINE r == sess[s]
               n == [k EXCEPT !.seen = r, !.at = "enforce",
                              !.t = IF r.active # NoTask THEN r.active ELSE r.last]
    <2>1. /\ k.at = "waitRead" /\ k.op = "wait" /\ k \in Call /\ CallKnows(k) /\ r \in Record
          /\ NamesStarted(r) /\ UNCHANGED <<sess, order, stored, task, owner>>
        BY <1>9, <1>k, <1>at, <2>0 DEF WaitRead
    <2>2. /\ n \in Call /\ n.at = "enforce" /\ n.op = "wait" /\ n.s = s
          /\ (r.active # NoTask => n.t = r.active) /\ n.t \in {r.active, r.last}
        BY <2>0, <2>1 DEF Call, Place, Record
    <2>3. Rest(a) \/ call' = [call EXCEPT ![a] = n]
        BY <1>9, <2>0 DEF WaitRead
    <2>4. \A u \in Task : RunsFor(u, s) /\ Open(s) => r.active = u
        BY <2>0, <2>1, NamedInSession DEF Delivers
    <2> HIDE DEF n
    <2>5. \A u \in Task : RunsFor(u, s) /\ Open(s) => n.t = u
        BY <2>2, <2>4 DEF NoTaskIsNoTask
    <2>6. CallKnows(n) /\ ~Starting(n)
        <3>1. n.t # NoTask => task[n.t] # "none"
            BY <2>1, <2>2 DEF NamesStarted
        <3> QED BY <2>0, <2>1, <2>2, <2>5, <3>1 DEF CallKnows, Starting, Informed
    <2>7. \A u \in Task : ~Delivers(call[a], u)
        BY <2>0, <2>1 DEF Delivers
    <2> QED BY <2>1, <2>2, <2>3, <2>6, <2>7, <1>new, <1>over
<1>10. ASSUME NEW a \in Actor, WaitTask(a) PROVE OneInv'
    <2>0. PICK k : k = call[a]
        OBVIOUS
    <2> DEFINE n == [k EXCEPT !.st = task[k.t],
                              !.at = IF task[k.t] = "forgotten" THEN "waitMissing" ELSE "update"]
               m == [k EXCEPT !.at = "waitRead"]
    <2>1. /\ k.at = "waitTask" /\ k.op = "wait" /\ k \in Call /\ CallKnows(k)
          /\ UNCHANGED <<sess, order, stored, task, owner>>
        BY <1>10, <1>k, <1>at, <2>0 DEF WaitTask
    <2>2. \A u \in Task : ~Delivers(call[a], u)
        BY <2>0, <2>1 DEF Delivers
    <2>3. CASE k.t = NoTask
        <3>1. m \in Call /\ m.at = "waitRead" /\ m.op = "wait" /\ m.s = k.s /\ m.t = k.t
            BY <2>1 DEF Call, Place
        <3>2. Rest(a) \/ call' = [call EXCEPT ![a] = m]
            BY <1>10, <2>0, <2>3 DEF WaitTask, Go
        <3> HIDE DEF m
        <3>3. CallKnows(m) /\ ~Starting(m)
            BY <2>1, <3>1 DEF CallKnows, Starting, Informed
        <3> QED BY <2>1, <2>2, <3>1, <3>2, <3>3, <1>new, <1>over
    <2>4. CASE k.t # NoTask
        <3>1. k.t \in Task /\ n \in Call /\ call' = [call EXCEPT ![a] = n]
            BY <1>10, <2>0, <2>1, <2>4 DEF WaitTask, Call, Place, TypeInv
        <3>2. n.op = "wait" /\ n.s = k.s /\ n.t = k.t /\ n.st = task[k.t]
              /\ (n.at = "update" \/ (n.at = "waitMissing" /\ task[k.t] = "forgotten"))
            BY <2>1 DEF Call
        <3> HIDE DEF n
        <3>3. CallKnows(n) /\ ~Starting(n)
            BY <2>1, <2>4, <3>2 DEF CallKnows, Starting, Informed
        <3> QED BY <2>1, <2>2, <3>1, <3>3, <1>new
    <2> QED BY <2>3, <2>4
<1>11. ASSUME NEW a \in Actor, WaitMissing(a) \/ ExpireMissing(a) PROVE OneInv'
    <2>0. PICK k, s, t : k = call[a] /\ s = k.s /\ t = k.t
        OBVIOUS
    <2>1. /\ k.at \in {"waitMissing", "expireMissing"} /\ t \in Task /\ k.op \in {"wait", "look"}
          /\ k \in Call /\ CallKnows(k) /\ sess[s] \in Record /\ NamesStarted(sess[s])
          /\ UNCHANGED <<order, stored, task, owner>>
        BY <1>11, <1>k, <1>at, <2>0 DEF WaitMissing, ExpireMissing
    <2>2. task[t] = "forgotten" /\ \A u \in Task : ~(RunsFor(u, s) /\ Open(s))
        BY <2>0, <2>1 DEF CallKnows, RunsFor, Informed
    <2>3. PICK r \in {WithTaskMissing(sess[s], t), WithTaskTimeout(sess[s], t)} : Write(s, r)
        BY <1>11, <2>0 DEF WaitMissing, ExpireMissing
    <2>4. r \in Record /\ r.closed = sess[s].closed /\ NamesStarted(r)
        <3>1. PICK q : q = sess[s]
            OBVIOUS
        <3>2. q \in Record /\ NamesStarted(q) /\ r \in {WithTaskMissing(q, t), WithTaskTimeout(q, t)}
            BY <2>1, <2>3, <3>1
        <3>3. task[t] # "none"
            BY <2>2
        <3>4. WithTaskMissing(q, t) \in Record /\ WithTaskTimeout(q, t) \in Record
            BY <2>1, <3>2 DEF WithTaskMissing, WithTaskTimeout, Record, SessionEnded, Ended
        <3> QED BY <2>1, <3>1, <3>2, <3>3, <3>4, NamesWritten
    <2> DEFINE m == [k EXCEPT !.at = "waitRead"]
    <2>5. Rest(a) \/ (call' = [call EXCEPT ![a] = m] /\ k.at = "waitMissing")
        BY <1>11, <2>0 DEF WaitMissing, ExpireMissing, Go
    <2>6. CASE Rest(a)
        BY <2>0, <2>1, <2>2, <2>3, <2>4, <2>6, <1>r, <1>rest, OnlyItsSession DEF Rest
    <2>7. CASE call' = [call EXCEPT ![a] = m] /\ k.at = "waitMissing"
        <3>1. m \in Call /\ m.at = "waitRead" /\ m.op = "wait" /\ m.s = s /\ m.t = t
            BY <1>at, <2>0, <2>1, <2>7 DEF Call, Place
        <3> HIDE DEF m
        <3>2. CallKnows(m)'
            BY <2>0, <2>1, <2>2, <3>1 DEF CallKnows, Starting, Informed
        <3> QED BY <2>0, <2>1, <2>2, <2>3, <2>4, <2>7, <3>1, <3>2, <1>r, OnlyItsSession
    <2> QED BY <2>5, <2>6, <2>7
<1>12. ASSUME NEW a \in Actor, NEW x \in Session,
              InterruptRead(a, x) \/ \E force \in BOOLEAN : CloseRead(a, x, force)
       PROVE  OneInv'
    <2> DEFINE Read(op, at) == [AtRest EXCEPT !.op = op, !.s = x, !.seen = sess[x],
                                              !.t = sess[x].active, !.at = at]
    <2> DEFINE mark == Read("interrupt", "mark")
               interrupt == Read("interrupt", "interrupt")
               forced == Read("close", "interrupt")
               close == Read("close", "close")
               IsRead(m) == /\ m \in Call /\ m.s = x /\ m.t = sess[x].active
                            /\ (m.at = "mark" /\ m.op = "interrupt" /\ m.t = NoTask)
                               \/ (m.at = "interrupt" /\ m.op \in {"interrupt", "close"})
                               \/ (m.at = "close" /\ m.op = "close")
    <2>a. ASSUME NEW op \in {"interrupt", "close"}, NEW at \in {"mark", "interrupt", "close"}
          PROVE  LET m == Read(op, at) IN
                 m \in Call /\ m.s = x /\ m.t = sess[x].active /\ m.op = op /\ m.at = at
        BY <1>r DEF Call, TypeInv, Record, Place
    <2>b. ASSUME InterruptRead(a, x)
          PROVE  \/ call' = [call EXCEPT ![a] = mark] /\ sess[x].active = NoTask
                 \/ call' = [call EXCEPT ![a] = interrupt]
        BY <2>b DEF InterruptRead
    <2>c. ASSUME NEW force \in BOOLEAN, CloseRead(a, x, force)
          PROVE  call' = [call EXCEPT ![a] = forced] \/ call' = [call EXCEPT ![a] = close]
        BY <2>c DEF CloseRead
    <2>d. /\ sess[x].active = NoTask => IsRead(mark)
          /\ IsRead(interrupt) /\ IsRead(forced) /\ IsRead(close)
        <3> HIDE DEF Read
        <3> QED BY <2>a
    <2> HIDE DEF Read, mark, interrupt, forced, close
    <2>1. PICK n : call' = [call EXCEPT ![a] = n] /\ IsRead(n)
        BY <1>12, <2>b, <2>c, <2>d
    <2>3. n \in Call /\ n.s = x /\ n.t = sess[x].active /\ n.op \in {"interrupt", "close"}
          /\ n.at \in {"mark", "interrupt", "close"} /\ (n.at = "mark" => n.t = NoTask)
        BY <2>1
    <2> HIDE DEF IsRead
    <2>4. /\ call[a] = AtRest /\ Stored(x) /\ UNCHANGED <<sess, order, stored, task, owner>>
        <3>1. CASE InterruptRead(a, x)
            BY <3>1 DEF InterruptRead
        <3>2. CASE \E force \in BOOLEAN : CloseRead(a, x, force)
            BY <3>2 DEF CloseRead
        <3> QED BY <1>12, <3>1, <3>2
    <2>5. call' = [call EXCEPT ![a] = n]
        BY <2>1
    <2>6. \A u \in Task : ~Delivers(call[a], u)
        BY <2>4, <1>r DEF Delivers
    <2>7. ASSUME NEW u \in Task, RunsFor(u, x), Open(x) PROVE u = n.t
        <3>1. ASSUME NEW b \in Actor, Delivers(call[b], u) PROVE FALSE
            <4>1. call[b].op = "send" /\ call[b].s = x /\ b # a
                BY <1>r, <2>4, <2>7, <3>1 DEF OneInv, CallKnows, Delivers, Starting, RunsFor
            <4>2. call'[b] = call[b] /\ call'[a] = n
                BY <2>5, <4>1 DEF TypeInv
            <4> QED BY <2>3, <4>1, <4>2 DEF SendsApart
        <3> QED BY <2>3, <2>7, <3>1 DEF OneInv, SessionsKnow, RunsFor
    <2>8. order[x] # 0 /\ NamesStarted(sess[x])
        BY <2>4 DEF OneInv, TasksHaveSessions, Stored
    <2>9. CallKnows(n) /\ ~Starting(n)
        <3>1. n.t # NoTask => task[n.t] # "none"
            BY <2>3, <2>8 DEF NamesStarted
        <3> QED BY <2>3, <2>7, <2>8, <3>1 DEF CallKnows, Starting, Informed
    <2> QED BY <2>3, <2>4, <2>5, <2>6, <2>9, <1>new
<1>13. ASSUME NEW a \in Actor, InterruptTask(a) \/ Expire(a) PROVE OneInv'
    <2>0. PICK k, t : k = call[a] /\ t = k.t
        OBVIOUS
    <2>1. /\ k.at \in {"interrupt", "expire"} /\ k.op \notin {"none", "send"} /\ t \in Task
          /\ k \in Call /\ CallKnows(k) /\ UNCHANGED <<sess, order, stored, owner>>
        BY <1>13, <1>k, <1>at, <2>0 DEF InterruptTask, Expire
    <2>2. task' = [task EXCEPT ![t] = IF Live(t) THEN "interrupted" ELSE task[t]]
        BY <1>13, <2>0, <2>1 DEF InterruptTask, Expire, TypeInv
    <2>3. TasksOnlyEnd /\ task'[t] # "running" /\ (task[t] # "running" => task'[t] = task[t])
        BY <2>1, <2>2 DEF TasksOnlyEnd, Live, TypeInv, NoTaskIsNoTask
    <2>s. PICK st : st = IF Live(t) THEN "interrupted" ELSE task[t]
        OBVIOUS
    <2>n. PICK n : n = IF k.at = "interrupt"
                       THEN [k EXCEPT !.at = IF k.op = "close" THEN "close" ELSE "summary"]
                       ELSE [k EXCEPT !.st = st,
                                      !.at = IF st = "forgotten" THEN "expireMissing" ELSE "update"]
        OBVIOUS
    <2>4. call' = [call EXCEPT ![a] = n]
        BY <1>13, <2>0, <2>s, <2>n DEF InterruptTask, Expire, Go
    <2>5. st \in TaskStatus
        BY <2>1, <2>s DEF TypeInv, TaskStatus, Ended
    <2>6. /\ n \in Call /\ n.s = k.s /\ n.t = t /\ n.op = k.op
          /\ n.at \in {"close", "summary", "update", "expireMissing"}
          /\ n.at = "expireMissing" => task[t] = "forgotten"
        BY <2>0, <2>1, <2>s, <2>n, <2>5 DEF Call, Place
    <2>7. \A u \in Task : ~Delivers(call[a], u)
        BY <2>0, <2>1 DEF Delivers
    <2>8. ~Starting(n)
        BY <2>1, <2>6 DEF Starting
    <2>9. CallKnows(n)'
        <3>1. \A u \in Task : RunsFor(u, k.s)' /\ Open(k.s)' => u = t
            BY <2>0, <2>1, <2>3 DEF CallKnows, RunsFor, Open, Stored, TasksOnlyEnd, Informed
        <3>2. order'[k.s] # 0 /\ task'[t] # "none" /\ (n.at = "expireMissing" => task'[t] = "forgotten")
            <4>1. order[k.s] # 0 /\ task[t] # "none"
                BY <2>0, <2>1 DEF CallKnows, Starting, NoTaskIsNoTask
            <4>2. (task'[t] = "none" <=> task[t] = "none")
                  /\ (task[t] = "forgotten" => task'[t] = "forgotten")
                BY <2>1, <2>3 DEF TasksOnlyEnd
            <4>3. order' = order
                BY <2>1
            <4> QED BY <2>6, <4>1, <4>2, <4>3
        <3>3. task'[t] # "running"
            BY <2>3
        <3>4. n.at \notin {"sendCheck", "sendStart", "sendFailed", "mark", "waitMissing"} /\ n.op # "send"
            BY <2>1, <2>6
        <3>5. \A u \in Task : RunsFor(u, n.s)' => (Open(n.s)' => u = n.t)
            BY <2>6, <3>1
        <3> QED BY <2>6, <3>2, <3>3, <3>4, <3>5 DEF CallKnows, Starting
    <2> QED BY <1>r, <2>1, <2>3, <2>4, <2>6, <2>7, <2>8, <2>9, OnlyCallsAndTasks
<1>14. ASSUME NEW a \in Actor, CloseMark(a) PROVE OneInv'
    <2>0. PICK k, s : k = call[a] /\ s = k.s
        OBVIOUS
    <2> DEFINE r == AsClosed(sess[s])
    <2>1. r \in Record /\ r.closed /\ NamesStarted(r)
        <3>1. PICK q : q = sess[s]
            OBVIOUS
        <3>2. q \in Record /\ NamesStarted(q) /\ r = AsClosed(q)
            BY <1>k, <2>0, <3>1
        <3> HIDE DEF r
        <3>3. AsClosed(q) \in Record
            BY <3>2 DEF AsClosed, Record, SessionEnded, Ended
        <3>4. AsClosed(q).closed /\ AsClosed(q).active = NoTask /\ AsClosed(q).last = q.last
            BY <3>2 DEF AsClosed, Record
        <3> QED BY <3>2, <3>3, <3>4 DEF NamesStarted
    <2>2. k.op # "none" /\ Rest(a) /\ Write(s, r) /\ UNCHANGED <<order, stored, task, owner>>
        BY <1>14, <1>at, <2>0 DEF CloseMark
    <2> HIDE DEF r
    <2> QED BY <2>0, <2>1, <2>2, <1>r, <1>rest, OnlyItsSession DEF Rest
<1>15. ASSUME NEW a \in Actor, Enforce(a) PROVE OneInv'
    <2>0. PICK k, s : k = call[a] /\ s = k.s
        OBVIOUS
    <2> DEFINE e == [k EXCEPT !.at = "expire", !.t = sess[s].active]
               n == [k EXCEPT !.at = "waitTask"]
    <2>1. /\ k.at = "enforce" /\ k.op \in {"wait", "look"} /\ k \in Call /\ CallKnows(k)
          /\ UNCHANGED <<sess, order, stored, task, owner>> /\ NamesStarted(sess[s])
          /\ sess[s].active \in Task \cup {NoTask}
        BY <1>15, <1>k, <1>at, <2>0 DEF Enforce, Record
    <2>2. \/ Rest(a)
          \/ call' = [call EXCEPT ![a] = n] /\ k.op = "wait"
          \/ call' = [call EXCEPT ![a] = e] /\ sess[s].active # NoTask
        BY <1>15, <2>0, <2>1 DEF Enforce, Go, Due
    <2>3. /\ n \in Call /\ n.at = "waitTask" /\ n.op = k.op /\ n.s = s /\ n.t = k.t
          /\ e \in Call /\ e.at = "expire" /\ e.op = k.op /\ e.s = s /\ e.t = sess[s].active
        BY <2>0, <2>1 DEF Call, Place
    <2> HIDE DEF n, e
    <2>4. \A u \in Task : RunsFor(u, s) /\ Open(s) => sess[s].active = u
        BY <2>0, <2>1, NamedInSession DEF Delivers
    <2>5. k.op = "wait" => CallKnows(n)
        BY <2>0, <2>1, <2>3 DEF CallKnows, Starting, Informed
    <2>6. CallKnows(e)
        <3>1. e.t # NoTask => task[e.t] # "none"
            BY <2>1, <2>3 DEF NamesStarted
        <3> QED BY <2>0, <2>1, <2>3, <2>4, <3>1 DEF CallKnows, Starting, Informed
    <2>7. ~Starting(n) /\ ~Starting(e) /\ \A u \in Task : ~Delivers(call[a], u)
        BY <2>0, <2>1, <2>3 DEF Starting, Delivers
    <2> QED BY <2>1, <2>2, <2>3, <2>5, <2>6, <2>7, <1>new, <1>over
<1>16. ASSUME NEW t \in Task, TaskEnds(t) \/ TaskForgotten(t) \/ TaskTurnsLate(t) PROVE OneInv'
    <2>1. TasksOnlyEnd
        BY <1>16 DEF TaskEnds, TaskForgotten, TaskTurnsLate, Live, TypeInv, Ended, TasksOnlyEnd
    <2>2. UNCHANGED <<sess, order, stored, owner, call>>
        BY <1>16 DEF TaskEnds, TaskForgotten, TaskTurnsLate
    <2>3. PICK n : n = call[Sweeper]
        OBVIOUS
    <2>4. Sweeper \in Actor /\ n \in Call /\ CallOK(n) /\ CallKnows(n)
        BY <1>k, <2>3 DEF Actor
    <2>5. CallKnows(n)' /\ call' = [call EXCEPT ![Sweeper] = n]
        BY <1>r, <2>1, <2>2, <2>3, <2>4, KnowsWhileTasksEnd DEF TypeInv
    <2>6. Starting(n) => Sweeper \in Client /\ \A b \in Actor \ {Sweeper} : Starting(call[b]) => call[b].t # n.t
        BY <2>3, <2>4 DEF OneInv, SendersDiffer
    <2> QED BY <1>r, <2>1, <2>2, <2>3, <2>4, <2>5, <2>6, OnlyCallsAndTasks
<1>17. CASE UNCHANGED vars
    BY <1>17 DEF vars, OneInv, TasksHaveSessions, SessionsKnow, CallKnows, OneRunning, SendersDiffer,
                 NamesStarted, Open, Stored, RunsFor, Delivers, Live, Starting, Informed
<1> QED
    BY <1>1, <1>2, <1>3, <1>4, <1>5, <1>6, <1>7, <1>8, <1>9, <1>10, <1>11, <1>12, <1>13, <1>14,
       <1>15, <1>16, <1>17 DEF Next, ClientStep, SharedStep, Actor

\* A session never has two tasks that run (handle_sub_agent_send looks for a task of its
\* session that runs before it starts another), as long as each send is alone with its
\* session: for any clients, sessions, tasks and limits, and however waits, status calls,
\* interrupts, closes and sweeps overlap each other, with starts refused, tasks forgotten
\* and tasks past their budget.
THEOREM OneTaskRuns ==
    ASSUME SessionsAreFinite, NoTaskIsNoTask
    PROVE  Spec /\ []SendsApart => []OneRunning
<1>1. Init => TypeInv /\ OneInv
    <2> SUFFICES ASSUME Init PROVE TypeInv /\ OneInv
        OBVIOUS
    <2>1. TypeInv
        BY TypeInit
    <2>2. /\ \A a \in Actor : call[a] = AtRest
          /\ AtRest.op = "none" /\ AtRest.at = "rest" /\ AtRest.t = NoTask
        BY DEF Init, AtRest
    <2>3. \A t \in Task : task[t] = "none"
        BY DEF Init
    <2>4. \A s \in Session : NamesStarted(sess[s])
        BY DEF Init, NamesStarted, Unborn
    <2>5. \A a \in Actor : CallKnows(call[a]) /\ ~Starting(call[a])
        BY <2>2, <2>3 DEF CallKnows, RunsFor, Starting, Informed
    <2> QED BY <2>1, <2>3, <2>4, <2>5 DEF Init, OneInv, TasksHaveSessions, SessionsKnow, SendersDiffer,
                                         OneRunning, Live
<1>2. TypeInv /\ OneInv /\ SendsApart /\ SendsApart' /\ [Next]_vars => (TypeInv /\ OneInv)'
    BY TypeStep, OneStep
<1>3. OneInv => OneRunning
    BY DEF OneInv
<1> QED BY <1>1, <1>2, <1>3, PTL DEF Spec
-----------------------------------------------------------------------------
(* One instruction for each session.  Now tasks outlive their budget, and  *)
(* the sweeper works on a session while the client does: what either has   *)
(* read is still of use, because a session has one task it can be about.   *)

OnlyClient(c) == Client = {c} /\ SweeperIsNoClient

Known(t) == task[t] \notin {"none", "forgotten"}

\* Task u was started for session s, and no other task that is known was.
IsTheTask(s, u) ==
    /\ task[u] # "none" /\ owner[u] = s
    /\ \A t \in Task : Known(t) /\ owner[t] = s => t = u

Unused(s) == sess[s].status \in {"none", "idle"}

SessionRight(s) ==
    /\ order[s] # 0 <=> sess[s].status # "none"
    /\ Stored(s) => order[s] # 0
    /\ Unused(s) => sess[s].active = NoTask /\ sess[s].last = NoTask /\ ~sess[s].closed
    /\ sess[s].active # NoTask => IsTheTask(s, sess[s].active)
    /\ sess[s].last # NoTask => IsTheTask(s, sess[s].last)

\* What call k was told of its session and of its task is still so.
CallRight(k) ==
    /\ k.op # "none" => order[k.s] # 0
    /\ ~Starting(k) /\ k.t # NoTask => IsTheTask(k.s, k.t)
    /\ k.op # "send" /\ (k.t # NoTask \/ k.op = "look") => ~Unused(k.s)
    /\ k.op = "send" => Stored(k.s) /\ sess[k.s].status = "idle"
    /\ Starting(k) => task[k.t] = "none"
    /\ k.at = "mark" => ~\E t \in Task : RunsFor(t, k.s) /\ Open(k.s)
    /\ k.at = "update" => k.st # "none" /\ (task[k.t] = "running" => k.st = "running")
    /\ k.at = "update" /\ k.op \in {"look", "interrupt"} => k.st # "running"
    /\ k.at \in {"waitMissing", "expireMissing"} => task[k.t] = "forgotten"
    /\ k.at = "summary" /\ k.op = "interrupt" => task[k.t] # "running"

\* Task t has its session, and one that runs is named there or is about to be.
TaskRight(k, t) ==
    /\ task[t] # "none" => order[owner[t]] # 0
    /\ Known(t) /\ Unused(owner[t]) => Delivers(k, t)
    /\ task[t] = "running" /\ Open(owner[t]) =>
          Delivers(k, t) \/ (sess[owner[t]].active = t /\ sess[owner[t]].status = "running")
    /\ \A u \in Task : Known(t) /\ Known(u) /\ owner[t] = owner[u] => t = u

Rightly(c) ==
    /\ call[Sweeper].op \in {"none", "look"}
    /\ \A s \in Session : SessionRight(s)
    /\ \A a \in Actor : CallRight(call[a])
    /\ \A t \in Task : TaskRight(call[c], t)

\* What is so of a call stays so while tasks end.
LEMMA CallStaysRight ==
    ASSUME TasksOnlyEnd, UNCHANGED <<sess, order, stored, owner>>, AtRest.at = "rest",
           NEW k \in Call, CallOK(k), CallRight(k)
    PROVE  CallRight(k)'
<1>1. ASSUME NEW s, NEW u \in Task, IsTheTask(s, u) PROVE IsTheTask(s, u)'
    BY <1>1 DEF TasksOnlyEnd, IsTheTask, Known
<1>2. k.at \notin {"rest", "waitRead", "enforce", "waitTask", "mark", "close"} => k.t \in Task
    BY DEF CallOK, Call
<1>3. (Starting(k) => k.t \in Task) /\ k.t \in Task \cup {NoTask}
    BY <1>2 DEF Starting, Call
<1> QED BY <1>1, <1>2, <1>3
        DEF TasksOnlyEnd, CallRight, Starting, Stored, Unused, Open, RunsFor

\* A step that ends or forgets tasks, or none, and changes one call.
LEMMA CallsAndTasks ==
    ASSUME NEW c, OnlyClient(c), TypeInv, Rightly(c), NEW a \in Actor, NEW n \in Call,
           call' = [call EXCEPT ![a] = n], UNCHANGED <<sess, order, stored, owner>>,
           TasksOnlyEnd, AtRest.at = "rest",
           CallRight(n)', a = Sweeper => n.op \in {"none", "look"},
           a = c => \A u \in Task : Delivers(call[c], u) => Delivers(n, u) \/ ~Known(u)
    PROVE  Rightly(c)'
<1>0. /\ call'[a] = n /\ \A b \in Actor : b # a => call'[b] = call[b]
      /\ c \in Actor /\ Sweeper \in Actor /\ c # Sweeper
    BY DEF TypeInv, OnlyClient, SweeperIsNoClient, Actor
<1>1. \A u \in Task : Known(u)' => Known(u)
    BY DEF Known, TasksOnlyEnd
<1>2. ASSUME NEW s, NEW u \in Task, IsTheTask(s, u) PROVE IsTheTask(s, u)'
    BY <1>1, <1>2 DEF IsTheTask, TasksOnlyEnd
<1>3. call'[Sweeper].op \in {"none", "look"}
    BY <1>0 DEF Rightly
<1>4. ASSUME NEW s \in Session PROVE SessionRight(s)'
    <2>1. sess[s].active \in Task \cup {NoTask} /\ sess[s].last \in Task \cup {NoTask}
        BY DEF TypeInv, Record
    <2> QED BY <1>2, <2>1 DEF Rightly, SessionRight, Stored, Unused
<1>5. ASSUME NEW b \in Actor PROVE CallRight(call[b])'
    <2>1. CASE b = a
        BY <1>0, <2>1
    <2>2. CASE b # a
        <3>0. PICK k : k = call[b]
            OBVIOUS
        <3>1. call'[b] = k /\ CallRight(k) /\ CallOK(k) /\ k \in Call
            BY <1>0, <2>2, <3>0 DEF Rightly, TypeInv
        <3>4. CallRight(k)'
            BY <3>1, CallStaysRight
        <3> QED BY <3>1, <3>4
    <2> QED BY <2>1, <2>2
<1>6. ASSUME NEW t \in Task PROVE TaskRight(call[c], t)'
    <2>1. TaskRight(call[c], t)
        BY DEF Rightly
    <2>2. \A u \in Task : Delivers(call[c], u) /\ Known(u) => Delivers(call'[c], u)
        BY <1>0
    <2>3. task'[t] = "running" => Known(t)
        BY <1>1 DEF Known
    <2> QED BY <1>1, <2>1, <2>2, <2>3 DEF TaskRight, Stored, Unused, Open, TasksOnlyEnd
<1> QED BY <1>3, <1>4, <1>5, <1>6 DEF Rightly

\* Call k goes on as n: it is over, or a wait that begins another round.
LetGo(k, n) ==
    \/ n = AtRest
    \/ n.op = "wait" /\ n.at = "waitRead" /\ n.s = k.s /\ n.t = k.t /\ k.op = "wait"

\* A step that writes one call's session and lets that call go.
LEMMA ASessionWritten ==
    ASSUME NEW c, OnlyClient(c), NoTaskIsNoTask, TypeInv, Rightly(c), NEW a \in Actor, NEW r \in Record,
           Write(call[a].s, r), r.status \notin {"none", "idle"},
           r.active # NoTask => IsTheTask(call[a].s, r.active),
           r.last # NoTask => IsTheTask(call[a].s, r.last),
           sess[call[a].s].closed => r.closed, call[a].op # "none",
           a = Sweeper => ~Unused(call[a].s),
           \A u \in Task : RunsFor(u, call[a].s) /\ Open(call[a].s) =>
               r.closed \/ (r.active = u /\ r.status = "running"),
           NEW n \in Call, call' = [call EXCEPT ![a] = n],
           LetGo(call[a], n),
           UNCHANGED <<order, stored, task, owner>>
    PROVE  Rightly(c)'
<1>s. PICK s : s = call[a].s
    OBVIOUS
<1>0. /\ call'[a] = n /\ \A b \in Actor : b # a => call'[b] = call[b]
      /\ c \in Actor /\ Sweeper \in Actor /\ c # Sweeper /\ Actor = {c, Sweeper}
      /\ s \in Session /\ sess[s] \in Record
    BY <1>s DEF TypeInv, OnlyClient, SweeperIsNoClient, Actor, Call
<1>r. /\ AtRest.op = "none" /\ AtRest.at = "rest" /\ AtRest.t = NoTask
    BY DEF AtRest
<1>1. \A x \in Session : sess'[x] = sess[x] \/ (x = s /\ sess'[x] = r /\ Stored(s))
    BY <1>0, <1>s DEF Write, TypeInv
<1>2. \A x, u : IsTheTask(x, u)' <=> IsTheTask(x, u)
    BY DEF IsTheTask, Known
<1>3. call'[Sweeper].op \in {"none", "look"}
    BY <1>0, <1>r DEF Rightly, LetGo
<1>4. ASSUME NEW x \in Session PROVE SessionRight(x)'
    <2>1. SessionRight(x) /\ order[s] # 0
        BY <1>s DEF Rightly, CallRight
    <2>2. CASE sess'[x] = sess[x]
        BY <1>2, <2>1, <2>2 DEF SessionRight, Stored, Unused
    <2>3. CASE x = s /\ sess'[x] = r
        BY <1>s, <1>2, <2>1, <2>3 DEF SessionRight, Stored, Unused
    <2> QED BY <1>1, <2>2, <2>3
<1>5. ASSUME NEW x \in Session, Unused(x)' PROVE Unused(x) /\ (x = s => ~Stored(s)) /\ sess'[x] = sess[x]
    <2>1. x = s /\ Stored(s) => sess'[x] = r
        BY <1>0, <1>s DEF Write, TypeInv
    <2> QED BY <1>1, <1>5, <2>1 DEF Unused
<1>6. ASSUME NEW x \in Session, Open(x)' PROVE Open(x) /\ (x = s => ~r.closed /\ sess'[x] = r)
    <2>1. x = s /\ Stored(s) => sess'[x] = r
        BY <1>0, <1>s DEF Write, TypeInv
    <2> QED BY <1>s, <1>1, <1>6, <2>1 DEF Open, Stored
<1>7. ASSUME NEW b \in Actor PROVE CallRight(call[b])'
    <2>1. CASE b = a
        <3>1. CASE n = AtRest
            BY <1>0, <1>r, <2>1, <3>1 DEF CallRight, Starting
        <3>2. CASE n # AtRest
            <4>1. n.op = "wait" /\ n.at = "waitRead" /\ n.s = s /\ n.t = call[a].t /\ call[a].op = "wait"
                BY <1>s, <3>2 DEF LetGo
            <4>2. order[s] # 0 /\ (n.t # NoTask => IsTheTask(s, n.t) /\ ~Unused(s))
                BY <1>s, <4>1 DEF Rightly, CallRight, Starting
            <4>3. n.t # NoTask => IsTheTask(s, n.t)' /\ ~Unused(s)'
                BY <1>0, <1>2, <1>5, <4>2
            <4>4. CallRight(n)'
                <5> SUFFICES ASSUME n.t # NoTask => IsTheTask(n.s, n.t)' /\ ~Unused(n.s)',
                                    order'[n.s] # 0
                             PROVE  CallRight(n)'
                    BY <4>1, <4>2, <4>3
                <5> QED BY <4>1 DEF CallRight, Starting
            <4> QED BY <1>0, <2>1, <4>4
        <3> QED BY <3>1, <3>2
    <2>2. CASE b # a
        <3>0. PICK k : k = call[b]
            OBVIOUS
        <3>1. call'[b] = k /\ CallRight(k) /\ k.s \in Session /\ k \in Call
            BY <1>0, <2>2, <3>0 DEF Rightly, TypeInv, Call
        <3>2. k.op = "send" => k.s # s
            <4>1. CASE b = Sweeper
                BY <3>0, <4>1 DEF Rightly
            <4>2. CASE b = c
                BY <1>0, <1>s, <2>2, <3>1, <4>2 DEF CallRight, Unused
            <4> QED BY <1>0, <4>1, <4>2
        <3>3. k.op = "send" => sess'[k.s] = sess[k.s]
            BY <1>1, <3>1, <3>2
        <3>4. CallRight(k)'
            BY <1>2, <1>5, <1>6, <3>1, <3>3 DEF CallRight, Starting, Stored, RunsFor
        <3> QED BY <3>1, <3>4
    <2> QED BY <2>1, <2>2
<1>8. ASSUME NEW t \in Task PROVE TaskRight(call[c], t)'
    <2>0. PICK k : k = call[c]
        OBVIOUS
    <2>1. TaskRight(k, t) /\ owner[t] \in Session
        BY <2>0 DEF Rightly, TypeInv
    <2>2. Delivers(k, t) /\ Known(t) => owner[t] = k.s /\ Unused(k.s) /\ Stored(k.s)
        <3>1. CallRight(k) /\ t # NoTask
            BY <1>0, <2>0 DEF Rightly, NoTaskIsNoTask
        <3> QED BY <3>1 DEF CallRight, Delivers, Starting, IsTheTask, Unused
    <2>3. CASE a = c
        <3>1. Delivers(k, t) /\ Known(t) => owner[t] = s /\ Stored(s)
            BY <1>s, <2>0, <2>2, <2>3
        <3>2. Unused(owner[t])' /\ Known(t) => FALSE
            BY <1>5, <2>1, <3>1 DEF TaskRight
        <3>3. task[t] = "running" /\ Open(owner[t])' => (sess[owner[t]].active = t /\ sess[owner[t]].status = "running")'
            BY <1>s, <1>1, <1>6, <2>1, <3>1 DEF TaskRight, RunsFor, Known
        <3> QED BY <2>1, <3>2, <3>3 DEF TaskRight, Known
    <2>4. CASE a # c
        <3>1. call'[c] = k /\ ~Unused(s)
            BY <1>0, <1>s, <2>0, <2>4
        <3>2. Delivers(k, t) /\ Known(t) => owner[t] # s
            BY <2>2, <3>1
        <3>3. TaskRight(k, t)'
            BY <1>s, <1>1, <1>5, <1>6, <2>1, <3>2 DEF TaskRight, RunsFor, Known, Delivers
        <3> QED BY <3>1, <3>3
    <2> QED BY <2>3, <2>4
<1> QED BY <1>3, <1>4, <1>7, <1>8 DEF Rightly

\* The steps while there is one client: the sweep has its own (Look, Enforce, Expire).
LEMMA StepsOfTwo ==
    ASSUME NEW c, OnlyClient(c), [Next]_vars
    PROVE  \/ \E s \in Session : \E Old \in SUBSET Session : Spawn(s, Old)
           \/ ClientStep(c)
           \/ \E a \in Actor : SharedStep(a) \/ \E s \in Session : Look(a, s)
           \/ \E t \in Task : TaskEnds(t) \/ TaskForgotten(t) \/ TaskTurnsLate(t)
           \/ UNCHANGED vars
BY DEF OnlyClient, Next

\* Every step keeps it, one step below for each action.
LEMMA RightStep ==
    ASSUME NEW c, OnlyClient(c), OneInstruction, SessionsAreFinite, NoTaskIsNoTask,
           TypeInv, Rightly(c), [Next]_vars
    PROVE  Rightly(c)'
<1>k. ASSUME NEW a \in Actor
      PROVE  /\ call[a] \in Call /\ CallOK(call[a]) /\ call[a].s \in Session
             /\ sess[call[a].s] \in Record /\ CallRight(call[a]) /\ SessionRight(call[a].s)
             /\ call[a].at \in Place
    BY <1>k DEF TypeInv, Call, Rightly
<1>c. c \in Actor /\ Sweeper \in Actor /\ c # Sweeper /\ call[Sweeper].op \in {"none", "look"}
    BY DEF OnlyClient, SweeperIsNoClient, Actor, Rightly
<1>r. /\ AtRest \in Call /\ CallOK(AtRest) /\ AtRest.at = "rest" /\ AtRest.t = NoTask
      /\ AtRest.op = "none" /\ AtRest.s \in Session
    BY RestType DEF AtRest, SessionsAreFinite, Call
<1>at. ASSUME NEW a \in Actor
       PROVE  LET k == call[a] IN
              /\ k.at # "rest" => k.op # "none"
              /\ k.at \in {"sendCheck", "sendStart", "sendFailed"} => k.op = "send"
              /\ k.at = "summary" => k.op \in {"send", "interrupt"}
              /\ k.at = "update" => k.op \in {"send", "interrupt", "wait", "look"}
              /\ k.at \in {"waitRead", "waitTask", "waitMissing"} => k.op = "wait"
              /\ k.at \in {"enforce", "expire", "expireMissing"} => k.op \in {"wait", "look"}
              /\ k.at = "mark" => k.op = "interrupt"
              /\ k.at = "interrupt" => k.op \in {"interrupt", "close"}
              /\ k.at = "close" => k.op = "close"
              /\ k.at \notin {"rest", "waitRead", "enforce", "waitTask", "mark", "close"}
                    => k.t \in Task
    BY <1>k, <1>r, WhereACallIs
<1>new. ASSUME NEW a \in Actor, NEW n \in Call, call' = [call EXCEPT ![a] = n], CallRight(n),
               UNCHANGED <<sess, order, stored, task, owner>>,
               a = Sweeper => n.op \in {"none", "look"},
               a = c => \A u \in Task : Delivers(call[c], u) => Delivers(n, u) \/ ~Known(u)
        PROVE  Rightly(c)'
    <2>1. CallRight(n)'
        BY <1>new DEF CallRight, Starting, IsTheTask, Known, Unused, Stored, Open, RunsFor
    <2>2. TasksOnlyEnd
        BY <1>new DEF TasksOnlyEnd
    <2> QED BY <1>new, <1>r, <2>1, <2>2, CallsAndTasks
<1>rest. ASSUME NEW a \in Actor, Rest(a), UNCHANGED <<sess, order, stored, task, owner>>,
                \A u \in Task : Delivers(call[a], u) => ~Known(u)
         PROVE  Rightly(c)'
    <2>1. CallRight(AtRest)
        BY <1>r DEF CallRight, Starting
    <2> QED BY <2>1, <1>r, <1>rest, <1>new DEF Rest
<1>1. ASSUME NEW n \in Session, NEW Old \in SUBSET Session, Spawn(n, Old) PROVE Rightly(c)'
    <2>1. /\ call = call' /\ call[c] = AtRest /\ stored' \subseteq stored \cup {n} /\ order[n] = 0
          /\ UNCHANGED <<task, late, owner>>
        BY <1>1, <1>r DEF Spawn, OnlyClient, Trimmed
    <2>2. \A u \in Task : task[u] # "none" => owner[u] \in Session /\ owner[u] # n
        BY <2>1 DEF Rightly, TaskRight, TypeInv
    <2>3. \A x \in Session : x # n => sess'[x] = sess[x] /\ order'[x] = order[x]
        BY <1>1 DEF Spawn, TypeInv
    <2>4. \/ sess'[n] = Newborn /\ order'[n] # 0
          \/ sess'[n] = sess[n] /\ order'[n] = order[n] /\ n \notin stored'
        <3> DEFINE made == {o \in Session : order[o] # 0}
        <3>1. 1 + Cardinality(made) # 0
            BY FS_Subset, FS_CardinalityType DEF SessionsAreFinite
        <3>2. n \notin stored
            BY <2>1 DEF Rightly, SessionRight, Stored
        <3> QED BY <1>1, <3>1, <3>2 DEF Spawn, TypeInv
    <2>5. \A x, u : IsTheTask(x, u)' <=> IsTheTask(x, u)
        BY <2>1 DEF IsTheTask, Known
    <2>6. ASSUME NEW x \in Session PROVE SessionRight(x)'
        <3>1. SessionRight(x)
            BY DEF Rightly
        <3>2. CASE x # n
            BY <2>1, <2>3, <2>5, <3>1, <3>2 DEF SessionRight, Stored, Unused
        <3>3. CASE x = n /\ sess'[n] = Newborn /\ order'[n] # 0
            BY <3>3 DEF SessionRight, Newborn, Unborn
        <3>4. CASE x = n /\ sess'[n] = sess[n] /\ order'[n] = order[n] /\ n \notin stored'
            BY <2>5, <3>1, <3>4 DEF SessionRight, Stored, Unused
        <3> QED BY <2>4, <3>2, <3>3, <3>4
    <2>7. ASSUME NEW a \in Actor PROVE CallRight(call[a])'
        <3>0. PICK k : k = call[a]
            OBVIOUS
        <3>1. CASE a = c
            BY <1>r, <2>1, <3>1 DEF CallRight, Starting
        <3>2. CASE a = Sweeper
            <4>1. CallRight(k) /\ k.op \in {"none", "look"} /\ k.s \in Session
                  /\ (k.op = "none" => k = AtRest)
                BY <1>k, <1>c, <3>0, <3>2 DEF CallOK
            <4>2. k.op = "look" => k.s # n
                BY <2>1, <4>1 DEF CallRight
            <4>3. CallRight(k)'
                BY <1>r, <2>1, <2>3, <2>5, <4>1, <4>2 DEF CallRight, Starting, Unused, Open, Stored, RunsFor
            <4> QED BY <2>1, <3>0, <4>3
        <3> QED BY <3>1, <3>2 DEF Actor, OnlyClient
    <2>8. ASSUME NEW t \in Task PROVE TaskRight(call[c], t)'
        <3>1. TaskRight(AtRest, t) /\ owner[t] \in Session
            BY <2>1 DEF Rightly, TypeInv
        <3>2. TaskRight(AtRest, t)'
            BY <2>1, <2>2, <2>3, <3>1 DEF TaskRight, Unused, Open, Stored, Known, Delivers
        <3> QED BY <2>1, <3>2
    <2> QED BY <2>1, <2>6, <2>7, <2>8, <1>c DEF Rightly
<1>2. ASSUME NEW x \in Session, NEW t \in Task, SendRead(c, x, t) PROVE Rightly(c)'
    <2> DEFINE n == [AtRest EXCEPT !.op = "send", !.at = "sendCheck", !.s = x,
                                   !.seen = sess[x], !.t = t]
    <2>1. n \in Call /\ n.op = "send" /\ n.at = "sendCheck" /\ n.s = x /\ n.t = t
        BY <1>r DEF TypeInv, Call, Place
    <2>2. call[c] = AtRest /\ task[t] = "none" /\ Stored(x) /\ sess[x].status = "idle"
        BY <1>2 DEF SendRead
    <2>3. order[x] # 0
        BY <2>2 DEF Rightly, SessionRight
    <2> HIDE DEF n
    <2>4. CallRight(n)
        BY <2>1, <2>2, <2>3 DEF CallRight, Starting
    <2> QED BY <1>2, <2>1, <2>2, <2>4, <1>new, <1>c, <1>r DEF SendRead, n, Delivers
<1>3. ASSUME SendCheck(c) \/ SendRefused(c) PROVE Rightly(c)'
    <2>0. PICK k : k = call[c]
        OBVIOUS
    <2>1. k \in Call /\ CallRight(k) /\ k.op = "send" /\ k.at \in {"sendCheck", "sendStart"}
        BY <1>3, <1>k, <1>c, <1>at, <2>0 DEF SendCheck, SendRefused
    <2>2. PICK at \in {"sendStart", "sendFailed"} : Go(c, at) \/ Rest(c)
        BY <1>3 DEF SendCheck, SendRefused
    <2> DEFINE n == [k EXCEPT !.at = at]
    <2>3. n \in Call /\ n.op = "send" /\ n.at = at /\ n.s = k.s /\ n.t = k.t
        BY <2>1 DEF Call, Place
    <2>4. Rest(c) \/ call' = [call EXCEPT ![c] = n]
        BY <2>0, <2>2 DEF Go
    <2> HIDE DEF n
    <2>5. CallRight(n)
        BY <2>1, <2>3 DEF CallRight, Starting
    <2>6. UNCHANGED <<sess, order, stored, task, owner>> /\ \A u \in Task : ~Delivers(k, u)
        BY <1>3, <2>1 DEF SendCheck, SendRefused, Delivers
    <2> QED BY <2>0, <2>3, <2>4, <2>5, <2>6, <1>new, <1>rest, <1>c
<1>4. ASSUME SendStart(c) PROVE Rightly(c)'
    <2>0. PICK k, s, t : k = call[c] /\ s = k.s /\ t = k.t
        OBVIOUS
    <2> DEFINE n == [k EXCEPT !.at = "summary"]
    <2>1. k.at = "sendStart" /\ k.op = "send" /\ t \in Task /\ s \in Session /\ k \in Call
        BY <1>4, <1>at, <1>c, <1>k, <2>0 DEF SendStart
    <2>2. /\ call' = [call EXCEPT ![c] = n]
          /\ task' = [task EXCEPT ![t] = "running"] /\ owner' = [owner EXCEPT ![t] = s]
          /\ UNCHANGED <<sess, order, stored, late>>
        BY <1>4, <2>0 DEF SendStart, Go
    <2>3. n \in Call /\ n.op = "send" /\ n.at = "summary" /\ n.s = s /\ n.t = t
        BY <2>0, <2>1 DEF Call, Place
    <2> HIDE DEF n
    <2>4. call'[c] = n /\ call'[Sweeper] = call[Sweeper]
        BY <2>2, <1>c DEF TypeInv
    <2>5. /\ Stored(s) /\ sess[s].status = "idle" /\ order[s] # 0 /\ task[t] = "none"
          /\ SessionRight(s) /\ Unused(s)
        BY <2>0, <2>1, <1>c, <1>k DEF CallRight, Starting, Unused
    <2>6. \A u \in Task : Known(u) => owner[u] # s
        BY <2>0, <2>1, <2>5 DEF Rightly, TaskRight, Delivers
    <2>7. /\ \A u \in Task : u # t => task'[u] = task[u] /\ owner'[u] = owner[u]
          /\ task'[t] = "running" /\ owner'[t] = s
        BY <2>1, <2>2 DEF TypeInv
    <2>8. ASSUME NEW x, NEW u \in Task, x # s, IsTheTask(x, u) PROVE IsTheTask(x, u)'
        BY <2>5, <2>7, <2>8 DEF IsTheTask, Known
    <2>9. IsTheTask(s, t)'
        BY <2>6, <2>7 DEF IsTheTask, Known
    <2>10. ASSUME NEW x \in Session PROVE SessionRight(x)'
        <3>1. SessionRight(x) /\ sess[x] \in Record
            BY DEF Rightly, TypeInv
        <3>2. CASE x = s
            BY <2>2, <2>5, <3>1, <3>2 DEF SessionRight, Stored, Unused
        <3>3. CASE x # s
            BY <2>2, <2>8, <3>1, <3>3 DEF SessionRight, Stored, Unused, Record
        <3> QED BY <3>2, <3>3
    <2>11. CallRight(n)'
        BY <2>2, <2>3, <2>5, <2>7, <2>9 DEF CallRight, Starting, Stored, Unused
    <2>12. CallRight(call[Sweeper])'
        <3>0. PICK w : w = call[Sweeper]
            OBVIOUS
        <3>1. CallRight(w) /\ w.op \in {"none", "look"} /\ (w.op = "none" => w = AtRest)
              /\ w.t \in Task \cup {NoTask} /\ CallOK(w) /\ w \in Call
            BY <3>0, <1>c, <1>k DEF CallOK, Call
        <3>2. w.op = "look" => w.s # s
            BY <2>5, <3>1 DEF CallRight
        <3>3. w.at \in {"update", "expireMissing"} => w.t \in Task
            BY <3>1 DEF CallOK, Place
        <3>4. w.at \in {"update", "expireMissing"} /\ w.op = "look" => w.t # t
            BY <2>5, <3>1, <3>3 DEF CallRight, Starting, IsTheTask, NoTaskIsNoTask
        <3>5. w.op = "look" => w.at \notin {"mark", "summary", "waitMissing"}
            BY <3>1 DEF CallOK
        <3>7. CASE w.op = "look"
            <4>1. CallRight(w)'
                BY <2>2, <2>7, <2>8, <3>1, <3>2, <3>3, <3>4, <3>5, <3>7
                   DEF CallRight, Starting, Unused
            <4> QED BY <2>4, <3>0, <4>1
        <3>6. CASE w.op = "none"
            BY <1>r, <2>4, <3>0, <3>1, <3>6 DEF CallRight, Starting
        <3> QED BY <3>1, <3>7, <3>6
    <2>13. ASSUME NEW u \in Task PROVE TaskRight(call[c], u)'
        <3>1. TaskRight(k, u) /\ ~Delivers(k, u)
            BY <2>0, <2>1 DEF Rightly, Delivers
        <3>2. CASE u = t
            <4>1. TaskRight(n, t)'
                BY <2>2, <2>3, <2>5, <2>6, <2>7 DEF TaskRight, Delivers, Known
            <4> QED BY <2>4, <3>2, <4>1
        <3>3. CASE u # t
            <4>1. \A v \in Task : (Known(u) /\ Known(v) /\ owner[u] = owner[v])' => u = v
                BY <2>6, <2>7, <3>1, <3>3 DEF TaskRight, Known
            <4>2. TaskRight(n, u)'
                BY <2>2, <2>7, <3>1, <3>3, <4>1 DEF TaskRight, Known, Unused, Open, Stored
            <4> QED BY <2>4, <4>2
        <3> QED BY <3>2, <3>3
    <2> QED BY <2>4, <2>10, <2>11, <2>12, <2>13, <1>c DEF Rightly, Actor, OnlyClient
<1>5. ASSUME SendFailed(c) PROVE Rightly(c)'
    <2>0. PICK s, r : s = call[c].s /\ r = WithoutTask(sess[s], "failed")
        OBVIOUS
    <2>1. /\ r \in Record /\ r.status = "failed" /\ r.active = NoTask /\ r.closed = sess[s].closed
          /\ r.last \in {sess[s].active, sess[s].last}
        BY <2>0, <1>c, <1>k DEF WithoutTask, Record, SessionEnded, Ended
    <2>2. call[c].at = "sendFailed" /\ call[c].op = "send" /\ SessionRight(s) /\ Unused(s)
        BY <1>5, <1>c, <1>k, <1>at, <2>0 DEF SendFailed, CallRight, Unused
    <2>3. \A u \in Task : ~RunsFor(u, s)
        BY <2>2 DEF Rightly, TaskRight, Delivers, RunsFor, Known
    <2>4. r.last # NoTask => IsTheTask(s, r.last)
        BY <2>1, <2>2 DEF SessionRight
    <2>5. Write(s, r) /\ call' = [call EXCEPT ![c] = AtRest] /\ UNCHANGED <<order, stored, task, owner>>
        BY <1>5, <2>0 DEF SendFailed, Rest
    <2> QED BY <2>0, <2>1, <2>2, <2>3, <2>4, <2>5, <1>r, <1>c, ASessionWritten DEF LetGo
<1>6. ASSUME ReadSummary(c) PROVE Rightly(c)'
    <2>0. PICK k : k = call[c]
        OBVIOUS
    <2> DEFINE n == [k EXCEPT !.st = task[k.t], !.at = "update"]
    <2>1. k.at = "summary" /\ k.op \in {"send", "interrupt"} /\ k.t \in Task /\ k \in Call /\ CallRight(k)
        BY <1>6, <1>at, <1>c, <1>k, <2>0 DEF ReadSummary
    <2>2. CASE task[k.t] = "forgotten"
        BY <1>6, <2>0, <2>2, <1>rest, <1>c DEF ReadSummary, Delivers, Known
    <2>3. CASE task[k.t] # "forgotten"
        <3>1. n \in Call /\ call' = [call EXCEPT ![c] = n]
            BY <1>6, <2>0, <2>1, <2>3 DEF ReadSummary, Call, Place, TypeInv
        <3>2. n.op = k.op /\ n.at = "update" /\ n.s = k.s /\ n.t = k.t /\ n.st = task[k.t]
            BY <2>1 DEF Call
        <3> HIDE DEF n
        <3>3. IsTheTask(k.s, k.t)
            BY <2>1 DEF CallRight, Starting, NoTaskIsNoTask
        <3>4. CallRight(n)
            BY <2>1, <3>2, <3>3 DEF CallRight, Starting, IsTheTask
        <3>5. \A u \in Task : Delivers(k, u) => Delivers(n, u)
            BY <3>2 DEF Delivers
        <3> QED BY <1>6, <2>0, <3>1, <3>4, <3>5, <1>new, <1>c DEF ReadSummary
    <2> QED BY <2>2, <2>3
<1>7. ASSUME NEW x \in Session, Wait(c, x) PROVE Rightly(c)'
    <2> DEFINE n == [AtRest EXCEPT !.op = "wait", !.at = "waitRead", !.s = x]
    <2>1. n \in Call /\ n.op = "wait" /\ n.at = "waitRead" /\ n.s = x /\ n.t = NoTask
        BY <1>r DEF Call, Place
    <2>2. call[c] = AtRest /\ order[x] # 0
        BY <1>7 DEF Wait, Rightly, SessionRight
    <2> HIDE DEF n
    <2>3. CallRight(n)
        BY <2>1, <2>2 DEF CallRight, Starting
    <2> QED BY <1>7, <2>1, <2>2, <2>3, <1>new, <1>c, <1>r DEF Wait, n, Delivers
<1>8. ASSUME WaitRead(c) PROVE Rightly(c)'
    <2>0. PICK k, s, r : k = call[c] /\ s = k.s /\ r = sess[s]
        OBVIOUS
    <2> DEFINE n == [k EXCEPT !.seen = r, !.at = "enforce",
                              !.t = IF r.active # NoTask THEN r.active ELSE r.last]
    <2>1. k.at = "waitRead" /\ k.op = "wait" /\ k \in Call /\ CallRight(k) /\ r \in Record
          /\ SessionRight(s)
        BY <1>8, <1>at, <1>c, <1>k, <2>0 DEF WaitRead
    <2>2. n \in Call /\ n.at = "enforce" /\ n.op = "wait" /\ n.s = s /\ n.t \in {r.active, r.last}
        BY <2>0, <2>1 DEF Call, Place, Record
    <2>3. Rest(c) \/ call' = [call EXCEPT ![c] = n]
        BY <1>8, <2>0 DEF WaitRead
    <2> HIDE DEF n
    <2>4. n.t # NoTask => IsTheTask(s, n.t) /\ ~Unused(s)
        BY <2>0, <2>1, <2>2 DEF SessionRight
    <2>5. CallRight(n)
        BY <2>0, <2>1, <2>2, <2>4 DEF CallRight, Starting
    <2> QED BY <1>8, <2>0, <2>1, <2>2, <2>3, <2>5, <1>new, <1>rest, <1>c DEF WaitRead, Delivers
<1>9. ASSUME WaitTask(c) PROVE Rightly(c)'
    <2>0. PICK k : k = call[c]
        OBVIOUS
    <2> DEFINE n == [k EXCEPT !.st = task[k.t],
                              !.at = IF task[k.t] = "forgotten" THEN "waitMissing" ELSE "update"]
               m == [k EXCEPT !.at = "waitRead"]
    <2>1. k.at = "waitTask" /\ k.op = "wait" /\ k \in Call /\ CallRight(k)
        BY <1>9, <1>at, <1>c, <1>k, <2>0 DEF WaitTask
    <2>2. CASE k.t = NoTask
        <3>1. m \in Call /\ m.at = "waitRead" /\ m.op = "wait" /\ m.s = k.s /\ m.t = NoTask
            BY <2>1, <2>2 DEF Call, Place
        <3>2. CallRight(m)
            BY <2>1, <3>1 DEF CallRight, Starting
        <3>3. Rest(c) \/ call' = [call EXCEPT ![c] = m]
            BY <1>9, <2>0, <2>2 DEF WaitTask, Go
        <3> QED BY <1>9, <2>0, <2>1, <3>1, <3>2, <3>3, <1>new, <1>rest, <1>c DEF WaitTask, Delivers
    <2>3. CASE k.t # NoTask
        <3>1. k.t \in Task /\ n \in Call /\ call' = [call EXCEPT ![c] = n]
            BY <1>9, <2>0, <2>1, <2>3 DEF WaitTask, Call, Place, TypeInv
        <3>2. n.op = "wait" /\ n.s = k.s /\ n.t = k.t /\ n.st = task[k.t]
              /\ (n.at = "update" \/ (n.at = "waitMissing" /\ task[k.t] = "forgotten"))
            BY <2>1 DEF Call
        <3> HIDE DEF n
        <3>3. IsTheTask(k.s, k.t)
            BY <2>1, <2>3 DEF CallRight, Starting
        <3>4. CallRight(n)
            BY <2>1, <3>2, <3>3 DEF CallRight, Starting, IsTheTask
        <3> QED BY <1>9, <2>0, <2>1, <3>1, <3>4, <1>new, <1>c DEF WaitTask, Delivers
    <2> QED BY <2>2, <2>3
<1>10. ASSUME WaitMissing(c) PROVE Rightly(c)'
    <2>0. PICK k, s, t, r : k = call[c] /\ s = k.s /\ t = k.t /\ r = WithTaskMissing(sess[s], t)
        OBVIOUS
    <2>1. k.at = "waitMissing" /\ k.op = "wait" /\ k \in Call /\ CallRight(k) /\ t \in Task
          /\ SessionRight(s) /\ sess[s] \in Record
        BY <1>10, <1>at, <1>c, <1>k, <2>0 DEF WaitMissing
    <2>2. r \in Record /\ r.status = "failed" /\ r.closed = sess[s].closed /\ r.last = t
          /\ r.active \in {NoTask, sess[s].active}
        BY <2>0, <2>1 DEF WithTaskMissing, Record, SessionEnded, Ended
    <2>3. IsTheTask(s, t) /\ task[t] = "forgotten"
        BY <2>0, <2>1 DEF CallRight, Starting, NoTaskIsNoTask
    <2>4. \A u \in Task : ~RunsFor(u, s)
        BY <2>3 DEF IsTheTask, RunsFor, Known
    <2>5. r.active # NoTask => IsTheTask(s, r.active)
        BY <2>1, <2>2 DEF SessionRight
    <2>6. PICK n \in Call : call' = [call EXCEPT ![c] = n] /\ LetGo(k, n)
        <3> DEFINE m == [k EXCEPT !.at = "waitRead"]
        <3>1. m \in Call /\ m.at = "waitRead" /\ m.op = "wait" /\ m.s = s /\ m.t = t
            BY <2>0, <2>1 DEF Call, Place
        <3>2. call' = [call EXCEPT ![c] = AtRest] \/ call' = [call EXCEPT ![c] = m]
            BY <1>10, <2>0 DEF WaitMissing, Rest, Go
        <3> QED BY <1>r, <2>0, <2>1, <3>1, <3>2 DEF LetGo
    <2>7. Write(s, r) /\ UNCHANGED <<order, stored, task, owner>>
        BY <1>10, <2>0 DEF WaitMissing
    <2> QED BY <2>0, <2>1, <2>2, <2>3, <2>4, <2>5, <2>6, <2>7, <1>c, ASessionWritten
<1>11. ASSUME NEW x \in Session,
              InterruptRead(c, x) \/ \E force \in BOOLEAN : CloseRead(c, x, force)
       PROVE  Rightly(c)'
    <2> DEFINE Read(op, at) == [AtRest EXCEPT !.op = op, !.s = x, !.seen = sess[x],
                                              !.t = sess[x].active, !.at = at]
               mark == Read("interrupt", "mark")
               interrupt == Read("interrupt", "interrupt")
               forced == Read("close", "interrupt")
               close == Read("close", "close")
               IsRead(n) == /\ n.s = x /\ n.t = sess[x].active
                            /\ n.op \in {"interrupt", "close"}
                            /\ n.at \in {"mark", "interrupt", "close"}
                            /\ n.at = "mark" => n.t = NoTask
    <2>a. ASSUME NEW op \in {"interrupt", "close"}, NEW at \in {"mark", "interrupt", "close"}
          PROVE  LET n == Read(op, at) IN
                 n \in Call /\ n.s = x /\ n.t = sess[x].active /\ n.op = op /\ n.at = at
        BY <1>r DEF Call, TypeInv, Record, Place
    <2>b. ASSUME InterruptRead(c, x)
          PROVE  \/ call' = [call EXCEPT ![c] = mark] /\ sess[x].active = NoTask
                 \/ call' = [call EXCEPT ![c] = interrupt]
        BY <2>b DEF InterruptRead
    <2>c. ASSUME NEW force \in BOOLEAN, CloseRead(c, x, force)
          PROVE  call' = [call EXCEPT ![c] = forced] \/ call' = [call EXCEPT ![c] = close]
        BY <2>c DEF CloseRead
    <2>d. /\ mark \in Call /\ (sess[x].active = NoTask => IsRead(mark))
          /\ interrupt \in Call /\ IsRead(interrupt)
          /\ forced \in Call /\ IsRead(forced)
          /\ close \in Call /\ IsRead(close)
        BY <2>a
    <2> HIDE DEF Read, mark, interrupt, forced, close
    <2>1. PICK n \in Call : call' = [call EXCEPT ![c] = n] /\ IsRead(n)
        BY <1>11, <2>b, <2>c, <2>d
    <2>2. call[c] = AtRest /\ Stored(x) /\ UNCHANGED <<sess, order, stored, task, late, owner>>
        BY <1>11 DEF InterruptRead, CloseRead
    <2>3. order[x] # 0 /\ SessionRight(x)
        BY <2>2 DEF Rightly, SessionRight
    <2>4. n.t # NoTask => IsTheTask(x, n.t) /\ ~Unused(x)
        BY <2>1, <2>3 DEF SessionRight
    <2>5. n.t = NoTask => ~\E u \in Task : RunsFor(u, x) /\ Open(x)
        <3>1. ASSUME NEW u \in Task, RunsFor(u, x), Open(x) PROVE sess[x].active = u
            <4>1. TaskRight(AtRest, u)
                BY <2>2 DEF Rightly
            <4> QED BY <1>r, <3>1, <4>1 DEF TaskRight, Delivers, RunsFor
        <3> QED BY <2>1, <3>1 DEF NoTaskIsNoTask
    <2>6. CallRight(n)
        BY <2>1, <2>3, <2>4, <2>5 DEF CallRight, Starting
    <2> QED BY <2>1, <2>2, <2>6, <1>new, <1>c, <1>r DEF Delivers
<1>12. ASSUME InterruptMark(c) PROVE Rightly(c)'
    <2>0. PICK s, r : s = call[c].s /\ r = WithoutTask(sess[s], "interrupted")
        OBVIOUS
    <2>1. /\ r \in Record /\ r.status = "interrupted" /\ r.active = NoTask
          /\ r.closed = sess[s].closed /\ r.last \in {sess[s].active, sess[s].last}
        BY <2>0, <1>c, <1>k DEF WithoutTask, Record, SessionEnded, Ended
    <2>2. call[c].at = "mark" /\ call[c].op = "interrupt" /\ SessionRight(s)
        BY <1>12, <1>c, <1>k, <1>at, <2>0 DEF InterruptMark
    <2>3. \A u \in Task : ~(RunsFor(u, s) /\ Open(s))
        BY <2>0, <2>2, <1>k, <1>c DEF CallRight
    <2>4. r.last # NoTask => IsTheTask(s, r.last)
        BY <2>1, <2>2 DEF SessionRight
    <2>5. Write(s, r) /\ call' = [call EXCEPT ![c] = AtRest] /\ UNCHANGED <<order, stored, task, owner>>
        BY <1>12, <2>0 DEF InterruptMark, Rest
    <2> QED BY <2>0, <2>1, <2>2, <2>3, <2>4, <2>5, <1>r, <1>c, ASessionWritten DEF LetGo
<1>13. ASSUME CloseMark(c) PROVE Rightly(c)'
    <2>0. PICK s, r : s = call[c].s /\ r = AsClosed(sess[s])
        OBVIOUS
    <2>1. r \in Record /\ r.status = "closed" /\ r.active = NoTask /\ r.closed /\ r.last = sess[s].last
        BY <2>0, <1>c, <1>k DEF AsClosed, Record, SessionEnded, Ended
    <2>2. call[c].op = "close" /\ SessionRight(s)
        BY <1>13, <1>c, <1>k, <1>at, <2>0 DEF CloseMark
    <2>3. r.last # NoTask => IsTheTask(s, r.last)
        BY <2>1, <2>2 DEF SessionRight
    <2>4. Write(s, r) /\ call' = [call EXCEPT ![c] = AtRest] /\ UNCHANGED <<order, stored, task, owner>>
        BY <1>13, <2>0 DEF CloseMark, Rest
    <2> QED BY <2>0, <2>1, <2>2, <2>3, <2>4, <1>r, <1>c, ASessionWritten DEF LetGo
<1>14. ASSUME InterruptTask(c) PROVE Rightly(c)'
    <2>0. PICK k : k = call[c]
        OBVIOUS
    <2> DEFINE n == [k EXCEPT !.at = IF k.op = "close" THEN "close" ELSE "summary"]
    <2>1. k.at = "interrupt" /\ k.op \in {"interrupt", "close"} /\ k.t \in Task /\ k \in Call
          /\ CallRight(k) /\ CallOK(k)
        BY <1>14, <1>at, <1>c, <1>k, <2>0 DEF InterruptTask
    <2>2. n \in Call /\ n.s = k.s /\ n.t = k.t /\ n.op = k.op
          /\ (n.at = "close" \/ (n.at = "summary" /\ n.op = "interrupt"))
        BY <2>1 DEF Call, Place
    <2>3. call' = [call EXCEPT ![c] = n] /\ UNCHANGED <<sess, order, stored, late, owner>>
        BY <1>14, <2>0 DEF InterruptTask, Go
    <2> HIDE DEF n
    <2>4. TasksOnlyEnd /\ task'[k.t] # "running"
        BY <1>14, <2>0, <2>1 DEF InterruptTask, Live, TypeInv, TasksOnlyEnd, NoTaskIsNoTask
    <2>5. CallRight(k)'
        BY <1>r, <2>1, <2>3, <2>4, CallStaysRight
    <2>6. CallRight(n)'
        BY <2>1, <2>2, <2>4, <2>5 DEF CallRight, Starting
    <2>7. \A u \in Task : ~Delivers(k, u)
        BY <2>1 DEF Delivers
    <2> QED BY <2>0, <2>2, <2>3, <2>4, <2>6, <2>7, <1>r, <1>c, CallsAndTasks
<1>15. ASSUME NEW a \in Actor, Update(a) PROVE Rightly(c)'
    <2>0. PICK k, s, t, r : k = call[a] /\ s = k.s /\ t = k.t /\ r = WithTask(sess[s], t, k.st)
        OBVIOUS
    <2>1. /\ k.at = "update" /\ k.op \in {"send", "interrupt", "wait", "look"} /\ t \in Task
          /\ k \in Call /\ CallRight(k) /\ CallOK(k) /\ SessionRight(s) /\ sess[s] \in Record
        BY <1>15, <1>at, <1>k, <2>0 DEF Update
    <2>2. k.st \in {"running"} \cup Ended
        BY <2>1 DEF CallRight, CallOK, Call, TaskStatus
    <2>3. IsTheTask(s, t)
        BY <2>0, <2>1 DEF CallRight, Starting, NoTaskIsNoTask
    <2>4. r \in Record
        BY <2>0, <2>1, <2>2, RecordsWritten DEF Ended, TaskStatus
    <2>5. /\ r.closed = sess[s].closed /\ r.status \notin {"none", "idle"}
          /\ r.active \in {NoTask, t, sess[s].active} /\ r.last \in {t, sess[s].last}
          /\ k.st = "running" => r.closed \/ (r.active = t /\ r.status = "running")
        BY <2>0, <2>1, <2>2 DEF WithTask, Record, Ended
    <2>6. /\ r.active # NoTask => IsTheTask(s, r.active)
          /\ r.last # NoTask => IsTheTask(s, r.last)
        BY <2>1, <2>3, <2>5 DEF SessionRight
    <2>7. \A u \in Task : RunsFor(u, s) /\ Open(s) => r.closed \/ (r.active = u /\ r.status = "running")
        <3>1. ASSUME NEW u \in Task, RunsFor(u, s) PROVE u = t /\ k.st = "running"
            <4>1. u = t
                BY <2>3, <3>1 DEF IsTheTask, RunsFor, Known
            <4> QED BY <2>0, <2>1, <3>1, <4>1 DEF CallRight, RunsFor
        <3> QED BY <2>5, <3>1
    <2>8. PICK n \in Call : call' = [call EXCEPT ![a] = n] /\ LetGo(k, n)
        <3> DEFINE m == [k EXCEPT !.at = "waitRead"]
        <3>1. m \in Call /\ m.at = "waitRead" /\ m.op = k.op /\ m.s = s /\ m.t = t
            BY <2>0, <2>1 DEF Call, Place
        <3>2. call' = [call EXCEPT ![a] = AtRest] \/ (call' = [call EXCEPT ![a] = m] /\ k.op = "wait")
            BY <1>15, <2>0 DEF Update, Rest, Go
        <3> QED BY <1>r, <2>0, <3>1, <3>2 DEF LetGo
    <2>9. Write(s, r) /\ UNCHANGED <<order, stored, task, owner>>
        BY <1>15, <2>0 DEF Update
    <2>10. a = Sweeper => ~Unused(s)
        BY <2>0, <2>1, <1>c DEF CallRight
    <2>11. (sess[s].closed => r.closed) /\ k.op # "none"
        BY <2>1, <2>5
    <2>13. r.status \notin {"none", "idle"}
        BY <2>5
    <2> QED BY <2>0, <2>4, <2>6, <2>7, <2>8, <2>9, <2>10, <2>11, <2>13, ASessionWritten
<1>16. ASSUME NEW a \in Actor, Enforce(a) PROVE Rightly(c)'
    <2>0. PICK k, s : k = call[a] /\ s = k.s
        OBVIOUS
    <2> DEFINE e == [k EXCEPT !.at = "expire", !.t = sess[s].active]
               w == [k EXCEPT !.at = "waitTask"]
    <2>1. k.at = "enforce" /\ k.op \in {"wait", "look"} /\ k \in Call /\ CallRight(k)
          /\ SessionRight(s) /\ sess[s] \in Record
        BY <1>16, <1>at, <1>k, <2>0 DEF Enforce
    <2>2. \/ Rest(a)
          \/ call' = [call EXCEPT ![a] = e] /\ sess[s].active # NoTask
          \/ call' = [call EXCEPT ![a] = w]
        BY <1>16, <2>0 DEF Enforce, Due, Go
    <2>3. e \in Call /\ e.at = "expire" /\ e.op = k.op /\ e.s = s /\ e.t = sess[s].active
        BY <2>0, <2>1 DEF Call, Place, Record
    <2>4. w \in Call /\ w.at = "waitTask" /\ w.op = k.op /\ w.s = s /\ w.t = k.t
        BY <2>0, <2>1 DEF Call, Place
    <2> HIDE DEF e, w
    <2>5. sess[s].active # NoTask => IsTheTask(s, sess[s].active) /\ ~Unused(s)
        BY <2>1 DEF SessionRight
    <2>6. sess[s].active # NoTask => CallRight(e)
        BY <2>0, <2>1, <2>3, <2>5 DEF CallRight, Starting
    <2>7. CallRight(w)
        BY <2>0, <2>1, <2>4 DEF CallRight, Starting
    <2>8. UNCHANGED <<sess, order, stored, task, owner>> /\ (\A u \in Task : ~Delivers(k, u))
          /\ (a = Sweeper => k.op = "look")
        BY <1>16, <1>c, <2>0, <2>1 DEF Enforce, Delivers
    <2> QED BY <2>0, <2>2, <2>3, <2>4, <2>6, <2>7, <2>8, <1>new, <1>rest
<1>17. ASSUME NEW a \in Actor, Expire(a) PROVE Rightly(c)'
    <2>0. PICK k, t, st : /\ k = call[a] /\ t = k.t
                          /\ st = IF Live(t) THEN "interrupted" ELSE task[t]
        OBVIOUS
    <2> DEFINE n == [k EXCEPT !.st = st,
                              !.at = IF st = "forgotten" THEN "expireMissing" ELSE "update"]
    <2>1. k.at = "expire" /\ k.op \in {"wait", "look"} /\ t \in Task /\ k \in Call /\ CallRight(k)
          /\ task[t] \in TaskStatus
        BY <1>17, <1>at, <1>k, <2>0 DEF Expire, TypeInv
    <2>2. IsTheTask(k.s, t) /\ task[t] # "none"
        BY <2>0, <2>1 DEF CallRight, Starting, NoTaskIsNoTask, IsTheTask
    <2>3. st \in TaskStatus \ {"none", "running"} /\ (task[t] # "running" => st = task[t])
        BY <2>0, <2>1, <2>2 DEF Live, TaskStatus, Ended, NoTaskIsNoTask
    <2>4. n \in Call /\ n.op = k.op /\ n.s = k.s /\ n.t = t /\ n.st = st
          /\ (n.at = "update" \/ (n.at = "expireMissing" /\ st = "forgotten"))
        BY <2>0, <2>1, <2>3 DEF Call, Place
    <2>5. /\ call' = [call EXCEPT ![a] = n] /\ task' = [task EXCEPT ![t] = st]
          /\ UNCHANGED <<sess, order, stored, owner>>
        BY <1>17, <2>0 DEF Expire
    <2> HIDE DEF n
    <2>6. TasksOnlyEnd /\ task'[t] = st
        BY <2>1, <2>2, <2>3, <2>5 DEF TasksOnlyEnd, TypeInv
    <2>7. CallRight(k)'
        BY <1>r, <1>k, <2>0, <2>1, <2>5, <2>6, CallStaysRight
    <2>8. CallRight(n)'
        BY <2>0, <2>1, <2>3, <2>4, <2>6, <2>7 DEF CallRight, Starting
    <2>9. (\A u \in Task : ~Delivers(k, u)) /\ (a = Sweeper => k.op = "look")
        BY <1>c, <2>0, <2>1 DEF Delivers
    <2> QED BY <2>0, <2>4, <2>5, <2>6, <2>8, <2>9, <1>r, CallsAndTasks
<1>18. ASSUME NEW a \in Actor, ExpireMissing(a) PROVE Rightly(c)'
    <2>0. PICK k, s, t, r : k = call[a] /\ s = k.s /\ t = k.t /\ r = WithTaskTimeout(sess[s], t)
        OBVIOUS
    <2>1. k.at = "expireMissing" /\ k.op \in {"wait", "look"} /\ k \in Call /\ CallRight(k)
          /\ t \in Task /\ sess[s] \in Record
        BY <1>18, <1>at, <1>k, <2>0 DEF ExpireMissing
    <2>2. r \in Record /\ r.status = "interrupted" /\ r.closed = sess[s].closed /\ r.last = t
          /\ r.active = NoTask
        BY <2>0, <2>1 DEF WithTaskTimeout, Record, SessionEnded, Ended
    <2>3. IsTheTask(s, t) /\ task[t] = "forgotten" /\ ~Unused(s)
        BY <2>0, <2>1 DEF CallRight, Starting, NoTaskIsNoTask
    <2>4. \A u \in Task : ~RunsFor(u, s)
        BY <2>3 DEF IsTheTask, RunsFor, Known
    <2>5. /\ Write(s, r) /\ UNCHANGED <<order, stored, task, owner>>
          /\ call' = [call EXCEPT ![a] = AtRest]
        BY <1>18, <2>0 DEF ExpireMissing, Rest
    <2> QED BY <2>0, <2>1, <2>2, <2>3, <2>4, <2>5, <1>r, ASessionWritten DEF LetGo
<1>19. ASSUME NEW a \in Actor, NEW x \in Session, Look(a, x) PROVE Rightly(c)'
    <2> DEFINE n == [AtRest EXCEPT !.op = "look", !.at = "enforce", !.s = x, !.seen = sess[x]]
    <2>1. n \in Call /\ n.op = "look" /\ n.at = "enforce" /\ n.s = x /\ n.t = NoTask
        BY <1>r DEF TypeInv, Call, Place
    <2>2. SessionRight(x) /\ Stored(x) /\ sess[x].active # NoTask /\ call[a] = AtRest
        BY <1>19 DEF Look, Rightly
    <2> HIDE DEF n
    <2>3. CallRight(n)
        BY <2>1, <2>2 DEF SessionRight, CallRight, Starting, Unused
    <2> QED BY <1>19, <2>1, <2>2, <2>3, <1>new, <1>r DEF Look, n, Delivers
<1>20. ASSUME NEW t \in Task, TaskEnds(t) \/ TaskForgotten(t) PROVE Rightly(c)'
    <2>1. TasksOnlyEnd /\ UNCHANGED <<sess, order, stored, owner, call>>
        BY <1>20 DEF TaskEnds, TaskForgotten, Live, Ended, TypeInv, TasksOnlyEnd
    <2>2. call' = [call EXCEPT ![c] = call[c]]
        BY <2>1, <1>c DEF TypeInv
    <2>3. CallRight(call[c])'
        <3>0. PICK k : k = call[c]
            OBVIOUS
        <3>1. CallRight(k)'
            BY <2>1, <3>0, <1>c, <1>k, <1>r, CallStaysRight
        <3> QED BY <2>1, <3>0, <3>1
    <2>4. PICK n : n = call[c]
        OBVIOUS
    <2>5. CallRight(n)'
        BY <2>1, <2>3, <2>4
    <2> QED BY <2>1, <2>2, <2>4, <2>5, <1>c, <1>k, <1>r, CallsAndTasks
<1>21. CASE UNCHANGED <<sess, order, stored, task, owner, call>>
    BY <1>21 DEF Rightly, SessionRight, CallRight, TaskRight, Starting, IsTheTask, Known, Unused,
                 Stored, Open, RunsFor, Delivers
<1> QED
    BY <1>1, <1>2, <1>3, <1>4, <1>5, <1>6, <1>7, <1>8, <1>9, <1>10, <1>11, <1>12, <1>13, <1>14,
       <1>15, <1>16, <1>17, <1>18, <1>19, <1>20, <1>21, StepsOfTwo
       DEF ClientStep, SharedStep, TaskTurnsLate, vars

\* In the beginning.
LEMMA RightInit ==
    ASSUME NEW c, OnlyClient(c), SessionsAreFinite, Init
    PROVE  TypeInv /\ Rightly(c)
<1>1. TypeInv /\ \A a \in Actor : call[a] = AtRest
    BY TypeInit DEF Init
<1>2. c \in Actor /\ Sweeper \in Actor
    BY DEF OnlyClient, Actor
<1>3. \A s \in Session : SessionRight(s)
    BY DEF Init, SessionRight, Unborn, Stored, Unused
<1>4. CallRight(AtRest) /\ AtRest.op = "none"
    BY DEF CallRight, Starting, AtRest
<1>5. \A t \in Task : TaskRight(call[c], t)
    BY DEF Init, TaskRight, Known
<1> QED BY <1>1, <1>2, <1>3, <1>4, <1>5 DEF Rightly

-----------------------------------------------------------------------------
(* Tasks that run can be reached.  While no client leaves a task behind    *)
(* and the store has room for every session, the session of a task that    *)
(* runs stays there, open.                                                 *)

Kept(c) ==
    /\ \A t \in Task : task[t] = "running" => Open(owner[t])
    /\ call[c].at = "close" => ~\E t \in Task : RunsFor(t, call[c].s)

\* A spawn drops none of the sessions that have a task that runs: they are not stale
\* (prune_stale_sub_agent_sessions), and there is room (trim_sub_agent_session_history).
LEMMA SpawnKeeps ==
    ASSUME NEW c, OnlyClient(c), SessionsAreFinite, LimitsAreCounts, NoTaskIsNoTask,
           Cardinality(Session) <= HistoryLimit, TypeInv, Rightly(c), Kept(c),
           NEW n \in Session, NEW Old \in SUBSET Session, Spawn(n, Old),
           NEW u \in Task, task[u] = "running"
    PROVE  owner[u] # n /\ owner[u] \in stored'
<1>0. PICK o : o = owner[u]
    OBVIOUS
<1>1. call[c] = AtRest /\ order[n] = 0 /\ \A x \in Old : Prunable(x)
    BY DEF Spawn, OnlyClient
<1>2. o \in Session /\ o \in stored /\ o # n /\ n \notin stored /\ Open(o)
    BY <1>0, <1>1 DEF TypeInv, Kept, Open, Stored, Rightly, TaskRight, SessionRight
<1>3. sess[o].active = u /\ sess[o].status = "running" /\ ~sess[o].closed
    <2>1. TaskRight(AtRest, u)
        BY <1>1 DEF Rightly
    <2>2. ~Delivers(AtRest, u)
        BY DEF Delivers, AtRest
    <2> QED BY <1>0, <1>2, <2>1, <2>2 DEF TaskRight, Open
<1>4. o \notin Old
    BY <1>1, <1>3 DEF Prunable, SessionEnded, Ended, NoTaskIsNoTask
<1> DEFINE kept == stored \ Old
           later == {x \in kept : order[x] > order[o]}
<1>5. o \in Trimmed(kept)
    <2>1. later \subseteq (Session \ {n}) \ {o}
        BY <1>2 DEF TypeInv
    <2>2. IsFiniteSet(Session \ {n}) /\ Cardinality(Session \ {n}) = Cardinality(Session) - 1
        BY FS_RemoveElement DEF SessionsAreFinite
    <2>3. /\ IsFiniteSet((Session \ {n}) \ {o})
          /\ Cardinality((Session \ {n}) \ {o}) = Cardinality(Session \ {n}) - 1
        BY <1>2, <2>2, FS_RemoveElement
    <2>4. Cardinality(later) <= Cardinality((Session \ {n}) \ {o})
        BY <2>1, <2>3, FS_Subset
    <2>5. Cardinality(Session) \in Nat /\ Cardinality(later) \in Nat
        <3>1. IsFiniteSet(later)
            BY <2>1, <2>3, FS_Subset
        <3> QED BY <3>1, FS_CardinalityType DEF SessionsAreFinite
    <2> HIDE DEF later
    <2>6. Cardinality(later) < HistoryLimit - 1
        BY <2>2, <2>3, <2>4, <2>5 DEF LimitsAreCounts
    <2>7. o \in kept
        BY <1>2, <1>4
    <2> QED BY <2>6, <2>7 DEF Trimmed, later
<1> HIDE DEF kept
<1>6. stored' = kept \/ stored' = Trimmed(kept) \cup {n}
    BY DEF Spawn, kept
<1> QED BY <1>0, <1>2, <1>4, <1>5, <1>6 DEF kept

\* Every step keeps it.
LEMMA KeptStep ==
    ASSUME NEW c, OnlyClient(c), ~MayLeave, SessionsAreFinite, LimitsAreCounts, NoTaskIsNoTask,
           Cardinality(Session) <= HistoryLimit, TypeInv, Rightly(c), Kept(c), [Next]_vars
    PROVE  Kept(c)'
<1>k. ASSUME NEW a \in Actor
      PROVE  /\ call[a] \in Call /\ CallOK(call[a]) /\ call[a].s \in Session
             /\ sess[call[a].s] \in Record /\ CallRight(call[a]) /\ SessionRight(call[a].s)
    BY <1>k DEF TypeInv, Call, Rightly
<1>c. c \in Actor /\ Sweeper \in Actor /\ c # Sweeper /\ call \in [Actor -> Call]
    BY DEF OnlyClient, SweeperIsNoClient, Actor, TypeInv
<1>r. /\ AtRest \in Call /\ CallOK(AtRest) /\ AtRest.at = "rest" /\ AtRest.op = "none"
    BY RestType DEF AtRest, SessionsAreFinite
<1>t. ASSUME UNCHANGED <<sess, stored, owner>>, TasksOnlyEnd,
             call'[c] = call[c] \/ call'[c].at # "close"
      PROVE  Kept(c)'
    BY <1>t DEF Kept, TasksOnlyEnd, RunsFor, Open, Stored
<1>w. ASSUME UNCHANGED <<stored, owner, task>>, call'[c] = call[c] \/ call'[c].at # "close",
             NEW a \in Actor, NEW r, Write(call[a].s, r), r.closed = sess[call[a].s].closed
      PROVE  Kept(c)'
    <2>1. \A s \in Session : sess'[s].closed = sess[s].closed
        BY <1>w, <1>k DEF Write, TypeInv
    <2>2. \A t \in Task : owner[t] \in Session
        BY DEF TypeInv
    <2> QED BY <1>w, <2>1, <2>2 DEF Kept, RunsFor, Open, Stored
<1>1. ASSUME NEW n \in Session, NEW Old \in SUBSET Session, Spawn(n, Old) PROVE Kept(c)'
    <2>1. UNCHANGED <<task, owner, call>> /\ call[c] = AtRest
        BY <1>1 DEF Spawn, OnlyClient
    <2>2. ASSUME NEW u \in Task, task'[u] = "running" PROVE Open(owner[u])'
        <3>1. owner[u] # n /\ owner[u] \in stored' /\ owner[u] \in Session
            BY <1>1, <2>1, <2>2, SpawnKeeps DEF TypeInv
        <3>2. sess'[owner[u]] = sess[owner[u]]
            BY <1>1, <3>1 DEF Spawn, TypeInv
        <3> QED BY <2>1, <2>2, <3>1, <3>2 DEF Kept, Open, Stored
    <2> QED BY <1>r, <2>1, <2>2 DEF Kept
<1>2. ASSUME SendStart(c) PROVE Kept(c)'
    <2>0. PICK k, s, t : k = call[c] /\ s = k.s /\ t = k.t
        OBVIOUS
    <2>1. k.at = "sendStart" /\ k.op = "send" /\ t \in Task /\ s \in Session /\ CallRight(k)
          /\ SessionRight(s)
        BY <1>2, <1>c, <1>k, <1>r, <2>0, WhereACallIs DEF SendStart
    <2>2. Open(s)
        BY <2>0, <2>1 DEF CallRight, SessionRight, Open, Unused
    <2>3. /\ task' = [task EXCEPT ![t] = "running"] /\ owner' = [owner EXCEPT ![t] = s]
          /\ UNCHANGED <<sess, stored>> /\ call' = [call EXCEPT ![c].at = "summary"]
        BY <1>2, <2>0 DEF SendStart, Go
    <2>4. call'[c].at = "summary"
        BY <2>3, <1>c DEF Call
    <2> QED BY <2>1, <2>2, <2>3, <2>4 DEF Kept, Open, Stored, TypeInv
<1>3. ASSUME SendFailed(c) \/ InterruptMark(c) PROVE Kept(c)'
    <2>1. PICK status : Write(call[c].s, WithoutTask(sess[call[c].s], status))
        BY <1>3 DEF SendFailed, InterruptMark
    <2>2. WithoutTask(sess[call[c].s], status).closed = sess[call[c].s].closed
        BY <1>c, <1>k DEF WithoutTask, Record
    <2>3. call'[c].at # "close" /\ UNCHANGED <<stored, owner, task>>
        BY <1>3, <1>c, <1>r DEF SendFailed, InterruptMark, Rest
    <2> QED BY <2>1, <2>2, <2>3, <1>c, <1>w
<1>4. ASSUME WaitMissing(c) PROVE Kept(c)'
    <2>1. WithTaskMissing(sess[call[c].s], call[c].t).closed = sess[call[c].s].closed
        BY <1>c, <1>k DEF WithTaskMissing, Record
    <2>2. call'[c].at # "close"
        BY <1>4, <1>c, <1>k, <1>r DEF WaitMissing, Rest, Go, Call
    <2> QED BY <1>4, <2>1, <2>2, <1>c, <1>w DEF WaitMissing
<1>5. ASSUME NEW a \in Actor, Update(a) \/ ExpireMissing(a) PROVE Kept(c)'
    <2>1. PICK r : Write(call[a].s, r) /\ r.closed = sess[call[a].s].closed
        <3>1. WithTask(sess[call[a].s], call[a].t, call[a].st).closed = sess[call[a].s].closed
            BY <1>k DEF WithTask, Record
        <3>2. WithTaskTimeout(sess[call[a].s], call[a].t).closed = sess[call[a].s].closed
            BY <1>k DEF WithTaskTimeout, Record
        <3> QED BY <1>5, <3>1, <3>2 DEF Update, ExpireMissing
    <2>2. call'[c] = call[c] \/ call'[c].at # "close"
        BY <1>5, <1>c, <1>r DEF Update, ExpireMissing, Rest, Go, Call
    <2> QED BY <1>5, <2>1, <2>2, <1>w DEF Update, ExpireMissing
<1>6. ASSUME CloseMark(c) PROVE Kept(c)'
    <2>0. PICK s : s = call[c].s
        OBVIOUS
    <2>1. s \in Session /\ \A t \in Task : ~RunsFor(t, s)
        BY <1>6, <1>c, <1>k, <2>0 DEF CloseMark, Kept
    <2>2. \A x \in Session : x # s => sess'[x] = sess[x]
        BY <1>6, <2>0, <2>1 DEF CloseMark, Write, TypeInv
    <2>3. UNCHANGED <<task, owner, stored>> /\ call'[c].at = "rest"
        BY <1>6, <1>c, <1>r DEF CloseMark, Rest
    <2>4. \A t \in Task : task[t] = "running" => owner[t] \in Session /\ owner[t] # s
        BY <2>1 DEF RunsFor, TypeInv
    <2> QED BY <2>2, <2>3, <2>4 DEF Kept, Open, Stored
<1>7. ASSUME InterruptTask(c) PROVE Kept(c)'
    <2>0. PICK k, t : k = call[c] /\ t = k.t
        OBVIOUS
    <2>1. k.at = "interrupt" /\ t \in Task /\ CallRight(k) /\ k \in Call /\ k.op \in {"interrupt", "close"}
        BY <1>7, <1>c, <1>k, <1>r, <2>0, WhereACallIs DEF InterruptTask
    <2>2. IsTheTask(k.s, t)
        BY <2>0, <2>1 DEF CallRight, Starting, NoTaskIsNoTask
    <2>3. TasksOnlyEnd /\ task'[t] # "running" /\ UNCHANGED <<sess, stored, owner>>
        BY <1>7, <2>0, <2>1 DEF InterruptTask, Live, TypeInv, TasksOnlyEnd, NoTaskIsNoTask
    <2>4. call'[c].s = k.s
        BY <1>7, <1>c, <2>0 DEF InterruptTask, Go, Call
    <2>5. ASSUME NEW u \in Task PROVE ~RunsFor(u, k.s)'
        <3>1. task'[u] = "running" /\ owner[u] = k.s => u = t
            BY <2>2, <2>3 DEF IsTheTask, Known, TasksOnlyEnd
        <3>2. RunsFor(u, call[c].s)' => task'[u] = "running" /\ owner[u] = k.s
            BY <2>3, <2>4 DEF RunsFor
        <3>3. ~RunsFor(u, call[c].s)'
            BY <2>3, <3>1, <3>2
        <3> QED BY <2>4, <3>3 DEF RunsFor
    <2> QED BY <2>3, <2>4, <2>5 DEF Kept, TasksOnlyEnd, Open, Stored, RunsFor
<1>8. ASSUME NEW x \in Session, NEW force \in BOOLEAN, CloseRead(c, x, force) PROVE Kept(c)'
    <2>1. /\ call[c] = AtRest /\ force /\ Open(x) /\ UNCHANGED <<sess, stored, task, owner>>
        BY <1>8 DEF CloseRead, Open
    <2>2. call'[c].s = x /\ (call'[c].at = "close" => sess[x].active = NoTask)
        BY <1>8, <1>c, <1>r, <2>1 DEF CloseRead, Call
    <2>3. ASSUME NEW u \in Task, RunsFor(u, x) PROVE sess[x].active = u
        <3>1. TaskRight(AtRest, u)
            BY <2>1 DEF Rightly
        <3> QED BY <1>r, <2>1, <2>3, <3>1 DEF TaskRight, Delivers, RunsFor
    <2>4. call'[c].at = "close" => ~\E u \in Task : RunsFor(u, x)
        BY <2>2, <2>3 DEF NoTaskIsNoTask
    <2> QED BY <2>1, <2>2, <2>4 DEF Kept, Open, Stored, RunsFor
<1>9. ASSUME NEW a \in Actor, Expire(a) PROVE Kept(c)'
    <2>0. PICK k : k = call[a]
        OBVIOUS
    <2>1. k.at = "expire" /\ k.t \in Task /\ CallRight(k) /\ k \in Call
        BY <1>9, <1>k, <1>r, <2>0, WhereACallIs DEF Expire
    <2>2. task[k.t] # "none"
        BY <2>1 DEF CallRight, Starting, NoTaskIsNoTask, IsTheTask
    <2>3. TasksOnlyEnd
        BY <1>9, <2>0, <2>1, <2>2 DEF Expire, TasksOnlyEnd, Live, TypeInv, NoTaskIsNoTask
    <2>4. call'[c] = call[c] \/ call'[c].at # "close"
        BY <1>9, <1>c DEF Expire, Call
    <2> QED BY <1>9, <2>3, <2>4, <1>t DEF Expire
<1>10. ASSUME NEW t \in Task, TaskEnds(t) \/ TaskForgotten(t) PROVE Kept(c)'
    <2>1. TasksOnlyEnd
        BY <1>10 DEF TaskEnds, TaskForgotten, Live, Ended, TypeInv, TasksOnlyEnd
    <2> QED BY <1>10, <2>1, <1>t DEF TaskEnds, TaskForgotten
<1>11. CASE /\ UNCHANGED <<sess, stored, task, owner>>
            /\ call'[c] = call[c] \/ call'[c].at # "close"
    BY <1>11, <1>t DEF TasksOnlyEnd
<1>12. ASSUME NEW x \in Session, \/ Wait(c, x) \/ InterruptRead(c, x)
                                 \/ \E t \in Task : SendRead(c, x, t)
                                 \/ \E a \in Actor : Look(a, x)
       PROVE  Kept(c)'
    <2>1. call'[c] = call[c] \/ call'[c].at # "close"
        <3>1. CASE Wait(c, x)
            BY <3>1, <1>c, <1>r DEF Wait, Call
        <3>2. CASE InterruptRead(c, x)
            BY <3>2, <1>c, <1>r DEF InterruptRead, Call
        <3>3. ASSUME NEW t \in Task, SendRead(c, x, t) PROVE call'[c].at # "close"
            BY <3>3, <1>c, <1>r DEF SendRead, Call
        <3>4. ASSUME NEW a \in Actor, Look(a, x) PROVE call'[c] = call[c] \/ call'[c].at # "close"
            BY <3>4, <1>c, <1>r DEF Look, Call
        <3> QED BY <1>12, <3>1, <3>2, <3>3, <3>4
    <2> QED BY <1>12, <2>1, <1>11 DEF Wait, InterruptRead, SendRead, Look
<1>13. ASSUME \/ SendCheck(c) \/ SendRefused(c) \/ ReadSummary(c) \/ WaitRead(c) \/ WaitTask(c)
              \/ \E a \in Actor : Enforce(a)
       PROVE  Kept(c)'
    <2>1. call'[c] = call[c] \/ call'[c].at # "close"
        <3>1. CASE SendCheck(c) \/ SendRefused(c)
            BY <3>1, <1>c, <1>r DEF SendCheck, SendRefused, Rest, Go, Call
        <3>2. CASE ReadSummary(c)
            BY <3>2, <1>c, <1>r DEF ReadSummary, Rest, Call
        <3>3. CASE WaitRead(c)
            BY <3>3, <1>c, <1>r DEF WaitRead, Rest, Call
        <3>4. CASE WaitTask(c)
            BY <3>4, <1>c, <1>r DEF WaitTask, Rest, Go, Call
        <3>5. ASSUME NEW a \in Actor, Enforce(a) PROVE call'[c] = call[c] \/ call'[c].at # "close"
            BY <3>5, <1>c, <1>r DEF Enforce, Rest, Go, Call
        <3> QED BY <1>13, <3>1, <3>2, <3>3, <3>4, <3>5
    <2> QED BY <1>13, <2>1, <1>11 DEF SendCheck, SendRefused, ReadSummary, WaitRead, WaitTask, Enforce
<1>14. CASE UNCHANGED <<sess, stored, task, owner, call>>
    BY <1>11, <1>14
<1> QED
    BY <1>1, <1>2, <1>3, <1>4, <1>5, <1>6, <1>7, <1>8, <1>9, <1>10, <1>12, <1>13, <1>14,
       StepsOfTwo DEF ClientStep, SharedStep, TaskTurnsLate, vars

\* A task that runs can be reached through the session it was sent to
\* (handle_sub_agent_interrupt, handle_sub_agent_close and sweep_sub_agent_task_timeouts go
\* by the session): for any sessions and tasks, with tasks that outlive their budget and the
\* sweeper at work on them at any moment, refused starts and forgotten tasks, when one client
\* sends each session one instruction, never leaves without force, and the store has room.
THEOREM RunningReachable ==
    ASSUME NEW c, OnlyClient(c), OneInstruction, ~MayLeave, SessionsAreFinite, LimitsAreCounts,
           NoTaskIsNoTask, Cardinality(Session) <= HistoryLimit
    PROVE  Spec => []RunningIsReachable
<1>1. Init => TypeInv /\ Rightly(c) /\ Kept(c)
    <2> SUFFICES ASSUME Init PROVE TypeInv /\ Rightly(c) /\ Kept(c)
        OBVIOUS
    <2>1. TypeInv /\ Rightly(c)
        BY RightInit
    <2>2. call[c] = AtRest /\ \A t \in Task : task[t] = "none"
        BY DEF Init, OnlyClient, Actor
    <2> QED BY <2>1, <2>2 DEF Kept, AtRest
<1>2. TypeInv /\ Rightly(c) /\ Kept(c) /\ [Next]_vars => (TypeInv /\ Rightly(c) /\ Kept(c))'
    BY TypeStep, RightStep, KeptStep
<1>3. TypeInv /\ Rightly(c) /\ Kept(c) => RunningIsReachable
    BY DEF RunningIsReachable, Rightly, TaskRight, Kept, Live, Delivers, Open, OnlyClient
<1> QED BY <1>1, <1>2, <1>3, PTL DEF Spec

-----------------------------------------------------------------------------
(* The limit.  Counted are also the sessions that a call is about to make  *)
(* count again; a step other than a spawn adds none to them.               *)

Pending(s) == \E a \in Actor : call[a].s = s /\ call[a].at = "update" /\ call[a].st = "running"
MayCount(s) == Open(s) /\ (sess[s].status \in {"idle", "running"} \/ Pending(s))
CountInv == Cardinality({s \in Session : MayCount(s)}) <= ActiveLimit

\* Only a spawn makes a session count that could not have counted before.
LEMMA CountShrinks ==
    ASSUME NEW c, OnlyClient(c), SessionsAreFinite, NoTaskIsNoTask, TypeInv, Rightly(c),
           [Next]_vars, NEW s \in Session, MayCount(s)'
    PROVE  MayCount(s) \/ \E n \in Session : \E Old \in SUBSET Session : Spawn(n, Old)
<1>k. ASSUME NEW a \in Actor
      PROVE  /\ call[a] \in Call /\ CallOK(call[a]) /\ call[a].s \in Session
             /\ sess[call[a].s] \in Record /\ CallRight(call[a])
    BY <1>k DEF TypeInv, Call, Rightly
<1>c. c \in Actor /\ Sweeper \in Actor /\ c # Sweeper /\ call \in [Actor -> Call]
      /\ call[Sweeper].op \in {"none", "look"}
    BY DEF OnlyClient, SweeperIsNoClient, Actor, TypeInv, Rightly
<1>r. /\ AtRest \in Call /\ CallOK(AtRest) /\ AtRest.at = "rest" /\ AtRest.op = "none"
    BY RestType DEF AtRest, SessionsAreFinite
\* A step that changes one call and no session.
<1>n. ASSUME UNCHANGED <<sess, stored>>, NEW a \in Actor, NEW n \in Call,
             call' = [call EXCEPT ![a] = n],
             n.at = "update" /\ n.st = "running" /\ Open(n.s) =>
                 sess[n.s].status \in {"idle", "running"}
      PROVE  MayCount(s)
    <2>1. Open(s)
        BY <1>n DEF MayCount, Open, Stored
    <2>2. Pending(s)' => Pending(s) \/ (n.s = s /\ n.at = "update" /\ n.st = "running")
        BY <1>n, <1>c DEF Pending
    <2> QED BY <1>n, <2>1, <2>2 DEF MayCount
\* A step that writes a call's session and lets the call go.
<1>w. ASSUME UNCHANGED stored, NEW a \in Actor, NEW r, Write(call[a].s, r),
             sess[call[a].s].closed => r.closed,
             r.status \in {"idle", "running"} /\ ~r.closed => Pending(call[a].s),
             NEW n \in Call, call' = [call EXCEPT ![a] = n], n.at # "update"
      PROVE  MayCount(s)
    <2>0. Pending(s)' => Pending(s)
        BY <1>w, <1>c DEF Pending
    <2>1. CASE s = call[a].s /\ Stored(s)
        <3>1. sess'[s] = r
            BY <1>w, <1>k, <2>1 DEF Write, TypeInv
        <3>2. Open(s) /\ ~r.closed
            BY <1>w, <2>1, <3>1 DEF MayCount, Open, Stored
        <3> QED BY <1>w, <2>0, <2>1, <3>1, <3>2 DEF MayCount
    <2>2. CASE s # call[a].s \/ ~Stored(s)
        <3>1. sess'[s] = sess[s]
            BY <1>w, <1>k, <2>2 DEF Write, TypeInv
        <3> QED BY <1>w, <2>0, <3>1 DEF MayCount, Open, Stored
    <2> QED BY <2>1, <2>2
<1>1. ASSUME SendFailed(c) \/ InterruptMark(c) PROVE MayCount(s)
    <2>1. PICK status \in {"failed", "interrupted"} : Write(call[c].s, WithoutTask(sess[call[c].s], status))
        BY <1>1 DEF SendFailed, InterruptMark
    <2>2. PICK r : r = WithoutTask(sess[call[c].s], status)
        OBVIOUS
    <2>3. r.closed = sess[call[c].s].closed /\ r.status = status
        BY <2>2, <1>c, <1>k DEF WithoutTask, Record
    <2> QED BY <1>1, <2>1, <2>2, <2>3, <1>w, <1>c, <1>r DEF SendFailed, InterruptMark, Rest
<1>2. ASSUME CloseMark(c) PROVE MayCount(s)
    <2>1. AsClosed(sess[call[c].s]).closed
        BY <1>c, <1>k DEF AsClosed, Record
    <2> QED BY <1>2, <2>1, <1>w, <1>c, <1>r DEF CloseMark, Rest
<1>3. ASSUME WaitMissing(c) PROVE MayCount(s)
    <2>0. PICK r : r = WithTaskMissing(sess[call[c].s], call[c].t)
        OBVIOUS
    <2>1. r.closed = sess[call[c].s].closed /\ r.status = "failed"
        BY <2>0, <1>c, <1>k DEF WithTaskMissing, Record
    <2>2. PICK n \in Call : call' = [call EXCEPT ![c] = n] /\ n.at # "update"
        <3> DEFINE m == [call[c] EXCEPT !.at = "waitRead"]
        <3>1. m \in Call /\ m.at = "waitRead"
            BY <1>c, <1>k DEF Call, Place
        <3>2. call' = [call EXCEPT ![c] = AtRest] \/ call' = [call EXCEPT ![c] = m]
            BY <1>3 DEF WaitMissing, Rest, Go
        <3> QED BY <1>r, <3>1, <3>2
    <2> QED BY <1>3, <2>0, <2>1, <2>2, <1>w, <1>c DEF WaitMissing
<1>4. ASSUME NEW a \in Actor, ExpireMissing(a) PROVE MayCount(s)
    <2>0. PICK r : r = WithTaskTimeout(sess[call[a].s], call[a].t)
        OBVIOUS
    <2>1. r.closed = sess[call[a].s].closed /\ r.status = "interrupted"
        BY <2>0, <1>k DEF WithTaskTimeout, Record
    <2> QED BY <1>4, <2>0, <2>1, <1>w, <1>r DEF ExpireMissing, Rest
<1>5. ASSUME NEW a \in Actor, Update(a) PROVE MayCount(s)
    <2>0. PICK k, r : k = call[a] /\ r = WithTask(sess[k.s], k.t, k.st)
        OBVIOUS
    <2>1. k.at = "update" /\ k \in Call /\ sess[k.s] \in Record /\ k.st \notin {"idle"}
        BY <1>5, <1>k, <2>0 DEF Update, Call, TaskStatus, Ended
    <2>2. r.closed = sess[k.s].closed /\ (~r.closed => r.status = k.st)
        BY <2>0, <2>1 DEF WithTask, Record
    <2>3. r.status \in {"idle", "running"} /\ ~r.closed => Pending(k.s)
        BY <2>0, <2>1, <2>2 DEF Pending
    <2>4. PICK n \in Call : call' = [call EXCEPT ![a] = n] /\ n.at # "update"
        <3> DEFINE m == [k EXCEPT !.at = "waitRead"]
        <3>1. m \in Call /\ m.at = "waitRead"
            BY <2>1 DEF Call, Place
        <3>2. call' = [call EXCEPT ![a] = AtRest] \/ call' = [call EXCEPT ![a] = m]
            BY <1>5, <2>0 DEF Update, Rest, Go
        <3> QED BY <1>r, <3>1, <3>2
    <2>5. UNCHANGED stored /\ Write(k.s, r)
        BY <1>5, <2>0 DEF Update
    <2> QED BY <2>0, <2>2, <2>3, <2>4, <2>5, <1>w
<1>6. ASSUME ReadSummary(c) PROVE MayCount(s)
    <2>0. PICK k : k = call[c]
        OBVIOUS
    <2> DEFINE n == [k EXCEPT !.st = task[k.t], !.at = "update"]
    <2>1. k.at = "summary" /\ k.op \in {"send", "interrupt"} /\ k.t \in Task /\ k \in Call /\ CallRight(k)
        BY <1>6, <1>c, <1>k, <1>r, <2>0, WhereACallIs DEF ReadSummary
    <2>2. n \in Call /\ n.s = k.s /\ n.st = task[k.t]
        BY <2>1 DEF Call, Place, TypeInv
    <2>3. Rest(c) \/ call' = [call EXCEPT ![c] = n]
        BY <1>6, <2>0 DEF ReadSummary
    <2> HIDE DEF n
    <2>4. n.st = "running" => sess[n.s].status = "idle"
        BY <2>1, <2>2 DEF CallRight
    <2> QED BY <1>6, <2>2, <2>3, <2>4, <1>n, <1>c, <1>r DEF ReadSummary, Rest
<1>7. ASSUME WaitTask(c) PROVE MayCount(s)
    <2>0. PICK k : k = call[c]
        OBVIOUS
    <2> DEFINE n == [k EXCEPT !.st = task[k.t],
                              !.at = IF task[k.t] = "forgotten" THEN "waitMissing" ELSE "update"]
               m == [k EXCEPT !.at = "waitRead"]
    <2>1. k.at = "waitTask" /\ k.op = "wait" /\ k \in Call /\ CallRight(k)
        BY <1>7, <1>c, <1>k, <1>r, <2>0, WhereACallIs DEF WaitTask
    <2>2. m \in Call /\ m.at = "waitRead"
        BY <2>1 DEF Call, Place
    <2>3. CASE k.t = NoTask
        <3>1. Rest(c) \/ call' = [call EXCEPT ![c] = m]
            BY <1>7, <2>0, <2>3 DEF WaitTask, Go
        <3> QED BY <1>7, <2>2, <3>1, <1>n, <1>c, <1>r DEF WaitTask, Rest
    <2>4. CASE k.t # NoTask
        <3>1. k.t \in Task /\ n \in Call /\ n.s = k.s /\ n.st = task[k.t]
            BY <2>1, <2>4 DEF Call, Place, TypeInv
        <3>2. call' = [call EXCEPT ![c] = n]
            BY <1>7, <2>0, <2>4 DEF WaitTask
        <3> HIDE DEF n
        <3>3. owner[k.t] = k.s /\ TaskRight(k, k.t) /\ ~Delivers(k, k.t)
            BY <2>0, <2>1, <2>4, <3>1 DEF CallRight, Starting, IsTheTask, Rightly, Delivers
        <3>4. n.st = "running" /\ Open(n.s) => sess[n.s].status = "running"
            BY <3>1, <3>3 DEF TaskRight
        <3> QED BY <1>7, <3>1, <3>2, <3>4, <1>n, <1>c DEF WaitTask
    <2> QED BY <2>3, <2>4
<1>8. ASSUME NEW a \in Actor, Expire(a) PROVE MayCount(s)
    <2>0. PICK k, st : k = call[a] /\ st = IF Live(k.t) THEN "interrupted" ELSE task[k.t]
        OBVIOUS
    <2> DEFINE n == [k EXCEPT !.st = st,
                              !.at = IF st = "forgotten" THEN "expireMissing" ELSE "update"]
    <2>1. k.at = "expire" /\ k.t \in Task /\ k \in Call
        BY <1>8, <1>k, <1>r, <2>0, WhereACallIs DEF Expire
    <2>2. st \in TaskStatus /\ st # "running"
        BY <2>0, <2>1 DEF Live, TaskStatus, Ended, TypeInv, NoTaskIsNoTask
    <2>3. n \in Call /\ n.st = st
        BY <2>1, <2>2 DEF Call, Place
    <2>4. call' = [call EXCEPT ![a] = n]
        BY <1>8, <2>0 DEF Expire
    <2> HIDE DEF n
    <2> QED BY <1>8, <2>2, <2>3, <2>4, <1>n DEF Expire
<1>9. ASSUME UNCHANGED <<sess, stored>>, NEW a \in Actor, NEW n \in Call, call' = [call EXCEPT ![a] = n],
             n.at # "update"
      PROVE  MayCount(s)
    BY <1>9, <1>n
<1>10. CASE UNCHANGED <<sess, stored, call>>
    BY <1>10 DEF MayCount, Open, Stored, Pending
<1>11. ASSUME NEW a \in Actor, NEW at \in Place \ {"update"}, Go(a, at) \/ Rest(a),
              UNCHANGED <<sess, stored>>
       PROVE  MayCount(s)
    <2> DEFINE n == [call[a] EXCEPT !.at = at]
    <2>1. n \in Call /\ n.at = at
        BY <1>k DEF Call
    <2>2. call' = [call EXCEPT ![a] = n] \/ call' = [call EXCEPT ![a] = AtRest]
        BY <1>11 DEF Go, Rest
    <2> HIDE DEF n
    <2> QED BY <1>11, <2>1, <2>2, <1>9, <1>r
<1>12. ASSUME SendCheck(c) \/ SendStart(c) \/ SendRefused(c) \/ InterruptTask(c) PROVE MayCount(s)
    <2>1. PICK at \in Place \ {"update"} : Go(c, at) \/ Rest(c)
        BY <1>12 DEF SendCheck, SendStart, SendRefused, InterruptTask, Place
    <2> QED BY <1>12, <2>1, <1>11, <1>c DEF SendCheck, SendStart, SendRefused, InterruptTask
<1>13. ASSUME NEW x \in Session,
              \/ \E t \in Task : SendRead(c, x, t)
              \/ Wait(c, x) \/ InterruptRead(c, x)
              \/ \E force \in BOOLEAN : CloseRead(c, x, force)
       PROVE  MayCount(s)
    <2> DEFINE Send(t) == [AtRest EXCEPT !.op = "send", !.at = "sendCheck", !.s = x,
                                         !.seen = sess[x], !.t = t]
               wait == [AtRest EXCEPT !.op = "wait", !.at = "waitRead", !.s = x]
               Read(op, at) == [AtRest EXCEPT !.op = op, !.s = x, !.seen = sess[x],
                                              !.t = sess[x].active, !.at = at]
               mark == Read("interrupt", "mark")
               interrupt == Read("interrupt", "interrupt")
               forced == Read("close", "interrupt")
               close == Read("close", "close")
    <2>1. ASSUME NEW op \in {"interrupt", "close"}, NEW at \in {"mark", "interrupt", "close"}
          PROVE  Read(op, at) \in Call /\ Read(op, at).at = at
        BY <1>r DEF Call, TypeInv, Record, Place
    <2>2. ASSUME NEW t \in Task PROVE Send(t) \in Call /\ Send(t).at = "sendCheck"
        BY <1>r DEF Call, TypeInv, Place
    <2>3. wait \in Call /\ wait.at = "waitRead"
        BY <1>r DEF Call, Place
    <2>4. UNCHANGED <<sess, stored>>
        BY <1>13 DEF SendRead, Wait, InterruptRead, CloseRead
    <2>5. ASSUME NEW t \in Task, SendRead(c, x, t) PROVE call' = [call EXCEPT ![c] = Send(t)]
        BY <2>5 DEF SendRead
    <2>6. Wait(c, x) => call' = [call EXCEPT ![c] = wait]
        BY DEF Wait
    <2>7. InterruptRead(c, x) => \/ call' = [call EXCEPT ![c] = mark]
                                \/ call' = [call EXCEPT ![c] = interrupt]
        BY DEF InterruptRead
    <2>8. ASSUME NEW force \in BOOLEAN, CloseRead(c, x, force)
          PROVE  call' = [call EXCEPT ![c] = forced] \/ call' = [call EXCEPT ![c] = close]
        BY <2>8 DEF CloseRead
    <2>9. /\ mark \in Call /\ mark.at # "update" /\ interrupt \in Call /\ interrupt.at # "update"
          /\ forced \in Call /\ forced.at # "update" /\ close \in Call /\ close.at # "update"
        BY <2>1
    <2> HIDE DEF Send, wait, Read, mark, interrupt, forced, close
    <2>10. \E n \in Call : call' = [call EXCEPT ![c] = n] /\ n.at # "update"
        BY <1>13, <2>2, <2>3, <2>5, <2>6, <2>7, <2>8, <2>9
    <2> QED BY <2>4, <2>10, <1>9, <1>c
<1>14. ASSUME WaitRead(c) PROVE MayCount(s)
    <2> DEFINE r == sess[call[c].s]
               n == [call[c] EXCEPT !.seen = r, !.at = "enforce",
                                    !.t = IF r.active # NoTask THEN r.active ELSE r.last]
    <2>1. n \in Call /\ n.at = "enforce"
        BY <1>c, <1>k DEF Call, Place, Record
    <2>2. call' = [call EXCEPT ![c] = n] \/ call' = [call EXCEPT ![c] = AtRest]
        BY <1>14 DEF WaitRead, Rest
    <2> HIDE DEF n
    <2> QED BY <1>14, <2>1, <2>2, <1>9, <1>c, <1>r DEF WaitRead
<1>15. ASSUME NEW a \in Actor, Enforce(a) PROVE MayCount(s)
    <2> DEFINE n == [call[a] EXCEPT !.at = "expire", !.t = sess[call[a].s].active]
    <2>1. n \in Call /\ n.at = "expire"
        BY <1>k DEF Call, Place, Record
    <2>2. call' = [call EXCEPT ![a] = n] \/ Rest(a) \/ Go(a, "waitTask")
        BY <1>15 DEF Enforce
    <2> HIDE DEF n
    <2> QED BY <1>15, <2>1, <2>2, <1>9, <1>11 DEF Enforce, Place
<1>16. ASSUME NEW a \in Actor, NEW x \in Session, Look(a, x) PROVE MayCount(s)
    <2> DEFINE n == [AtRest EXCEPT !.op = "look", !.at = "enforce", !.s = x, !.seen = sess[x]]
    <2>1. n \in Call /\ n.at = "enforce"
        BY <1>r DEF Call, Place, TypeInv
    <2> HIDE DEF n
    <2> QED BY <1>16, <2>1, <1>9 DEF Look, n
<1> QED
    BY <1>1, <1>2, <1>3, <1>4, <1>5, <1>6, <1>7, <1>8, <1>10, <1>12, <1>13, <1>14, <1>15, <1>16,
       StepsOfTwo DEF ClientStep, SharedStep, TaskEnds, TaskForgotten, TaskTurnsLate, vars

\* A spawn leaves at most one more that counts than it has found (create_sub_agent_session
\* counts under the lock it inserts under), and it finds no call about to make one count.
LEMMA SpawnCounts ==
    ASSUME NEW c, OnlyClient(c), SessionsAreFinite, LimitsAreCounts, TypeInv, Rightly(c), CountInv,
           NEW n \in Session, NEW Old \in SUBSET Session, Spawn(n, Old)
    PROVE  CountInv'
<1> DEFINE kept == stored \ Old
           before == {s \in kept : Counted(s)}
           may == {s \in Session : MayCount(s)}
           after == {s \in Session : MayCount(s)'}
<1>1. call[c] = AtRest /\ UNCHANGED call /\ Actor = {c, Sweeper}
    BY DEF Spawn, OnlyClient, Actor
<1>2. \A s : ~Pending(s)
    <2>1. call[Sweeper].op \in {"none", "look"} /\ CallRight(call[Sweeper]) /\ CallOK(call[Sweeper])
        BY <1>1 DEF Rightly, TypeInv
    <2>2. call[Sweeper].at = "update" => call[Sweeper].st # "running"
        BY <2>1 DEF CallRight, CallOK, AtRest
    <2> QED BY <1>1, <2>2 DEF Pending, AtRest
<1>3. \A s \in Session : ~Pending(s)'
    BY <1>1, <1>2 DEF Pending
<1>4. order[n] = 0 /\ n \notin stored
    BY DEF Spawn, Rightly, SessionRight, Stored
<1>5. ASSUME NEW s \in Session, MayCount(s)', s # n PROVE s \in before
    <2>1. sess'[s] = sess[s] /\ s \in kept
        BY <1>4, <1>5 DEF Spawn, Trimmed, MayCount, Open, Stored, TypeInv
    <2> QED BY <1>3, <1>5, <2>1 DEF MayCount, Open, Stored, Counted
<1>6. /\ IsFiniteSet(before) /\ IsFiniteSet(after) /\ IsFiniteSet(may)
      /\ Cardinality(before) \in Nat /\ Cardinality(after) \in Nat /\ Cardinality(may) \in Nat
    <2>1. before \subseteq Session /\ after \subseteq Session /\ may \subseteq Session
        BY DEF TypeInv
    <2> QED BY <2>1, FS_Subset, FS_CardinalityType DEF SessionsAreFinite
<1>7. CASE Admits(kept)
    <2>1. Cardinality(before) < ActiveLimit
        BY <1>7 DEF Admits
    <2>2. after \subseteq before \cup {n}
        BY <1>5
    <2>3. IsFiniteSet(before \cup {n}) /\ Cardinality(before \cup {n}) <= Cardinality(before) + 1
          /\ Cardinality(before \cup {n}) \in Nat
        <3>1. IsFiniteSet(before) /\ Cardinality(before) \in Nat
            BY <1>6
        <3> HIDE DEF before
        <3>2. IsFiniteSet(before \cup {n}) /\ (\/ Cardinality(before \cup {n}) = Cardinality(before)
                                               \/ Cardinality(before \cup {n}) = Cardinality(before) + 1)
            BY <3>1, FS_AddElement
        <3> QED BY <3>1, <3>2
    <2>4. Cardinality(after) <= Cardinality(before \cup {n})
        BY <2>2, <2>3, FS_Subset
    <2> HIDE DEF before, after
    <2>5. Cardinality(after) <= ActiveLimit
        BY <1>6, <2>1, <2>3, <2>4 DEF LimitsAreCounts
    <2> QED BY <2>5 DEF CountInv, after
<1>8. CASE ~Admits(kept)
    <2>1. n \notin stored'
        BY <1>4, <1>8 DEF Spawn
    <2>2. after \subseteq before
        BY <1>5, <2>1 DEF MayCount, Open, Stored
    <2>3. before \subseteq may
        BY DEF Counted, MayCount, Open, TypeInv
    <2>4. Cardinality(after) <= Cardinality(may)
        BY <1>6, <2>2, <2>3, FS_Subset
    <2>5. Cardinality(may) <= ActiveLimit
        BY DEF CountInv
    <2> HIDE DEF after, may
    <2>6. Cardinality(after) <= ActiveLimit
        BY <1>6, <2>4, <2>5 DEF LimitsAreCounts
    <2> QED BY <2>6 DEF CountInv, after
<1> QED BY <1>7, <1>8

\* No more sessions are active than agent_max_concurrent_tasks allows: for any sessions, tasks
\* and limits, with tasks that outlive their budget, clients that leave, refused starts and
\* forgotten tasks, when one client sends each session one instruction.
THEOREM ActiveBounded ==
    ASSUME NEW c, OnlyClient(c), OneInstruction, SessionsAreFinite, LimitsAreCounts, NoTaskIsNoTask
    PROVE  Spec => []ActiveWithinLimit
<1>1. Init => TypeInv /\ Rightly(c) /\ CountInv
    <2> SUFFICES ASSUME Init PROVE CountInv
        BY RightInit
    <2>1. {s \in Session : MayCount(s)} = {}
        BY DEF Init, MayCount, Open, Stored
    <2> QED BY <2>1, FS_EmptySet DEF CountInv, LimitsAreCounts
<1>2. ASSUME TypeInv, Rightly(c), CountInv, [Next]_vars PROVE CountInv'
    <2> DEFINE may == {s \in Session : MayCount(s)}
               after == {s \in Session : MayCount(s)'}
    <2>1. CASE \E n \in Session : \E Old \in SUBSET Session : Spawn(n, Old)
        BY <1>2, <2>1, SpawnCounts
    <2>2. CASE ~\E n \in Session : \E Old \in SUBSET Session : Spawn(n, Old)
        <3>1. after \subseteq may
            BY <1>2, <2>2, CountShrinks
        <3>2. may \subseteq Session
            OBVIOUS
        <3>3. /\ Cardinality(after) <= Cardinality(may) /\ Cardinality(after) \in Nat
              /\ Cardinality(may) \in Nat
            <4>1. IsFiniteSet(may)
                BY <3>2, FS_Subset DEF SessionsAreFinite
            <4>2. IsFiniteSet(after) /\ Cardinality(after) <= Cardinality(may)
                BY <3>1, <4>1, FS_Subset
            <4> QED BY <4>1, <4>2, FS_CardinalityType
        <3>4. Cardinality(may) <= ActiveLimit
            BY <1>2 DEF CountInv
        <3> HIDE DEF after, may
        <3>5. Cardinality(after) <= ActiveLimit
            BY <3>3, <3>4 DEF LimitsAreCounts
        <3> QED BY <3>5 DEF CountInv, after
    <2> QED BY <2>1, <2>2
<1>3. TypeInv /\ Rightly(c) /\ CountInv /\ [Next]_vars => (TypeInv /\ Rightly(c) /\ CountInv)'
    BY <1>2, TypeStep, RightStep
<1>4. CountInv => ActiveWithinLimit
    <2> DEFINE may == {s \in Session : MayCount(s)}
               counted == {s \in Session : Counted(s)}
    <2> SUFFICES ASSUME CountInv PROVE ActiveWithinLimit
        OBVIOUS
    <2>1. counted \subseteq may /\ may \subseteq Session
        BY DEF Counted, MayCount, Open
    <2>2. IsFiniteSet(may)
        BY <2>1, FS_Subset DEF SessionsAreFinite
    <2>3. IsFiniteSet(counted) /\ Cardinality(counted) <= Cardinality(may)
        BY <2>1, <2>2, FS_Subset
    <2>4. Cardinality(counted) \in Nat /\ Cardinality(may) \in Nat
        BY <2>2, <2>3, FS_CardinalityType
    <2>5. Cardinality(may) <= ActiveLimit
        BY DEF CountInv
    <2> HIDE DEF may, counted
    <2>6. Cardinality(counted) <= ActiveLimit
        BY <2>3, <2>4, <2>5 DEF LimitsAreCounts
    <2> QED BY <2>6 DEF ActiveWithinLimit, counted
<1> QED BY <1>1, <1>3, <1>4, PTL DEF Spec

-----------------------------------------------------------------------------
(***************************************************************************)
(* The store keeps to its limit: sessions are numbered as they are made,   *)
(* and trimming keeps fewer than the limit, counted from the newest.       *)
(***************************************************************************)

Made == {s \in Session : order[s] # 0}

\* Every session that was made has a number of its own, no later than that of the last one;
\* the store holds such sessions only, and no more than the history limit.
StoreInv ==
    /\ \A s \in Session : order[s] <= Cardinality(Made)
    /\ \A s, o \in Made : order[s] = order[o] => s = o
    /\ stored \subseteq Made /\ Cardinality(stored) <= HistoryLimit

\* Among sessions that were made one is the oldest.
LEMMA OldestIs ==
    ASSUME TypeInv, NEW T \in SUBSET Session, T # {}
    PROVE  \E s \in T : \A o \in T : ~ (order[o] < order[s])
<1> DEFINE N == {order[s] : s \in T}
           R == OpToRel(<, Nat)
<1>1. N \subseteq Nat /\ N # {}
    BY DEF TypeInv
<1>2. IsWellFoundedOn(R, Nat)
    BY NatLessThanWellFounded
<1>3. PICK n \in N : \A k \in N : <<k, n>> \notin R
    <2> HIDE DEF R, N
    <2> QED BY <1>1, <1>2, WFMin
<1>4. \A k \in Nat, m \in Nat : k < m => <<k, m>> \in R
    BY DEF OpToRel
<1>5. PICK s \in T : n = order[s]
    OBVIOUS
<1>6. \A o \in T : ~ (order[o] < order[s])
    BY <1>3, <1>4, <1>5 DEF TypeInv
<1> QED BY <1>6

\* What trimming keeps leaves room for one more.
LEMMA TrimmedFits ==
    ASSUME SessionsAreFinite, LimitsAreCounts, TypeInv, StoreInv, NEW kept \in SUBSET stored
    PROVE  Cardinality(Trimmed(kept)) + 1 <= HistoryLimit
<1> DEFINE T == Trimmed(kept)
<1>1. T \subseteq kept /\ kept \subseteq Session /\ IsFiniteSet(kept) /\ IsFiniteSet(T)
    BY FS_Subset DEF Trimmed, TypeInv, SessionsAreFinite
<1>2. CASE T = {}
    BY <1>2, FS_EmptySet DEF LimitsAreCounts
<1>3. CASE T # {}
    <2>1. PICK s \in T : \A o \in T : ~ (order[o] < order[s])
        BY <1>1, <1>3, OldestIs
    <2> DEFINE newer == {o \in kept : order[o] > order[s]}
    <2>2. T \ {s} \subseteq newer
        BY <1>1, <2>1 DEF StoreInv, TypeInv
    <2>3. IsFiniteSet(newer)
        BY <1>1, FS_Subset
    <2>4. Cardinality(newer) < HistoryLimit - 1
        BY <2>1 DEF Trimmed
    <2>5. Cardinality(T \ {s}) = Cardinality(T) - 1
        BY <1>1, <2>1, FS_RemoveElement
    <2> HIDE DEF newer, T
    <2>6. Cardinality(T \ {s}) <= Cardinality(newer)
        BY <2>2, <2>3, FS_Subset
    <2>7. Cardinality(newer) \in Nat /\ Cardinality(T) \in Nat /\ HistoryLimit \in Nat
        BY <1>1, <2>3, FS_CardinalityType DEF LimitsAreCounts
    <2> QED BY <2>4, <2>5, <2>6, <2>7 DEF T
<1> QED BY <1>2, <1>3

\* The store stays within the history limit.
LEMMA StoreStep ==
    ASSUME SessionsAreFinite, LimitsAreCounts, TypeInv, StoreInv, [Next]_vars
    PROVE  StoreInv'
<1>f. \A S \in SUBSET Session : IsFiniteSet(S) /\ Cardinality(S) \in Nat
    BY FS_Subset, FS_CardinalityType DEF SessionsAreFinite
<1>1. ASSUME NEW n \in Session, NEW Old \in SUBSET Session, Spawn(n, Old) PROVE StoreInv'
    <2> DEFINE kept == stored \ Old
    <2>0. kept \in SUBSET stored /\ kept \in SUBSET Session /\ order[n] = 0
        BY <1>1 DEF TypeInv, Spawn
    <2>1. CASE Admits(kept)
        <3> DEFINE m == Cardinality(Made)
        <3>1. /\ order' = [order EXCEPT ![n] = 1 + m]
              /\ stored' = Trimmed(kept) \cup {n}
            BY <1>1, <2>1 DEF Spawn, Made
        <3>2. /\ m \in Nat /\ order \in [Session -> Nat]
              /\ n \notin Made /\ IsFiniteSet(Made) /\ Made \in SUBSET Session
            BY <1>f, <2>0 DEF Made, TypeInv
        <3> HIDE DEF m
        <3>3. Made' = Made \cup {n}
            BY <3>1, <3>2 DEF Made
        <3>4. Cardinality(Made') = m + 1
            BY <3>2, <3>3, FS_AddElement DEF m
        <3>5. \A s \in Session : order'[s] <= Cardinality(Made')
            BY <3>1, <3>2, <3>4 DEF StoreInv, m
        <3>6. \A s \in Made : order'[s] = order[s] /\ order[s] \in Nat /\ order[s] < 1 + m
            BY <3>1, <3>2 DEF StoreInv, m
        <3>7. order'[n] = 1 + m
            BY <3>1, <3>2
        <3>8. \A s, o \in Made' : order'[s] = order'[o] => s = o
            BY <3>2, <3>3, <3>6, <3>7 DEF StoreInv
        <3>9. Trimmed(kept) \in SUBSET Session /\ Trimmed(kept) \subseteq Made
            BY <2>0 DEF Trimmed, StoreInv
        <3>10. Cardinality(stored') <= HistoryLimit
            <4>1. Cardinality(Trimmed(kept)) + 1 <= HistoryLimit
                BY <2>0, TrimmedFits
            <4>2. /\ IsFiniteSet(Trimmed(kept)) /\ Cardinality(Trimmed(kept)) \in Nat
                BY <1>f, <3>9
            <4>3. n \notin Trimmed(kept)
                BY <3>2, <3>9
            <4>4. Cardinality(stored') = Cardinality(Trimmed(kept)) + 1
                BY <3>1, <4>2, <4>3, FS_AddElement
            <4> QED BY <4>1, <4>4
        <3> QED BY <3>1, <3>3, <3>5, <3>8, <3>9, <3>10 DEF StoreInv
    <2>2. CASE ~Admits(kept)
        <3>1. stored' = kept /\ UNCHANGED order
            BY <1>1, <2>2 DEF Spawn
        <3>2. Made' = Made
            BY <3>1 DEF Made
        <3>3. Cardinality(kept) <= Cardinality(stored)
            BY <1>f, <2>0, FS_Subset DEF TypeInv
        <3>4. Cardinality(kept) <= HistoryLimit
            BY <1>f, <2>0, <3>3 DEF StoreInv, TypeInv, LimitsAreCounts
        <3> QED BY <2>0, <3>1, <3>2, <3>4 DEF StoreInv
    <2> QED BY <2>1, <2>2
<1>2. ASSUME UNCHANGED <<order, stored>> PROVE StoreInv'
    BY <1>2 DEF StoreInv, Made
<1>3. ASSUME NEW c \in Actor, SharedStep(c) \/ ClientStep(c)
      PROVE  UNCHANGED <<order, stored>>
    BY <1>3 DEF SharedStep, ClientStep, SendRead, SendCheck, SendStart, SendRefused, SendFailed,
               ReadSummary, Update, Wait, WaitRead, WaitTask, WaitMissing, Enforce, Expire,
               ExpireMissing, InterruptRead, InterruptMark, InterruptTask, CloseRead, CloseMark
<1>4. ASSUME NEW c \in Actor, NEW s \in Session, Look(c, s) PROVE UNCHANGED <<order, stored>>
    BY <1>4 DEF Look
<1>5. ASSUME NEW t \in Task, TaskEnds(t) \/ TaskForgotten(t) \/ TaskTurnsLate(t)
      PROVE  UNCHANGED <<order, stored>>
    BY <1>5 DEF TaskEnds, TaskForgotten, TaskTurnsLate
<1>6. UNCHANGED vars => UNCHANGED <<order, stored>>
    BY DEF vars
<1> QED BY <1>1, <1>2, <1>3, <1>4, <1>5, <1>6 DEF Next, Actor

\* The type invariant, and with it that the store of sessions stays within its limit, whichever
\* sessions are pruned and trimmed for a new one (prune_stale_sub_agent_sessions,
\* trim_sub_agent_session_history).
THEOREM TypeCorrect ==
    ASSUME SessionsAreFinite, LimitsAreCounts, NoTaskIsNoTask PROVE Spec => []TypeOK
<1>1. Init => TypeInv /\ StoreInv
    <2> SUFFICES ASSUME Init PROVE TypeInv /\ StoreInv
        OBVIOUS
    <2>1. stored = {} /\ order = [s \in Session |-> 0] /\ Made = {}
        BY DEF Init, Made
    <2>2. Cardinality({}) = 0
        BY FS_EmptySet
    <2> QED BY <2>1, <2>2, TypeInit DEF StoreInv, LimitsAreCounts
<1>2. TypeInv /\ StoreInv /\ [Next]_vars => (TypeInv /\ StoreInv)'
    BY TypeStep, StoreStep
<1>3. TypeInv /\ StoreInv => TypeOK
    BY DEF TypeInv, StoreInv, TypeOK, Record, TaskStatus, Call
<1> QED BY <1>1, <1>2, <1>3, PTL DEF Spec
=============================================================================
