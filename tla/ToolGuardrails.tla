---------------------------- MODULE ToolGuardrails ----------------------------
(***************************************************************************)
(* The guardrails of runtime tools (runtime_tool_guardrails.rs) and those  *)
(* who ask them: agent tasks, core live skills and the web client.  Before *)
(* a tool runs the guardrails are asked (evaluate), and how it ended is    *)
(* reported (record_outcome).  They keep a rate limit and a circuit        *)
(* breaker per tool scope, write their state to disk at every call, and    *)
(* refuse everything once that fails.                                      *)
(*                                                                         *)
(* One scope is modelled, and one workspace of it.  Points in time are     *)
(* kept as ages, which Tick raises.  Every call is made and reported at    *)
(* the time it arrives: a request that carries a time of its own (`at`),   *)
(* which the service takes for now, is not modelled.                       *)
(***************************************************************************)
EXTENDS Naturals, Sequences, FiniteSets

CONSTANTS
    Caller,
    RateLimit,     \* calls per RateWindow, 0 for a scope without a limit
    RateWindow,
    Window,        \* circuit_window_size
    MinCompleted,  \* circuit_min_completed
    OpenTime,      \* circuit_open_ms
    MaxProbes,     \* half_open_max_probes
    Required,      \* half_open_required_successes
    DryRuns,       \* callers may dry-run, which is not asked for
    Faults         \* what may fail: a subset of Fault

\* disk: the snapshot cannot be written.  crash: the service stops.  metrics: an execution
\* cannot be recorded, which makes the channel unhealthy.
Fault == {"disk", "crash", "metrics"}

LimitsAreCounts ==
    /\ {RateLimit, RateWindow, OpenTime} \subseteq Nat
    /\ {Window, MinCompleted, MaxProbes, Required} \subseteq Nat \ {0}
    /\ Required <= MaxProbes
    /\ DryRuns \in BOOLEAN /\ Faults \subseteq Fault

VARIABLES
    mem,       \* RuntimeToolGuardrailStore.state
    disk,      \* the snapshot on disk
    writable,  \* the snapshot can be written
    caller,    \* what each caller is at, and whether it is a probe of this half-open phase
    calm,      \* from now on tools succeed and nothing fails
    seen,      \* history: ages of the calls allowed within the last RateWindow
    probes,    \* history: calls allowed in this half-open phase
    good,      \* history: probes of this half-open phase that have succeeded
    strays     \* history: callers whose success of a call from before this half-open phase
               \* was counted in it

vars == <<mem, disk, writable, caller, calm, seen, probes, good, strays>>

Status == {"ok", "fail", "blocked"}
Closed == [state |-> "closed", age |-> 0, attempts |-> 0, successes |-> 0]
Open == [Closed EXCEPT !.state = "open"]
HalfOpen == [Closed EXCEPT !.state = "half_open"]
Idle == [at |-> "idle", probe |-> FALSE]

Init ==
    /\ mem = [circuit |-> Closed, history |-> <<>>, hits |-> <<>>, healthy |-> TRUE]
    /\ disk = mem
    /\ writable = TRUE /\ calm = FALSE
    /\ caller = [c \in Caller |-> Idle]
    /\ seen = <<>> /\ probes = 0 /\ good = 0 /\ strays = {}

-----------------------------------------------------------------------------
Older(ages, limit) == [i \in DOMAIN ages |-> IF ages[i] < limit THEN ages[i] + 1 ELSE limit]
\* The oldest hits come first: those that have left the window are dropped from the front.
LeftWindow(ages) ==
    CHOOSE n \in 0..Len(ages) :
        /\ \A i \in 1..n : ages[i] > RateWindow
        /\ n < Len(ages) => ages[n + 1] <= RateWindow
Recent(ages) == SubSeq(ages, LeftWindow(ages) + 1, Len(ages))
Pruned(m) == [m EXCEPT !.hits = Recent(@)]

\* Mutant: the phase starts anew whenever the circuit is not closed.
RefreshedAnew(m) ==
    IF m.circuit.state # "closed" /\ (m.circuit.state = "open" => m.circuit.age >= OpenTime)
    THEN [m EXCEPT !.circuit = HalfOpen] ELSE m

\* refresh_open_circuit_if_cooldown_elapsed.
Refreshed(m) ==
    IF m.circuit.state = "open" /\ m.circuit.age >= OpenTime
    THEN [m EXCEPT !.circuit = HalfOpen] ELSE m

\* What evaluate answers, and the state it leaves.
Verdict(asked, large) ==
    LET m == Refreshed(Pruned(asked))
        full == RateLimit > 0 /\ Len(m.hits) >= RateLimit
        hit == IF RateLimit > 0 THEN [m EXCEPT !.hits = Append(@, 0)] ELSE m
        spent == m.circuit.attempts >= MaxProbes
    IN  IF ~m.healthy \/ large \/ full THEN [allowed |-> FALSE, mem |-> m]
        ELSE CASE m.circuit.state = "closed" -> [allowed |-> TRUE, mem |-> hit]
               [] m.circuit.state = "open" -> [allowed |-> FALSE, mem |-> hit]
               [] m.circuit.state = "half_open" /\ spent ->
                    [allowed |-> FALSE, mem |-> [hit EXCEPT !.circuit = Open]]
               [] OTHER -> [allowed |-> TRUE, mem |-> [hit EXCEPT !.circuit.attempts = @ + 1]]

\* Those who were let through as probes are none once the phase is over.
Phase(m) ==
    IF m.circuit.state = "half_open" /\ mem.circuit.state = "half_open"
    THEN caller ELSE [c \in Caller |-> [caller[c] EXCEPT !.probe = FALSE]]

\* The histories of a half-open phase begin anew with it.
Begins(m) == m.circuit.state = "half_open" /\ mem.circuit.state # "half_open"
Fresh(m, n) == IF Begins(m) THEN 0 ELSE n
Unstrayed(m) == IF Begins(m) THEN {} ELSE strays

Unavailable(m) == [m EXCEPT !.healthy = FALSE]

\* A caller asks.  When the snapshot cannot be written the call fails: the web client then
\* reports nothing, a core skill and an agent task report a failure, the latter without
\* marking the channel.
Evaluate(c, large) ==
    LET v == Verdict(mem, large)
        probe == v.allowed /\ v.mem.circuit.state = "half_open"
        to(at) == [Phase(v.mem) EXCEPT ![c] = [at |-> at, probe |-> probe /\ at = "runs"]]
    IN
    /\ caller[c].at = "idle" /\ (large => ~calm)
    /\ \/ /\ writable
          /\ mem' = v.mem /\ disk' = v.mem
          /\ caller' = to(IF v.allowed THEN "runs" ELSE "blocked")
          /\ seen' = IF v.allowed /\ RateLimit > 0 THEN Append(seen, 0) ELSE seen
       \/ /\ ~writable
          /\ \/ mem' = Unavailable(v.mem) /\ caller' \in {to("idle"), to("fail")}
             \/ mem' = v.mem /\ caller' = to("fail")
          /\ UNCHANGED <<disk, seen>>
    /\ probes' = Fresh(v.mem, probes)
                 + (IF probe /\ writable THEN 1 ELSE 0)
    /\ good' = Fresh(v.mem, good) /\ strays' = Unstrayed(v.mem)
    /\ UNCHANGED <<writable, calm>>

LowRate(h) ==
    LET ok == Len(SelectSeq(h, LAMBDA s : s = "ok"))
        done == Len(SelectSeq(h, LAMBDA s : s # "blocked"))
    IN  done >= MinCompleted /\ 5 * ok < 4 * done

\* Mutant: every outcome counts as a success of a probe.
CircuitAfterAny(circuit, h, status) ==
    IF circuit.state = "half_open"
    THEN LET n == circuit.successes + 1 IN
         IF circuit.attempts < MaxProbes THEN [circuit EXCEPT !.successes = n]
         ELSE IF n >= Required THEN Closed ELSE Open
    ELSE IF LowRate(h) THEN Open ELSE circuit

\* The circuit after an outcome; h is the history with it.
CircuitAfter(circuit, h, status) ==
    IF circuit.state = "half_open"
    THEN LET n == circuit.successes + (IF status = "ok" THEN 1 ELSE 0) IN
         IF circuit.attempts < MaxProbes THEN [circuit EXCEPT !.successes = n]
         ELSE IF n >= Required THEN Closed ELSE Open
    ELSE IF LowRate(h) THEN Open ELSE circuit

\* Mutant: a call that was refused does not show that the channel works.
RecordedWork(m, status) ==
    LET h == Append(m.history, status)
        kept == SubSeq(h, IF Len(h) > Window THEN 2 ELSE 1, Len(h))
    IN  [m EXCEPT !.history = kept, !.healthy = @ \/ status # "blocked",
                  !.circuit = CircuitAfter(@, kept, status)]

Recorded(m, status) ==
    LET h == Append(m.history, status)
        kept == SubSeq(h, IF Len(h) > Window THEN 2 ELSE 1, Len(h))
    IN  [m EXCEPT !.history = kept, !.healthy = TRUE,
                  !.circuit = CircuitAfter(@, kept, status)]

\* record_outcome, called with what the caller has to report.
Report(c) ==
    LET status == caller[c].at
        m == Recorded(mem, status)
    IN
    /\ status \in Status
    /\ IF writable THEN mem' = m /\ disk' = m ELSE mem' = Unavailable(m) /\ UNCHANGED disk
    /\ caller' = [Phase(m) EXCEPT ![c] = Idle]
    /\ good' = good + (IF caller[c].probe /\ status = "ok" THEN 1 ELSE 0)
    /\ strays' = IF mem.circuit.state = "half_open" /\ ~caller[c].probe /\ status = "ok"
                 THEN strays \cup {c} ELSE strays
    /\ UNCHANGED <<writable, calm, seen, probes>>

\* A tool ends; a dry run ends without the guardrails having been asked.  MaxProbes bounds
\* the successes that dry runs add.
Finish(c) ==
    /\ \/ caller[c].at = "runs"
       \/ DryRuns /\ ~calm /\ caller[c].at = "idle" /\ mem.circuit.successes < MaxProbes
    /\ \E status \in (IF calm THEN {"ok"} ELSE Status) : caller' = [caller EXCEPT ![c].at = status]
    /\ UNCHANGED <<mem, disk, writable, calm, seen, probes, good, strays>>

-----------------------------------------------------------------------------
\* mark_channel_failure, when the tool metrics cannot be recorded.
MetricsFail ==
    /\ "metrics" \in Faults /\ ~calm
    /\ mem' = Unavailable(mem)
    /\ disk' = IF writable THEN mem' ELSE disk
    /\ UNCHANGED <<writable, caller, calm, seen, probes, good, strays>>

\* A caller is gone without a report.
Lose(c) ==
    /\ ~calm /\ caller[c].at # "idle"
    /\ caller' = [caller EXCEPT ![c] = Idle]
    /\ UNCHANGED <<mem, disk, writable, calm, seen, probes, good, strays>>

Disk ==
    /\ "disk" \in Faults /\ ~calm
    /\ writable' = ~writable
    /\ UNCHANGED <<mem, disk, caller, calm, seen, probes, good, strays>>

\* The service stops and starts again (load_or_default); callers within it are gone.
Crash ==
    /\ "crash" \in Faults /\ ~calm
    /\ mem' = disk
    /\ \E gone \in SUBSET Caller :
          caller' = [c \in Caller |-> IF c \in gone THEN Idle ELSE Phase(disk)[c]]
    /\ probes' = Fresh(disk, probes) /\ good' = Fresh(disk, good) /\ strays' = Unstrayed(disk)
    /\ UNCHANGED <<disk, writable, calm, seen>>

Tick ==
    LET aged(m) == [m EXCEPT !.circuit.age = IF m.circuit.state = "open" /\ @ < OpenTime
                                             THEN @ + 1 ELSE @,
                             !.hits = Older(@, RateWindow + 1)]
    IN
    /\ mem' = aged(mem) /\ disk' = aged(disk)
    /\ seen' = Recent(Older(seen, RateWindow + 1))
    /\ UNCHANGED <<writable, caller, calm, probes, good, strays>>

Settle ==
    /\ ~calm
    /\ calm' = TRUE /\ writable' = TRUE
    /\ UNCHANGED <<mem, disk, caller, seen, probes, good, strays>>

Next ==
    \/ \E c \in Caller : Evaluate(c, FALSE) \/ Evaluate(c, TRUE) \/ Finish(c) \/ Report(c) \/ Lose(c)
    \/ MetricsFail \/ Disk \/ Crash \/ Tick \/ Settle

Spec == Init /\ [][Next]_vars

\* Callers go on asking, tools end and are reported, time passes.
Fairness ==
    /\ \A c \in Caller : WF_vars(Evaluate(c, FALSE)) /\ WF_vars(Finish(c)) /\ WF_vars(Report(c))
    /\ WF_vars(Tick)

FairSpec == Spec /\ Fairness

-----------------------------------------------------------------------------
Snapshots ==
    [circuit : [state : {"closed", "open", "half_open"}, age : 0..OpenTime,
                attempts : 0..MaxProbes, successes : Nat],
     history : Seq(Status), hits : Seq(0..(RateWindow + 1)), healthy : BOOLEAN]

TypeOK ==
    /\ {mem, disk} \subseteq Snapshots
    /\ Len(mem.history) <= Window /\ Len(disk.history) <= Window
    /\ {writable, calm} \subseteq BOOLEAN
    /\ caller \in [Caller -> [at : {"idle", "runs"} \cup Status, probe : BOOLEAN]]
    /\ seen \in Seq(0..RateWindow) /\ probes \in Nat /\ good \in Nat /\ strays \subseteq Caller

\* No more calls go ahead within the window of the rate limit than it allows, crashes and
\* failing writes included: what was allowed is on disk.
RateRespected == RateLimit > 0 => Len(seen) <= RateLimit

\* Of a scope whose circuit is half open no more calls go ahead than there are probes.
ProbesBounded == mem.circuit.state = "half_open" => probes <= MaxProbes

\* A circuit is closed by the successes of as many calls as are required: of probes of this
\* half-open phase and, as an outcome does not say when its call was let through, of calls
\* from before it, of which a caller has at most one.
EnoughProbes ==
    mem.circuit.state = "half_open" /\ mem'.circuit.state = "closed" =>
        good' + Cardinality(strays') >= Required
ClosedByProbes == [][EnoughProbes]_vars

\* The success of a tool does not open a circuit that probes have closed.
SuccessNeverOpens ==
    [][good >= Required /\ mem.circuit.state = "closed" /\ mem'.circuit.state = "open" =>
        \E c \in Caller : caller[c].at = "fail" /\ caller'[c].at = "idle"]_vars

\* Once tools succeed and nothing fails the scope is usable for good.
Recovers == <>calm => <>[](mem.healthy /\ mem.circuit.state = "closed")
=============================================================================
