------------------------- MODULE CommandTrackerState -------------------------
(***************************************************************************)
(* The data of InMemoryDeviceCommandTracker                                *)
(* (apps/api/.../devices/commands/in-memory-device-command-tracker.ts) and *)
(* its operations, each as an operator from a tracker state to the tracker *)
(* state the call leaves behind.  The class is synchronous, so a call is   *)
(* one indivisible step; callers that make several calls between two       *)
(* awaits (the control service) compose the operators.                     *)
(*                                                                         *)
(* A tracker state is a record of the class's three maps and its counter:  *)
(*   commands  commandByScopedDevice       (the verdict the portal shows)  *)
(*   traces    executionTraceByCommandId   (the execution evidence)        *)
(*   latest    latestCommandIdByScopedDevice                               *)
(*   seq       commandSequence                                             *)
(* A Map is a function whose DOMAIN is the set of keys present.            *)
(***************************************************************************)
EXTENDS Integers, FiniteSets

CONSTANTS
    Scopes,         \* tenant/site pairs
    DeviceIds,      \* logical device ids, unique inside one scope only
    Values,         \* values of the commanded field ("on")
    Absent,         \* a report that does not carry the commanded field
    AckTimeout,     \* settings.ackTimeoutMs()
    RouteTtl,       \* ttlMs of the observer routes
    SettleWindow,   \* settings.settleWindowMs()
    TraceLimit,     \* settings.traceLimit()
    VerdictDisplay, \* 30000 ms: how long no_ack and failed stay visible
    AckedDisplay,   \* 5000 ms: how long acked stays visible
    MaxCommands     \* bound: commands issued in a behaviour

ASSUME TrackerAssumption ==
    /\ AckTimeout \in Nat \ {0}
    /\ RouteTtl \in Nat \ {0}
    /\ {SettleWindow, TraceLimit, VerdictDisplay, AckedDisplay, MaxCommands} \subseteq Nat
    /\ Absent \notin Values

ScopedDevices == Scopes \X DeviceIds
DeviceIdOf(key) == key[2]
CommandIds == 1..MaxCommands
NoEvidence == 0                       \* evidenceCommandId = null
Reports == Values \cup {Absent}

Statuses == {"pending", "acked", "failed", "no_ack"}
Completions == {"superseded", "failed", "drifted", "settled", "timed_out"}
\* The stages of a trace that carry a judgement, without their order; the
\* remarks (requested, stale, reported, settling, a mismatch that judges
\* nothing) are left out.
Stages == {"published", "verified", "transport_failed", "pre_write_failed", "mismatched"}
          \cup (Completions \ {"failed"})

Commands == [id : CommandIds, status : Statuses, requestedAt : Nat, expected : Values,
             expiresAt : Nat, displayUntil : Nat]

\* Nullable times are 0 when null: the code tests settlingUntil for
\* truthiness and the clock starts at 1.  `observed` is the observedValues
\* evidence of the drift stage.
Traces == [key : ScopedDevices, expected : Values, requestedAt : Nat, expiresAt : Nat,
           settlingUntil : Nat, completedAt : Nat, outcome : Completions \cup {"running"},
           stages : SUBSET Stages, observed : Reports]

EmptyTracker == [commands |-> << >>, traces |-> << >>, latest |-> << >>, seq |-> 0]

-----------------------------------------------------------------------------
(* Helpers *)

\* Map.set and Map.delete.
Put(map, key, value) == [k \in DOMAIN map \cup {key} |-> IF k = key THEN value ELSE map[k]]
Keep(map, keys) == [k \in DOMAIN map \cap keys |-> map[k]]

HasCommand(st, key, status) == key \in DOMAIN st.commands /\ st.commands[key].status = status
HasTrace(st, id) == id \in DOMAIN st.traces
IsRunning(st, id) == HasTrace(st, id) /\ st.traces[id].outcome = "running"

SetCommand(st, key, command) == [st EXCEPT !.commands = Put(st.commands, key, command)]
SetTrace(st, id, trace) == [st EXCEPT !.traces = Put(st.traces, id, trace)]

Staged(trace, stage) == [trace EXCEPT !.stages = @ \cup {stage}]

\* completeExecutionTrace / completeTrace; the diagnosis is a function of the outcome.
Complete(trace, outcome, at, stage) ==
    [Staged(trace, stage) EXCEPT !.outcome = outcome, !.completedAt = at]

\* valuesMatch(expectedValues, values) for the one commanded field: a report
\* without the field reads undefined and does not match.
Matches(expected, reported) == reported = expected

-----------------------------------------------------------------------------
(* Lazy expiry: nothing in the class runs on a timer *)

\* refreshDeviceCommand for each of these devices: an unanswered command is
\* given up at its deadline, and a verdict is forgotten when it has been shown.
RefreshCommands(st, keys, now) ==
    LET known == keys \cap DOMAIN st.commands
        unanswered == {k \in known : st.commands[k].status = "pending" /\ now > st.commands[k].expiresAt}
        outdated == {k \in known : st.commands[k].status # "pending" /\ now > st.commands[k].displayUntil}
    IN  [st EXCEPT !.commands =
            [k \in DOMAIN st.commands \ outdated |->
                IF k \in unanswered
                THEN [st.commands[k] EXCEPT !.status = "no_ack", !.displayUntil = now + VerdictDisplay]
                ELSE st.commands[k]]]

RefreshCommand(st, key, now) == RefreshCommands(st, {key}, now)

\* Mutant of RefreshedTrace: a completed trace settles once more.
RefreshedTraceOfAnyOutcome(t, now) ==
    CASE t.settlingUntil # 0 /\ now >= t.settlingUntil ->
            Complete(t, "settled", t.settlingUntil, "settled")
      [] t.outcome = "running" /\ t.settlingUntil = 0 /\ now > t.expiresAt ->
            Complete(t, "timed_out", t.expiresAt, "timed_out")
      [] OTHER -> t

\* Mutant of RefreshedTrace: nobody closes the settle window.
RefreshedTraceNeverSettling(t, now) ==
    IF t.outcome = "running" /\ t.settlingUntil = 0 /\ now > t.expiresAt
    THEN Complete(t, "timed_out", t.expiresAt, "timed_out") ELSE t

RefreshedTrace(t, now) ==
    CASE t.outcome = "running" /\ t.settlingUntil # 0 /\ now >= t.settlingUntil ->
            Complete(t, "settled", t.settlingUntil, "settled")
      [] t.outcome = "running" /\ t.settlingUntil = 0 /\ now > t.expiresAt ->
            Complete(t, "timed_out", t.expiresAt, "timed_out")
      [] OTHER -> t

\* refreshExecutionTraces: every trace, whatever its device.
RefreshTraces(st, now) ==
    [st EXCEPT !.traces = [id \in DOMAIN st.traces |-> RefreshedTrace(st.traces[id], now)]]

-----------------------------------------------------------------------------
(* Issuing a command *)

\* The traces that the sort in trimExecutionTraces places before trace id:
\* requested later, or in the same millisecond and inserted earlier (the
\* sort is stable and a Map iterates in insertion order).
Ahead(traces, id) ==
    {other \in DOMAIN traces :
        \/ traces[other].requestedAt > traces[id].requestedAt
        \/ traces[other].requestedAt = traces[id].requestedAt /\ other < id}

Retained(traces) == {id \in DOMAIN traces : Cardinality(Ahead(traces, id)) < TraceLimit}

\* Mutant of TrimTraces: the latest pointer outlives its trace.
TrimTracesOnly(st) == [st EXCEPT !.traces = Keep(st.traces, Retained(st.traces))]

\* Evicting a trace also deletes the latest pointer that names it.
TrimTraces(st) ==
    LET kept == Retained(st.traces) IN
    [st EXCEPT !.traces = Keep(st.traces, kept),
               !.latest = Keep(st.latest, {k \in DOMAIN st.latest : st.latest[k] \in kept})]

NewCommand(id, expected, now, ttl) ==
    [id |-> id, status |-> "pending", requestedAt |-> now, expected |-> expected,
     expiresAt |-> now + ttl, displayUntil |-> now + AckTimeout + VerdictDisplay]

NewTrace(key, expected, now, ttl) ==
    [key |-> key, expected |-> expected, requestedAt |-> now, expiresAt |-> now + ttl,
     settlingUntil |-> 0, completedAt |-> 0, outcome |-> "running",
     stages |-> {}, observed |-> Absent]

\* Mutant of Supersede: a predecessor inside its settle window is left running.
SupersedeUnverifiedOnly(st, key, now) ==
    IF /\ key \in DOMAIN st.latest /\ IsRunning(st, st.latest[key])
       /\ st.traces[st.latest[key]].settlingUntil = 0
    THEN SetTrace(st, st.latest[key],
                  Complete(st.traces[st.latest[key]], "superseded", now, "superseded"))
    ELSE st

\* A running predecessor is superseded as it stands: expiry is not applied first.
Supersede(st, key, now) ==
    IF key \in DOMAIN st.latest /\ IsRunning(st, st.latest[key])
    THEN SetTrace(st, st.latest[key],
                  Complete(st.traces[st.latest[key]], "superseded", now, "superseded"))
    ELSE st

MarkDeviceCommandPending(st, key, expected, ttl, now) ==
    LET id == st.seq + 1
        prior == Supersede(st, key, now)
    IN  TrimTraces([commands |-> Put(prior.commands, key, NewCommand(id, expected, now, ttl)),
                    traces |-> Put(prior.traces, id, NewTrace(key, expected, now, ttl)),
                    latest |-> Put(prior.latest, key, id),
                    seq |-> id])

-----------------------------------------------------------------------------
(* Callbacks of the transports *)

MarkDeviceCommandPublished(st, deviceId, id) ==
    IF IsRunning(st, id) /\ DeviceIdOf(st.traces[id].key) = deviceId
    THEN SetTrace(st, id, Staged(st.traces[id], "published"))
    ELSE st

\* Mutant of IsOpen: a late failure may overwrite a verdict that was given.
IsOpenWhateverShown(st, deviceId, id) ==
    /\ IsRunning(st, id)
    /\ DeviceIdOf(st.traces[id].key) = deviceId
    /\ st.traces[id].key \in DOMAIN st.commands
    /\ st.commands[st.traces[id].key].id = id

\* The command a failure callback for id may still fail.
IsOpen(st, deviceId, id) ==
    /\ IsRunning(st, id)
    /\ DeviceIdOf(st.traces[id].key) = deviceId
    /\ HasCommand(st, st.traces[id].key, "pending")
    /\ st.commands[st.traces[id].key].id = id

\* Mutant of Fail: the trace of the failed command is not completed.
FailVerdictOnly(st, deviceId, id, stage, now) ==
    IF IsOpen(st, deviceId, id)
    THEN SetCommand(st, st.traces[id].key,
             [st.commands[st.traces[id].key] EXCEPT !.status = "failed", !.expiresAt = now,
                                                    !.displayUntil = now + VerdictDisplay])
    ELSE st

\* failCurrentCommand followed by completeExecutionTrace.
Fail(st, deviceId, id, stage, now) ==
    IF IsOpen(st, deviceId, id)
    THEN LET key == st.traces[id].key
             failed == [st.commands[key] EXCEPT !.status = "failed", !.expiresAt = now,
                                                !.displayUntil = now + VerdictDisplay]
         IN  SetTrace(SetCommand(st, key, failed), id,
                      Complete(st.traces[id], "failed", now, stage))
    ELSE st

MarkDeviceCommandTransportFailed(st, deviceId, id, now) ==
    Fail(st, deviceId, id, "transport_failed", now)

FailureReasons == {"pre_write", "readback_mismatch"}
MarkDeviceCommandFailed(st, deviceId, id, reason, now) ==
    Fail(st, deviceId, id, IF reason = "pre_write" THEN "pre_write_failed" ELSE "mismatched", now)

-----------------------------------------------------------------------------
(* Observed telemetry *)

\* observePossibleDrift: neither the time of the report nor its evidence id is looked at.
ObservePossibleDrift(st, key, reported, observedAt) ==
    IF /\ key \in DOMAIN st.latest
       /\ IsRunning(st, st.latest[key])
       /\ st.traces[st.latest[key]].settlingUntil # 0
       /\ ~Matches(st.traces[st.latest[key]].expected, reported)
    THEN SetTrace(st, st.latest[key],
                  [Complete(st.traces[st.latest[key]], "drifted", observedAt, "drifted")
                     EXCEPT !.observed = reported])
    ELSE st

\* The matching report acknowledges the command and, when its trace is still
\* kept, opens the settle window.
Acknowledge(st, key, now) ==
    LET c == st.commands[key]
        acked == SetCommand(st, key, [c EXCEPT !.status = "acked",
                                               !.displayUntil = now + AckedDisplay])
    IN  IF HasTrace(st, c.id)
        THEN SetTrace(acked, c.id, [Staged(st.traces[c.id], "verified")
                                      EXCEPT !.settlingUntil = now + SettleWindow])
        ELSE acked

\* A report for a device whose command is pending verifies it unless it names
\* another command, is older than the request or does not match.  The code
\* notes the last two on the trace and leaves the command pending.
Verifies(command, reported, observedAt, evidence) ==
    /\ evidence \in {NoEvidence, command.id}
    /\ observedAt >= command.requestedAt
    /\ Matches(command.expected, reported)

ObservePending(st, key, reported, observedAt, evidence, now) ==
    IF Verifies(st.commands[key], reported, observedAt, evidence)
    THEN Acknowledge(st, key, now)
    ELSE st

\* Mutant of ObserveTelemetry: expiry is left to the readers.
ObserveUnrefreshed(st, key, reported, observedAt, evidence, now) ==
    IF HasCommand(st, key, "pending")
    THEN ObservePending(st, key, reported, observedAt, evidence, now)
    ELSE ObservePossibleDrift(st, key, reported, observedAt)

ObserveTelemetry(st, key, reported, observedAt, evidence, now) ==
    LET fresh == RefreshTraces(RefreshCommand(st, key, now), now) IN
    IF HasCommand(fresh, key, "pending")
    THEN ObservePending(fresh, key, reported, observedAt, evidence, now)
    ELSE ObservePossibleDrift(fresh, key, reported, observedAt)

-----------------------------------------------------------------------------
(* What every tracker state satisfies *)

TrackerType(st) ==
    /\ st = [commands |-> st.commands, traces |-> st.traces,
             latest |-> st.latest, seq |-> st.seq]
    /\ st.seq \in 0..MaxCommands
    /\ DOMAIN st.commands \subseteq ScopedDevices
    /\ \A k \in DOMAIN st.commands : st.commands[k] \in Commands /\ st.commands[k].id <= st.seq
    /\ DOMAIN st.traces \subseteq 1..st.seq
    /\ \A id \in DOMAIN st.traces : st.traces[id] \in Traces
    /\ DOMAIN st.latest \subseteq ScopedDevices
    /\ \A k \in DOMAIN st.latest : st.latest[k] \in DOMAIN st.traces

\* Only the trace that the latest pointer of its device names can be running.
SingleExecution(st) ==
    \A id \in DOMAIN st.traces :
        IsRunning(st, id) =>
            LET key == st.traces[id].key IN key \in DOMAIN st.latest /\ st.latest[key] = id

\* A command c and its trace t can be seen together at time now.
Agree(c, t, now) ==
    /\ c.status = "failed" <=> t.outcome = "failed"
    /\ c.status = "acked" <=> t.settlingUntil # 0
    /\ c.status = "acked" => t.outcome \in {"running", "settled", "drifted"}
    /\ c.status \in {"pending", "no_ack"} => t.outcome \in {"running", "timed_out"}
    /\ c.status = "no_ack" \/ t.outcome = "timed_out" => now > t.expiresAt

VerdictsAgree(st, now) ==
    \A key \in DOMAIN st.commands :
        HasTrace(st, st.commands[key].id) =>
            Agree(st.commands[key], st.traces[st.commands[key].id], now)
=============================================================================
