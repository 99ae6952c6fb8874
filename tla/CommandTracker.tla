--------------------------- MODULE CommandTracker ---------------------------
(***************************************************************************)
(* The command tracker under every order of calls its callers can make:    *)
(* new commands, transport callbacks that arrive late or for a replaced    *)
(* command, telemetry that is stale, partial or names a command, reads,    *)
(* and time passing between any two calls.                                 *)
(***************************************************************************)
EXTENDS CommandTrackerLifecycle

CONSTANTS
    Ages,             \* how old a report can be when it reaches the tracker
    MaxTime,          \* bound: the last instant of the clock
    LastRequest       \* bound: no command is issued after this instant

ASSUME ClockAssumption ==
    Ages \subseteq Nat /\ MaxTime \in Nat /\ LastRequest \in Nat

VARIABLE now   \* clock.now(), in units of the smallest delay; never 0

vars == <<tracker, now>>

Init == tracker = EmptyTracker /\ now = 1

\* Date.now() advances; the model assumes that it is not set back.
Tick ==
    /\ now < MaxTime
    /\ now' = now + 1
    /\ UNCHANGED tracker

\* DeviceControlService passes ttlMs on the observer routes only.
Issue(key, expected, ttl) ==
    /\ tracker.seq < MaxCommands
    /\ now <= LastRequest
    /\ tracker' = MarkDeviceCommandPending(tracker, key, expected, ttl, now)
    /\ UNCHANGED now

Published(deviceId, id) ==
    /\ tracker' = MarkDeviceCommandPublished(tracker, deviceId, id)
    /\ UNCHANGED now

TransportFailed(deviceId, id) ==
    /\ tracker' = MarkDeviceCommandTransportFailed(tracker, deviceId, id, now)
    /\ UNCHANGED now

Failed(deviceId, id, reason) ==
    /\ tracker' = MarkDeviceCommandFailed(tracker, deviceId, id, reason, now)
    /\ UNCHANGED now

\* projectApprovedObservation passes observations of any age without an
\* evidence id; ingestDeviceTelemetry may carry the id the device echoed.
Observe(key, reported, observedAt, evidence) ==
    /\ tracker' = ObserveTelemetry(tracker, key, reported, observedAt, evidence, now)
    /\ UNCHANGED now

\* getCommand: a read that expires the verdict of one device.
ReadCommand(key) ==
    /\ tracker' = RefreshCommand(tracker, key, now)
    /\ UNCHANGED now

\* getExecutionTraces and getLatestExecutionTrace: reads that expire every trace.
ReadTraces ==
    /\ tracker' = RefreshTraces(tracker, now)
    /\ UNCHANGED now

Callback(deviceId, id) ==
    \/ Published(deviceId, id)
    \/ TransportFailed(deviceId, id)
    \/ \E reason \in FailureReasons : Failed(deviceId, id, reason)

Report(key) ==
    \E reported \in Reports, age \in Ages, evidence \in CommandIds \cup {NoEvidence} :
        /\ age < now
        /\ Observe(key, reported, now - age, evidence)

Next ==
    \/ Tick
    \/ \E key \in ScopedDevices, expected \in Values, ttl \in {AckTimeout, RouteTtl} :
          Issue(key, expected, ttl)
    \/ \E deviceId \in DeviceIds, id \in CommandIds : Callback(deviceId, id)
    \/ \E key \in ScopedDevices : Report(key) \/ ReadCommand(key)
    \/ ReadTraces

Spec == Init /\ [][Next]_vars

\* Expiry is lazy, so a command is judged only if somebody looks: the portal
\* reads the traces and scheduled collection reports telemetry, and both apply
\* refreshExecutionTraces.
Fairness == WF_vars(Tick) /\ WF_vars(ReadTraces)
FairSpec == Spec /\ Fairness

-----------------------------------------------------------------------------
(* Properties *)

TypeOK == now \in Nat \ {0} /\ TrackerType(tracker)

\* A device executes one command at a time: only the trace that the latest
\* pointer names can still be running, however commands, evictions and late
\* callbacks interleave.
OneExecutionPerDevice == SingleExecution(tracker)

\* The verdict the portal shows and the evidence of the same command never
\* contradict each other, although they expire by separate reads: a command is
\* shown failed exactly when its trace failed, acknowledged only when its trace
\* was verified, and unacknowledged only after its deadline passed unverified.
VerdictAgreesWithTrace == VerdictsAgree(tracker, now)

\* What the stages of trace t say of its outcome and of its settle window.
OneStory(t) ==
    LET has(stage) == stage \in t.stages
    IN  /\ \A o \in {"superseded", "drifted", "settled", "timed_out"} :
               has(o) <=> t.outcome = o
        /\ has("transport_failed") \/ has("pre_write_failed") => t.outcome = "failed"
        /\ has("verified") <=> t.settlingUntil # 0
        /\ has("verified") => t.outcome \in {"running", "settled", "drifted", "superseded"}
        /\ t.outcome \in {"settled", "drifted"} => has("verified")

\* The stages of a trace tell one story: the terminal stage is the one of its
\* outcome, and a verification never appears beside a failure or a timeout.
TraceTellsOneStory == \A id \in DOMAIN tracker.traces : OneStory(tracker.traces[id])

\* An expired command is not revived: a command is acknowledged, and its settle
\* window opened, only by a report that reaches the tracker by the deadline.
NoVerificationAfterDeadline ==
    [][/\ \A key \in DOMAIN tracker.commands :
             HasCommand(tracker, key, "pending") /\ HasCommand(tracker', key, "acked") =>
                 now <= tracker.commands[key].expiresAt
       /\ \A id \in DOMAIN tracker.traces \cap DOMAIN tracker'.traces :
             tracker'.traces[id].settlingUntil # tracker.traces[id].settlingUntil =>
                 now <= tracker.traces[id].expiresAt
      ]_vars

\* Every execution is judged or evicted; none stays running for ever.
EveryCommandIsJudged ==
    \A id \in CommandIds : IsRunning(tracker, id) ~> ~IsRunning(tracker, id)

-----------------------------------------------------------------------------
(* Statements of the repository that the code does not keep *)

\* "Device moved away from the requested state during settling."
\* (in-memory-device-command-tracker.ts:454): a drift is evidence that the
\* device reported the commanded field with another value.
DriftIsContradiction ==
    \A id \in DOMAIN tracker.traces :
        tracker.traces[id].outcome = "drifted" =>
            tracker.traces[id].observed \in Values \ {tracker.traces[id].expected}
=============================================================================
