--------------------------- MODULE DeviceControl ---------------------------
(***************************************************************************)
(* DeviceControlService.execute for binary switches                        *)
(* (apps/api/.../devices/device-control.service.ts): concurrent requests,  *)
(* the lock of running Shelly commands, the transports, the relays they    *)
(* switch and the command tracker they report to.                          *)
(*                                                                         *)
(* An async function is cut at its awaits: what runs between two awaits is *)
(* one action, and the tracker calls it makes are composed inside it.  A   *)
(* write travels on its own: it may reach the relay late, after its sender *)
(* gave up, or never.                                                      *)
(***************************************************************************)
EXTENDS CommandTrackerLifecycle

CONSTANTS
    Site,         \* configuredPortalSite(): the scope of every controlled device
    Unlocked,     \* devices outside the Shelly lock: not of a Shelly LAN driver
    Direct,       \* transports their control bindings name
    Resolved,     \* transports the route resolver may choose for a Shelly
    Buttons,      \* devices whose relay somebody switches by hand
    Requests,     \* HTTP requests and assistant calls of execute
    Deadline,     \* per route, the longest a transport runs before it is killed
    MaxLead,      \* how far the stamp of an accepted observation is ahead of the API's clock
    MaxLag,       \* bound: how far it is behind
    MaxTime       \* bound: the last instant of the clock

\* local-http       the curl adapter, ShellyHttpControl.setSwitch
\* site-local       ssh to the site's observer, SiteLocalShellyCommandExecutor
\* virtual-lab      docker on the lab observer
\* generic-mqtt     mosquitto_pub of a command, for a device that is no Shelly
\* shelly-mqtt      mosquitto_pub of an RPC, for a Shelly outside the LAN drivers
Observers == {"site-local", "virtual-lab"}
ShellyRoutes == Observers \cup {"local-http"}
MqttRoutes == {"generic-mqtt", "shelly-mqtt"}
Routes == ShellyRoutes \cup MqttRoutes

ASSUME ControlAssumption ==
    /\ Site \in Scopes
    /\ DeviceIds # {} /\ Values # {}
    /\ Unlocked \subseteq DeviceIds
    /\ Direct \subseteq MqttRoutes \cup {"local-http"}
    /\ Resolved \subseteq ShellyRoutes /\ Buttons \subseteq DeviceIds
    /\ Deadline \in [Routes -> Nat]
    /\ MaxLead \in Nat /\ MaxLag \in Nat /\ MaxTime \in Nat

VARIABLES
    now,                    \* the clock
    activeShellyCommands,   \* devices with a running Shelly command
    live,                   \* liveStateByScopedDevice: observedAt, 0 when there is none
    relay,                  \* the physical relay of each device
    wire,                   \* requests whose write is on its way to the relay
    calls                   \* the running and returned requests

vars == <<tracker, now, activeShellyCommands, live, relay, wire, calls>>

Pending == {"resolving", "identifying", "writing", "reading", "remote", "publishing"}
Results == {"none", "refused", "failed", "pending", "success"}

\* A request: where its function waits, what it was asked, the command it
\* recorded, the progress of the observer's script, what the relay answered,
\* and what it returned.  `known` is what the API has learned of its own write.
CallType ==
    [pc : Pending \cup {"idle", "enrolling", "returned"}, device : DeviceIds, on : Values,
     route : Routes \cup {"none"}, command : CommandIds \cup {NoEvidence}, since : Nat,
     script : {"none", "checking", "writing", "finished"}, sent : BOOLEAN, applied : BOOLEAN,
     known : BOOLEAN, readback : Reports, readAt : Nat, result : Results]

Idle == [pc |-> "idle", device |-> CHOOSE d \in DeviceIds : TRUE,
         on |-> CHOOSE v \in Values : TRUE, route |-> "none", command |-> NoEvidence, since |-> 0,
         script |-> "none", sent |-> FALSE, applied |-> FALSE, known |-> FALSE,
         readback |-> Absent, readAt |-> 0, result |-> "none"]

Init ==
    /\ tracker = EmptyTracker
    /\ now = 1
    /\ activeShellyCommands = {}
    /\ live = [d \in DeviceIds |-> 0]
    /\ relay \in [DeviceIds -> Values]
    /\ wire = {}
    /\ calls = [c \in Requests |-> Idle]

-----------------------------------------------------------------------------
(* Helpers *)

Key(d) == <<Site, d>>
Route(c) == calls[c].route
OnShelly(c) == calls[c].device \notin Unlocked
InTransport(c) == calls[c].pc \in Pending \ {"resolving"}

Becomes(c, call) == calls' = [calls EXCEPT ![c] = call]
Waits(c, pc) == Becomes(c, [calls[c] EXCEPT !.pc = pc])

\* The finally block and the answer to the caller, after which nothing asks for
\* the times of the request.
Return(c, result, known) ==
    /\ Becomes(c, [calls[c] EXCEPT !.pc = "returned", !.result = result, !.known = known,
                                   !.since = 0, !.readAt = 0])
    /\ activeShellyCommands' = IF OnShelly(c) THEN activeShellyCommands \ {calls[c].device}
                               ELSE activeShellyCommands

\* findDevice searches getDevices(), which refreshes the verdict of every device.
FindDevice(st) == RefreshCommands(st, {Key(d) : d \in DeviceIds}, now)

Publish(c, st) == MarkDeviceCommandPublished(st, calls[c].device, calls[c].command)

TransportFailure(c) ==
    FindDevice(MarkDeviceCommandTransportFailed(tracker, calls[c].device, calls[c].command, now))

PreWriteFailure(c) ==
    FindDevice(MarkDeviceCommandFailed(tracker, calls[c].device, calls[c].command, "pre_write", now))

\* ingestDeviceTelemetry: an observation older than the live state is dropped
\* before the tracker hears of it.
Fresh(d, observedAt) == observedAt >= live[d]

Ingest(st, d, reported, observedAt) ==
    IF Fresh(d, observedAt)
    THEN ObserveTelemetry(st, Key(d), reported, observedAt, NoEvidence, now)
    ELSE st

\* The stamps that an observation may carry when it is accepted: they come from
\* the clock of an observer or a publisher, or from before the request was made.
Stamps == {t \in 1..(now + MaxLead) : now <= t + MaxLag}

SeenAt(d, observedAt) ==
    live' = IF Fresh(d, observedAt) THEN [live EXCEPT ![d] = observedAt] ELSE live

-----------------------------------------------------------------------------
(* The request up to its transport *)

\* execute: the synchronous checks passed; the enrollment store is awaited.
Execute(c, d, on) ==
    /\ calls[c].pc = "idle"
    /\ tracker' = FindDevice(tracker)
    /\ Becomes(c, [Idle EXCEPT !.pc = "enrolling", !.device = d, !.on = on])
    /\ UNCHANGED <<now, activeShellyCommands, live, relay, wire>>

\* enrollmentProblem: not actively enrolled, so no command is recorded.
EnrollmentRefused(c) ==
    /\ calls[c].pc = "enrolling"
    /\ Becomes(c, [calls[c] EXCEPT !.pc = "returned", !.result = "refused"])
    /\ UNCHANGED <<tracker, now, activeShellyCommands, live, relay, wire>>

\* Mutant of LockIsFree: the lock is taken without looking.
LockIgnored(d) == TRUE

LockIsFree(d) == d \notin activeShellyCommands

ShellyAlreadyRunning(c) ==
    /\ calls[c].pc = "enrolling" /\ OnShelly(c)
    /\ ~LockIsFree(calls[c].device)
    /\ Becomes(c, [calls[c] EXCEPT !.pc = "returned", !.result = "refused"])
    /\ UNCHANGED <<tracker, now, activeShellyCommands, live, relay, wire>>

\* executeBinarySwitch takes the lock and awaits the route resolver.
LockShelly(c) ==
    /\ calls[c].pc = "enrolling" /\ OnShelly(c)
    /\ LockIsFree(calls[c].device)
    /\ activeShellyCommands' = activeShellyCommands \cup {calls[c].device}
    /\ Waits(c, "resolving")
    /\ UNCHANGED <<tracker, now, live, relay, wire>>

\* The resolver, or a check of its answer, rejects the request.
RouteRejected(c) ==
    /\ calls[c].pc = "resolving"
    /\ Return(c, "refused", FALSE)
    /\ UNCHANGED <<tracker, now, live, relay, wire>>

RecordPending(c, ttl) ==
    /\ tracker.seq < MaxCommands
    /\ tracker' = MarkDeviceCommandPending(tracker, Key(calls[c].device), calls[c].on, ttl, now)

Started(c, route, pc, script) ==
    [calls[c] EXCEPT !.route = route, !.pc = pc, !.script = script,
                     !.command = tracker.seq + 1, !.since = now]

\* The command enters the pending state before its transport starts.  A device
\* outside the lock goes to executeShellyRpc straight away.
StartHttp(c) ==
    /\ \/ calls[c].pc = "resolving" /\ "local-http" \in Resolved
       \/ calls[c].pc = "enrolling" /\ ~OnShelly(c) /\ "local-http" \in Direct
    /\ RecordPending(c, AckTimeout)
    /\ Becomes(c, Started(c, "local-http", "identifying", "none"))
    /\ UNCHANGED <<now, activeShellyCommands, live, relay, wire>>

StartObserver(c) ==
    /\ calls[c].pc = "resolving"
    /\ RecordPending(c, RouteTtl)
    /\ \E route \in Resolved \cap Observers : Becomes(c, Started(c, route, "remote", "checking"))
    /\ UNCHANGED <<now, activeShellyCommands, live, relay, wire>>

\* publishMqtt: mosquitto_pub sends the message while it runs.
StartMqtt(c) ==
    /\ calls[c].pc = "enrolling" /\ ~OnShelly(c)
    /\ RecordPending(c, AckTimeout)
    /\ \E route \in Direct \cap MqttRoutes :
          Becomes(c, [Started(c, route, "publishing", "none") EXCEPT !.sent = TRUE])
    /\ wire' = wire \cup {c}
    /\ UNCHANGED <<now, activeShellyCommands, live, relay>>

-----------------------------------------------------------------------------
(* MQTT *)

\* Publication is not success: the result stays pending.
MqttPublished(c) ==
    /\ calls[c].pc = "publishing"
    /\ tracker' = IF Route(c) = "shelly-mqtt" THEN FindDevice(Publish(c, tracker))
                  ELSE Publish(c, tracker)
    /\ Return(c, "pending", TRUE)
    /\ UNCHANGED <<now, live, relay, wire>>

\* mosquitto_pub failed or was killed by its timeout; the message may be out.
MqttFailed(c) ==
    /\ calls[c].pc = "publishing"
    /\ tracker' = TransportFailure(c)
    /\ Return(c, "failed", FALSE)
    /\ UNCHANGED <<now, live, relay, wire>>

-----------------------------------------------------------------------------
(* HTTP: GetDeviceInfo, Switch.Set, Switch.GetStatus *)

Identified(c) ==
    /\ calls[c].pc = "identifying"
    /\ Becomes(c, [calls[c] EXCEPT !.pc = "writing", !.sent = TRUE])
    /\ wire' = wire \cup {c}
    /\ UNCHANGED <<tracker, now, activeShellyCommands, live, relay>>

\* Another device answers, or Switch.Set gets no acknowledgement in time.
HttpFailed(c) ==
    /\ calls[c].pc \in {"identifying", "writing"}
    /\ tracker' = TransportFailure(c)
    /\ Return(c, "failed", FALSE)
    /\ UNCHANGED <<now, live, relay, wire>>

WriteAcknowledged(c) ==
    /\ calls[c].pc = "writing" /\ calls[c].applied
    /\ Becomes(c, [calls[c] EXCEPT !.pc = "reading", !.known = TRUE])
    /\ UNCHANGED <<tracker, now, activeShellyCommands, live, relay, wire>>

\* The relay answers GetStatus; the answer is on its way to the API.
StatusAnswered(c) ==
    /\ calls[c].pc = "reading" /\ calls[c].readback = Absent
    /\ Becomes(c, [calls[c] EXCEPT !.readback = relay[calls[c].device]])
    /\ UNCHANGED <<tracker, now, activeShellyCommands, live, relay, wire>>

\* Mutant of HttpReadback: the status is returned but not ingested.
HttpReadbackUnregistered(c) == Publish(c, tracker)

\* The status read is an observation of the moment it is processed.
HttpReadback(c) == Ingest(Publish(c, tracker), calls[c].device, calls[c].readback, now)

HttpRead(c) ==
    /\ calls[c].pc = "reading" /\ calls[c].readback # Absent
    /\ tracker' = FindDevice(HttpReadback(c))
    /\ SeenAt(calls[c].device, now)
    /\ Return(c, IF calls[c].readback = calls[c].on THEN "success" ELSE "pending", TRUE)
    /\ UNCHANGED <<now, relay, wire>>

\* Mutant of StatusUnread: a lost status read counts as a transport failure.
StatusUnreadFails(c) ==
    /\ calls[c].pc = "reading"
    /\ tracker' = TransportFailure(c)
    /\ Return(c, "failed", TRUE)
    /\ UNCHANGED <<now, live, relay, wire>>

\* A lost verification response is not proof that the write failed.
StatusUnread(c) ==
    /\ calls[c].pc = "reading"
    /\ tracker' = FindDevice(Publish(c, tracker))
    /\ Return(c, "pending", TRUE)
    /\ UNCHANGED <<now, live, relay, wire>>

-----------------------------------------------------------------------------
(* The script that ssh or docker runs on an observer.  It goes on after the *)
(* API has given up: killing ssh does not reach it across a broken network. *)

\* Identity, component or status checks fail before the write.
ScriptRefuses(c) ==
    /\ calls[c].script = "checking"
    /\ Becomes(c, [calls[c] EXCEPT !.script = "finished"])
    /\ UNCHANGED <<tracker, now, activeShellyCommands, live, relay, wire>>

\* The write_started line is printed, then Switch.Set is sent.
ScriptWrites(c) ==
    /\ calls[c].script = "checking"
    /\ Becomes(c, [calls[c] EXCEPT !.script = "writing", !.sent = TRUE])
    /\ wire' = wire \cup {c}
    /\ UNCHANGED <<tracker, now, activeShellyCommands, live, relay>>

\* Acknowledged, read back and identified again; the observer's clock stamps it.
\* The readback of a script whose caller has gone is heard by nobody: it ends as
\* one that gives up.
ScriptReads(c) ==
    /\ calls[c].script = "writing" /\ calls[c].applied /\ calls[c].pc = "remote"
    /\ \E observedAt \in Stamps :
          Becomes(c, [calls[c] EXCEPT !.script = "finished", !.readAt = observedAt,
                                      !.readback = relay[calls[c].device]])
    /\ UNCHANGED <<tracker, now, activeShellyCommands, live, relay, wire>>

\* An RPC after the write fails, or its stamp is one the API does not accept: a
\* result without readback.
ScriptGivesUp(c) ==
    /\ calls[c].script = "writing"
    /\ Becomes(c, [calls[c] EXCEPT !.script = "finished"])
    /\ UNCHANGED <<tracker, now, activeShellyCommands, live, relay, wire>>

-----------------------------------------------------------------------------
(* The answer of an observer *)

Delivers(c, route) ==
    calls[c].pc = "remote" /\ Route(c) = route /\ calls[c].script = "finished"

\* A result that says the write was not attempted fails before the write.
SiteLocalRefused(c) ==
    /\ Delivers(c, "site-local") /\ ~calls[c].sent
    /\ tracker' = PreWriteFailure(c)
    /\ Return(c, "failed", FALSE)
    /\ UNCHANGED <<now, live, relay, wire>>

SiteLocalUnread(c) ==
    /\ Delivers(c, "site-local") /\ calls[c].sent /\ calls[c].readback = Absent
    /\ tracker' = FindDevice(Publish(c, tracker))
    /\ Return(c, "pending", TRUE)
    /\ UNCHANGED <<now, live, relay, wire>>

ObserverReadback(c) ==
    Ingest(Publish(c, tracker), calls[c].device, calls[c].readback, calls[c].readAt)

\* Mutant of MismatchMarked: a contradicting readback leaves the command open.
MismatchUnmarked(c, st) == st

MismatchMarked(c, st) ==
    MarkDeviceCommandFailed(st, calls[c].device, calls[c].command, "readback_mismatch", now)

\* Confirmed by a matching readback after a valid acknowledgement.  A matching
\* one without it is marked as a mismatch, as a contradicting one is.
SiteLocalRead(c) ==
    /\ Delivers(c, "site-local") /\ calls[c].readback # Absent
    /\ \/ /\ calls[c].readback = calls[c].on
          /\ tracker' = FindDevice(ObserverReadback(c))
          /\ Return(c, "success", TRUE)
       \/ /\ tracker' = FindDevice(MismatchMarked(c, ObserverReadback(c)))
          /\ Return(c, "failed", TRUE)
    /\ SeenAt(calls[c].device, calls[c].readAt)
    /\ UNCHANGED <<now, relay, wire>>

\* Mutant of SiteLocalUncertain: the command is failed but the caller is told to wait.
SiteLocalUncertainUntold(c) ==
    /\ tracker' = PreWriteFailure(c)
    /\ Return(c, "pending", TRUE)

SiteLocalUncertain(c) ==
    /\ tracker' = FindDevice(tracker)
    /\ Return(c, "pending", TRUE)

\* Mutant of SiteLocalBroken: without the deadline, a hung ssh ends only after
\* its write_started line.
SiteLocalHangs(c) ==
    /\ calls[c].pc = "remote" /\ Route(c) = "site-local"
    /\ calls[c].sent /\ SiteLocalUncertain(c)
    /\ UNCHANGED <<now, live, relay, wire>>

\* ssh was killed at its deadline or limit, or its output was cut short.  The
\* write_started line may have arrived; without it the API takes the error as
\* one before the write.
SiteLocalBroken(c) ==
    /\ calls[c].pc = "remote" /\ Route(c) = "site-local"
    /\ \/ /\ tracker' = PreWriteFailure(c)
          /\ Return(c, "failed", FALSE)
       \/ calls[c].sent /\ SiteLocalUncertain(c)
    /\ UNCHANGED <<now, live, relay, wire>>

\* A contradicting readback is reported as failed; the command is not marked.
VirtualLabRead(c) ==
    /\ Delivers(c, "virtual-lab") /\ calls[c].readback # Absent
    /\ tracker' = FindDevice(ObserverReadback(c))
    /\ SeenAt(calls[c].device, calls[c].readAt)
    /\ Return(c, IF calls[c].readback = calls[c].on THEN "success" ELSE "failed", TRUE)
    /\ UNCHANGED <<now, relay, wire>>

VirtualLabUnread(c) ==
    /\ Delivers(c, "virtual-lab") /\ calls[c].sent /\ calls[c].readback = Absent
    /\ tracker' = FindDevice(Publish(c, tracker))
    /\ Return(c, "pending", TRUE)
    /\ UNCHANGED <<now, live, relay, wire>>

\* Every error of the adapter, a refusal before the write included.
VirtualLabBroken(c) ==
    /\ calls[c].pc = "remote" /\ Route(c) = "virtual-lab"
    /\ tracker' = FindDevice(tracker)
    /\ Return(c, "pending", FALSE)
    /\ UNCHANGED <<now, live, relay, wire>>

-----------------------------------------------------------------------------
(* The devices and everybody else *)

WriteArrives(c) ==
    /\ c \in wire
    /\ wire' = wire \ {c}
    /\ relay' = [relay EXCEPT ![calls[c].device] = calls[c].on]
    /\ Becomes(c, [calls[c] EXCEPT !.applied = TRUE])
    /\ UNCHANGED <<tracker, now, activeShellyCommands, live>>

WriteIsLost(c) ==
    /\ c \in wire
    /\ wire' = wire \ {c}
    /\ UNCHANGED <<tracker, now, activeShellyCommands, live, relay, calls>>

\* Somebody presses the button of the relay.
Pressed(d) ==
    /\ d \in Buttons
    /\ \E v \in Values \ {relay[d]} : relay' = [relay EXCEPT ![d] = v]
    /\ UNCHANGED <<tracker, now, activeShellyCommands, live, wire, calls>>

\* A report of the relay, through ingestDeviceTelemetry.  The fields that approved
\* observations own are dropped from it; the commanded one is never among them,
\* since only measurements can be approved.
RelayReport(d) ==
    /\ \E observedAt \in Stamps :
          /\ tracker' = Ingest(tracker, d, relay[d], observedAt)
          /\ SeenAt(d, observedAt)
    /\ UNCHANGED <<now, activeShellyCommands, relay, wire, calls>>

\* An approved measurement, through projectApprovedObservation: it is observed
\* whatever its stamp, and the live state keeps the later of the two stamps.  A
\* report of other fields through ingestDeviceTelemetry does as much or nothing.
PowerReport(d) ==
    /\ \E observedAt \in Stamps :
          /\ tracker' = ObserveTelemetry(tracker, Key(d), Absent, observedAt, NoEvidence, now)
          /\ SeenAt(d, observedAt)
    /\ UNCHANGED <<now, activeShellyCommands, relay, wire, calls>>

\* The portal reads the device list.
ReadDevices ==
    /\ tracker' = FindDevice(tracker)
    /\ UNCHANGED <<now, activeShellyCommands, live, relay, wire, calls>>

\* Time passes, but not beyond the deadline of a running transport: its timer
\* kills it.
Tick ==
    /\ now < MaxTime
    /\ \A c \in Requests : InTransport(c) => now < calls[c].since + Deadline[Route(c)]
    /\ now' = now + 1
    /\ UNCHANGED <<tracker, activeShellyCommands, live, relay, wire, calls>>

-----------------------------------------------------------------------------

Enter(c) == EnrollmentRefused(c) \/ ShellyAlreadyRunning(c) \/ LockShelly(c) \/ StartMqtt(c)
Resolve(c) == RouteRejected(c) \/ StartHttp(c) \/ StartObserver(c)
Http(c) == \/ Identified(c) \/ HttpFailed(c) \/ WriteAcknowledged(c)
           \/ StatusAnswered(c) \/ HttpRead(c) \/ StatusUnread(c)
Mqtt(c) == MqttPublished(c) \/ MqttFailed(c)
SiteLocal(c) == SiteLocalRefused(c) \/ SiteLocalUnread(c) \/ SiteLocalRead(c) \/ SiteLocalBroken(c)
VirtualLab(c) == VirtualLabRead(c) \/ VirtualLabUnread(c) \/ VirtualLabBroken(c)
Script(c) == ScriptRefuses(c) \/ ScriptWrites(c) \/ ScriptReads(c) \/ ScriptGivesUp(c)

Proceed(c) == Enter(c) \/ Resolve(c) \/ Http(c) \/ Mqtt(c) \/ SiteLocal(c) \/ VirtualLab(c)

Next ==
    \/ \E c \in Requests, d \in DeviceIds, on \in Values : Execute(c, d, on)
    \/ \E c \in Requests : Proceed(c) \/ Script(c) \/ WriteArrives(c) \/ WriteIsLost(c)
    \/ \E d \in DeviceIds : Pressed(d) \/ RelayReport(d) \/ PowerReport(d)
    \/ ReadDevices
    \/ Tick

Spec == Init /\ [][Next]_vars

\* Every await ends: curl, ssh, docker and mosquitto_pub run under a timeout;
\* the enrollment and inventory stores are assumed to answer.
Fairness == \A c \in Requests : WF_vars(Proceed(c))
FairSpec == Spec /\ Fairness

-----------------------------------------------------------------------------
(* Properties *)

TypeOK ==
    /\ TrackerType(tracker)
    /\ now \in Nat \ {0}
    /\ activeShellyCommands \subseteq DeviceIds
    /\ live \in [DeviceIds -> Nat]
    /\ relay \in [DeviceIds -> Values]
    /\ wire \subseteq {c \in Requests : calls[c].sent}
    /\ calls \in [Requests -> CallType]

RunsShelly(c) == calls[c].pc \in Pending /\ OnShelly(c)

\* The lock is exactly the set of devices with a running Shelly request, and no
\* device has two: no path leaks the lock or gives another request's lock away.
LockIsHeldByOneRequest ==
    /\ activeShellyCommands = {calls[c].device : c \in {r \in Requests : RunsShelly(r)}}
    /\ \A b, c \in Requests :
          RunsShelly(b) /\ RunsShelly(c) /\ calls[b].device = calls[c].device => b = c

\* An execution is failed only by the request that issued it, in the step in
\* which that request tells its caller so.
FailureIsTold ==
    \A c \in Requests :
        /\ HasTrace(tracker, calls[c].command)
        /\ tracker.traces[calls[c].command].outcome = "failed"
        => calls[c].pc = "returned" /\ calls[c].result = "failed"

\* A request that knows its write was sent and has read nothing back is
\* uncertain: it returns pending and its execution is not failed.
UncertainWriteStaysPending ==
    \A c \in Requests :
        calls[c].pc = "returned" /\ calls[c].known /\ calls[c].readback = Absent =>
            /\ calls[c].result = "pending"
            /\ HasTrace(tracker, calls[c].command) =>
                   tracker.traces[calls[c].command].outcome # "failed"

Returns(c, result) ==
    calls[c].pc # "returned" /\ calls'[c].pc = "returned" /\ calls'[c].result = result
OwnCommandPending(c) ==
    /\ HasCommand(tracker', Key(calls[c].device), "pending")
    /\ tracker'.commands[Key(calls[c].device)].id = calls[c].command

\* A request that returns failed on a real route leaves its command judged: the
\* portal does not show it waiting for a device that was given up.  The virtual-lab
\* route tells its caller of a contradicting readback without marking the command,
\* and a callback finds no command whose trace was evicted.
FailedRequestClosesCommand ==
    [][\A c \in Requests :
          /\ Returns(c, "failed") /\ Route(c) # "virtual-lab"
          /\ HasTrace(tracker, calls[c].command)
          => ~OwnCommandPending(c)]_vars

\* The stamp that the readback of a request is ingested with: the API's clock for
\* the status read over HTTP, the observer's for the others.
ReadbackTime(c) == IF calls[c].pc = "reading" THEN now ELSE calls[c].readAt

\* A request that returns success has its readback registered, on every route: its
\* command does not go on waiting for the state that was just confirmed, unless the
\* readback is stamped before the request or before the live state.
SuccessIsRegistered ==
    [][\A c \in Requests :
          /\ Returns(c, "success")
          /\ ReadbackTime(c) >= calls[c].since /\ Fresh(calls[c].device, ReadbackTime(c))
          => ~OwnCommandPending(c)]_vars

\* Every request returns, whatever its transport does.
EveryRequestReturns == \A c \in Requests : calls[c].pc # "idle" ~> calls[c].pc = "returned"

-----------------------------------------------------------------------------
(* Statements of the repository that the code does not keep *)

\* "A failure to obtain readback after an attempted write remains
\* uncertain/pending" (docs/commands-and-authority.md:42): a request that is
\* failed as pre-write has not sent, and does not send, its write.
PreWriteFailureSendsNothing ==
    \A c \in Requests :
        /\ HasTrace(tracker, calls[c].command)
        /\ "pre_write_failed" \in tracker.traces[calls[c].command].stages
        => ~calls[c].sent

\* "A well-formed but mismatching readback is real state and is ingested"
\* (device-control.service.ts:304), a matching one no less: on the site-local
\* route a fresh readback reaches the live state and the tracker.
ReadbackIsIngested ==
    [][\A c \in Requests :
          /\ calls[c].pc = "remote" /\ Returns(c, "success")
          => live'[calls[c].device] = calls[c].readAt]_vars
=============================================================================
