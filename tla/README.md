# Energrid: TLA+ models, model checks and proofs

Energrid is a local-first energy platform: an API (`apps/api`, NestJS) that owns devices, commands,
telemetry, authentication and voice; a core (`apps/core`) with estimators, weather and river
collectors; a Vue portal and an Android client; and libraries of pure domain logic. This directory
models the parts whose correctness depends on order, time and failure, checks the models with TLC
and proves theorems about them with TLAPS.

Paths are relative to the repository root. `devices/`, `telemetry/`, `auth/` and `voice/` stand for the
directories of that name in `apps/api/src/app/modules/`.

To repeat a run: `tlc -config MCControlShelly.cfg MCDeviceControl.tla`. To repeat a proof:
`tlapm TelemetryIngestProofs.tla`. `PROJECT.json` lists the runs, maps every definition to the lines
it models, and names for every property a plausible bug (a *mutant*) that breaks it.

## 1. Inventory

| Component | State | Operations | Hard behaviour | What makes it correct | Here |
|---|---|---|---|---|---|
| Command tracker, `devices/commands/` | verdict per scoped device, trace per command, latest pointer, counter; in memory | issue, published, transport failed, failed, telemetry, reads that expire | no timers: verdicts and traces expire when somebody reads them; late callbacks; bounded evidence | one running execution per device; verdict and evidence agree; judged once; no verification after the deadline; always judged in the end | modelled |
| Device control, `devices/device-control.service.ts` and the Shelly, site-local and virtual-lab adapters | set of running Shelly commands | execute over HTTP, ssh observer, docker observer, MQTT; group fan-out | awaits between check and use; a write that outlives its caller; a lost answer | lock exclusive and never leaked; unknown outcome stays pending; failures told | partly |
| Device registry, `devices/device-registry.service.ts` | live state, devices, installations | ingest, project approved observations, reads | stale payloads against fresh state | a read-back state reaches the tracker | partly |
| Electrical intake, `devices/mqtt/durable-mqtt-subscriber.ts`, `telemetry/telemetry-spool.ts`, `telemetry/telemetry-ingest.service.ts` | broker session, LevelDB spool with accounting and quarantine | connect, deliver, enqueue, PUBACK, peek, finish, replay, restart | crash anywhere, fsync and COMMIT with unknown outcome, redelivery, capacity | acknowledged is never lost; exact accounting; every reading settles | modelled |
| Telemetry store and summaries, `telemetry/telemetry.store.ts`, `libs/domain-telemetry` | `telemetry.readings`, `dirty_hours`, `hourly` | append, refreshOneHour, read, hourly | READ COMMITTED transactions of several clients and workers | a summary without pending work reflects all of history | partly |
| Observation store, `devices/device-observation-state.store.ts`, `devices/device-intelligence-observation.ingress.ts`, `libs/domain-devices` | LevelDB state and evidence index per device | decide, commit, recover, hand over to history | two transports, duplicates, bounded retention, a failed batch | one decision per observation while its evidence is retained; an acknowledged one is not lost between decision and history | partly |
| Generic measurement history, `telemetry/generic-measurements/` | second LevelDB outbox, `telemetry.measurements` | enqueue, replay, append if due | an entry that cannot be stored stops the queue | every row was accepted, every sample settles | partly |
| Device MQTT ingestion, `devices/device-mqtt-ingest.service.ts`, `devices/mqtt/` | buffers of topics | route a message to live state and to the intakes | redelivery, one message with several batches | acknowledged only when kept | partly |
| Enrollment and physical inventory, `devices/enrollment/` | versioned rows in PostgreSQL | propose, approve, revoke, replace | optimistic updates of two operators | one approved binding per channel | planned |
| Authentication, `auth/` | users, sessions, refresh hashes, login counter | login, refresh, logout, logout-all, recovery | transactions that wait for each other's rows, recovery during a login | a token is used once; a revoked session has no token; no deadlock; the counter is exact | partly |
| Portal sign-in, `apps/portal/src/auth/auth-client.ts` | refresh cookie, refresh lock of the tabs | refresh, log in, log out | tabs that share a cookie, a response that never arrives | tabs never replay each other's cookie | partly |
| Automation, `libs/automation-core`, `libs/domain-automation` | none | decisions over readings | boundaries of rules | agreement with a reference definition | no |
| Voice, `voice/`, `apps/portal/src/features/assistant/`, `packages/stt-stream-openai` | a socket and a session per turn, the speech provider's input, one approval | connect, record, end of turn, transcript, reply, confirm, cancel, expire | messages that overtake each other, a provider that fails at any time, awaited sends, a click against a timer, sockets that close | an approval decided once; the whole audio transcribed; nothing after the end of the turn; every utterance settles | partly |
| LAN discovery, health, diagnostics, investigation | scan caches | scan, score, report | I/O | - | no |
| Energy, expenses, panel, portal API, observability | rows of single transactions, projections | queries, CRUD | none that orders anything | - | no |
| LLM and assistant | prompts, tool calls | ask | external models | - | no |
| Core service, `apps/core` | estimates, observations, migrations | collect, estimate | numeric code over external data | - | no |
| Portal, Android, audio-ingest, tools, scripts, deploy | presentation, capture, deployment | - | - | - | no |

**How the modelled components interact.** A request of `execute` records a command in the tracker,
calls a transport, and reports what it learned to the tracker and, for a readback, through
`ingestDeviceTelemetry`, which updates the live state first and then tells the tracker. Telemetry of
other origin takes the same way. The portal reads devices, and these reads expire verdicts.
Independently, approved electrical readings arrive on a persistent MQTT session: the subscriber waits
for the spool before it lets the PUBACK go, a replay loop moves the spool into PostgreSQL one entry
at a time, and every inserted reading marks hours that a worker summarizes later. Approved
observations of devices take a second way: the ingress decides each in the observation store, hands
what it accepted to the history outbox, waits for a replay cycle, and captures the electrical part in
the spool, before the PUBACK goes; an HTTP poll hands its samples to the same ingress. The portal's
tabs hold one refresh cookie and take turns to present it to the session transactions of the API.
For a spoken turn the portal opens a socket to the voice gateway, streams audio, and shows the
approval that the session asks for before it switches a device.

## 2. Modules

| Module | What it is |
|---|---|
| `CommandTrackerState` | the tracker's maps as a record and each of its methods as an operator from state to state |
| `CommandTrackerLifecycle` | a tracker state read as a state of `CommandLifecycle`, for both modules that have the tracker |
| `CommandTracker` | the tracker under any order of calls, with a clock |
| `CommandLifecycle` | abstract specification: the life of each command, the active one and the verdict shown |
| `DeviceControl` | composes concurrent requests, transports, relays, live state and the tracker's operators |
| `TelemetryIngest` | broker session, connection, subscriber, spool, replay, PostgreSQL history, process |
| `DurableIntake` | abstract specification: keep, acknowledge, record |
| `TelemetryRollup` | `append` and `refreshOneHour` as interleaved transactions; the power summary |
| `ObservationIntake` | both transports, ingress, observation store, history outbox and its replay, PUBACK, process |
| `AccountSessions` | abstract specification: log in, refresh, end one session, end every session |
| `SessionStore` | the rows of one account and the transactions on them, with row locks |
| `PortalSession` | composes the tabs of a browser and the session transactions |
| `VoiceTurn` | portal, wire, gateway, voice session and speech provider of spoken turns, with their approvals |
| `CommandTrackerStateProofs` | lemmas about the tracker's operators, for every module that composes them |
| `CommandTrackerProofs`, `DeviceControlProofs`, `TelemetryIngestProofs`, `TelemetryRollupProofs`, `PortalSessionProofs`, `ObservationIntakeProofs`, `VoiceTurnProofs` | the theorems |
| `MC*` | instances for TLC |

### Command tracker
The class is synchronous, so a call is one step. `tracker` is a record of its three maps and its
counter; a JavaScript `Map` is a function whose domain is the set of keys present. The expiry of
`refreshDeviceCommand` and `refreshExecutionTraces` is part of every operation that performs it in
the code and a step of its own only where a read performs it. Abstracted: one commanded field with
values that are only compared; a report carries it or not (`Absent`); the stages of a trace are a set
of those that carry a judgement; diagnosis and wording follow from the outcome. Eviction orders
traces as the stable sort over the insertion order does, commands of one millisecond included.

### Device control
An async function is cut at its awaits: what runs between two awaits is one action that contains
every tracker call made there, the trailing device lookup with its expiry included. A write is an
object of its own (`wire`): it may arrive late, after its sender gave up, or never. The script that
ssh or docker runs on an observer has a state of its own and survives its caller. A child process
ends with a result or is killed by its timeout, which `Tick` does not pass. `known` records what the
API has learned of its own write. Modelled: the lock, enrollment and route refusals, the five
routes, readback, mismatch, uncertain outcome. A device whose driver is not a Shelly LAN driver is
`Unlocked`: its binding names the transport (`Direct`) and no lock is taken, Shelly RPC over HTTP or
MQTT included.

The stamps of observations come from the clocks of publishers and observers: `Stamps` lets each be
up to `MaxLead` ahead of the API's clock and `MaxLag` behind it, for reports and for the readbacks of
an observer; only the status read over HTTP is stamped by the API. The code accepts readbacks up to
30 s (`site-local-shelly-command-readback.ts:32`) or 60 s (`device-control.service.ts:375`) ahead and
15 minutes old. `ingestDeviceTelemetry` drops the fields that approved observations own
(`device-registry.service.ts:2062`); only measurements can be approved, so the commanded field is
never dropped, and a report reduced to nothing else is a `PowerReport` at most. A matching readback
without a valid acknowledgement is marked as a mismatch, the second disjunct of `SiteLocalRead`.
Not yet: group fan-out, dimming and scenes, simulated devices, a revocation between two awaits.

### Electrical intake
`TelemetrySpool.serialize` runs one operation at a time, so an operation and the outcome of its disk
write are one action; the caller continues in another. Every batch write may fail with unknown effect
(`CommitFails`), after which the spool is poisoned until a restart. A COMMIT may be lost and applied
later (`uncertain`, `Settle`). Abstractions: a publication has one batch; readings are
device-timestamped; a lost PUBACK is a connection lost before it; a shutdown, which waits for
admissions, is a crash between them; a connection number is used again when no call holds it. An
acknowledgement names its message: packet ids are not modelled, so that a PUBACK written to the
wrong connection, which could release another message there, is not among the things checked.

### Summaries
One measurement stream; a reading is its observation time in minutes and the summary is reduced to
what `summarizeElectricalHour` computes from: the samples inside the hour and the intervals
integrated over it. Writers and workers are transactions with row locks, one statement a step,
uncommitted rows invisible. Left out: `marked_at` (pending hours are taken in any order), counters,
and the provenance lists.

### Observations
One device, of a `kind` that never changes: a Shelly meter, whose HTTP and MQTT evidence IDs are
hashes of different material and whose readings are also electrical history; or an ESP sensor of the
lab route, which gives one evidence ID to the same sample over both transports
(`energridFirmwareSampleEvidenceId`). `PolledOf` says for each kind which samples a poll may read, so
that a publication may be decided over HTTP before, while or after it comes over MQTT. A field
remembers the transport it came by, and `OwnFields` is the filter by source of
`device-intelligence-observation-ingress.ts:192`. A sample stands for its evidence ID, with one
payload: a conflicting evidence ID cannot occur. Each of the two stores runs one operation at a time, so
an operation and the outcome of its batch are one action, and a failed batch has an unknown outcome
(`DecideFails`, `EnqueueFails`, `CompleteFails`) after which the store refuses until a restart. The
awaits of `persistAccepted` are the stages of a call (`decided`, `replaying`, `capturing`). A call
outlives its connection: `current` says whether its PUBACK can still go out. Retention drops the
oldest decision together with its evidence (`forgotten` is the history of that). Times of reception
are coarse, so that two receptions may share a millisecond; the clock does not step back. Whether the
policy stores a row or skips it is left open for every row but the first of its metric. Abstracted or
left out: enrollment and approval (the device stays approved), the sample cursor of a stream, the
projection into live state, devices beside the one. Two abandoned calls of one sample in the same
stage count as one.

### Sessions
A transaction is cut where one of its statements may wait for a row lock, and its writes appear at its
commit. `Fail` rolls it back at any cut; `CommitUnheard` is a COMMIT that was applied while its response
was lost, which the request answers as a failure. Statements over several rows lock them in any order
and see what was committed when they began; `LockEachToken` skips a row that stopped being current while
the statement waited. `SessionStore` also reads the rows as a state of `AccountSessions` (`Account`): a
session has there the current token that a refresh could exchange, and only a commit changes it. Row
locks of `login` are on rows nobody else sees. Time is not modelled: any rotation may find its session
or token expired (`RotateRefused`). Left out: rate limits, `is_active`, audit rows, password hashes. The
lock of the tabs is exclusive except in `OverlappingRefresh`, which stands for both gaps of the lease in
`localStorage`: its end while its owner still refreshes, and two tabs that read it as free together.

### Voice
Each side runs on one event loop, so what runs between two awaits is an action. The gateway awaits
the authentication of every message before it handles it, therefore `up[s]` is a set from which any
message is taken next; events reach the portal in order (`down`). A link is `ending` when the server
has closed it and the portal has not heard of it. `turn` is what `ActiveVoiceSession` says of a turn,
`stt` what reached the speech provider and whether it may still answer. One loop sends the stored
chunks one after the other (`SendChunk`, `ChunkSent`); the buffered mode differs where `streaming` is
tested. An approval id is random and a turn asks at most once, so the socket names the approval.
`sent`, `confirmed`, `decided` and `over` are history. The expiry is a time of the server that the
portal compares with its own clock, which excludes no click. Left out: partial transcripts and the
rules of `handleSttFinalCandidate` for an answer before the end of the turn and of `handleSttError`
for an empty commit, which no installed provider gives (turn detection is off, and the speech gate
drops silence); metrics, traces, the text of replies, the count of connections (any socket may be
refused).

## 3. Runs

All runs explore their state space completely.

| Run | Question and bounds | Result |
|---|---|---|
| `tracker_two_sites` | one logical id in two sites, room for one trace, two commands, seven instants, so that a command can settle, drift or time out and a second one follow or evict it: do all orders of calls implement `CommandLifecycle` (a judged trace is final), is there one execution per device, do verdict and evidence agree, is nothing verified late, is every execution judged? | holds |
| `control_shelly` | two requests for one Shelly over HTTP or ssh, with scripts that outlive their callers and stamps up to one unit ahead of the clock: lock, answers, failures, uncertainty, and the lifecycle again | holds |
| `control_returns` | one request over any of the five routes, for a Shelly whose button somebody presses or a device outside the lock: does it always return? | holds |
| `telemetry_ingest` | two readings in one publication, one that conflicts with the first of them, one ignored publication, an obsolete backlog entry, capacity three, two faults of any kind | holds |
| `telemetry_rollup` | five readings around an hour boundary (five minutes before and after, the boundary itself, one on either side), two writers, two workers, two rollbacks | holds |
| `session_rotation` | three requests, two sessions, three tokens, every session ended at most once: is a token rotated once, is a revoked session without a token, is an old login shut out, is there never a deadlock, do tabs replay a cookie only after an answer was lost, is every commit one step of `AccountSessions`? | holds |
| `observation_history` | two publications and a polled sample, the meter's own or the sensor's second publication, room for two decisions and two queued samples, three times of reception, one fault of any kind: is history what was accepted, is an acknowledged measurement that came over MQTT kept, does every sample settle? | holds |
| `voice_turn` | one socket, two chunks, two utterances, two clicks, either speech mode, every failure of the provider, every close: is an approval decided once, is the transcribed audio whole, does nothing follow the end of the turn, does every utterance settle? | holds |
| `drift_without_contradiction` | is a drift always evidence of another value? | violated |
| `control_pre_write` | does a command failed as pre-write never reach its relay? | violated |
| `control_readback_dropped` | is a readback reported as confirmed always ingested? | violated |
| `observation_spool` | is an accepted reading in the electrical spool when its publication is acknowledged? | violated |

**Why the bounds are enough to be interesting.** Two commands are the least that supersede, overtake or
evict; one trace slot (`tracker_two_sites`) forces eviction, two (`control_shelly`) forbid it. A stamp
one unit ahead (`MaxLead`) is enough to be newer than a readback; `control_shelly` has no stamps behind
the clock (`MaxLag` 0), `control_readback_dropped` has both, and `control_returns` neither, since
liveness of a request does not depend on them. Times are in units of the smallest delay and keep the
order of the source: acknowledgement deadline below the observer TTL, three HTTP calls longer than the
deadline. Capacity three is full with a batch and one quarantined reading. Two faults allow a failed
fsync followed by a crash, or a lost COMMIT followed by a lost connection. The readings of the rollup
are the boundary cases of the five-minute rule. Three requests allow a cycle of waiting, or two
rotations of one token while every session is ended; three tokens allow a login and two rotations. Two
retained decisions and three samples let retention forget a sample that is delivered again, and one
fault is what separates a decision from its history. Two chunks are the least that can be sent twice or
out of order, two utterances on one socket the least of which the second must be ignored, two clicks the
least that meet at one approval; the sockets of the API are independent of each other, and the proofs
take any number. Mutants show that each bound lets the bug it is meant for appear. `MaxCommands`,
`MaxTime`, `LastRequest`, `MaxFaults`, `MaxAborts`, `MaxPublished`, `MaxLag`, `MaxAudio`, `MaxEnds`,
`MaxClicks`, `MaxSessions`, `MaxTokens` and `MaxVersion` bound behaviours only. Symmetry is used for
values and requests in runs without liveness. `CHECK_DEADLOCK FALSE` in the runs of the intake, the
summaries, the sessions, the observations and the voice turn: when all messages are settled, all
readings summarized, all turns over, or the bounds are used up, and no fault is left, these systems
stop.

### Fairness
- *Tracker:* the clock advances and somebody reads the traces. The portal and the scheduled
  collection do; without a reader the code judges nothing, which is the point of the property.
- *Control:* a request that can go on does. curl, ssh, docker and mosquitto_pub run under a timeout;
  the enrollment and inventory stores are assumed to answer. Nothing is assumed of relays, of
  writes on their way, or of an observer's script.
- *Intake:* the reconnect and replay timers fire, promises settle, the server settles its
  transactions, an operator restarts a process that ended or asked for a restart. Faults are finite.
- *Observations:* as for the intake; every call goes on, the replay timer fires, and a process that
  waits for a restart gets one. Nothing is assumed of the poll.
- *Voice:* the event loops run what is ready, a provider answers the input that was committed to it
  (the buffered request has a timeout, a streamed commit has none: a provider that keeps silent keeps
  the portal waiting), replies and plans return. Nothing is assumed of the user, of timers or of
  failures.
- *Summaries:* a transaction that can proceed does, and the interval timer calls `runCycle`.

## 4. Findings

- **Drift without contradiction.** `observePossibleDrift` compares whatever a report carries, so a
  report without the commanded field, such as the power reading that follows a switch, completes a
  verified execution as drifted with the text "Device moved away from the requested state"
  (`in-memory-device-command-tracker.ts:448`). Run `drift_without_contradiction`.
- **A pre-write failure that writes.** When ssh is killed before the `write_started` line arrives, the
  command is failed as pre-write while the script on the observer goes on to switch the relay
  (`site-local-shelly-control.adapter.ts:68`); `docs/commands-and-authority.md:42` promises that such
  an outcome stays uncertain. Run `control_pre_write`.
- **A confirmed readback that is dropped.** `ingestDeviceTelemetry` returns before the tracker hears of
  a payload older than the live state (`device-registry.service.ts:2087`), so a power reading stamped
  after the readback, or by a publisher whose clock is ahead, leaves a command pending that its caller
  was told succeeded, over ssh and over HTTP. Run `control_readback_dropped` (the site-local route).
- **Accepted readings acknowledged without the spool.** The electrical part of an observation is
  captured only when this very delivery was accepted (`shelly-mqtt-observation.handler.ts:70`). When
  the capture or the history outbox fails after the decision, the redelivery is a duplicate, is not
  captured, and is acknowledged; `docs/electrical-telemetry.md:93` promises that a complete accepted
  batch is buffered before acknowledgment. Run `observation_spool`.

Seven observations are in the models without a claim against the code: the virtual lab answers failed on a
contradicting readback and leaves its command waiting for the deadline (`VirtualLabRead`; the
site-local route marks it); a sample that an ESP sensor's poll had decided when the poll failed
(outbox, crash) is a duplicate over MQTT, hands over nothing because its fields came by the other
transport, and is acknowledged, so that its measurements are in no history (the exception in
`LatestAcknowledgedIsKept`); quarantined readings count
against the capacity and are never purged, so that a conflict delivered again and again may fill the
spool (`QuarantineBlocks`, the exception in `EveryReadingSettles`); `turn_end` makes the portal forget its
socket before the close event arrives (`useVoiceTransport.ts:219`), so that the close listener, which
would clear the approval, returns at once: an approval that was not answered before the reply was
spoken stays shown, can no longer be answered although the server waits for it, and keeps the talk
button disabled until the user signs out or changes the endpoint or a wake word opens the next turn
(`Receive`; the tests' fake socket closes synchronously); several commands of one
millisecond may evict the newest trace; a reading exactly 65 minutes after an hour is in the
worker's window but does not mark the hour, which only the provenance lists can show; a sample that
was forgotten by retention and comes again may contradict its own row in history, and then stops the
history outbox for good (`Blocked`, the exception in `EverySampleSettles`; that nothing else stops it
is `OnlyForgottenSamplesConflict`).

## 5. What is proved

For every value of the constants that meets the assumptions (`TrackerAssumption`, `ClockAssumption`,
`ControlAssumption`, `IngestAssumption`, `RollupAssumption`, `SessionAssumption`, `ObservationAssumption`,
`SocketAssumption`, `BoundAssumption`: type and disjointness facts, and that there is a device and a
value to command; TLC evaluates them in the runs):

| Module | Theorem | Statement |
|---|---|---|
| `CommandTrackerProofs` | `TypeCorrect`, `ExecutionIsUnique`, `VerdictMatchesEvidence` | `Spec => []TypeOK`, `[]OneExecutionPerDevice`, `[]VerdictAgreesWithTrace` |
| | `StagesTellOneStory`, `ExpiredIsNotRevived` | `Spec => []TraceTellsOneStory`, `NoVerificationAfterDeadline` |
| | `TrackerImplementsLifecycle` | `Spec => ImplementsLifecycle`, the refinement of `CommandLifecycle` |
| `DeviceControlProofs` | `LockIsExclusive` | `Spec => []LockIsHeldByOneRequest` |
| | `TypeCorrect`, `FailuresAreTold`, `UncertainStaysPending` | `Spec => []TypeOK`, `[]FailureIsTold`, `[]UncertainWriteStaysPending` |
| | `SuccessRegisters` | `Spec => SuccessIsRegistered`, an action property |
| | `ControlImplementsLifecycle` | `Spec => ImplementsLifecycle`, for the composition |
| | `TrackerStaysConsistent` | `[]` of what `ExecutionIsUnique` and `VerdictMatchesEvidence` say, for the composition |
| | `TracedFailuresClose` | `Spec => FailedRequestClosesCommand`, an action property |
| `TelemetryIngestProofs` | `ShapesAreKept` | `Spec => []Shapes`, the types of everything but the connection |
| | `AccountingIsExact`, `NothingAcknowledgedIsLost`, `CapacityHolds`, `QuarantineIsRight` | the four safety invariants of the intake |
| | `SequenceIsFresh` | `Spec => SequenceIsNeverReused`, an action property |
| | `PipelineImplementsIntake` | `Spec => ImplementsIntake`, the refinement of `DurableIntake` |
| | `ConnectionsAreApart` | a connection runs one call, and a new one has a number that no running call holds |
| `TelemetryRollupProofs` | `TypeCorrect`, `SummariesCorrect`, `RegressionIsImpossible` | types, `[]SummariesAreCurrent`, `SummaryNeverRegresses` |
| `PortalSessionProofs` | `RowsAndRequestsAgree` | `Spec => []Inv`, the inductive invariant |
| | `RotationIsSingle`, `RevocationReachesTokens`, `EndedLoginsStayOut` | `Spec => []TokenIsRotatedOnce`, `[]RevokedHasNoToken`, `[]OldLoginIsClosed` |
| | `TransactionsDoNotDeadlock` | `Spec => []NoDeadlock` |
| | `TabsAndCountersAgree` | `Spec => [](CountInv /\ TabInv)`, the inductive invariant of the browser and the counters |
| | `SessionsAreTyped`, `LoginsAreBounded` | `Spec => []TypeOK`, and the bound on concurrent logins alone |
| | `LockedTabsDoNotReplay` | `Spec => []TabsDoNotReplay` |
| | `SessionsImplementAccount` | `Spec => ImplementsAccount`, the refinement of `AccountSessions` |
| | `WhatEndedStaysEnded` | an action property: no used token is current again, no ended session accepted again |
| `ObservationIntakeProofs` | `StoresAgree` | `Spec => []Consistent`, the inductive invariant |
| | `TypeCorrect`, `HistoryIsAccepted`, `AcknowledgedIsKept`, `ConflictsWereForgotten` | `Spec => []TypeOK` and the three invariants of the observations |
| | `NoSampleComesBack` | `Spec => OnlyForgottenSamplesComeBack`, an action property |
| `VoiceTurnProofs` | `TurnsAreSound` | `Spec => []Inv`, the inductive invariant |
| | `TypeCorrect`, `ApprovalsAreDecidedOnce`, `TranscribedAudioIsWhole` | `Spec => []TypeOK`, `[]ApprovalIsDecidedOnce`, `[]CommittedAudioIsWhole` |
| | `TurnEndIsFinal` | `Spec => NothingAfterTurnEnd`, an action property |

**Tracker.** The invariant is a property of tracker states, and every operator maps a consistent state
to a consistent one. Uniqueness and agreement are not inductive alone: agreement needs that a pending
command shares its deadline with its trace (`SameDeadline`), since the two expire by separate reads,
and a drift must concern the device's own trace (`LatestIsOwn`).

The stages of a trace need their own part (`Stories`): a stage is added only to a running trace, and a
verification only by the report that opens the settle window. For the deadline it is enough that a
report expires what is due before it is judged, in the same call.

**Lifecycle.** `Judges` says of two tracker states what a step of `CommandLifecycle` that issues
nothing says: each execution and each verdict moves at most once and they move together. One call
judges (`FailJudges`, `ObserveJudges`, ...). Calls do not simply compose: the failure of a command
after a readback in the same step would be a second move. `Handles` is the stronger fact that does
compose: a verdict given in this step is remembered to its end (`displayUntil` is not passed), so the
expiry that follows does not forget it, and only named commands fail. Eviction is the `forgotten` set
of `Issue`, and the latest pointers that survive it are the active commands.

**Control.** Lock and running requests are related exactly; a step keeps the relation, takes a free
lock, or ends a running request in its finally block. That proof does not mention the tracker. The
second invariant, `ControlInv`, does: before its transport a request has issued and sent nothing; the
command shown under its id has the value that was asked for; a failed execution, and an uncertain
write, are what it told its caller (`CallInv`). Each step of a request is either a `CallStep`, whose
tracker calls are handled and fail at most its own command, and that only when it returns failed, or
a `StartStep`, which issues a new command; neither can take from another request what it relies on,
since no two requests share a command. The refinement of the lifecycle is the same split.

A request that returns success closes its command with the readback it ingests (`SuccessIsRegistered`,
for every route). Nothing makes that readback newer than the live state, since stamps may be ahead of
the clock, nor newer than the request, since an observer's clock may be behind. The property therefore
speaks of a readback that is neither; when it is, ingestion drops it, which is the finding
of `control_readback_dropped`. `ReadCloses` is the argument: a fresh report of the requested value that
is not older than the command ends it.

A request that returns failed fails its command in the same step, and that closes the command
(`TracedFailuresClose`). The property excludes the two cases in which the code does otherwise: the
failure of a command whose trace was evicted is void, and the route of the virtual lab returns
failed on a contradicting readback without failing the command, which then waits for its deadline.
No assumption on the number of commands or of kept traces is made.

**Intake.** `Consistent` ties the parts together. Keys below the counter are used once
(`Accounted`), so no entry is overwritten even when a failed write did reach the disk. The replay
works on an entry that is still in the spool and what it learned of history stays true
(`ReplayIsCurrent`), because history is written once for each point, transactions in flight included
(`HistoryIsWrittenOnce`). Then an entry leaves the spool only when history or quarantine has it
(`KeptGrows`), and whatever was admitted stays kept (`AdmittedIsKept`). The refinement follows: the
steps that touch the disk or history are `Keep`, `Acknowledge`, `Record` or a transfer within what is
kept.

A connection takes a number that no running call holds. That one is free is a matter of counting:
every call that outlived its connection was left behind by a fault, so that the `MaxFaults + 3`
numbers of the model cannot all be in use (`ConnectionInv`). The numbers of the code grow forever;
this is what makes their reuse in the model sound.

**Summaries.** A worker's samples stay those of history until its COMMIT, because it holds the row of
its hour and a writer commits a reading only while it holds the rows of all hours it marks
(`Locking`, `Current`). That the hours marked are enough (`UnmarkedIsUnchanged`) and that the
query's window is wide enough (`WindowSuffices`) is arithmetic over any times.

**Sessions.** No property holds of the rows alone: what a transaction read stays true until it
commits only because of the locks it holds. The invariant says for every request what its position in
its transaction guarantees (`RequestInv`): a rotation at its decision holds its session and its token,
so that the token it found current is current still; a logout holds its session, so that no rotation
can insert a token into it. A step of one request changes no row that another holds, so it keeps the
others' guarantees (`OthersKeep`), and each step has to re-establish only its own. That an old login
is shut out needs that a session's version is the one its login read (`OpenedAsVersioned`), and that
versions only grow. The browser's part adds nothing to the rows: its steps are server steps or stutter on them.

For the tabs the invariant follows a token from the request that inserted it, through its answer, into
the cookie (`TabInv`). As long as nothing was disturbed (no refresh abandoned, none whose COMMIT was
applied unheard, no two overlapping) one
refresh runs at a time, no rotation presents a used token, and the cookie holds a used one only until
the tab that holds the lock has set the token that replaced it (`Undisturbed`).
`CountInv` equates the counter of concurrent logins with the number of
logins that run; every path of a login, failures included, leaves both together.

**Account.** A commit is a step of `AccountSessions` because of what its request relies on until then
(`Relies`): a login has read a version no newer than the account's, a rotation holds the token that it
exchanges, and the end of all sessions holds nothing but tokens that are current. The end of all
sessions may miss a session that a login inserts meanwhile, and a token that it did not see; the
abstract step says so, and promises only that no session is accepted afterwards. That this holds
rests on the version of each session (`OpenedAsVersioned`), not on the rows the statement marked.

**Waits.** `Holding` says which rows a transaction holds at each of its steps: users before sessions
before tokens. Take a set of transactions that all wait within the set. One that waits for tokens at
its decision (a logout, or a replay that revokes the family) holds their session, so only the end of
all sessions can hold one of them. That one in turn can wait only for such a decision, and would both
hold and await a token of the same session; but of the tokens of one session it takes the current one
alone. So nobody waits at tokens, hence nobody at sessions, and nobody at the user. The order of the
tables alone would not do: the end of all sessions locks its tokens in no particular order.

**Observations.** The invariant relates four places: a field is from a sample that was decided and
accepted with it, everything published before a sample accepted over MQTT was decided, and no poll goes
back (`Remembering`); a sample is accepted twice over one transport only after it was forgotten
(`AcceptedOnce`); an appended item is still the oldest of the queue (`HeadIsAppended`); and a call past
its decision has handed over, or is about to hand over, every field that is still of its sample and came
by its transport (`CallInv`). Steps only add to all of these (`Grows`), so that the calls nobody moved
keep what they rely on (`CallStays`). A field that came over MQTT with an acknowledged sample is kept
because the call that acknowledges answers for it. When a poll decided the sample, the fields are those
of the other source, for which that call answers nothing; the property leaves them out. The order of
what MQTT brings rests on one packet in flight (`SentIsHeld`), and is why an older publication that
comes again must have been decided before, hence is remembered or forgotten.

**Voice.** The invariant speaks of one session at a time, and a step of one session leaves the others
untouched (`OthersAreUntouched`). `AudioSound`: what the provider received is the pushed part of the
stored chunks and the chunk whose send is awaited, and the input is committed only when the loop has
nothing left. `ReplySound`: a reply needs a transcript, a transcript a commit, and a provider answers
one commit once. `Settled` is why nothing follows `turn_end`: when the portal was told that the turn
is over, the provider is closed, has answered, or will never be committed to, and no reply is under
way. `ApprovalSound` relates an approval to the decisions taken on it, and `ClicksAreConfirmed` every
confirmation on its way to a click.

**Only model-checked:** every liveness property (`EveryCommandIsJudged`, `EveryRequestReturns`,
`EveryReadingSettles`, `EveryHourIsRefreshed`, `EverySampleSettles`, `EveryUtteranceSettles`), since
liveness under fairness and ENABLED are out of the prover's reach. Every invariant, action property and
refinement of the passing runs is proved. The other way round, `TypeOK` of the control, the summaries,
the observations and the voice turn is proved and not run again. `TypeOK` of the intake is not run
either; `Shapes` and `ConnectionInv` are proved, which type the disk, the accounting, history, the calls
and the connection numbers. That the broker's session stays a sequence of messages is not proved, since
what SelectSeq returns is defined by recursion. Induction over data and RECURSIVE operators are out of
the prover's reach too; no module here declares a RECURSIVE operator.

## 6. Plan

The order puts first what users rely on most: that a command is judged rightly, then that no reading
is lost, then that summaries are right, then sessions, the second way of measurements, and the spoken
turn that may switch a device. These are done, with their proofs. Next:

1. Group fan-out and enrollment revocation in `DeviceControl`; several batches per message in
   `TelemetryIngest`; `marked_at` order and an hour that always fails in `TelemetryRollup`; the sample
   cursor in `ObservationIntake`.
2. With each of these, its part of the invariant; packet ids in the broker sessions of `TelemetryIngest`
   and `ObservationIntake`.
3. Pure operators of `automation-core` and `domain-automation` against reference definitions.

## 7. Not modelled, and why

Discovery, health, diagnostics, energy, expenses, panel, portal, observability and the user
interfaces are parsing, projections and single transactions: nothing in them depends on order.
Estimators and collectors of the core are numeric code over external data. The LLM and assistant
modules call external models. Automation and enrollment are pure decisions and optimistic updates of
single rows, which the plan leaves for later. Migrations, deployment and scripts run by hand. The
other speech packages wrap external recognisers and synthesizers behind the interface that
`VoiceTurn` models.
