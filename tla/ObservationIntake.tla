------------------------- MODULE ObservationIntake -------------------------
(***************************************************************************)
(* The approved measurements of one device: the persistent MQTT session    *)
(* and the HTTP poll they arrive by, DeviceIntelligenceObservationIngress, *)
(* DeviceObservationStateStore, GenericMeasurementHistoryWriter with its   *)
(* outbox, and the electrical projection of handleShellyMqttObservation    *)
(* (apps/api/.../devices, apps/api/.../telemetry/generic-measurements).    *)
(*                                                                         *)
(* Both stores run one operation at a time, so an operation and the        *)
(* outcome of its disk write are one action.  The device stays enrolled    *)
(* and approved, and every metric has a history policy.  A sample stands   *)
(* for its evidence ID, which an ESP sensor gives to the same sample over  *)
(* both transports; its values, which are the same then, only decide which *)
(* rows the history policy stores, which is left open.                     *)
(***************************************************************************)
EXTENDS Naturals, Sequences, FiniteSets, SequencesExt

CONSTANTS
    MaxPublished,   \* bound: MQTT samples, numbered in the order of publication
    PolledOf,       \* by kind of device, the samples an HTTP poll may read
    Fields,         \* measurements of the device
    FieldsOf,       \* those a sample carries
    DecisionLimit,  \* decisions the state store retains for the device
    QueueLimit,     \* config.maxPendingWrites
    MaxTime,        \* bound: times of reception
    MaxFaults       \* bound: crashes, lost connections, disk and database errors

\* A Shelly meter, whose two transports have no evidence ID in common and
\* whose readings are also electrical history; an ESP sensor of the lab route.
Kinds == DOMAIN PolledOf
Sources == {"mqtt", "http"}
Published == 1 .. MaxPublished
Samples == Published \cup UNION {PolledOf[k] : k \in Kinds}

ASSUME ObservationAssumption ==
    /\ {MaxPublished, QueueLimit, MaxFaults} \subseteq Nat
    /\ {DecisionLimit, MaxTime} \subseteq Nat \ {0}
    /\ Kinds \subseteq {"shelly", "esp"}
    /\ \A k \in Kinds : PolledOf[k] \subseteq Nat \ {0}
    /\ "shelly" \in Kinds => PolledOf["shelly"] \cap Published = {}
    /\ IsFiniteSet(Fields)
    /\ FieldsOf \in [Samples -> SUBSET Fields]

VARIABLES
    published,      \* the last sample published
    acknowledged,   \* samples the broker has released
    connected, sent,   \* the connection, and what was delivered over it
    kind,           \* what the device is
    polled,         \* the last sample polled
    handlers,       \* running calls of handleMessage and polls
    running,        \* the API process
    now,            \* the last time of reception
    fields,         \* the state: the sample, source and time each field is from
    decisions,      \* retained decisions; each keeps its sample in the evidence index
    poisoned,       \* the state store waits for a restart
    queue,          \* the outbox
    queuePoisoned,  \* the outbox waits for a restart
    cycle,          \* the replay cycle
    rows,           \* telemetry.measurements
    spooled,        \* samples captured for the electrical history
    accepted, skipped, forgotten,   \* history: what was accepted, what the
                    \* policy skipped, samples no longer in the evidence index
    faults

mqtt == <<published, acknowledged, connected, sent>>
device == <<kind, polled>>
store == <<now, fields, decisions, poisoned, accepted, forgotten>>
outbox == <<queue, queuePoisoned>>
database == <<rows, skipped>>
vars == <<mqtt, device, handlers, running, store, outbox, cycle, database, spooled, faults>>

Times == 1 .. MaxTime
Items == [sample : Samples, source : Sources, field : Fields, at : Times]
Call == [sample : Samples,
         source : Sources,
         current : BOOLEAN,     \* the connection it came by is still up
         stage : {"received", "decided", "replaying", "capturing", "done", "failed"},
         accepted : BOOLEAN,    \* result.accepted
         due : SUBSET Items]    \* fields handed to persistAccepted

Init ==
    /\ published = 0 /\ acknowledged = {} /\ connected = FALSE /\ sent = {}
    /\ kind \in Kinds /\ polled = 0 /\ handlers = {} /\ running = TRUE
    /\ now = 1
    /\ fields = [f \in Fields |-> [sample |-> 0, source |-> "none", at |-> 0]]
    /\ decisions = << >> /\ poisoned = FALSE
    /\ queue = << >> /\ queuePoisoned = FALSE /\ cycle = "idle"
    /\ rows = {} /\ spooled = {}
    /\ accepted = {} /\ skipped = {} /\ forgotten = {}
    /\ faults = 0

Fault == faults < MaxFaults /\ faults' = faults + 1
-----------------------------------------------------------------------------
(* Samples arrive *)

Received(s, source) ==
    [sample |-> s, source |-> source, current |-> TRUE, stage |-> "received",
     accepted |-> FALSE, due |-> {}]
OverMqtt(h) == h.source = "mqtt"

Publish ==
    /\ published < MaxPublished
    /\ published' = published + 1
    /\ UNCHANGED <<acknowledged, connected, sent, device, handlers, running, store, outbox,
                   cycle, database, spooled, faults>>

Connect ==
    /\ running /\ ~connected
    /\ connected' = TRUE
    /\ UNCHANGED <<published, acknowledged, sent, device, handlers, running, store, outbox,
                   cycle, database, spooled, faults>>

\* One packet at a time and in order; a new connection delivers again what
\* was not acknowledged.
Deliver(m) ==
    /\ connected
    /\ m \in (1 .. published) \ (acknowledged \cup sent)
    /\ \A k \in 1 .. (m - 1) : k \in acknowledged \cup sent
    /\ ~\E h \in handlers : OverMqtt(h) /\ h.current
    /\ sent' = sent \cup {m}
    /\ handlers' = handlers \cup {Received(m, "mqtt")}
    /\ UNCHANGED <<published, acknowledged, connected, device, running, store, outbox, cycle,
                   database, spooled, faults>>

\* A poll finds the sample of the poll before or a newer one.
Poll(p) ==
    /\ running /\ p \in PolledOf[kind] /\ p >= polled
    /\ \A h \in handlers : OverMqtt(h)
    /\ polled' = p
    /\ handlers' = handlers \cup {Received(p, "http")}
    /\ UNCHANGED <<mqtt, kind, running, store, outbox, cycle, database, spooled, faults>>

\* Calls that came by the connection go on without it.
Close(calls) ==
    /\ connected' = FALSE /\ sent' = {}
    /\ handlers' = {[h EXCEPT !.current = ~OverMqtt(h)] : h \in calls}

Disconnect ==
    /\ connected /\ Fault
    /\ Close(handlers)
    /\ UNCHANGED <<published, acknowledged, device, running, store, outbox, cycle, database,
                   spooled>>
-----------------------------------------------------------------------------
(* DeviceObservationStateStore.process *)

Becomes(h, new) == handlers' = (handlers \ {h}) \cup {new}

\* Mutant of Remembered: only accepted evidence enters the index.
RememberedWhenAccepted(s, keys) ==
    IF keys = {} THEN decisions
    ELSE LET all == Append(decisions, s) IN
         IF Len(all) > DecisionLimit THEN Tail(all) ELSE all

\* The decision and its evidence; retention removes the oldest of both.
Remembered(s, keys) ==
    LET all == Append(decisions, s) IN
    IF Len(all) > DecisionLimit THEN Tail(all) ELSE all

\* processDeviceObservation: fields whose stored time is older; equal is ignored.
UpdatedKeys(s, at) == {f \in FieldsOf[s] : at > fields[f].at}

ItemsAt(h, keys, at) ==
    {[sample |-> h.sample, source |-> h.source, field |-> f, at |-> at] : f \in keys}

Decided(h, at) ==
    LET keys == UpdatedKeys(h.sample, at)
        observed == [sample |-> h.sample, source |-> h.source, at |-> at]
    IN
    /\ fields' = [f \in Fields |-> IF f \in keys THEN observed ELSE fields[f]]
    /\ decisions' = Remembered(h.sample, keys)
    /\ forgotten' = forgotten \cup (ToSet(decisions) \ ToSet(decisions'))
    /\ accepted' = accepted \cup ItemsAt(h, keys, at)

Decides(h, at) ==
    /\ h.stage = "received" /\ ~poisoned
    /\ h.sample \notin ToSet(decisions)
    /\ at \in {now, now + 1} \cap Times

Decide(h, at) ==
    LET keys == UpdatedKeys(h.sample, at) IN
    /\ Decides(h, at)
    /\ Decided(h, at)
    /\ now' = at
    /\ Becomes(h, [h EXCEPT !.stage = "decided", !.accepted = keys # {},
                            !.due = ItemsAt(h, keys, at)])
    /\ UNCHANGED <<mqtt, device, running, poisoned, outbox, cycle, database, spooled, faults>>

\* The outcome of a failed batch is uncertain.
DecideFails(h, at) ==
    /\ Decides(h, at) /\ Fault
    /\ Decided(h, at) \/ UNCHANGED <<fields, decisions, forgotten, accepted>>
    /\ now' = at /\ poisoned' = TRUE
    /\ Becomes(h, [h EXCEPT !.stage = "failed", !.accepted = FALSE, !.due = {}])
    /\ UNCHANGED <<mqtt, device, running, outbox, cycle, database, spooled>>

\* The fields of the state that came with this sample over this transport.
OwnFields(h) ==
    {f \in Fields : fields[f].sample = h.sample /\ fields[f].source = h.source}

\* Mutant of DueAgain: nothing is handed over again.
DueAgainNothing(h) == {}
\* Mutant of DueAgain: whatever transport the field came by.
DueAgainForeign(h) ==
    {[sample |-> h.sample, source |-> h.source, field |-> f, at |-> fields[f].at] :
        f \in {f \in Fields : fields[f].sample = h.sample}}
\* Mutant of DueAgain: the time of this reception.
DueAgainNow(h) == ItemsAt(h, OwnFields(h), now)

\* What a duplicate hands to the history: the fields that are still its own,
\* with the time they were accepted.
DueAgain(h) ==
    {[sample |-> h.sample, source |-> h.source, field |-> f, at |-> fields[f].at] :
        f \in OwnFields(h)}

Duplicate(h) ==
    /\ h.stage = "received" /\ ~poisoned
    /\ h.sample \in ToSet(decisions)
    /\ Becomes(h, [h EXCEPT !.stage = "decided", !.due = DueAgain(h)])
    /\ UNCHANGED <<mqtt, device, running, store, outbox, cycle, database, spooled, faults>>

Refused(h) ==
    /\ h.stage = "received" /\ poisoned
    /\ Becomes(h, [h EXCEPT !.stage = "failed", !.accepted = FALSE, !.due = {}])
    /\ UNCHANGED <<mqtt, device, running, store, outbox, cycle, database, spooled, faults>>
-----------------------------------------------------------------------------
(* persistAccepted and the outbox *)

\* Only an observation accepted by this very delivery is projected, and the
\* lab route projects none.
Projected(h) == kind = "shelly" /\ OverMqtt(h) /\ h.accepted
Persisted(h) == [h EXCEPT !.stage = IF Projected(h) THEN "capturing" ELSE "done"]

NothingDue(h) ==
    /\ h.stage = "decided" /\ h.due = {}
    /\ Becomes(h, Persisted(h))
    /\ UNCHANGED <<mqtt, device, running, store, outbox, cycle, database, spooled, faults>>

\* One sample ID: hashed of sample, source and field.
SameSample(i, j) == i.sample = j.sample /\ i.source = j.source /\ i.field = j.field

\* Items whose sample ID is not queued already.
Additions(h) == {i \in h.due : \A q \in ToSet(queue) : ~SameSample(i, q)}
Fits(h) == Len(queue) + Cardinality(Additions(h)) <= QueueLimit
Queued(h) == queue \o SetToSeq(Additions(h))

\* Buffered, and a cycle started or joined.
Enqueue(h) ==
    /\ h.stage = "decided" /\ h.due # {} /\ ~queuePoisoned
    /\ Additions(h) = {} \/ Fits(h)
    /\ queue' = Queued(h)
    /\ cycle' = IF cycle = "idle" THEN "running" ELSE cycle
    /\ Becomes(h, [h EXCEPT !.stage = "replaying", !.due = {}])
    /\ UNCHANGED <<mqtt, device, running, store, queuePoisoned, database, spooled, faults>>

\* HistoryOutboxUnavailableError
EnqueueRefused(h) ==
    /\ h.stage = "decided" /\ h.due # {}
    /\ queuePoisoned \/ (Additions(h) # {} /\ ~Fits(h))
    /\ Becomes(h, [h EXCEPT !.stage = "failed", !.accepted = FALSE, !.due = {}])
    /\ UNCHANGED <<mqtt, device, running, store, outbox, cycle, database, spooled, faults>>

EnqueueFails(h) ==
    /\ h.stage = "decided" /\ ~queuePoisoned
    /\ Additions(h) # {} /\ Fits(h) /\ Fault
    /\ queue' \in {queue, Queued(h)}
    /\ queuePoisoned' = TRUE
    /\ Becomes(h, [h EXCEPT !.stage = "failed", !.accepted = FALSE, !.due = {}])
    /\ UNCHANGED <<mqtt, device, running, store, cycle, database, spooled>>

\* Whoever waits for the cycle goes on when it ends.
EndsCycle ==
    /\ cycle' = "idle"
    /\ handlers' = {IF h.stage = "replaying" THEN Persisted(h) ELSE h : h \in handlers}

\* Mutant of StartCycle: no timer, only a new sample starts a cycle.
StartCycleNever == FALSE

StartCycle ==
    /\ running /\ cycle = "idle" /\ queue # << >>
    /\ cycle' = "running"
    /\ UNCHANGED <<mqtt, device, handlers, running, store, outbox, database, spooled, faults>>

Conflicts(i) == \E r \in rows : SameSample(i, r) /\ r.at # i.at
Blocked == queue # << >> /\ Conflicts(Head(queue))

\* appendIfDue: a repeated sample is left alone, the first one of a metric is
\* stored, another as its policy decides.
AppendIfDue(i) ==
    \/ rows' = rows \cup {i} /\ UNCHANGED skipped
    \/ /\ \E r \in rows : r.field = i.field
       /\ i \notin rows
       /\ skipped' = skipped \cup {i} /\ UNCHANGED rows

AppendHead ==
    /\ cycle = "running" /\ queue # << >> /\ ~queuePoisoned
    /\ ~Blocked
    /\ AppendIfDue(Head(queue))
    /\ cycle' = "appended"
    /\ UNCHANGED <<mqtt, device, handlers, running, store, outbox, spooled, faults>>

\* The database fails, whether or not it committed.
AppendFails ==
    /\ cycle = "running" /\ queue # << >> /\ ~queuePoisoned
    /\ Fault
    /\ \/ UNCHANGED database
       \/ ~Blocked /\ AppendIfDue(Head(queue))
    /\ EndsCycle
    /\ UNCHANGED <<mqtt, device, running, store, outbox, spooled>>

\* ConflictingMeasurementSampleError, an empty or an unreadable outbox.
EndCycle ==
    /\ cycle = "running"
    /\ queuePoisoned \/ queue = << >> \/ Blocked
    /\ EndsCycle
    /\ UNCHANGED <<mqtt, device, running, store, outbox, database, spooled, faults>>

Complete ==
    /\ cycle = "appended"
    /\ IF queuePoisoned
       THEN EndsCycle /\ UNCHANGED queue
       ELSE cycle' = "running" /\ queue' = Tail(queue) /\ UNCHANGED handlers
    /\ UNCHANGED <<mqtt, device, running, store, queuePoisoned, database, spooled, faults>>

CompleteFails ==
    /\ cycle = "appended" /\ ~queuePoisoned /\ Fault
    /\ queue' \in {queue, Tail(queue)}
    /\ queuePoisoned' = TRUE
    /\ EndsCycle
    /\ UNCHANGED <<mqtt, device, running, store, database, spooled>>
-----------------------------------------------------------------------------
(* The electrical projection and the acknowledgement *)

\* telemetry.capture
Capture(h) ==
    /\ h.stage = "capturing"
    /\ spooled' = spooled \cup {h.sample}
    /\ Becomes(h, [h EXCEPT !.stage = "done", !.accepted = FALSE])
    /\ UNCHANGED <<mqtt, device, running, store, outbox, cycle, database, faults>>

\* The spool is full, or its disk fails.
CaptureFails(h) ==
    /\ h.stage = "capturing" /\ Fault
    /\ Becomes(h, [h EXCEPT !.stage = "failed", !.accepted = FALSE, !.due = {}])
    /\ UNCHANGED <<mqtt, device, running, store, outbox, cycle, database, spooled>>

Acknowledge(h) ==
    /\ OverMqtt(h) /\ h.current /\ h.stage = "done"
    /\ acknowledged' = acknowledged \cup {h.sample}
    /\ handlers' = handlers \ {h}
    /\ UNCHANGED <<published, connected, sent, device, running, store, outbox, cycle, database,
                   spooled, faults>>

\* pause(): the connection is closed without PUBACK.
Pause(h) ==
    /\ OverMqtt(h) /\ h.current /\ h.stage = "failed"
    /\ Close(handlers \ {h})
    /\ UNCHANGED <<published, acknowledged, device, running, store, outbox, cycle, database,
                   spooled, faults>>

\* A poll ends, or a call whose connection is gone.
Drop(h) ==
    /\ ~OverMqtt(h) \/ ~h.current
    /\ h.stage \in {"done", "failed"}
    /\ handlers' = handlers \ {h}
    /\ UNCHANGED <<mqtt, device, running, store, outbox, cycle, database, spooled, faults>>

Handle(h) ==
    \/ \E at \in Times : Decide(h, at) \/ DecideFails(h, at)
    \/ Duplicate(h) \/ Refused(h)
    \/ NothingDue(h) \/ Enqueue(h) \/ EnqueueRefused(h) \/ EnqueueFails(h)
    \/ Capture(h) \/ CaptureFails(h)
    \/ Acknowledge(h) \/ Pause(h) \/ Drop(h)

Replay == StartCycle \/ AppendHead \/ AppendFails \/ EndCycle \/ Complete \/ CompleteFails
-----------------------------------------------------------------------------
(* The process *)

Stop ==
    /\ running
    /\ running' = FALSE /\ poisoned' = FALSE /\ queuePoisoned' = FALSE
    /\ connected' = FALSE /\ sent' = {}
    /\ handlers' = {} /\ cycle' = "idle"
    /\ UNCHANGED <<published, acknowledged, device, now, fields, decisions, accepted, forgotten,
                   queue, database, spooled>>

Crash == Fault /\ Stop
StopPoisoned == (poisoned \/ queuePoisoned) /\ Stop /\ UNCHANGED faults

Restart ==
    /\ ~running
    /\ running' = TRUE
    /\ UNCHANGED <<mqtt, device, handlers, store, outbox, cycle, database, spooled, faults>>

Next ==
    \/ Publish \/ Connect \/ Disconnect
    \/ \E m \in Published : Deliver(m)
    \/ \E p \in PolledOf[kind] : Poll(p)
    \/ \E h \in handlers : Handle(h)
    \/ Replay
    \/ Crash \/ StopPoisoned \/ Restart

Spec == Init /\ [][Next]_vars

\* Promises are settled, timers reconnect and replay, and somebody restarts a
\* process that ended or asked for it.
Fairness ==
    /\ WF_vars(Connect) /\ WF_vars(\E m \in Published : Deliver(m))
    /\ \A s \in Samples, source \in Sources, c \in BOOLEAN :
          WF_vars(\E h \in handlers :
                     h.sample = s /\ h.source = source /\ h.current = c /\ Handle(h))
    /\ WF_vars(Replay)
    /\ WF_vars(StopPoisoned) /\ WF_vars(Restart)

FairSpec == Spec /\ Fairness
-----------------------------------------------------------------------------
(* Properties *)

TypeOK ==
    /\ published \in 0 .. MaxPublished /\ acknowledged \subseteq 1 .. published
    /\ connected \in BOOLEAN /\ sent \subseteq 1 .. published
    /\ kind \in Kinds /\ polled \in {0} \cup PolledOf[kind]
    /\ \A h \in handlers : h \in Call
    /\ running \in BOOLEAN /\ now \in Times
    /\ fields \in 
           [Fields -> [sample : {0} \cup Samples, source : {"none"} \cup Sources,
                       at : {0} \cup Times]]
    /\ decisions \in Seq(Samples) /\ Len(decisions) <= DecisionLimit
    /\ poisoned \in BOOLEAN /\ queuePoisoned \in BOOLEAN
    /\ queue \in Seq(Items) /\ Len(queue) <= QueueLimit
    /\ cycle \in {"idle", "running", "appended"}
    /\ rows \subseteq Items /\ skipped \subseteq Items /\ accepted \subseteq Items
    /\ spooled \subseteq Published /\ forgotten \subseteq Samples
    /\ faults \in 0 .. MaxFaults

\* What is queued for history or in it was accepted at that very time: neither
\* a redelivery nor a restart between decision and outbox makes up a row
\* (the filter of a duplicate's fields in ingestUsingAuthority).
HistoryWasAccepted == ToSet(queue) \cup rows \subseteq accepted

\* A field that came over MQTT, with a sample that was acknowledged, is queued,
\* in history or skipped by its policy, whatever failed between the decision
\* and the PUBACK (the retry of history for duplicate evidence, as long as the
\* evidence is retained).  Not so a field that came over HTTP: when its poll
\* failed, the same sample over MQTT is acknowledged and hands over nothing.
LatestAcknowledgedIsKept ==
    \A f \in Fields :
        fields[f].source = "mqtt" /\ fields[f].sample \in acknowledged \ forgotten =>
            \E i \in ToSet(queue) \cup rows \cup skipped :
                i.sample = fields[f].sample /\ i.source = "mqtt" /\ i.field = f

\* An older sample replaces a newer one of the same source only when its
\* evidence was no longer retained (the evidence index; redelivery, polls and
\* calls that outlive their connection).
OnlyForgottenSamplesComeBack ==
    [][\A f \in Fields :
          fields'[f] # fields[f] /\ fields'[f].source = fields[f].source =>
              \/ fields'[f].sample > fields[f].sample
              \/ fields'[f].sample \in forgotten]_vars

\* A queued item contradicts the stored row of its sample only when the
\* evidence of that sample was no longer retained when it came again.
OnlyForgottenSamplesConflict ==
    \A i \in ToSet(queue) : Conflicts(i) => i.sample \in forgotten

\* Every sample published is acknowledged and its measurements leave the
\* outbox, unless a conflicting one holds up the replay.
Settled(m) == m \in acknowledged /\ \A i \in ToSet(queue) : i.sample # m
EverySampleSettles ==
    \A m \in Published :
        published = m ~> Settled(m) \/ Blocked

\* "A complete accepted reading batch is buffered before acknowledgment"
\* (docs/electrical-telemetry.md:93): a sample the ingress accepted and the
\* broker released is in the electrical spool, or a call still works on it.
AcceptedIsSpooled ==
    \A i \in accepted :
        /\ kind = "shelly" /\ i.source = "mqtt" /\ i.sample \in acknowledged
        /\ \A h \in handlers : h.sample # i.sample
        => i.sample \in spooled
=============================================================================
