-------------------------- MODULE TelemetryIngest --------------------------
(***************************************************************************)
(* The durable path of electrical readings: the persistent MQTT session,   *)
(* DurableMqttSubscriber, TelemetryIngestService, the TelemetrySpool on     *)
(* disk and TelemetryStore.append (apps/api/.../telemetry and              *)
(* devices/mqtt/durable-mqtt-subscriber.ts).                               *)
(*                                                                         *)
(* TelemetrySpool.serialize runs one operation at a time, so an operation  *)
(* and the outcome of its disk write are one action; the code that waits   *)
(* for it continues in another.  A shutdown waits for admissions and ends  *)
(* like a crash between them.                                              *)
(***************************************************************************)
EXTENDS Integers, Sequences, FiniteSets, Functions

CONSTANTS
    Messages,          \* QoS 1 publications of approved devices, and ignored ones
    Readings,          \* canonical readings, without their receipt time
    BatchOf,           \* the readings of a publication; none when it is ignored
    PointOf,           \* natural key: tenant, site, device, channel, metric, time
    Obsolete,          \* readings of an older version that are no longer valid
    Backlog,           \* what an earlier process left in the spool
    MaxPendingWrites,  \* config.maxPendingWrites
    MaxFaults          \* bound: crashes, lost connections, disk and database errors

ASSUME IngestAssumption ==
    /\ BatchOf \in [Messages -> Seq(Readings)]
    /\ DOMAIN PointOf = Readings
    /\ Obsolete \subseteq Readings
    /\ \A m \in Messages : Range(BatchOf[m]) \cap Obsolete = {}
    /\ Backlog \in Seq(Readings)
    /\ MaxPendingWrites \in Nat /\ Len(Backlog) <= MaxPendingWrites
    /\ MaxFaults \in Nat

VARIABLES
    session,       \* broker: publications of the persistent session not acknowledged
    acknowledged,  \* broker: publications it has released
    connected,     \* the MQTT connection is up
    generation,    \* its number; a number is used again when no call holds it
    sent,          \* publications delivered over this connection
    handlers,      \* running calls of handleMessage
    running,       \* the API process
    poisoned,      \* the spool waits for a restart
    meta,          \* the spool's accounting in memory
    metadata,      \* and on disk
    pending,       \* p: entries on disk
    quarantine,    \* q: entries on disk
    replay,        \* where the replay loop stands
    history,       \* telemetry.readings
    uncertain,     \* readings whose COMMIT the server has not settled
    faults

broker == <<session, acknowledged>>
connection == <<connected, generation, sent>>
disk == <<metadata, pending, quarantine>>
database == <<history, uncertain>>
vars == <<broker, connection, handlers, running, poisoned, meta, disk, replay, database, faults>>

Generations == 1..(MaxFaults + 3)
Metadata == [next : Nat, pending : Nat, quarantined : Nat]
Reasons == {"conflicting-reading", "invalid-reading"}
Calls == [generation : Generations, message : Messages, stage : {"waiting", "admitted", "refused"}]
Idle == [stage |-> "idle"]
Entries == [stage : {"read", "stored"} \cup Reasons, key : Nat, reading : Readings]

Init ==
    /\ session = << >> /\ acknowledged = {}
    /\ connected = FALSE /\ generation = 1 /\ sent = {}
    /\ handlers = {}
    /\ running = TRUE /\ poisoned = FALSE
    /\ pending = [k \in 0..(Len(Backlog) - 1) |-> Backlog[k + 1]]
    /\ metadata = [next |-> Len(Backlog), pending |-> Len(Backlog), quarantined |-> 0]
    /\ quarantine = << >>
    /\ meta = metadata
    /\ replay = Idle
    /\ history = << >> /\ uncertain = {}
    /\ faults = 0

Fault == faults < MaxFaults /\ faults' = faults + 1

-----------------------------------------------------------------------------
(* The broker and the connection *)

Publish(m) ==
    /\ m \notin Range(session) \cup acknowledged
    /\ session' = Append(session, m)
    /\ UNCHANGED <<acknowledged, connection, handlers, running, poisoned, meta, disk, replay,
                   database, faults>>

Reconnect ==
    /\ running /\ ~connected
    /\ connected' = TRUE
    /\ UNCHANGED <<broker, generation, sent, handlers, running, poisoned, meta, disk, replay,
                   database, faults>>

\* The close event: calls that are still running belong to an older connection.
Close ==
    /\ connected' = FALSE
    /\ generation' = CHOOSE g \in Generations :
                        g # generation /\ \A h \in handlers : h.generation # g
    /\ sent' = {}

Disconnect ==
    /\ connected /\ Fault /\ Close
    /\ UNCHANGED <<broker, handlers, running, poisoned, meta, disk, replay, database>>

\* MQTT.js handles the packets of a connection one after the other, in order.
Deliver(m) ==
    /\ running /\ connected /\ m \notin sent
    /\ \A h \in handlers : h.generation # generation
    /\ \E i \in DOMAIN session : session[i] = m /\ \A j \in 1..(i - 1) : session[j] \in sent
    /\ sent' = sent \cup {m}
    /\ handlers' = handlers \cup {[generation |-> generation, message |-> m, stage |-> "waiting"]}
    /\ UNCHANGED <<broker, connected, generation, running, poisoned, meta, disk, replay,
                   database, faults>>

-----------------------------------------------------------------------------
(* The spool *)

Ready == running /\ ~poisoned

\* Mutant of Fits: the quarantine is not counted.
FitsBesideQuarantine(n) == meta.pending + n <= MaxPendingWrites

Fits(n) == meta.pending + meta.quarantined + n <= MaxPendingWrites

\* One synchronous batch: accounting and entries reach the disk together.
Write(m, p, q) == metadata' = m /\ pending' = p /\ quarantine' = q

Commit(m, p, q) ==
    /\ Write(m, p, q) /\ meta' = m
    /\ UNCHANGED <<running, poisoned, faults>>

\* Mutant of Freeze: the spool goes on after a failed write.
FreezeForgotten == poisoned' = poisoned

Freeze == poisoned' = TRUE

\* A failed fsync has an uncertain outcome.
CommitFails(m, p, q) ==
    /\ Fault /\ Freeze
    /\ Write(m, p, q) \/ UNCHANGED disk
    /\ UNCHANGED <<running, meta>>

-----------------------------------------------------------------------------
(* handleMessage: capture and enqueue *)

Moves(h, stage) == handlers' = (handlers \ {h}) \cup {[h EXCEPT !.stage = stage]}

\* Not typed, not valid or not approved: nothing to store, so it is acknowledged.
Ignore(h) ==
    /\ h.stage = "waiting" /\ BatchOf[h.message] = << >>
    /\ Moves(h, "admitted")
    /\ UNCHANGED <<broker, connection, running, poisoned, meta, disk, replay, database, faults>>

Enqueued(m) == [meta EXCEPT !.next = @ + Len(BatchOf[m]), !.pending = @ + Len(BatchOf[m])]

WithBatch(m) ==
    LET added == meta.next..(meta.next + Len(BatchOf[m]) - 1) IN
    [k \in DOMAIN pending \cup added |->
        IF k \in added THEN BatchOf[m][k - meta.next + 1] ELSE pending[k]]

Admissible(h) ==
    /\ h.stage = "waiting" /\ BatchOf[h.message] # << >>
    /\ Ready /\ Fits(Len(BatchOf[h.message]))

Admit(h) ==
    /\ Admissible(h)
    /\ Commit(Enqueued(h.message), WithBatch(h.message), quarantine)
    /\ Moves(h, "admitted")
    /\ UNCHANGED <<broker, connection, replay, database>>

AdmitFails(h) ==
    /\ Admissible(h)
    /\ CommitFails(Enqueued(h.message), WithBatch(h.message), quarantine)
    /\ Moves(h, "refused")
    /\ UNCHANGED <<broker, connection, replay, database>>

\* The spool is full or waits for a restart.
Refuse(h) ==
    /\ h.stage = "waiting" /\ BatchOf[h.message] # << >>
    /\ poisoned \/ ~Fits(Len(BatchOf[h.message]))
    /\ Moves(h, "refused")
    /\ UNCHANGED <<broker, connection, running, poisoned, meta, disk, replay, database, faults>>

\* Mutant of Acknowledges: the PUBACK does not wait for the disk.
AcknowledgesEarly(h) == h.stage # "refused" /\ h.generation = generation

Acknowledges(h) == h.stage = "admitted" /\ h.generation = generation

\* done(): the PUBACK.  One that is lost is a connection lost before it.
Acknowledge(h) ==
    /\ Acknowledges(h)
    /\ session' = SelectSeq(session, LAMBDA m : m # h.message)
    /\ acknowledged' = acknowledged \cup {h.message}
    /\ handlers' = handlers \ {h}
    /\ UNCHANGED <<connection, running, poisoned, meta, disk, replay, database, faults>>

\* pause(): close without PUBACK, so that the session delivers again.
Pause(h) ==
    /\ h.stage = "refused" /\ h.generation = generation
    /\ Close
    /\ handlers' = handlers \ {h}
    /\ UNCHANGED <<broker, running, poisoned, meta, disk, replay, database, faults>>

\* The connection changed during admission: done(error).
DropStale(h) ==
    /\ h.stage # "waiting" /\ h.generation # generation
    /\ handlers' = handlers \ {h}
    /\ UNCHANGED <<broker, connection, running, poisoned, meta, disk, replay, database, faults>>

Handle(h) ==
    \/ Ignore(h) \/ Admit(h) \/ AdmitFails(h) \/ Refuse(h)
    \/ Acknowledge(h) \/ Pause(h) \/ DropStale(h)

-----------------------------------------------------------------------------
(* Replay into PostgreSQL *)

Oldest == CHOOSE k \in DOMAIN pending : \A j \in DOMAIN pending : k <= j

\* A reading that no longer validates goes to quarantine unread by the store.
Peek ==
    /\ Ready /\ replay = Idle
    /\ pending # << >> /\ meta.pending # 0
    /\ replay' = [stage |-> IF pending[Oldest] \in Obsolete THEN "invalid-reading" ELSE "read",
                  key |-> Oldest, reading |-> pending[Oldest]]
    /\ UNCHANGED <<broker, connection, handlers, running, poisoned, meta, disk, database, faults>>

\* The INSERT waits for a transaction that holds its key.
Point == PointOf[replay.reading]
Inserts == replay.stage = "read" /\ \A r \in uncertain : PointOf[r] # Point

Recorded(r) == [p \in DOMAIN history \cup {PointOf[r]} |->
                   IF p = PointOf[r] THEN r ELSE history[p]]

Store ==
    /\ Inserts /\ Point \notin DOMAIN history
    /\ history' = Recorded(replay.reading)
    /\ replay' = [replay EXCEPT !.stage = "stored"]
    /\ UNCHANGED <<broker, connection, handlers, running, poisoned, meta, disk, uncertain, faults>>

\* Mutant of Resolution: every repetition is a conflict.
ResolutionOfAnyRepeat == "conflicting-reading"

\* Mutant of Resolution: a conflict is retried like an outage.
ResolutionByRetry == IF history[Point] = replay.reading THEN "stored" ELSE "read"

Resolution == IF history[Point] = replay.reading THEN "stored" ELSE "conflicting-reading"

\* Nothing is inserted: a duplicate, or ConflictingElectricalReadingError.
Compare ==
    /\ Inserts /\ Point \in DOMAIN history
    /\ replay' = [replay EXCEPT !.stage = Resolution]
    /\ UNCHANGED <<broker, connection, handlers, running, poisoned, meta, disk, database, faults>>

\* The database does not answer; a COMMIT under way may still be applied.
InFlight == uncertain' = uncertain \/ (Point \notin DOMAIN history /\ uncertain' = uncertain \cup {replay.reading})

\* Mutant of AfterFailure: the entry is removed in a finally block.
AfterFailureFinished == [replay EXCEPT !.stage = "stored"]

AfterFailure == Idle

StoreFails ==
    /\ Inserts /\ Fault /\ InFlight
    /\ replay' = AfterFailure
    /\ UNCHANGED <<broker, connection, handlers, running, poisoned, meta, disk, history>>

\* The server commits or rolls back what lost its client.
Settle(r) ==
    /\ r \in uncertain
    /\ uncertain' = uncertain \ {r}
    /\ history' = Recorded(r) \/ UNCHANGED history
    /\ UNCHANGED <<broker, connection, handlers, running, poisoned, meta, disk, replay, faults>>

-----------------------------------------------------------------------------
(* finish *)

Quarantines == replay.stage \in Reasons
Finishes == running /\ (replay.stage = "stored" \/ Quarantines)

\* Mutant of Finished: the quarantined entry is not counted.
FinishedUncounted == [meta EXCEPT !.pending = @ - 1]

Finished == [meta EXCEPT !.pending = @ - 1, !.quarantined = @ + (IF Quarantines THEN 1 ELSE 0)]

WithoutEntry == [k \in DOMAIN pending \ {replay.key} |-> pending[k]]

Preserved == [reason |-> replay.stage, reading |-> replay.reading]

WithQuarantined ==
    IF Quarantines
    THEN [k \in DOMAIN quarantine \cup {replay.key} |->
             IF k = replay.key THEN Preserved ELSE quarantine[k]]
    ELSE quarantine

Finish ==
    /\ Finishes /\ ~poisoned /\ replay.key \in DOMAIN pending
    /\ \/ Commit(Finished, WithoutEntry, WithQuarantined)
       \/ CommitFails(Finished, WithoutEntry, WithQuarantined)
    /\ replay' = Idle
    /\ UNCHANGED <<broker, connection, handlers, database>>

FinishRefused ==
    /\ Finishes /\ (poisoned \/ replay.key \notin DOMAIN pending)
    /\ replay' = Idle
    /\ UNCHANGED <<broker, connection, handlers, running, poisoned, meta, disk, database, faults>>

ReplayStep == Peek \/ Store \/ Compare \/ StoreFails \/ Finish \/ FinishRefused

-----------------------------------------------------------------------------
(* The process *)

\* The process ends; a transaction it had open may still be committed.
Stop ==
    /\ running
    /\ running' = FALSE /\ poisoned' = FALSE
    /\ connected' = FALSE /\ generation' = 1 /\ sent' = {}
    /\ handlers' = {} /\ replay' = Idle
    /\ IF replay.stage = "read" /\ Inserts THEN InFlight ELSE UNCHANGED uncertain
    /\ UNCHANGED <<broker, meta, disk, history>>

Crash == Fault /\ Stop

\* The operator answers restartRequired.
StopPoisoned == poisoned /\ Stop /\ UNCHANGED faults

\* initialize: the accounting is read from the disk; an invalid one stops the start.
Restart ==
    /\ ~running
    /\ metadata.pending + metadata.quarantined <= metadata.next
    /\ running' = TRUE /\ meta' = metadata
    /\ UNCHANGED <<broker, connection, handlers, poisoned, disk, replay, database, faults>>

-----------------------------------------------------------------------------

Next ==
    \/ \E m \in Messages : Publish(m) \/ Deliver(m)
    \/ Reconnect \/ Disconnect
    \/ \E h \in handlers : Handle(h)
    \/ ReplayStep
    \/ \E r \in uncertain : Settle(r)
    \/ Crash \/ StopPoisoned \/ Restart

Spec == Init /\ [][Next]_vars

\* Timers reconnect and replay, promises are settled, the server settles its
\* transactions, and somebody restarts a process that ended or asked for it.
Fairness ==
    /\ WF_vars(\E m \in Messages : Deliver(m))
    /\ \A g \in Generations : WF_vars(\E h \in handlers : h.generation = g /\ Handle(h))
    /\ WF_vars(Reconnect)
    /\ WF_vars(ReplayStep)
    /\ WF_vars(\E r \in uncertain : Settle(r))
    /\ WF_vars(StopPoisoned) /\ WF_vars(Restart)

FairSpec == Spec /\ Fairness

-----------------------------------------------------------------------------
(* Properties *)

Quarantined == {quarantine[k].reading : k \in DOMAIN quarantine}
Kept == Range(pending) \cup Quarantined \cup Range(history)

TypeOK ==
    /\ session \in Seq(Messages) /\ acknowledged \subseteq Messages
    /\ connected \in BOOLEAN /\ generation \in Generations /\ sent \subseteq Messages
    /\ handlers \subseteq Calls
    /\ running \in BOOLEAN /\ poisoned \in BOOLEAN
    /\ meta \in Metadata /\ metadata \in Metadata
    /\ DOMAIN pending \subseteq Nat /\ Range(pending) \subseteq Readings
    /\ DOMAIN quarantine \subseteq Nat
    /\ Range(quarantine) \subseteq [reason : Reasons, reading : Readings]
    /\ replay \in {Idle} \cup Entries
    /\ DOMAIN history \subseteq Range(PointOf) /\ Range(history) \subseteq Readings
    /\ uncertain \subseteq Readings
    /\ faults \in 0..MaxFaults

\* The accounting on disk is the number of entries on disk, whatever crashed or
\* failed, and the accounting in memory is that of the disk unless the spool is
\* poisoned.
SpoolAccounting ==
    /\ metadata.pending = Cardinality(DOMAIN pending)
    /\ metadata.quarantined = Cardinality(DOMAIN quarantine)
    /\ Ready => meta = metadata

\* The readings of an acknowledged publication are in the spool, in quarantine or
\* in history: no crash, retry or failure between PUBACK and COMMIT loses one.
AcknowledgedIsKept ==
    \A m \in acknowledged : Range(BatchOf[m]) \subseteq Kept

\* Buffered and quarantined readings together stay within the capacity.
CapacityIsRespected ==
    Cardinality(DOMAIN pending) + Cardinality(DOMAIN quarantine) <= MaxPendingWrites

\* A quarantined conflict does conflict: history has another reading at its point.
QuarantineIsJustified ==
    \A k \in DOMAIN quarantine :
        LET r == quarantine[k].reading IN
        IF quarantine[k].reason = "invalid-reading" THEN r \in Obsolete
        ELSE PointOf[r] \in DOMAIN history /\ history[PointOf[r]] # r

\* Sequence numbers are never used again: an entry is not overwritten, and a new
\* one has a key that no entry ever had.
SequenceIsNeverReused ==
    [][/\ \A k \in DOMAIN pending \cap DOMAIN pending' : pending'[k] = pending[k]
       /\ \A k \in DOMAIN pending' \ DOMAIN pending : k >= metadata.next]_vars

Settled(r) ==
    /\ r \notin Range(pending)
    /\ r \in Quarantined \cup Range(history)

\* Quarantine counts against the capacity and is never purged: it may leave no
\* room for a publication, which then holds back those behind it.
QuarantineBlocks ==
    \E m \in Range(session) : metadata.quarantined + Len(BatchOf[m]) > MaxPendingWrites

\* Every publication is eventually acknowledged and its readings settled, a
\* conflicting reading notwithstanding: a backlog or an outage only delays it, and
\* nothing but a spool full of quarantined readings stops it.
EveryReadingSettles ==
    \A m \in Messages :
        m \in Range(session) ~>
            \/ m \in acknowledged /\ \A r \in Range(BatchOf[m]) : Settled(r)
            \/ QuarantineBlocks

\* The pipeline implements the abstract intake.
Intake == INSTANCE DurableIntake WITH kept <- Kept
ImplementsIntake == Intake!Spec
=============================================================================
