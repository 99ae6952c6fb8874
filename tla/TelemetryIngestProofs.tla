----------------------- MODULE TelemetryIngestProofs -----------------------
(***************************************************************************)
(* Proofs about TelemetryIngest, for any publications, readings, backlog,   *)
(* capacity and number of faults.                                           *)
(*                                                                          *)
(* What a publisher was promised depends on every part of the pipeline, so  *)
(* the invariant (Consistent) ties them together: keys are sequence numbers *)
(* used once, the replay works on an entry that is still in the spool and   *)
(* remembers what is true of history, and a transaction of unknown outcome  *)
(* holds a point nobody else can write.  The actions are classified once by *)
(* what they do to the disk (DiskStep), to history (HistoryStep) and to the *)
(* replay (ReplayChange); that nothing kept is lost (KeptGrows) follows     *)
(* from the three, and everything else from that.                           *)
(***************************************************************************)
EXTENDS TelemetryIngest, FiniteSetTheorems, WellFoundedInduction, TLAPS

-----------------------------------------------------------------------------
(* The inductive invariant *)

\* A running replay works on an entry that is in the spool, and what it has
\* learned of history is still true.
ReplayIsCurrent ==
    replay \in Entries =>
        /\ replay.key \in DOMAIN pending /\ pending[replay.key] = replay.reading
        /\ replay.stage = "stored" => Point \in DOMAIN history /\ history[Point] = replay.reading
        /\ replay.stage = "conflicting-reading" =>
               Point \in DOMAIN history /\ history[Point] # replay.reading
        /\ replay.stage = "invalid-reading" => replay.reading \in Obsolete

\* The types that the proof needs; that of the connection is not among them.
Shapes ==
    /\ acknowledged \subseteq Messages
    /\ \A h \in handlers :
          /\ h.message \in Messages
          /\ h = [generation |-> h.generation, message |-> h.message, stage |-> h.stage]
    /\ meta \in Metadata /\ metadata \in Metadata
    /\ DOMAIN pending \subseteq Nat /\ pending \in [DOMAIN pending -> Readings]
    /\ DOMAIN quarantine \subseteq Nat
    /\ quarantine \in [DOMAIN quarantine -> [reason : Reasons, reading : Readings]]
    /\ replay \in {Idle} \cup Entries
    /\ history \in [DOMAIN history -> Readings]
    /\ uncertain \subseteq Readings

\* Keys are sequence numbers that were given out, to one entry each.
Accounted ==
    /\ IsFiniteSet(DOMAIN pending) /\ IsFiniteSet(DOMAIN quarantine)
    /\ DOMAIN pending \cap DOMAIN quarantine = {}
    /\ \A k \in DOMAIN pending \cup DOMAIN quarantine : k < metadata.next
    /\ SpoolAccounting
    /\ CapacityIsRespected

\* At most one transaction of unknown outcome holds a point, and the point is free.
HistoryIsWrittenOnce ==
    /\ \A p \in DOMAIN history : PointOf[history[p]] = p
    /\ \A r \in uncertain : PointOf[r] \notin DOMAIN history
    /\ \A r, s \in uncertain : PointOf[r] = PointOf[s] => r = s

\* Whatever was admitted, acknowledged or sent to the database is kept.
AdmittedIsKept ==
    /\ AcknowledgedIsKept
    /\ \A h \in handlers : h.stage = "admitted" => Range(BatchOf[h.message]) \subseteq Kept
    /\ uncertain \subseteq Kept

\* The inductive invariant.
Consistent ==
    /\ Shapes
    /\ Accounted
    /\ ReplayIsCurrent
    /\ HistoryIsWrittenOnce
    /\ AdmittedIsKept
    /\ QuarantineIsJustified

-----------------------------------------------------------------------------
(* Batches, the oldest entry, and the cardinalities of the two queues *)

\* The readings of a publication are a sequence of readings.
LEMMA BatchShape ==
    ASSUME NEW m \in Messages
    PROVE  /\ BatchOf[m] \in Seq(Readings) /\ Len(BatchOf[m]) \in Nat
           /\ DOMAIN BatchOf[m] = 1..Len(BatchOf[m])
           /\ \A i \in 1..Len(BatchOf[m]) : BatchOf[m][i] \in Readings
BY IngestAssumption

\* A queue that is not empty has an oldest entry: peek finds one.
LEMMA OldestIsPending ==
    ASSUME DOMAIN pending \subseteq Nat, DOMAIN pending # {}
    PROVE  Oldest \in DOMAIN pending
<1> DEFINE below == {0..k : k \in DOMAIN pending}
<1>1. below # {} /\ below \subseteq FiniteSubsetsOf(Nat)
  <2>1. \A k \in DOMAIN pending : IsFiniteSet(0..k) /\ 0..k \subseteq Nat
    BY FS_Interval
  <2> QED
    BY <2>1 DEF FiniteSubsetsOf
<1>2. PICK b \in below : \A c \in below : ~(<<c, b>> \in StrictSubsetOrdering(Nat))
  BY <1>1, FS_StrictSubsetOrderingWellFounded, WFMin, Zenon
<1>3. PICK k \in DOMAIN pending : b = 0..k
  OBVIOUS
<1>4. ASSUME NEW j \in DOMAIN pending, j < k PROVE FALSE
  <2>1. 0..j \subseteq 0..k /\ 0..j # 0..k /\ 0..k \subseteq Nat
    <3>1. j \in Nat /\ k \in Nat
      OBVIOUS
    <3>2. k \in 0..k /\ k \notin 0..j
      BY <3>1, <1>4
    <3>3. 0..j \subseteq 0..k /\ 0..k \subseteq Nat
      BY <3>1, <1>4
    <3> QED
      BY <3>2, <3>3
  <2>2. \A S, T : S \subseteq T /\ S # T /\ T \subseteq Nat =>
                     <<S, T>> \in StrictSubsetOrdering(Nat)
    BY DEF StrictSubsetOrdering
  <2>3. <<0..j, 0..k>> \in StrictSubsetOrdering(Nat)
    BY <2>1, <2>2, Zenon
  <2>4. 0..j \in below
    OBVIOUS
  <2> QED
    BY <2>3, <2>4, <1>2, <1>3, Zenon
<1>5. \A j \in DOMAIN pending : k <= j
  BY <1>4
<1> QED
  BY <1>5 DEF Oldest

\* enqueue adds the readings of a publication under new keys and touches no entry.
LEMMA EnqueueAppends ==
    ASSUME NEW m \in Messages, Shapes, Accounted, Ready
    PROVE  LET added == meta.next..(meta.next + Len(BatchOf[m]) - 1) IN
           /\ added \subseteq Nat /\ \A k \in added : k >= metadata.next
           /\ added \cap (DOMAIN pending \cup DOMAIN quarantine) = {}
           /\ DOMAIN WithBatch(m) = DOMAIN pending \cup added
           /\ WithBatch(m) \in [DOMAIN pending \cup added -> Readings]
           /\ \A k \in DOMAIN pending : WithBatch(m)[k] = pending[k]
           /\ Range(WithBatch(m)) = Range(pending) \cup Range(BatchOf[m])
<1> DEFINE added == meta.next..(meta.next + Len(BatchOf[m]) - 1)
<1>1. meta = metadata /\ meta.next \in Nat /\ Len(BatchOf[m]) \in Nat
  BY BatchShape DEF Shapes, Accounted, SpoolAccounting, Metadata
<1>2. added \subseteq Nat /\ \A k \in added : k >= metadata.next
  BY <1>1
<1>3. \A k \in added : k - meta.next + 1 \in 1..Len(BatchOf[m])
  BY <1>1
<1>4. \A k \in DOMAIN pending \cup DOMAIN quarantine : k \in Nat /\ k < metadata.next
  BY DEF Shapes, Accounted
<1>5. added \cap (DOMAIN pending \cup DOMAIN quarantine) = {}
  <2> SUFFICES ASSUME NEW k \in added, k \in DOMAIN pending \cup DOMAIN quarantine
               PROVE  FALSE
    OBVIOUS
  <2>1. k >= metadata.next /\ k < metadata.next /\ k \in Nat /\ metadata.next \in Nat
    BY <1>1, <1>2, <1>4
  <2> QED
    BY <2>1
<1>6. WithBatch(m) = [k \in DOMAIN pending \cup added |->
                         IF k \in added THEN BatchOf[m][k - meta.next + 1] ELSE pending[k]]
  BY DEF WithBatch
<1>7. DOMAIN WithBatch(m) = DOMAIN pending \cup added
  BY <1>6
<1>8. \A k \in DOMAIN pending : WithBatch(m)[k] = pending[k]
  BY <1>5, <1>6
<1>9. \A k \in added : WithBatch(m)[k] = BatchOf[m][k - meta.next + 1]
  BY <1>6
<1>10. WithBatch(m) \in [DOMAIN pending \cup added -> Readings]
  <2>1. \A k \in DOMAIN pending : pending[k] \in Readings
    BY DEF Shapes
  <2>2. \A k \in added : BatchOf[m][k - meta.next + 1] \in Readings
    BY <1>3, BatchShape
  <2> HIDE DEF added
  <2> QED
    BY <2>1, <2>2, <1>6
<1>11. Range(WithBatch(m)) = Range(pending) \cup Range(BatchOf[m])
  <2>1. \A i \in 1..Len(BatchOf[m]) :
            /\ meta.next + i - 1 \in added
            /\ (meta.next + i - 1) - meta.next + 1 = i
    BY <1>1
  <2>2. DOMAIN BatchOf[m] = 1..Len(BatchOf[m])
    BY BatchShape
  <2> HIDE DEF added
  <2>3. \A i \in DOMAIN BatchOf[m] : BatchOf[m][i] \in Range(WithBatch(m))
    <3> TAKE i \in DOMAIN BatchOf[m]
    <3>1. WithBatch(m)[meta.next + i - 1] = BatchOf[m][i]
      BY <2>1, <2>2, <1>9
    <3> QED
      BY <3>1, <2>1, <2>2, <1>7 DEF Range
  <2>4. Range(BatchOf[m]) \subseteq Range(WithBatch(m))
    BY <2>3 DEF Range
  <2>5. Range(pending) \subseteq Range(WithBatch(m))
    BY <1>7, <1>8 DEF Range
  <2>6. \A k \in DOMAIN WithBatch(m) : WithBatch(m)[k] \in Range(pending) \cup Range(BatchOf[m])
    BY <1>3, <1>7, <1>8, <1>9, <2>2 DEF Range
  <2> QED
    BY <2>4, <2>5, <2>6 DEF Range
<1> QED
  BY <1>2, <1>5, <1>7, <1>8, <1>10, <1>11

\* The accounting of a batch is the number of entries it leaves.
LEMMA EnqueueCounts ==
    ASSUME NEW m \in Messages, Shapes, Accounted, Ready
    PROVE  /\ IsFiniteSet(DOMAIN WithBatch(m))
           /\ Cardinality(DOMAIN WithBatch(m)) = Enqueued(m).pending
           /\ Enqueued(m).quarantined = metadata.quarantined
           /\ Enqueued(m) \in Metadata
           /\ Enqueued(m).next = metadata.next + Len(BatchOf[m])
           /\ Enqueued(m).pending = metadata.pending + Len(BatchOf[m])
           /\ \A k \in DOMAIN WithBatch(m) : k < Enqueued(m).next
<1> DEFINE added == meta.next..(meta.next + Len(BatchOf[m]) - 1)
<1>1. meta = metadata /\ meta \in Metadata /\ Len(BatchOf[m]) \in Nat
  BY BatchShape DEF Shapes, Accounted, SpoolAccounting
<1>2. meta.next \in Nat /\ meta.pending \in Nat
  BY <1>1 DEF Metadata
<1>3. DOMAIN WithBatch(m) = DOMAIN pending \cup added /\ added \cap DOMAIN pending = {}
  BY EnqueueAppends
<1>4. IsFiniteSet(added) /\ Cardinality(added) = Len(BatchOf[m])
  <2>1. meta.next \in Int /\ meta.next + Len(BatchOf[m]) - 1 \in Int
    BY <1>1, <1>2
  <2>2. /\ IsFiniteSet(added)
        /\ Cardinality(added) = IF meta.next > meta.next + Len(BatchOf[m]) - 1 THEN 0
                                ELSE (meta.next + Len(BatchOf[m]) - 1) - meta.next + 1
    BY <2>1, FS_Interval, Zenon
  <2> HIDE DEF added
  <2> QED
    BY <1>1, <1>2, <2>2
<1>5. /\ Enqueued(m) \in Metadata
      /\ Enqueued(m).next = metadata.next + Len(BatchOf[m])
      /\ Enqueued(m).pending = metadata.pending + Len(BatchOf[m])
      /\ Enqueued(m).quarantined = metadata.quarantined
  <2>1. meta.next + Len(BatchOf[m]) \in Nat /\ meta.pending + Len(BatchOf[m]) \in Nat
    BY <1>1, <1>2
  <2> DEFINE n == meta.next + Len(BatchOf[m])
             k == meta.pending + Len(BatchOf[m])
  <2>2. Enqueued(m) = [meta EXCEPT !.next = n, !.pending = k]
    BY DEF Enqueued
  <2>3. n \in Nat /\ k \in Nat
    BY <2>1
  <2> HIDE DEF n, k
  <2>4. /\ Enqueued(m) \in Metadata /\ Enqueued(m).next = n
        /\ Enqueued(m).pending = k /\ Enqueued(m).quarantined = meta.quarantined
    BY <2>2, <2>3, <1>1 DEF Metadata
  <2> QED
    BY <2>4, <1>1 DEF n, k
<1>6. \A k \in added : k < metadata.next + Len(BatchOf[m])
  BY <1>1, <1>2
<1>7. \A k \in DOMAIN pending : k < metadata.next + Len(BatchOf[m])
  <2> TAKE k \in DOMAIN pending
  <2>1. k \in Nat /\ k < metadata.next
    BY DEF Shapes, Accounted
  <2> QED
    BY <2>1, <1>1, <1>2
<1> HIDE DEF added
<1>8. IsFiniteSet(DOMAIN pending) /\ Cardinality(DOMAIN pending) = metadata.pending
  BY DEF Accounted, SpoolAccounting
<1>9. Cardinality(added \cap DOMAIN pending) = 0
  BY <1>3, FS_EmptySet
<1>10. /\ IsFiniteSet(DOMAIN pending \cup added)
       /\ Cardinality(DOMAIN pending \cup added)
            = Cardinality(DOMAIN pending) + Cardinality(added)
  <2>1. /\ IsFiniteSet(DOMAIN pending \cup added)
        /\ Cardinality(DOMAIN pending \cup added)
             = Cardinality(DOMAIN pending) + Cardinality(added)
               - Cardinality(DOMAIN pending \cap added)
    BY <1>4, <1>8, FS_Union
  <2>2. DOMAIN pending \cap added = {}
    BY <1>3
  <2>3. Cardinality(DOMAIN pending) \in Nat /\ Cardinality(added) \in Nat
    BY <1>4, <1>8, FS_CardinalityType
  <2> QED
    BY <2>1, <2>2, <2>3, FS_EmptySet
<1> QED
  BY <1>3, <1>4, <1>5, <1>6, <1>7, <1>8, <1>10

\* finish removes one entry; if it is quarantined, it is counted there instead.
LEMMA FinishCounts ==
    ASSUME Shapes, Accounted, ReplayIsCurrent, Ready, Finishes
    PROVE  /\ replay \in Entries
           /\ DOMAIN WithoutEntry = DOMAIN pending \ {replay.key}
           /\ \A k \in DOMAIN WithoutEntry : WithoutEntry[k] = pending[k]
           /\ WithoutEntry \in [DOMAIN WithoutEntry -> Readings]
           /\ IsFiniteSet(DOMAIN WithoutEntry)
           /\ Cardinality(DOMAIN WithoutEntry) = Finished.pending
           /\ Finished \in Metadata /\ Finished.next = metadata.next
           /\ Finished.pending = metadata.pending - 1
           /\ Finished.quarantined = metadata.quarantined + (IF Quarantines THEN 1 ELSE 0)
<1>1. replay \in Entries
  BY DEF Shapes, Finishes, Quarantines, Idle, Reasons
<1>2. replay.key \in DOMAIN pending
  BY <1>1 DEF ReplayIsCurrent
<1>3. WithoutEntry = [k \in DOMAIN pending \ {replay.key} |-> pending[k]]
  BY DEF WithoutEntry
<1>4. WithoutEntry \in [DOMAIN pending \ {replay.key} -> Readings]
  BY <1>3 DEF Shapes
<1>5. /\ IsFiniteSet(DOMAIN pending \ {replay.key})
      /\ Cardinality(DOMAIN pending \ {replay.key}) = Cardinality(DOMAIN pending) - 1
  BY <1>2, FS_RemoveElement DEF Accounted
<1>6. meta = metadata /\ meta \in Metadata /\ Cardinality(DOMAIN pending) = metadata.pending
  BY DEF Shapes, Accounted, SpoolAccounting
<1>7. metadata.pending \in Nat /\ metadata.pending # 0
  <2>1. Cardinality(DOMAIN pending) # 0
    BY <1>2, FS_EmptySet DEF Accounted
  <2> QED
    BY <2>1, <1>6 DEF Metadata
<1> DEFINE n == meta.pending - 1
           k == meta.quarantined + (IF Quarantines THEN 1 ELSE 0)
<1>8. Finished = [meta EXCEPT !.pending = n, !.quarantined = k]
  BY DEF Finished
<1>9. n \in Nat
  BY <1>6, <1>7
<1>10. k \in Nat
  BY <1>6 DEF Metadata
<1>11. n = metadata.pending - 1
       /\ k = metadata.quarantined + (IF Quarantines THEN 1 ELSE 0)
  BY <1>6
<1> HIDE DEF n, k
<1>12. /\ Finished \in Metadata /\ Finished.next = meta.next
       /\ Finished.pending = n /\ Finished.quarantined = k
  BY <1>6, <1>8, <1>9, <1>10 DEF Metadata
<1> QED
  BY <1>1, <1>3, <1>4, <1>5, <1>6, <1>11, <1>12

\* What finish leaves in quarantine.
LEMMA FinishPreserves ==
    ASSUME Shapes, Accounted, ReplayIsCurrent, Ready, Finishes
    PROVE  /\ DOMAIN WithQuarantined \subseteq Nat
           /\ WithQuarantined \in [DOMAIN WithQuarantined -> [reason : Reasons, reading : Readings]]
           /\ DOMAIN WithQuarantined \subseteq DOMAIN quarantine \cup {replay.key}
           /\ DOMAIN quarantine \subseteq DOMAIN WithQuarantined
           /\ Quarantines => replay.key \in DOMAIN WithQuarantined
                             /\ WithQuarantined[replay.key] = Preserved
           /\ ~Quarantines => WithQuarantined = quarantine
           /\ \A k \in DOMAIN quarantine : WithQuarantined[k] = quarantine[k]
           /\ IsFiniteSet(DOMAIN WithQuarantined)
           /\ Cardinality(DOMAIN WithQuarantined)
                = metadata.quarantined + (IF Quarantines THEN 1 ELSE 0)
<1>1. replay \in Entries /\ replay.key \in DOMAIN pending
  BY FinishCounts DEF ReplayIsCurrent
<1>2. replay.key \notin DOMAIN quarantine /\ replay.key \in Nat
  BY <1>1 DEF Accounted, Shapes
<1>3. /\ IsFiniteSet(DOMAIN quarantine) /\ Cardinality(DOMAIN quarantine) = metadata.quarantined
      /\ metadata.quarantined \in Nat
  BY DEF Accounted, SpoolAccounting, Shapes, Metadata
<1>4. CASE ~Quarantines
  <2>1. WithQuarantined = quarantine
    BY <1>4 DEF WithQuarantined
  <2> QED
    BY <2>1, <1>3, <1>4 DEF Shapes
<1>5. CASE Quarantines
  <2>1. WithQuarantined = [k \in DOMAIN quarantine \cup {replay.key} |->
                              IF k = replay.key THEN Preserved ELSE quarantine[k]]
    BY <1>5 DEF WithQuarantined
  <2>2. Preserved \in [reason : Reasons, reading : Readings]
    <3>1. replay.stage \in Reasons /\ replay.reading \in Readings
      BY <1>1, <1>5 DEF Entries, Quarantines
    <3> QED
      BY <3>1 DEF Preserved
  <2>3. DOMAIN WithQuarantined = DOMAIN quarantine \cup {replay.key}
    BY <2>1
  <2>4. /\ IsFiniteSet(DOMAIN quarantine \cup {replay.key})
        /\ Cardinality(DOMAIN quarantine \cup {replay.key}) = Cardinality(DOMAIN quarantine) + 1
    BY <1>2, <1>3, FS_AddElement
  <2>5. /\ WithQuarantined[replay.key] = Preserved
        /\ \A k \in DOMAIN quarantine : WithQuarantined[k] = quarantine[k]
    BY <1>2, <2>1
  <2>6. WithQuarantined \in [DOMAIN quarantine \cup {replay.key}
                                -> [reason : Reasons, reading : Readings]]
    BY <2>1, <2>2 DEF Shapes
  <2> QED
    BY <1>2, <1>3, <1>5, <2>3, <2>4, <2>5, <2>6 DEF Shapes
<1> QED
  BY <1>4, <1>5

-----------------------------------------------------------------------------
(* What a step can do to the disk, to history and to the replay *)

\* A batch reaches the disk, and memory too unless its write is not confirmed.
DiskBecomes(m, p, q) ==
    /\ Write(m, p, q)
    /\ meta' = m \/ (UNCHANGED meta /\ ~Ready')

\* A publication is admitted, or may have been when its write failed.
Enqueues(m) ==
    /\ Ready /\ Fits(Len(BatchOf[m]))
    /\ DiskBecomes(Enqueued(m), WithBatch(m), quarantine)

\* finish reaches the disk.
Removes ==
    /\ Ready /\ Finishes
    /\ DiskBecomes(Finished, WithoutEntry, WithQuarantined)
    /\ replay' = Idle

\* The disk changes by whole batches only, and a spool that goes on has the
\* accounting of the disk in memory.
LEMMA DiskStep ==
    ASSUME [Next]_vars, Shapes
    PROVE  \/ UNCHANGED disk /\ (meta' = metadata \/ (UNCHANGED meta /\ (Ready' => Ready)))
           \/ \E m \in Messages : Enqueues(m)
           \/ Removes
<1>1. CASE UNCHANGED vars
  BY <1>1 DEF vars, disk, Ready
<1>2. ASSUME NEW m \in Messages, Publish(m) \/ Deliver(m)
      PROVE  UNCHANGED <<meta, disk, running, poisoned>>
  BY <1>2 DEF Publish, Deliver, disk
<1>3. CASE Reconnect \/ Disconnect
  BY <1>3 DEF Reconnect, Disconnect, disk, Ready
<1>4. ASSUME NEW h \in handlers, Handle(h)
      PROVE  \/ UNCHANGED <<meta, disk, running, poisoned>>
             \/ UNCHANGED <<meta, disk>> /\ ~Ready'
             \/ \E m \in Messages : Enqueues(m)
  <2>1. CASE Ignore(h) \/ Refuse(h) \/ Acknowledge(h) \/ Pause(h) \/ DropStale(h)
    BY <2>1 DEF Ignore, Refuse, Acknowledge, Pause, DropStale, disk
  <2>2. CASE Admit(h)
    BY <2>2, <1>4 DEF Admit, Admissible, Commit, Enqueues, DiskBecomes, Shapes
  <2>3. CASE AdmitFails(h)
    BY <2>3, <1>4
       DEF AdmitFails, Admissible, CommitFails, Freeze, Enqueues, DiskBecomes, Shapes, Ready
  <2> QED
    BY <2>1, <2>2, <2>3, <1>4 DEF Handle
<1>5. CASE ReplayStep
  <2>1. CASE Peek \/ Store \/ Compare \/ StoreFails \/ FinishRefused
    BY <2>1 DEF Peek, Store, Compare, StoreFails, FinishRefused, disk, Ready
  <2>2. CASE Finish
    <3>1. Ready
      BY <2>2 DEF Finish, Finishes, Ready
    <3>2. Finishes
      BY <2>2 DEF Finish
    <3>3. CASE Commit(Finished, WithoutEntry, WithQuarantined)
      BY <2>2, <3>1, <3>2, <3>3 DEF Finish, Commit, Removes, DiskBecomes
    <3>4. CASE CommitFails(Finished, WithoutEntry, WithQuarantined)
      BY <2>2, <3>1, <3>2, <3>4 DEF Finish, CommitFails, Freeze, Removes, DiskBecomes, Ready
    <3> QED
      BY <2>2, <3>3, <3>4 DEF Finish
  <2> QED
    BY <1>5, <2>1, <2>2 DEF ReplayStep
<1>6. ASSUME NEW r \in uncertain, Settle(r)
      PROVE  UNCHANGED <<meta, disk, running, poisoned>>
  BY <1>6 DEF Settle, disk
<1>7. CASE Crash \/ StopPoisoned
  BY <1>7 DEF Crash, StopPoisoned, Stop, disk, Ready
<1>8. CASE Restart
  BY <1>8 DEF Restart, disk, Ready
<1>9. ASSUME UNCHANGED <<meta, disk, running, poisoned>>
      PROVE  UNCHANGED disk /\ (meta' = metadata \/ (UNCHANGED meta /\ (Ready' => Ready)))
  BY <1>9 DEF disk, Ready
<1> QED
  BY <1>1, <1>2, <1>3, <1>4, <1>5, <1>6, <1>7, <1>8, <1>9 DEF Next

\* History takes the reading of the replay, or one whose transaction is settled.
Stores ==
    /\ Inserts /\ Point \notin DOMAIN history
    /\ history' = Recorded(replay.reading) /\ UNCHANGED uncertain

\* The server may still apply a COMMIT whose client is gone.
LeavesInFlight ==
    /\ Inserts /\ Point \notin DOMAIN history
    /\ uncertain' = uncertain \cup {replay.reading} /\ UNCHANGED history

Settles(r) ==
    /\ uncertain' = uncertain \ {r}
    /\ history' = Recorded(r) \/ UNCHANGED history

\* History and the transactions in flight change in these ways only.
LEMMA HistoryStep ==
    ASSUME [Next]_vars
    PROVE  \/ UNCHANGED database
           \/ Stores /\ Store
           \/ LeavesInFlight /\ UNCHANGED disk
           \/ \E r \in uncertain : Settles(r) /\ Settle(r)
<1>1. CASE UNCHANGED vars
  BY <1>1 DEF vars
<1>2. ASSUME NEW m \in Messages, Publish(m) \/ Deliver(m)
      PROVE  UNCHANGED database
  BY <1>2 DEF Publish, Deliver
<1>3. CASE Reconnect \/ Disconnect \/ Restart
  BY <1>3 DEF Reconnect, Disconnect, Restart
<1>4. ASSUME NEW h \in handlers, Handle(h)
      PROVE  UNCHANGED database
  BY <1>4 DEF Handle, Ignore, Refuse, Acknowledge, Pause, DropStale, Admit, AdmitFails
<1>5. CASE Peek \/ Compare \/ Finish \/ FinishRefused
  BY <1>5 DEF Peek, Compare, Finish, FinishRefused
<1>6. CASE Store
  BY <1>6 DEF Store, Stores
<1>7. CASE StoreFails
  BY <1>7 DEF StoreFails, InFlight, LeavesInFlight, database
<1>8. CASE Crash \/ StopPoisoned
  BY <1>8 DEF Crash, StopPoisoned, Stop, InFlight, LeavesInFlight, database
<1>9. ASSUME NEW r \in uncertain, Settle(r)
      PROVE  Settles(r)
  BY <1>9 DEF Settle, Settles
<1> QED
  BY <1>1, <1>2, <1>3, <1>4, <1>5, <1>6, <1>7, <1>8, <1>9 DEF Next, ReplayStep

\* The replay goes on, starts with the oldest entry, or is given up.
LEMMA ReplayChange ==
    ASSUME [Next]_vars
    PROVE  replay' = Idle \/ UNCHANGED replay \/ Peek \/ Store \/ Compare
<1>1. CASE UNCHANGED vars
  BY <1>1 DEF vars
<1>2. ASSUME NEW m \in Messages, Publish(m) \/ Deliver(m)
      PROVE  UNCHANGED replay
  BY <1>2 DEF Publish, Deliver
<1>3. CASE Reconnect \/ Disconnect \/ Restart
  BY <1>3 DEF Reconnect, Disconnect, Restart
<1>4. ASSUME NEW h \in handlers, Handle(h)
      PROVE  UNCHANGED replay
  BY <1>4 DEF Handle, Ignore, Refuse, Acknowledge, Pause, DropStale, Admit, AdmitFails
<1>5. CASE StoreFails \/ Finish \/ FinishRefused
  BY <1>5 DEF StoreFails, AfterFailure, Finish, FinishRefused
<1>6. CASE Crash \/ StopPoisoned
  BY <1>6 DEF Crash, StopPoisoned, Stop
<1>7. ASSUME NEW r \in uncertain, Settle(r)
      PROVE  UNCHANGED replay
  BY <1>7 DEF Settle
<1> QED
  BY <1>1, <1>2, <1>3, <1>4, <1>5, <1>6, <1>7 DEF Next, ReplayStep

-----------------------------------------------------------------------------
(* Nothing that is kept is lost *)

\* History is append-only: a stored reading is never replaced.
LEMMA HistoryGrows ==
    ASSUME [Next]_vars, HistoryIsWrittenOnce
    PROVE  \A p \in DOMAIN history : p \in DOMAIN history' /\ history'[p] = history[p]
<1>1. ASSUME NEW r, PointOf[r] \notin DOMAIN history, history' = Recorded(r)
      PROVE  \A p \in DOMAIN history : p \in DOMAIN history' /\ history'[p] = history[p]
  BY <1>1 DEF Recorded
<1>2. CASE UNCHANGED history
  BY <1>2
<1>3. CASE Stores
  BY <1>1, <1>3 DEF Stores, Point
<1>4. ASSUME NEW r \in uncertain, Settles(r)
      PROVE  \A p \in DOMAIN history : p \in DOMAIN history' /\ history'[p] = history[p]
  BY <1>1, <1>2, <1>4 DEF Settles, HistoryIsWrittenOnce
<1> QED
  BY <1>2, <1>3, <1>4, HistoryStep DEF database, LeavesInFlight

\* Quarantine is append-only.
LEMMA QuarantineGrows ==
    ASSUME [Next]_vars, Shapes, Accounted, ReplayIsCurrent
    PROVE  \A k \in DOMAIN quarantine : k \in DOMAIN quarantine' /\ quarantine'[k] = quarantine[k]
<1>1. CASE UNCHANGED disk
  BY <1>1 DEF disk
<1>2. ASSUME NEW m \in Messages, Enqueues(m)
      PROVE  UNCHANGED quarantine
  BY <1>2 DEF Enqueues, DiskBecomes, Write
<1>3. CASE Removes
  BY <1>3, FinishPreserves DEF Removes, DiskBecomes, Write
<1> QED
  BY <1>1, <1>2, <1>3, DiskStep

\* A reading leaves the spool only for quarantine or when history has it.
LEMMA KeptGrows ==
    ASSUME [Next]_vars, Shapes, Accounted, ReplayIsCurrent, HistoryIsWrittenOnce
    PROVE  Kept \subseteq Kept'
<1>1. Range(history) \subseteq Range(history)'
  BY HistoryGrows DEF Range
<1>2. Quarantined \subseteq Quarantined'
  BY QuarantineGrows DEF Quarantined
<1>3. ASSUME NEW k \in DOMAIN pending
      PROVE  pending[k] \in Kept'
  <2>1. CASE UNCHANGED disk
    BY <2>1 DEF disk, Range, Kept
  <2>2. ASSUME NEW m \in Messages, Enqueues(m)
        PROVE  pending[k] \in Kept'
    <3>1. pending[k] \in Range(WithBatch(m))
      BY <2>2, EnqueueAppends DEF Enqueues, Range
    <3> QED
      BY <2>2, <3>1 DEF Enqueues, DiskBecomes, Write, Kept
  <2>3. CASE Removes
    <3>1. pending' = WithoutEntry /\ quarantine' = WithQuarantined
      BY <2>3 DEF Removes, DiskBecomes, Write
    <3>2. Ready /\ Finishes
      BY <2>3 DEF Removes
    <3>3. CASE k # replay.key
      BY <3>1, <3>2, <3>3, FinishCounts DEF Range, Kept
    <3>4. CASE k = replay.key /\ Quarantines
      <4>1. WithQuarantined[k].reading = pending[k] /\ k \in DOMAIN WithQuarantined
        BY <3>2, <3>4, FinishCounts, FinishPreserves DEF Preserved, ReplayIsCurrent
      <4> QED
        BY <3>1, <4>1 DEF Kept, Quarantined
    <3>5. CASE k = replay.key /\ ~Quarantines
      <4>1. replay \in Entries /\ replay.stage = "stored"
        BY <3>2, <3>5, FinishCounts DEF Finishes
      <4>2. Point \in DOMAIN history /\ history[Point] = pending[k]
        BY <3>5, <4>1 DEF ReplayIsCurrent
      <4> QED
        BY <1>1, <4>2 DEF Range, Kept
    <3> QED
      BY <3>3, <3>4, <3>5
  <2> QED
    BY <2>1, <2>2, <2>3, DiskStep
<1> QED
  BY <1>1, <1>2, <1>3 DEF Kept, Range

-----------------------------------------------------------------------------
(* Every part of the invariant is preserved *)

\* The calls of handleMessage keep their form, and an admitted one has its
\* readings in the spool.
LEMMA CallsStep ==
    ASSUME [Next]_vars, Shapes, Accounted, ReplayIsCurrent, HistoryIsWrittenOnce, AdmittedIsKept
    PROVE  /\ \A h \in handlers' :
                 /\ h.message \in Messages
                 /\ h = [generation |-> h.generation, message |-> h.message, stage |-> h.stage]
                 /\ h.stage = "admitted" => Range(BatchOf[h.message]) \subseteq Kept'
           /\ acknowledged' \subseteq Messages
           /\ \A m \in acknowledged' : Range(BatchOf[m]) \subseteq Kept'
<1> DEFINE Fine(h) ==
      /\ h.message \in Messages
      /\ h = [generation |-> h.generation, message |-> h.message, stage |-> h.stage]
      /\ h.stage = "admitted" => Range(BatchOf[h.message]) \subseteq Kept'
    Acked == /\ acknowledged' \subseteq Messages
             /\ \A m \in acknowledged' : Range(BatchOf[m]) \subseteq Kept'
<1> SUFFICES (\A h \in handlers' : Fine(h)) /\ Acked
  OBVIOUS
<1>1. \A h \in handlers : Fine(h)
  BY KeptGrows DEF Shapes, AdmittedIsKept
<1>2. UNCHANGED acknowledged => Acked
  BY KeptGrows DEF Shapes, AdmittedIsKept, AcknowledgedIsKept
<1>3. ASSUME NEW h \in handlers, NEW stage, Moves(h, stage), UNCHANGED acknowledged,
             stage = "admitted" => Range(BatchOf[h.message]) \subseteq Kept'
      PROVE  (\A g \in handlers' : Fine(g)) /\ Acked
  <2> DEFINE moved == [h EXCEPT !.stage = stage]
  <2>1. Fine(h)
    BY <1>1
  <2>2. moved = [generation |-> h.generation, message |-> h.message, stage |-> stage]
    BY <2>1
  <2>3. Fine(moved)
    BY <1>3, <2>1, <2>2
  <2>4. handlers' \subseteq handlers \cup {moved}
    BY <1>3 DEF Moves
  <2> HIDE DEF moved, Fine, Acked
  <2> QED
    BY <1>1, <1>2, <1>3, <2>3, <2>4
<1>4. CASE handlers' \subseteq handlers /\ UNCHANGED acknowledged
  BY <1>1, <1>2, <1>4
<1>5. CASE UNCHANGED vars
  BY <1>4, <1>5 DEF vars, broker
<1>6. ASSUME NEW m \in Messages, Publish(m)
      PROVE  handlers' \subseteq handlers /\ UNCHANGED acknowledged
  BY <1>6 DEF Publish
<1>7. ASSUME NEW m \in Messages, Deliver(m)
      PROVE  (\A h \in handlers' : Fine(h)) /\ Acked
  <2> DEFINE call == [generation |-> generation, message |-> m, stage |-> "waiting"]
  <2>1. handlers' = handlers \cup {call} /\ UNCHANGED acknowledged
    BY <1>7 DEF Deliver, broker
  <2>2. Fine(call)
    OBVIOUS
  <2> HIDE DEF call, Fine, Acked
  <2> QED
    BY <1>1, <1>2, <2>1, <2>2
<1>8. CASE Reconnect \/ Disconnect \/ Restart
  BY <1>4, <1>8 DEF Reconnect, Disconnect, Restart, broker
<1>9. ASSUME NEW h \in handlers, Handle(h)
      PROVE  (\A g \in handlers' : Fine(g)) /\ Acked
  <2> HIDE DEF Fine, Acked
  <2>1. CASE Ignore(h)
    <3>1. Range(BatchOf[h.message]) = {}
      BY <2>1 DEF Ignore, Range
    <3> QED
      BY <2>1, <3>1, <1>3 DEF Ignore, broker
  <2>2. CASE Admit(h)
    <3>1. h.message \in Messages /\ Ready
      BY <2>2 DEF Shapes, Admit, Admissible
    <3>2. pending' = WithBatch(h.message)
      BY <2>2 DEF Admit, Commit, Write
    <3>3. Range(BatchOf[h.message]) \subseteq Kept'
      BY <3>1, <3>2, EnqueueAppends DEF Kept
    <3> QED
      BY <2>2, <3>3, <1>3 DEF Admit, broker
  <2>3. CASE AdmitFails(h)
    BY <2>3, <1>3 DEF AdmitFails, broker
  <2>4. CASE Refuse(h)
    BY <2>4, <1>3 DEF Refuse, broker
  <2>5. CASE Acknowledge(h)
    <3>1. h.message \in Messages /\ Range(BatchOf[h.message]) \subseteq Kept'
      BY <2>5, <1>1 DEF Acknowledge, Acknowledges, Fine
    <3>2. handlers' \subseteq handlers /\ acknowledged' = acknowledged \cup {h.message}
      BY <2>5 DEF Acknowledge
    <3>3. Acked
      BY <3>1, <3>2, KeptGrows DEF Acked, Shapes, AdmittedIsKept, AcknowledgedIsKept
    <3> QED
      BY <1>1, <3>2, <3>3
  <2>6. CASE Pause(h) \/ DropStale(h)
    <3>1. handlers' \subseteq handlers /\ UNCHANGED acknowledged
      BY <2>6 DEF Pause, DropStale, broker
    <3> QED
      BY <3>1, <1>4, Zenon
  <2> QED
    BY <1>9, <2>1, <2>2, <2>3, <2>4, <2>5, <2>6 DEF Handle
<1>10. CASE ReplayStep
  BY <1>10, <1>4 DEF ReplayStep, Peek, Store, Compare, StoreFails, Finish, FinishRefused, broker
<1>11. ASSUME NEW r \in uncertain, Settle(r)
       PROVE  handlers' \subseteq handlers /\ UNCHANGED acknowledged
  BY <1>11 DEF Settle, broker
<1>12. CASE Crash \/ StopPoisoned
  BY <1>12, <1>4 DEF Crash, StopPoisoned, Stop, broker
<1> HIDE DEF Fine, Acked
<1>13. ASSUME NEW m \in Messages, Publish(m) \/ Deliver(m)
       PROVE  (\A h \in handlers' : Fine(h)) /\ Acked
  BY <1>4, <1>6, <1>7, <1>13, Zenon
<1>14. ASSUME NEW r \in uncertain, Settle(r)
       PROVE  (\A h \in handlers' : Fine(h)) /\ Acked
  BY <1>4, <1>11, <1>14, Zenon
<1> QED
  BY <1>5, <1>8, <1>9, <1>10, <1>12, <1>13, <1>14, Zenon DEF Next

\* Accounting, keys and capacity.
LEMMA AccountedStep ==
    ASSUME [Next]_vars, Shapes, Accounted, ReplayIsCurrent
    PROVE  /\ Accounted'
           /\ meta' \in Metadata /\ metadata' \in Metadata
           /\ DOMAIN pending' \subseteq Nat /\ pending' \in [DOMAIN pending' -> Readings]
           /\ DOMAIN quarantine' \subseteq Nat
           /\ quarantine' \in [DOMAIN quarantine' -> [reason : Reasons, reading : Readings]]
<1>1. CASE UNCHANGED disk /\ (meta' = metadata \/ (UNCHANGED meta /\ (Ready' => Ready)))
  BY <1>1 DEF disk, Shapes, Accounted, SpoolAccounting, CapacityIsRespected
<1>2. ASSUME NEW m \in Messages, Enqueues(m)
      PROVE  /\ Accounted'
             /\ meta' \in Metadata /\ metadata' \in Metadata
             /\ DOMAIN pending' \subseteq Nat /\ pending' \in [DOMAIN pending' -> Readings]
             /\ UNCHANGED quarantine
  <2>1. /\ metadata' = Enqueued(m) /\ pending' = WithBatch(m) /\ quarantine' = quarantine
        /\ meta' = metadata' \/ (UNCHANGED meta /\ ~Ready')
    BY <1>2 DEF Enqueues, DiskBecomes, Write
  <2>2. Ready /\ Fits(Len(BatchOf[m]))
    BY <1>2 DEF Enqueues
  <2>3. meta = metadata
    BY <2>2 DEF Accounted, SpoolAccounting
  <2>4. /\ metadata.next \in Nat /\ metadata.pending \in Nat /\ metadata.quarantined \in Nat
        /\ Len(BatchOf[m]) \in Nat
    BY BatchShape DEF Shapes, Metadata
  <2>5. SpoolAccounting'
    BY <2>1, <2>2, EnqueueCounts DEF Accounted, SpoolAccounting
  <2>6. CapacityIsRespected'
    <3>1. metadata.pending + metadata.quarantined + Len(BatchOf[m]) <= MaxPendingWrites
      BY <2>2, <2>3 DEF Fits
    <3>2. /\ Cardinality(DOMAIN pending') = metadata.pending + Len(BatchOf[m])
          /\ Cardinality(DOMAIN quarantine') = metadata.quarantined
      BY <2>1, <2>2, EnqueueCounts DEF Accounted, SpoolAccounting
    <3>3. metadata.pending + Len(BatchOf[m]) + metadata.quarantined <= MaxPendingWrites
      BY <3>1, <2>4, IngestAssumption
    <3> QED
      BY <3>2, <3>3 DEF CapacityIsRespected
  <2>7. \A k \in DOMAIN pending' \cup DOMAIN quarantine' : k < metadata'.next
    <3>1. \A k \in DOMAIN pending' : k < metadata'.next
      BY <2>1, <2>2, EnqueueCounts
    <3>2. \A k \in DOMAIN quarantine : k < metadata.next + Len(BatchOf[m])
      <4> TAKE k \in DOMAIN quarantine
      <4>1. k \in Nat /\ k < metadata.next
        BY DEF Accounted, Shapes
      <4> QED
        BY <4>1, <2>4
    <3>3. metadata'.next = metadata.next + Len(BatchOf[m])
      BY <2>1, <2>2, EnqueueCounts
    <3> QED
      BY <2>1, <3>1, <3>2, <3>3
  <2>8. DOMAIN pending' \cap DOMAIN quarantine' = {}
    BY <2>1, <2>2, EnqueueAppends DEF Accounted
  <2>9. IsFiniteSet(DOMAIN pending') /\ IsFiniteSet(DOMAIN quarantine')
    BY <2>1, <2>2, EnqueueCounts DEF Accounted
  <2>10. DOMAIN pending' \subseteq Nat /\ pending' \in [DOMAIN pending' -> Readings]
    BY <2>1, <2>2, EnqueueAppends DEF Shapes
  <2>11. meta' \in Metadata /\ metadata' \in Metadata
    BY <2>1, <2>2, EnqueueCounts DEF Shapes
  <2> QED
    BY <2>1, <2>5, <2>6, <2>7, <2>8, <2>9, <2>10, <2>11 DEF Accounted
<1>3. CASE Removes
  <2>1. /\ metadata' = Finished /\ pending' = WithoutEntry /\ quarantine' = WithQuarantined
        /\ meta' = metadata' \/ (UNCHANGED meta /\ ~Ready')
    BY <1>3 DEF Removes, DiskBecomes, Write
  <2>2. Ready /\ Finishes
    BY <1>3 DEF Removes
  <2>3. /\ metadata.next \in Nat /\ metadata.pending \in Nat /\ metadata.quarantined \in Nat
        /\ Cardinality(DOMAIN pending) = metadata.pending
        /\ Cardinality(DOMAIN quarantine) = metadata.quarantined
    BY DEF Shapes, Metadata, Accounted, SpoolAccounting
  <2>4. /\ Cardinality(DOMAIN pending') = Finished.pending
        /\ Cardinality(DOMAIN quarantine') = Finished.quarantined
    BY <2>1, <2>2, FinishCounts, FinishPreserves
  <2>5. SpoolAccounting'
    BY <2>1, <2>4 DEF SpoolAccounting
  <2>6. CapacityIsRespected'
    <3>1. metadata.pending + metadata.quarantined <= MaxPendingWrites
      BY <2>3 DEF Accounted, CapacityIsRespected
    <3>2. /\ Cardinality(DOMAIN pending') = metadata.pending - 1
          /\ Cardinality(DOMAIN quarantine')
               = metadata.quarantined + (IF Quarantines THEN 1 ELSE 0)
      BY <2>2, <2>4, FinishCounts
    <3>3. (metadata.pending - 1) + (metadata.quarantined + (IF Quarantines THEN 1 ELSE 0))
             <= MaxPendingWrites
      BY <2>3, <3>1, IngestAssumption
    <3> QED
      BY <3>2, <3>3 DEF CapacityIsRespected
  <2>7. /\ replay.key \in DOMAIN pending /\ DOMAIN pending' = DOMAIN pending \ {replay.key}
        /\ DOMAIN quarantine' \subseteq DOMAIN quarantine \cup {replay.key}
        /\ metadata'.next = metadata.next
    BY <2>1, <2>2, FinishCounts, FinishPreserves DEF ReplayIsCurrent
  <2>8. /\ \A k \in DOMAIN pending' \cup DOMAIN quarantine' : k < metadata'.next
        /\ DOMAIN pending' \cap DOMAIN quarantine' = {}
    BY <2>7 DEF Accounted
  <2>9. IsFiniteSet(DOMAIN pending') /\ IsFiniteSet(DOMAIN quarantine')
    BY <2>1, <2>2, FinishCounts, FinishPreserves
  <2>10. /\ meta' \in Metadata /\ metadata' \in Metadata
         /\ DOMAIN pending' \subseteq Nat /\ pending' \in [DOMAIN pending' -> Readings]
         /\ DOMAIN quarantine' \subseteq Nat
         /\ quarantine' \in [DOMAIN quarantine' -> [reason : Reasons, reading : Readings]]
    BY <2>1, <2>2, <2>7, FinishCounts, FinishPreserves DEF Shapes
  <2> QED
    BY <2>5, <2>6, <2>8, <2>9, <2>10 DEF Accounted
<1>4. UNCHANGED quarantine =>
        /\ DOMAIN quarantine' \subseteq Nat
        /\ quarantine' \in [DOMAIN quarantine' -> [reason : Reasons, reading : Readings]]
  BY DEF Shapes
<1> QED
  BY <1>1, <1>2, <1>3, <1>4, DiskStep

\* The replay stays on an entry of the spool and what it knows of history stays true.
LEMMA ReplayStaysCurrent ==
    ASSUME [Next]_vars, Shapes, Accounted, ReplayIsCurrent, HistoryIsWrittenOnce
    PROVE  ReplayIsCurrent' /\ replay' \in {Idle} \cup Entries
<1>1. CASE replay' = Idle
  BY <1>1 DEF ReplayIsCurrent, Entries, Idle, Reasons
<1>2. CASE UNCHANGED replay /\ replay # Idle
  <2>1. replay \in Entries
    BY <1>2 DEF Shapes
  <2>2. UNCHANGED Point /\ UNCHANGED replay
    BY <1>2 DEF Point
  <2>3. replay.key \in DOMAIN pending' /\ pending'[replay.key] = pending[replay.key]
    <3>1. replay.key \in DOMAIN pending
      BY <2>1 DEF ReplayIsCurrent
    <3>2. ~Removes
      BY <1>2 DEF Removes
    <3>3. CASE UNCHANGED disk
      BY <3>1, <3>3 DEF disk
    <3>4. ASSUME NEW m \in Messages, Enqueues(m)
          PROVE  replay.key \in DOMAIN pending' /\ pending'[replay.key] = pending[replay.key]
      BY <3>1, <3>4, EnqueueAppends DEF Enqueues, DiskBecomes, Write
    <3> QED
      BY <3>2, <3>3, <3>4, DiskStep
  <2> QED
    BY <2>1, <2>2, <2>3, HistoryGrows DEF ReplayIsCurrent
<1>3. CASE Peek
  <2>1. DOMAIN pending # {}
    <3>1. Cardinality(DOMAIN pending) # 0
      BY <1>3 DEF Peek, Accounted, SpoolAccounting
    <3> QED
      BY <3>1, FS_EmptySet
  <2>2. Oldest \in DOMAIN pending
    BY <2>1, OldestIsPending DEF Shapes
  <2>3. pending[Oldest] \in Readings /\ Oldest \in Nat
    BY <2>2 DEF Shapes
  <2>4. /\ replay' = [stage |-> IF pending[Oldest] \in Obsolete THEN "invalid-reading" ELSE "read",
                      key |-> Oldest, reading |-> pending[Oldest]]
        /\ UNCHANGED pending
    BY <1>3 DEF Peek, disk
  <2> QED
    BY <2>2, <2>3, <2>4 DEF ReplayIsCurrent, Entries, Reasons
<1>4. CASE Store
  <2>1. /\ replay.stage = "read" /\ replay' = [replay EXCEPT !.stage = "stored"]
        /\ history' = Recorded(replay.reading) /\ UNCHANGED pending
    BY <1>4 DEF Store, Inserts, disk
  <2>2. replay \in Entries
    BY <2>1 DEF Shapes, Idle
  <2>3. /\ replay' \in Entries /\ replay'.stage = "stored"
        /\ replay'.key = replay.key /\ replay'.reading = replay.reading
    BY <2>1, <2>2 DEF Entries
  <2>4. Point' \in DOMAIN history' /\ history'[Point'] = replay'.reading
    BY <2>1, <2>3 DEF Point, Recorded
  <2> QED
    BY <2>1, <2>2, <2>3, <2>4 DEF ReplayIsCurrent
<1>5. CASE Compare
  <2>1. /\ replay.stage = "read" /\ replay' = [replay EXCEPT !.stage = Resolution]
        /\ Point \in DOMAIN history /\ UNCHANGED <<pending, history>>
    BY <1>5 DEF Compare, Inserts, disk, database
  <2>2. replay \in Entries
    BY <2>1 DEF Shapes, Idle
  <2>3. /\ replay' \in Entries /\ replay'.stage = Resolution
        /\ replay'.key = replay.key /\ replay'.reading = replay.reading
    BY <2>1, <2>2 DEF Entries, Resolution, Reasons
  <2>4. Point' = Point
    BY <2>3 DEF Point
  <2>5. /\ replay'.stage \in {"stored", "conflicting-reading"}
        /\ replay'.stage = "stored" => history[Point] = replay.reading
        /\ replay'.stage = "conflicting-reading" => history[Point] # replay.reading
    BY <2>3 DEF Resolution
  <2> QED
    BY <2>1, <2>2, <2>3, <2>4, <2>5 DEF ReplayIsCurrent
<1> QED
  BY <1>1, <1>2, <1>3, <1>4, <1>5, ReplayChange

\* A point is written once, and a transaction in flight has its reading kept.
LEMMA HistoryStaysWrittenOnce ==
    ASSUME [Next]_vars, Shapes, Accounted, ReplayIsCurrent, HistoryIsWrittenOnce, AdmittedIsKept
    PROVE  /\ HistoryIsWrittenOnce' /\ history' \in [DOMAIN history' -> Readings]
           /\ uncertain' \subseteq Readings /\ uncertain' \subseteq Kept'
<1>1. Inserts => replay \in Entries /\ replay.reading \in Readings /\ replay.reading \in Kept
  BY DEF Inserts, Shapes, Idle, Entries, ReplayIsCurrent, Kept, Range
<1>2. uncertain \subseteq Kept'
  BY KeptGrows DEF AdmittedIsKept
<1>3. ASSUME NEW r \in Readings, PointOf[r] \notin DOMAIN history, history' = Recorded(r)
      PROVE  /\ history' \in [DOMAIN history' -> Readings]
             /\ DOMAIN history' = DOMAIN history \cup {PointOf[r]}
             /\ \A p \in DOMAIN history' : PointOf[history'[p]] = p
  BY <1>3 DEF Recorded, Shapes, HistoryIsWrittenOnce
<1>4. CASE UNCHANGED database
  BY <1>2, <1>4 DEF database, HistoryIsWrittenOnce, Shapes
<1>5. CASE Stores
  <2>1. /\ replay.reading \in Readings /\ PointOf[replay.reading] \notin DOMAIN history
        /\ history' = Recorded(replay.reading) /\ UNCHANGED uncertain
        /\ \A r \in uncertain : PointOf[r] # PointOf[replay.reading]
    BY <1>1, <1>5 DEF Stores, Inserts, Point
  <2>2. /\ history' \in [DOMAIN history' -> Readings]
        /\ DOMAIN history' = DOMAIN history \cup {PointOf[replay.reading]}
        /\ \A p \in DOMAIN history' : PointOf[history'[p]] = p
    BY <1>3, <2>1, Zenon
  <2>3. \A r \in uncertain' : PointOf[r] \notin DOMAIN history'
    BY <2>1, <2>2 DEF HistoryIsWrittenOnce
  <2> QED
    BY <1>2, <2>1, <2>2, <2>3, Zenon DEF HistoryIsWrittenOnce, Shapes
<1>6. CASE LeavesInFlight
  <2>1. /\ replay.reading \in Readings /\ PointOf[replay.reading] \notin DOMAIN history
        /\ uncertain' = uncertain \cup {replay.reading} /\ UNCHANGED history
        /\ \A r \in uncertain : PointOf[r] # PointOf[replay.reading]
        /\ replay.reading \in Kept'
    BY <1>1, <1>6, KeptGrows DEF LeavesInFlight, Inserts, Point
  <2> QED
    BY <1>2, <2>1 DEF HistoryIsWrittenOnce, Shapes
<1>7. ASSUME NEW r \in uncertain, Settles(r)
      PROVE  /\ HistoryIsWrittenOnce' /\ history' \in [DOMAIN history' -> Readings]
             /\ uncertain' \subseteq Readings /\ uncertain' \subseteq Kept'
  <2>1. r \in Readings /\ PointOf[r] \notin DOMAIN history /\ uncertain' = uncertain \ {r}
    BY <1>7 DEF Settles, Shapes, HistoryIsWrittenOnce
  <2>2. CASE UNCHANGED history
    BY <1>2, <2>1, <2>2 DEF HistoryIsWrittenOnce, Shapes
  <2>3. CASE history' = Recorded(r)
    <3>1. /\ history' \in [DOMAIN history' -> Readings]
          /\ DOMAIN history' = DOMAIN history \cup {PointOf[r]}
          /\ \A p \in DOMAIN history' : PointOf[history'[p]] = p
      BY <1>3, <2>1, <2>3, Zenon
    <3>2. \A s \in uncertain' : s \in uncertain /\ PointOf[s] \notin DOMAIN history'
      BY <2>1, <3>1 DEF HistoryIsWrittenOnce
    <3> QED
      BY <1>2, <3>1, <3>2 DEF HistoryIsWrittenOnce, Shapes
  <2> QED
    BY <1>7, <2>2, <2>3 DEF Settles
<1> QED
  BY <1>4, <1>5, <1>6, <1>7, HistoryStep

\* Only what conflicts with history, or is no longer valid, enters quarantine.
LEMMA QuarantineStaysJustified ==
    ASSUME [Next]_vars, Shapes, Accounted, ReplayIsCurrent, HistoryIsWrittenOnce,
           QuarantineIsJustified
    PROVE  QuarantineIsJustified'
<1> DEFINE Justified(e) ==
      IF e.reason = "invalid-reading" THEN e.reading \in Obsolete
      ELSE PointOf[e.reading] \in DOMAIN history' /\ history'[PointOf[e.reading]] # e.reading
<1>1. \A k \in DOMAIN quarantine : Justified(quarantine[k])
  BY HistoryGrows DEF QuarantineIsJustified
<1>2. ASSUME NEW k \in DOMAIN quarantine'
      PROVE  Justified(quarantine'[k])
  <2>1. CASE UNCHANGED quarantine
    BY <1>1, <1>2, <2>1
  <2>2. CASE Removes
    <3>1. quarantine' = WithQuarantined /\ Ready /\ Finishes
      BY <2>2 DEF Removes, DiskBecomes, Write
    <3>2. CASE k \in DOMAIN quarantine
      BY <1>1, <3>1, <3>2, FinishPreserves
    <3>3. CASE k \notin DOMAIN quarantine
      <4>1. k = replay.key /\ Quarantines /\ replay \in Entries
        BY <1>2, <3>1, <3>3, FinishPreserves, FinishCounts
      <4>2. quarantine'[k] = Preserved
        BY <3>1, <4>1, FinishPreserves
      <4>3. Justified(Preserved)
        BY <4>1, HistoryGrows DEF Preserved, ReplayIsCurrent, Quarantines, Reasons, Point
      <4> QED
        BY <4>2, <4>3
    <3> QED
      BY <3>2, <3>3
  <2> QED
    BY <2>1, <2>2, DiskStep DEF disk, Enqueues, DiskBecomes, Write
<1> QED
  BY <1>2 DEF QuarantineIsJustified

-----------------------------------------------------------------------------
(* The theorems *)

\* Init is consistent: the spool of an earlier process is counted.
LEMMA InitIsConsistent == Init => Consistent
<1> SUFFICES ASSUME Init PROVE Consistent
  OBVIOUS
<1> DEFINE n == Len(Backlog)
           keys == 0..(n - 1)
<1>1. n \in Nat /\ n <= MaxPendingWrites /\ MaxPendingWrites \in Nat
  BY IngestAssumption
<1>2. \A i \in 1..n : Backlog[i] \in Readings
  BY IngestAssumption
<1>3. pending = [k \in keys |-> Backlog[k + 1]]
  BY DEF Init
<1>4. \A k \in keys : k \in Nat /\ k < n /\ k + 1 \in 1..n
  BY <1>1
<1>5. pending \in [keys -> Readings] /\ DOMAIN pending = keys
  <2>1. \A k \in keys : Backlog[k + 1] \in Readings
    BY <1>2, <1>4
  <2> HIDE DEF keys
  <2> QED
    BY <1>3, <2>1
<1>6. IsFiniteSet(keys) /\ Cardinality(keys) = n
  <2>1. 0 \in Int /\ n - 1 \in Int
    BY <1>1
  <2>2. /\ IsFiniteSet(keys)
        /\ Cardinality(keys) = IF 0 > n - 1 THEN 0 ELSE (n - 1) - 0 + 1
    BY <2>1, FS_Interval, Zenon
  <2> HIDE DEF keys, n
  <2> QED
    BY <1>1, <2>2
<1>7. IsFiniteSet({}) /\ Cardinality({}) = 0
  BY FS_EmptySet
<1>8. /\ DOMAIN quarantine = {} /\ DOMAIN history = {}
      /\ quarantine \in [{} -> [reason : Reasons, reading : Readings]]
      /\ history \in [{} -> Readings]
  BY DEF Init
<1>9. /\ metadata = [next |-> n, pending |-> n, quarantined |-> 0] /\ meta = metadata
      /\ acknowledged = {} /\ handlers = {} /\ uncertain = {} /\ replay = Idle
  BY DEF Init
<1> HIDE DEF n, keys
<1>10. Shapes
  BY <1>1, <1>4, <1>5, <1>8, <1>9 DEF Shapes, Metadata
<1>11. Accounted
  BY <1>1, <1>4, <1>5, <1>6, <1>7, <1>8, <1>9
     DEF Accounted, SpoolAccounting, CapacityIsRespected
<1>12. ReplayIsCurrent
  BY <1>9 DEF ReplayIsCurrent, Entries, Idle, Reasons
<1> QED
  BY <1>8, <1>9, <1>10, <1>11, <1>12
     DEF Consistent, HistoryIsWrittenOnce, AdmittedIsKept, AcknowledgedIsKept,
         QuarantineIsJustified

\* Every step preserves the invariant.
LEMMA NextIsConsistent == Consistent /\ [Next]_vars => Consistent'
<1> SUFFICES ASSUME Consistent, [Next]_vars PROVE Consistent'
  OBVIOUS
<1> USE DEF Consistent
<1>1. Accounted' /\ HistoryIsWrittenOnce' /\ ReplayIsCurrent' /\ QuarantineIsJustified'
  BY AccountedStep, HistoryStaysWrittenOnce, ReplayStaysCurrent, QuarantineStaysJustified
<1>2. Shapes'
  BY AccountedStep, HistoryStaysWrittenOnce, ReplayStaysCurrent, CallsStep DEF Shapes
<1>3. AdmittedIsKept'
  BY CallsStep, HistoryStaysWrittenOnce DEF AdmittedIsKept, AcknowledgedIsKept
<1> QED
  BY <1>1, <1>2, <1>3

\* In every reachable state the parts of the invariant hold together.
THEOREM AlwaysConsistent == Spec => []Consistent
BY InitIsConsistent, NextIsConsistent, PTL DEF Spec

\* The accounting of the spool is the number of its entries, for any publications,
\* any backlog, any capacity and any number of crashes and failed writes.
THEOREM AccountingIsExact == Spec => []SpoolAccounting
<1>1. Consistent => SpoolAccounting
  BY DEF Consistent, Accounted
<1> QED
  BY <1>1, AlwaysConsistent, PTL

\* Entries, accounting, admissions and history keep their types: whatever failed
\* or crashed, the spool never holds something that is not an entry.
THEOREM ShapesAreKept == Spec => []Shapes
<1>1. Consistent => Shapes
  BY DEF Consistent
<1> QED
  BY <1>1, AlwaysConsistent, PTL

\* No acknowledged reading is ever lost.
THEOREM NothingAcknowledgedIsLost == Spec => []AcknowledgedIsKept
<1>1. Consistent => AcknowledgedIsKept
  BY DEF Consistent, AdmittedIsKept
<1> QED
  BY <1>1, AlwaysConsistent, PTL

\* Buffered and quarantined readings never exceed the capacity.
THEOREM CapacityHolds == Spec => []CapacityIsRespected
<1>1. Consistent => CapacityIsRespected
  BY DEF Consistent, Accounted
<1> QED
  BY <1>1, AlwaysConsistent, PTL

\* A reading is quarantined only for a true reason, which stays true.
THEOREM QuarantineIsRight == Spec => []QuarantineIsJustified
<1>1. Consistent => QuarantineIsJustified
  BY DEF Consistent
<1> QED
  BY <1>1, AlwaysConsistent, PTL

\* No step overwrites an entry or gives out a sequence number again.
THEOREM SequenceIsFresh == Spec => SequenceIsNeverReused
<1>1. Consistent /\ [Next]_vars =>
        [/\ \A k \in DOMAIN pending \cap DOMAIN pending' : pending'[k] = pending[k]
         /\ \A k \in DOMAIN pending' \ DOMAIN pending : k >= metadata.next]_vars
  <2> SUFFICES ASSUME Consistent, [Next]_vars
               PROVE  /\ \A k \in DOMAIN pending \cap DOMAIN pending' : pending'[k] = pending[k]
                      /\ \A k \in DOMAIN pending' \ DOMAIN pending : k >= metadata.next
    OBVIOUS
  <2> USE DEF Consistent
  <2>1. CASE UNCHANGED disk
    BY <2>1 DEF disk
  <2>2. ASSUME NEW m \in Messages, Enqueues(m)
        PROVE  /\ \A k \in DOMAIN pending \cap DOMAIN pending' : pending'[k] = pending[k]
               /\ \A k \in DOMAIN pending' \ DOMAIN pending : k >= metadata.next
    <3>1. pending' = WithBatch(m) /\ Ready
      BY <2>2 DEF Enqueues, DiskBecomes, Write
    <3> DEFINE added == meta.next..(meta.next + Len(BatchOf[m]) - 1)
    <3>2. /\ DOMAIN pending' = DOMAIN pending \cup added
          /\ \A k \in DOMAIN pending : pending'[k] = pending[k]
          /\ \A k \in added : k >= metadata.next
      BY <3>1, EnqueueAppends
    <3> HIDE DEF added
    <3> QED
      BY <3>2
  <2>3. CASE Removes
    BY <2>3, FinishCounts DEF Removes, DiskBecomes, Write
  <2> QED
    BY <2>1, <2>2, <2>3, DiskStep
<1> QED
  BY <1>1, AlwaysConsistent, PTL DEF Spec, SequenceIsNeverReused

-----------------------------------------------------------------------------
(* The pipeline implements the abstract intake *)

\* What a step means to the publishers.
Stutters == UNCHANGED <<acknowledged, disk, history>>
Releases(m) ==
    /\ Range(BatchOf[m]) \subseteq Kept /\ acknowledged' = acknowledged \cup {m}
    /\ UNCHANGED <<disk, history>>
Keeps(m) == Enqueues(m) /\ UNCHANGED <<acknowledged, history>>
Transfers == Removes /\ UNCHANGED <<acknowledged, history>>
Records(r) ==
    /\ r \in Kept /\ PointOf[r] \notin DOMAIN history /\ history' = Recorded(r)
    /\ UNCHANGED <<acknowledged, disk>>

\* Every step is of one of these kinds.
LEMMA StepKinds ==
    ASSUME [Next]_vars, Consistent
    PROVE  \/ Stutters \/ Transfers
           \/ \E m \in Messages : Releases(m) \/ Keeps(m)
           \/ \E r \in Readings : Records(r)
<1> USE DEF Consistent
<1>1. CASE UNCHANGED vars
  BY <1>1 DEF vars, broker, disk, database, Stutters
<1>2. ASSUME NEW m \in Messages, Publish(m) \/ Deliver(m)
      PROVE  Stutters
  BY <1>2 DEF Publish, Deliver, broker, disk, database, Stutters
<1>3. CASE Reconnect \/ Disconnect \/ Restart
  BY <1>3 DEF Reconnect, Disconnect, Restart, broker, disk, database, Stutters
<1>4. ASSUME NEW h \in handlers, Handle(h)
      PROVE  Stutters \/ \E m \in Messages : Releases(m) \/ Keeps(m)
  <2>1. CASE Ignore(h) \/ Refuse(h) \/ Pause(h) \/ DropStale(h)
    BY <2>1 DEF Ignore, Refuse, Pause, DropStale, broker, disk, database, Stutters
  <2>2. CASE Acknowledge(h)
    <3>1. h.message \in Messages /\ Range(BatchOf[h.message]) \subseteq Kept
      BY <2>2 DEF Acknowledge, Acknowledges, Shapes, AdmittedIsKept
    <3> QED
      BY <2>2, <3>1 DEF Acknowledge, disk, database, Releases
  <2>3. CASE Admit(h) \/ AdmitFails(h)
    <3>1. UNCHANGED <<acknowledged, history>> /\ h.message \in Messages
      BY <2>3 DEF Admit, AdmitFails, broker, database, Shapes
    <3>2. UNCHANGED disk \/ Enqueues(h.message)
      <4>1. CASE Admit(h)
        BY <4>1 DEF Admit, Admissible, Commit, Enqueues, DiskBecomes
      <4>2. CASE AdmitFails(h)
        BY <4>2 DEF AdmitFails, Admissible, CommitFails, Freeze, Enqueues, DiskBecomes, Ready
      <4> QED
        BY <2>3, <4>1, <4>2
    <3> QED
      BY <3>1, <3>2 DEF Keeps, Stutters
  <2> QED
    BY <1>4, <2>1, <2>2, <2>3 DEF Handle
<1>5. CASE Peek \/ Compare \/ StoreFails \/ FinishRefused
  BY <1>5 DEF Peek, Compare, StoreFails, FinishRefused, broker, disk, database, Stutters
<1>6. CASE Store
  <2>1. replay \in Entries /\ Inserts /\ Point \notin DOMAIN history
    BY <1>6 DEF Store, Inserts, Shapes, Idle
  <2>2. replay.reading \in Readings /\ replay.reading \in Kept
    BY <2>1 DEF Entries, ReplayIsCurrent, Kept, Range
  <2>3. Records(replay.reading)
    BY <1>6, <2>1, <2>2 DEF Store, Point, Records, broker, disk
  <2> QED
    BY <2>2, <2>3
<1>7. CASE Finish
  <2>1. UNCHANGED <<acknowledged, history>> /\ replay' = Idle
    BY <1>7 DEF Finish, broker, database
  <2>2. UNCHANGED disk \/ Removes \/ \E m \in Messages : Enqueues(m)
    BY DiskStep
  <2>3. (\E m \in Messages : Keeps(m)) \/ Stutters \/ Transfers
    BY <2>1, <2>2 DEF Keeps, Transfers, Stutters
  <2> QED
    BY <2>3
<1>8. CASE Crash \/ StopPoisoned
  BY <1>8 DEF Crash, StopPoisoned, Stop, broker, disk, database, Stutters
<1>9. ASSUME NEW r \in uncertain, Settle(r)
      PROVE  Stutters \/ Records(r)
  <2>1. r \in Kept /\ PointOf[r] \notin DOMAIN history
    BY DEF AdmittedIsKept, HistoryIsWrittenOnce
  <2> QED
    BY <1>9, <2>1 DEF Settle, Records, Stutters, broker, disk
<1>10. uncertain \subseteq Readings
  BY DEF Shapes
<1> QED
  BY <1>1, <1>2, <1>3, <1>4, <1>5, <1>6, <1>7, <1>8, <1>9, <1>10 DEF Next, ReplayStep

\* Quarantine and removal neither lose a reading nor invent one.
LEMMA TransferKeeps ==
    ASSUME Consistent, [Next]_vars, Transfers
    PROVE  Kept' = Kept
<1> USE DEF Consistent
<1>1. /\ Ready /\ Finishes /\ pending' = WithoutEntry /\ quarantine' = WithQuarantined
      /\ UNCHANGED history
  BY DEF Transfers, Removes, DiskBecomes, Write
<1>2. replay.reading \in Range(pending)
  BY <1>1, FinishCounts DEF ReplayIsCurrent, Range
<1>3. Range(pending') \subseteq Range(pending)
  BY <1>1, FinishCounts DEF Range
<1>4. ASSUME NEW k \in DOMAIN quarantine'
      PROVE  quarantine'[k].reading \in Quarantined \cup Range(pending)
  <2>1. CASE k \in DOMAIN quarantine
    BY <1>1, <2>1, FinishPreserves DEF Quarantined
  <2>2. CASE k \notin DOMAIN quarantine
    <3>1. k = replay.key /\ Quarantines
      BY <1>1, <1>4, <2>2, FinishPreserves
    <3>2. quarantine'[k] = Preserved
      BY <1>1, <3>1, FinishPreserves
    <3> QED
      BY <1>2, <3>2 DEF Preserved
  <2> QED
    BY <2>1, <2>2
<1>5. Quarantined' \subseteq Quarantined \cup Range(pending)
  BY <1>4 DEF Quarantined
<1>6. Kept' \subseteq Kept
  BY <1>1, <1>3, <1>5 DEF Kept, Range
<1> QED
  BY <1>6, KeptGrows

\* The range of history grows by the reading that is recorded.
LEMMA RecordingKeeps ==
    ASSUME Consistent, [Next]_vars, NEW r, Records(r)
    PROVE  Kept' = Kept
<1> USE DEF Consistent
<1>1. UNCHANGED <<pending, quarantine>> /\ history' = Recorded(r) /\ r \in Kept
  BY DEF Records, disk
<1>2. Range(history') \subseteq Range(history) \cup {r}
  BY <1>1 DEF Recorded, Range
<1>3. Kept' \subseteq Kept
  BY <1>1, <1>2 DEF Kept, Range, Quarantined
<1> QED
  BY <1>3, KeptGrows

\* Every step of the pipeline is a step of the abstract intake, or changes nothing
\* that a publisher can tell.
THEOREM PipelineImplementsIntake == Spec => ImplementsIntake
<1>1. Init => Intake!Init
  <2> SUFFICES ASSUME Init PROVE Intake!Init
    OBVIOUS
  <2>1. Consistent
    BY InitIsConsistent
  <2>2. Kept \subseteq Readings
    BY <2>1 DEF Consistent, Shapes, Kept, Quarantined, Range
  <2> QED
    BY <2>2 DEF Init, Intake!Init
<1>2. Consistent /\ [Next]_vars => [Intake!Next]_(Intake!vars)
  <2> SUFFICES ASSUME Consistent, [Next]_vars
               PROVE  Intake!Next \/ UNCHANGED Intake!vars
    OBVIOUS
  <2>1. CASE Stutters
    BY <2>1 DEF Stutters, disk, Kept, Quarantined, Range, Intake!vars
  <2>2. CASE Transfers
    BY <2>2, TransferKeeps DEF Transfers, Intake!vars
  <2>3. ASSUME NEW m \in Messages, Releases(m)
        PROVE  Intake!Next
    <3>1. Kept' = Kept
      BY <2>3 DEF Releases, disk, Kept, Quarantined, Range
    <3>2. Intake!Acknowledge(m)
      BY <2>3, <3>1 DEF Releases, Range, Intake!Acknowledge, Intake!Range
    <3> QED
      BY <3>2 DEF Intake!Next
  <2>4. ASSUME NEW m \in Messages, Keeps(m)
        PROVE  Intake!Next
    <3>1. /\ Ready /\ pending' = WithBatch(m) /\ UNCHANGED <<quarantine, history, acknowledged>>
      BY <2>4 DEF Keeps, Enqueues, DiskBecomes, Write
    <3>2. Range(pending') = Range(pending) \cup Range(BatchOf[m])
      BY <3>1, EnqueueAppends DEF Consistent
    <3>3. Kept' = Kept \cup Range(BatchOf[m])
      BY <3>1, <3>2 DEF Kept, Quarantined
    <3>4. Intake!Keep(m)
      BY <3>1, <3>3 DEF Range, Intake!Keep, Intake!Range
    <3> QED
      BY <3>4 DEF Intake!Next
  <2>5. ASSUME NEW r \in Readings, Records(r)
        PROVE  Intake!Next
    <3>1. Kept' = Kept
      BY <2>5, RecordingKeeps
    <3>2. Intake!Record(r)
      BY <2>5, <3>1 DEF Records, Recorded, Intake!Record
    <3> QED
      BY <3>2 DEF Intake!Next
  <2> QED
    BY <2>1, <2>2, <2>3, <2>4, <2>5, StepKinds
<1> QED
  BY <1>1, <1>2, AlwaysConsistent, PTL DEF Spec, ImplementsIntake, Intake!Spec

-----------------------------------------------------------------------------
(* Connection numbers *)

\* Numbers of older connections whose calls still run
StaleNumbers == {h.generation : h \in handlers} \ {generation}

\* One call runs for each connection, and every older connection that still has
\* one was lost by a fault, so that one of the numbers is always free.
ConnectionInv ==
    /\ generation \in Generations /\ handlers \subseteq Calls
    /\ \A h, k \in handlers : h.generation = k.generation => h = k
    /\ faults \in 0 .. MaxFaults /\ Cardinality(StaleNumbers) <= faults

\* Any set of connection numbers is finite.
LEMMA NumbersAreFinite ==
    ASSUME NEW G \in SUBSET Generations
    PROVE  IsFiniteSet(G) /\ Cardinality(G) \in Nat
<1>1. MaxFaults + 3 \in Nat
  BY IngestAssumption
<1>2. IsFiniteSet(Generations)
  BY <1>1, FS_Interval DEF Generations
<1> QED
  BY <1>2, FS_Subset, FS_CardinalityType

\* The number taken by a new connection is held by no running call.
LEMMA CloseTakesFreeNumber ==
    ASSUME ConnectionInv, Close
    PROVE  /\ generation' \in Generations /\ generation' # generation
           /\ \A h \in handlers : h.generation # generation'
<1>1. /\ generation \in Generations /\ handlers \subseteq Calls
      /\ MaxFaults \in Nat /\ faults \in 0 .. MaxFaults
  BY IngestAssumption DEF ConnectionInv
<1>2. StaleNumbers \in SUBSET Generations
  BY <1>1 DEF StaleNumbers, Calls
<1> DEFINE used == StaleNumbers \cup {generation}
<1>3. Cardinality(used) <= MaxFaults + 1 /\ used \subseteq Generations
  <2>1. IsFiniteSet(StaleNumbers) /\ Cardinality(StaleNumbers) \in Nat
    BY <1>2, NumbersAreFinite
  <2>2. Cardinality(used) \in {Cardinality(StaleNumbers), Cardinality(StaleNumbers) + 1}
    BY <2>1, FS_AddElement
  <2>3. Cardinality(StaleNumbers) <= MaxFaults
    BY <1>1, <2>1 DEF ConnectionInv
  <2> QED
    BY <1>1, <1>2, <2>1, <2>2, <2>3
<1>4. Cardinality(Generations) = MaxFaults + 3
  <2>1. MaxFaults + 3 \in Nat
    BY <1>1
  <2>2. Cardinality(Generations) = IF 1 > MaxFaults + 3 THEN 0 ELSE (MaxFaults + 3) - 1 + 1
    BY <2>1, FS_Interval DEF Generations
  <2> QED
    BY <1>1, <2>2
<1>5. used # Generations
  BY <1>1, <1>3, <1>4
<1>6. PICK g \in Generations : g \notin used
  BY <1>3, <1>5
<1>7. g # generation /\ \A h \in handlers : h.generation # g
  BY <1>6 DEF StaleNumbers
<1>8. \E x \in Generations : x # generation /\ \A h \in handlers : h.generation # x
  BY <1>6, <1>7
<1> QED
  BY <1>8 DEF Close

\* Fewer stale numbers, or one more after a fault.
LEMMA StaleBound ==
    ASSUME ConnectionInv, handlers' \subseteq Calls,
           \/ StaleNumbers' \subseteq StaleNumbers /\ faults' \in {faults, faults + 1}
           \/ StaleNumbers' \subseteq StaleNumbers \cup {generation} /\ faults' = faults + 1
    PROVE  Cardinality(StaleNumbers') <= faults'
<1>1. /\ generation \in Generations /\ faults \in Nat
      /\ Cardinality(StaleNumbers) <= faults /\ StaleNumbers \in SUBSET Generations
  BY IngestAssumption DEF ConnectionInv, StaleNumbers, Calls
<1>2. IsFiniteSet(StaleNumbers) /\ Cardinality(StaleNumbers) \in Nat
  BY <1>1, NumbersAreFinite
<1>3. CASE StaleNumbers' \subseteq StaleNumbers /\ faults' \in {faults, faults + 1}
  <2>1. /\ Cardinality(StaleNumbers') \in Nat
        /\ Cardinality(StaleNumbers') <= Cardinality(StaleNumbers)
    BY <1>2, <1>3, FS_Subset, FS_CardinalityType
  <2> QED
    BY <1>1, <1>2, <1>3, <2>1
<1>4. CASE StaleNumbers' \subseteq StaleNumbers \cup {generation} /\ faults' = faults + 1
  <2> DEFINE more == StaleNumbers \cup {generation}
  <2>1. /\ IsFiniteSet(more) /\ Cardinality(more) \in Nat
        /\ Cardinality(more) <= Cardinality(StaleNumbers) + 1
    <3>1. /\ IsFiniteSet(more)
          /\ Cardinality(more) \in {Cardinality(StaleNumbers), Cardinality(StaleNumbers) + 1}
      BY <1>2, FS_AddElement
    <3> QED
      BY <1>2, <3>1
  <2>2. Cardinality(StaleNumbers') \in Nat /\ Cardinality(StaleNumbers') <= Cardinality(more)
    BY <1>4, <2>1, FS_Subset, FS_CardinalityType
  <2> HIDE DEF more
  <2> QED
    BY <1>1, <1>2, <1>4, <2>1, <2>2
<1> QED
  BY <1>3, <1>4
\* Every step keeps the connections apart.
LEMMA NextKeepsConnections == Consistent /\ ConnectionInv /\ [Next]_vars => ConnectionInv'
<1> SUFFICES ASSUME Consistent, ConnectionInv, [Next]_vars
             PROVE  ConnectionInv'
  OBVIOUS
<1>1. /\ generation \in Generations /\ handlers \subseteq Calls
      /\ \A h, k \in handlers : h.generation = k.generation => h = k
      /\ MaxFaults \in Nat /\ faults \in 0 .. MaxFaults
      /\ \A m \in Messages : BatchOf[m] \in Seq(Readings)
  BY IngestAssumption DEF ConnectionInv
<1>2. ASSUME faults' \in {faults, faults + 1}, faults' \in 0 .. MaxFaults,
             generation' \in Generations, handlers' \subseteq Calls,
             \A h, k \in handlers' : h.generation = k.generation => h = k,
             \/ StaleNumbers' \subseteq StaleNumbers
             \/ StaleNumbers' \subseteq StaleNumbers \cup {generation} /\ faults' = faults + 1
      PROVE  ConnectionInv'
  BY <1>2, StaleBound DEF ConnectionInv
<1>3. ASSUME UNCHANGED <<generation, handlers>>,
             faults' \in {faults, faults + 1}, faults' \in 0 .. MaxFaults
      PROVE  ConnectionInv'
  BY <1>1, <1>2, <1>3 DEF StaleNumbers
<1>4. Fault => faults' = faults + 1 /\ faults' \in 0 .. MaxFaults
  BY <1>1 DEF Fault
<1>5. ASSUME NEW m \in Messages, Deliver(m)
      PROVE  ConnectionInv'
  <2> DEFINE call == [generation |-> generation, message |-> m, stage |-> "waiting"]
  <2>1. /\ handlers' = handlers \cup {call} /\ generation' = generation /\ faults' = faults
        /\ \A h \in handlers : h.generation # generation
    BY <1>5 DEF Deliver
  <2>2. call \in Calls /\ call.generation = generation
    BY <1>1 DEF Calls
  <2> HIDE DEF call
  <2>3. /\ handlers' \subseteq Calls
        /\ \A h, k \in handlers' : h.generation = k.generation => h = k
    BY <1>1, <2>1, <2>2
  <2>4. StaleNumbers' \subseteq StaleNumbers
    BY <2>1, <2>2 DEF StaleNumbers
  <2> QED
    BY <1>1, <1>2, <2>1, <2>3, <2>4
<1>6. CASE Disconnect
  <2>1. /\ generation' \in Generations /\ handlers' = handlers
        /\ faults' = faults + 1 /\ faults' \in 0 .. MaxFaults
    BY <1>4, <1>6, CloseTakesFreeNumber DEF Disconnect
  <2>2. StaleNumbers' \subseteq StaleNumbers \cup {generation}
    BY <2>1 DEF StaleNumbers
  <2> QED
    BY <1>1, <1>2, <2>1, <2>2
<1>7. ASSUME NEW h \in handlers, NEW stage \in {"admitted", "refused"}, Moves(h, stage),
             generation' = generation, faults' \in {faults, faults + 1},
             faults' \in 0 .. MaxFaults
      PROVE  ConnectionInv'
  <2> DEFINE moved == [h EXCEPT !.stage = stage]
  <2>1. handlers' = (handlers \ {h}) \cup {moved}
    BY <1>7 DEF Moves
  <2>2. moved \in Calls /\ moved.generation = h.generation
    BY <1>1 DEF Calls
  <2> HIDE DEF moved
  <2>3. /\ handlers' \subseteq Calls
        /\ \A i, k \in handlers' : i.generation = k.generation => i = k
    BY <1>1, <2>1, <2>2
  <2>4. StaleNumbers' \subseteq StaleNumbers
    BY <1>7, <2>1, <2>2 DEF StaleNumbers
  <2> QED
    BY <1>1, <1>2, <1>7, <2>3, <2>4
<1>8. ASSUME NEW h \in handlers, Acknowledge(h) \/ Pause(h) \/ DropStale(h)
      PROVE  ConnectionInv'
  <2>1. handlers' = handlers \ {h} /\ faults' = faults
    BY <1>8 DEF Acknowledge, Pause, DropStale
  <2>2. /\ generation' \in Generations
        /\ StaleNumbers' \subseteq StaleNumbers
    <3>1. CASE Acknowledge(h) \/ DropStale(h)
      <4>1. generation' = generation
        BY <3>1 DEF Acknowledge, DropStale, connection
      <4> QED
        BY <1>1, <2>1, <4>1 DEF StaleNumbers
    <3>2. CASE Pause(h)
      <4>1. h.generation = generation /\ generation' \in Generations
        BY <3>2, CloseTakesFreeNumber DEF Pause
      <4>2. \A k \in handlers' : k \in handlers /\ k.generation # generation
        BY <1>1, <2>1, <4>1
      <4> QED
        BY <4>1, <4>2 DEF StaleNumbers
    <3> QED
      BY <1>8, <3>1, <3>2
  <2> QED
    BY <1>1, <1>2, <2>1, <2>2
<1>9. ASSUME NEW h \in handlers, Handle(h)
      PROVE  ConnectionInv'
  <2>1. CASE Ignore(h)
    BY <1>1, <1>7, <2>1 DEF Ignore, connection
  <2>2. CASE Admit(h)
    BY <1>1, <1>7, <2>2 DEF Admit, Commit, connection
  <2>3. CASE AdmitFails(h)
    BY <1>4, <1>7, <2>3 DEF AdmitFails, CommitFails, connection
  <2>4. CASE Refuse(h)
    BY <1>1, <1>7, <2>4 DEF Refuse, connection
  <2> QED
    BY <1>8, <1>9, <2>1, <2>2, <2>3, <2>4 DEF Handle
<1>10. CASE Stop /\ faults' \in {faults, faults + 1} /\ faults' \in 0 .. MaxFaults
  <2>1. handlers' = {} /\ generation' = 1
    BY <1>10 DEF Stop
  <2>2. generation' \in Generations /\ StaleNumbers' \subseteq StaleNumbers
    BY <1>1, <2>1 DEF Generations, StaleNumbers
  <2> QED
    BY <1>2, <1>10, <2>1, <2>2
<1>11. CASE ReplayStep
  <2>1. UNCHANGED <<generation, handlers>>
    BY <1>11 DEF ReplayStep, Peek, Store, Compare, StoreFails, Finish, FinishRefused, connection
  <2>2. faults' \in {faults, faults + 1} /\ faults' \in 0 .. MaxFaults
    BY <1>1, <1>4, <1>11
       DEF ReplayStep, Peek, Store, Compare, StoreFails, Finish, FinishRefused, Commit, CommitFails
  <2> QED
    BY <1>3, <2>1, <2>2
<1>12. CASE \/ Reconnect \/ Restart \/ UNCHANGED vars
            \/ \E m \in Messages : Publish(m)
            \/ \E r \in uncertain : Settle(r)
  <2>1. UNCHANGED <<generation, handlers, faults>>
    BY <1>12 DEF Reconnect, Restart, vars, Publish, Settle, connection
  <2> QED
    BY <1>1, <1>3, <2>1
<1>13. CASE Crash \/ StopPoisoned
  BY <1>1, <1>4, <1>10, <1>13 DEF Crash, StopPoisoned
<1> QED
  BY <1>5, <1>6, <1>9, <1>11, <1>12, <1>13 DEF Next

\* There is one connection and no call at first.
LEMMA InitConnections == Init => ConnectionInv
<1> SUFFICES ASSUME Init
             PROVE  ConnectionInv
  OBVIOUS
<1>1. handlers = {} /\ generation = 1 /\ faults = 0 /\ MaxFaults \in Nat
  BY IngestAssumption DEF Init
<1>2. StaleNumbers = {}
  BY <1>1 DEF StaleNumbers
<1> QED
  BY <1>1, <1>2, FS_EmptySet DEF ConnectionInv, Generations

\* A call that outlives its connection is never taken for one of a later
\* connection: one call runs for each connection, and a connection that begins
\* gets a number no running call holds, so that a late completion never
\* acknowledges there (generation in durable-mqtt-subscriber.ts).
THEOREM ConnectionsAreApart ==
    Spec => /\ [](\A h, k \in handlers : h.generation = k.generation => h = k)
            /\ [][Close => /\ generation' # generation
                           /\ \A h \in handlers : h.generation # generation']_vars
<1>1. Init => Consistent /\ ConnectionInv
  BY InitIsConsistent, InitConnections
<1>2. Consistent /\ ConnectionInv /\ [Next]_vars => Consistent' /\ ConnectionInv'
  BY NextIsConsistent, NextKeepsConnections
<1>3. ConnectionInv => \A h, k \in handlers : h.generation = k.generation => h = k
  BY DEF ConnectionInv
<1>4. ConnectionInv => [Close => /\ generation' # generation
                                 /\ \A h \in handlers : h.generation # generation']_vars
  BY CloseTakesFreeNumber
<1> QED
  BY <1>1, <1>2, <1>3, <1>4, PTL DEF Spec
=============================================================================
