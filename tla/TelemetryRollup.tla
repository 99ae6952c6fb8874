-------------------------- MODULE TelemetryRollup --------------------------
(***************************************************************************)
(* Electrical history and its hourly summaries in PostgreSQL:               *)
(* TelemetryStore.append and refreshOneHour (telemetry.store.ts) as         *)
(* concurrent READ COMMITTED transactions, one statement after the other,   *)
(* with the row locks of telemetry.dirty_hours, and summarizeElectricalHour *)
(* for power (libs/domain-telemetry).                                       *)
(*                                                                          *)
(* One measurement stream; a reading is its observation time in minutes.    *)
(* marked_at is left out: the pending hours are taken in any order.         *)
(***************************************************************************)
EXTENDS Integers

CONSTANTS
    Times,      \* observation times of valid power readings, in minutes
    Writers,    \* clients that append: replay loops, and calls they have abandoned
    Workers,    \* processes that refresh summaries
    Nobody,     \* holder of a lock that is free
    MaxAborts   \* bound: transactions that are rolled back

ASSUME RollupAssumption ==
    /\ Times \subseteq Nat
    /\ Writers \cap Workers = {} /\ Nobody \notin Writers \cup Workers
    /\ MaxAborts \in Nat

VARIABLES
    readings,   \* telemetry.readings, committed
    dirty,      \* telemetry.dirty_hours, committed
    lock,       \* who holds the row of an hour, written or claimed
    hourly,     \* telemetry.hourly
    writing,    \* the transaction of each writer
    refreshing, \* the transaction of each worker
    aborts

vars == <<readings, dirty, lock, hourly, writing, refreshing, aborts>>

-----------------------------------------------------------------------------
(* Hours *)

HourOf(t) == t - (t % 60)
InHour(t, hour) == HourOf(t) = hour

\* Mutant of Marked: only the hour of the reading itself.
MarkedAlone(t) == {HourOf(t)}

\* A reading can change the interval on either side of it.
Marked(t) == {HourOf(t - 5), HourOf(t + 5)}

Hours == UNION {Marked(t) : t \in Times}

Window(S, hour) == {t \in S : hour - 5 <= t /\ t <= hour + 65}

Inside(S, hour) == {t \in S : hour <= t /\ t < hour + 60}

\* The intervals that are integrated over the hour: neighbours at most five
\* minutes apart.
Intervals(S, hour) ==
    {i \in S \X S :
        /\ i[1] < i[2] /\ i[2] - i[1] <= 5
        /\ \A t \in S : t <= i[1] \/ i[2] <= t
        /\ i[1] < hour + 60 /\ hour < i[2]}

\* What summarizeElectricalHour computes from: samples and intervals.
Summary(S, hour) == [inside |-> Inside(S, hour), intervals |-> Intervals(S, hour)]

Idle == [stage |-> "idle"]
Appends == [stage : {"inserted"}, reading : Times, todo : SUBSET Hours]
Refreshes == [stage : {"claimed"}, hour : Hours]
             \cup [stage : {"read"}, hour : Hours, samples : SUBSET Times]
Summaries == [inside : SUBSET Times, intervals : SUBSET (Times \X Times)]

Init ==
    /\ readings = {} /\ dirty = {}
    /\ lock = [h \in Hours |-> Nobody]
    /\ hourly = [h \in Hours |-> Summary({}, h)]
    /\ writing = [w \in Writers |-> Idle]
    /\ refreshing = [k \in Workers |-> Idle]
    /\ aborts = 0

-----------------------------------------------------------------------------
(* append *)

Inserting == {writing[v].reading : v \in {w \in Writers : writing[w] # Idle}}

\* The INSERT of a point that is stored does nothing, and it waits for a
\* transaction that is inserting it.
Insert(w, t) ==
    /\ writing[w] = Idle
    /\ t \notin readings \cup Inserting
    /\ writing' = [writing EXCEPT ![w] = [stage |-> "inserted", reading |-> t, todo |-> Marked(t)]]
    /\ UNCHANGED <<readings, dirty, lock, hourly, refreshing, aborts>>

\* The upsert marks one hour after the other and waits for a locked row; a row
\* that was deleted meanwhile is inserted again.
Mark(w) ==
    /\ writing[w] # Idle
    /\ \E h \in writing[w].todo :
        /\ \A j \in writing[w].todo : h <= j
        /\ lock[h] = Nobody
        /\ lock' = [lock EXCEPT ![h] = w]
        /\ writing' = [writing EXCEPT ![w].todo = @ \ {h}]
    /\ UNCHANGED <<readings, dirty, hourly, refreshing, aborts>>

Held(c) == {h \in Hours : lock[h] = c}

\* Mutant of Released: the connection returns to the pool inside its transaction.
ReleasedNothing(c) == lock

Released(c) == [h \in Hours |-> IF lock[h] = c THEN Nobody ELSE lock[h]]

CommitReading(w) ==
    /\ writing[w] # Idle /\ writing[w].todo = {}
    /\ readings' = readings \cup {writing[w].reading}
    /\ dirty' = dirty \cup Held(w)
    /\ lock' = Released(w)
    /\ writing' = [writing EXCEPT ![w] = Idle]
    /\ UNCHANGED <<hourly, refreshing, aborts>>

RollbackReading(w) ==
    /\ writing[w] # Idle
    /\ aborts < MaxAborts /\ aborts' = aborts + 1
    /\ lock' = Released(w)
    /\ writing' = [writing EXCEPT ![w] = Idle]
    /\ UNCHANGED <<readings, dirty, hourly, refreshing>>

-----------------------------------------------------------------------------
(* refreshOneHour *)

\* Mutant of Locked: the claim is a plain SELECT.
LockedByNobody(k, h) == lock

Locked(k, h) == [lock EXCEPT ![h] = k]

\* SELECT ... FOR UPDATE SKIP LOCKED.
Claim(k) ==
    /\ refreshing[k] = Idle
    /\ \E h \in dirty :
        /\ lock[h] = Nobody
        /\ lock' = Locked(k, h)
        /\ refreshing' = [refreshing EXCEPT ![k] = [stage |-> "claimed", hour |-> h]]
    /\ UNCHANGED <<readings, dirty, hourly, writing, aborts>>

Read(k) ==
    /\ refreshing[k].stage = "claimed"
    /\ refreshing' = [refreshing EXCEPT ![k] =
           [stage |-> "read", hour |-> refreshing[k].hour,
            samples |-> Window(readings, refreshing[k].hour)]]
    /\ UNCHANGED <<readings, dirty, lock, hourly, writing, aborts>>

\* The summary is replaced and the pending hour deleted; both appear at COMMIT.
CommitSummary(k) ==
    /\ refreshing[k].stage = "read"
    /\ LET h == refreshing[k].hour IN
        /\ hourly' = [hourly EXCEPT ![h] = Summary(refreshing[k].samples, h)]
        /\ dirty' = dirty \ {h}
    /\ lock' = Released(k)
    /\ refreshing' = [refreshing EXCEPT ![k] = Idle]
    /\ UNCHANGED <<readings, writing, aborts>>

RollbackSummary(k) ==
    /\ refreshing[k] # Idle
    /\ aborts < MaxAborts /\ aborts' = aborts + 1
    /\ lock' = Released(k)
    /\ refreshing' = [refreshing EXCEPT ![k] = Idle]
    /\ UNCHANGED <<readings, dirty, hourly, writing>>

-----------------------------------------------------------------------------

Proceed(w) == Mark(w) \/ CommitReading(w)
Refresh(k) == Claim(k) \/ Read(k) \/ CommitSummary(k)

Next ==
    \/ \E w \in Writers : (\E t \in Times : Insert(w, t)) \/ Proceed(w) \/ RollbackReading(w)
    \/ \E k \in Workers : Refresh(k) \/ RollbackSummary(k)

Spec == Init /\ [][Next]_vars

\* A transaction ends, and the interval timer of every process calls runCycle.
FairSpec ==
    /\ Spec
    /\ \A w \in Writers : WF_vars(Proceed(w))
    /\ \A k \in Workers : WF_vars(Refresh(k))

-----------------------------------------------------------------------------
(* Properties *)

\* A reading counts in the samples of one hour, its own.
TypeOK ==
    /\ readings \subseteq Times /\ dirty \subseteq Hours
    /\ lock \in [Hours -> {Nobody} \cup Writers \cup Workers]
    /\ hourly \in [Hours -> Summaries]
    /\ \A h \in Hours : \A t \in hourly[h].inside : InHour(t, h)
    /\ writing \in [Writers -> {Idle} \cup Appends]
    /\ refreshing \in [Workers -> {Idle} \cup Refreshes]
    /\ aborts \in 0..MaxAborts

\* A summary that nothing is pending for is the summary of all the readings in
\* history: whichever transactions overlap, late readings included, no reading is
\* missed by the hour it belongs to or by the one beside it.
SummariesAreCurrent ==
    \A h \in Hours \ dirty : hourly[h] = Summary(readings, h)

\* A worker never puts back an older summary over that of another worker.
SummaryNeverRegresses ==
    [][\A h \in Hours : hourly[h].inside \subseteq hourly'[h].inside]_vars

\* Every pending hour is eventually refreshed.
EveryHourIsRefreshed == \A h \in Hours : h \in dirty ~> h \notin dirty
=============================================================================
