----------------------- MODULE TelemetryRollupProofs -----------------------
(***************************************************************************)
(* Proofs about TelemetryRollup, for any observation times, any number of   *)
(* writers and workers, and any number of rollbacks.                        *)
(*                                                                          *)
(* A summary is only replaced by a worker that holds the row of its hour,   *)
(* and a reading is only committed by a writer that holds the rows of every *)
(* hour whose summary it changes.  So the samples that a worker has read    *)
(* stay current until its own COMMIT (Inductive, ReadsAreCurrent).  Which   *)
(* hours a reading changes is arithmetic: UnmarkedIsUnchanged, and that the *)
(* window of the query is wide enough: WindowSuffices.                      *)
(***************************************************************************)
EXTENDS TelemetryRollup, TLAPS

-----------------------------------------------------------------------------
(* Hours *)

\* An instant lies in the hour HourOf names.
LEMMA HourBounds ==
    ASSUME NEW u \in Int
    PROVE  HourOf(u) \in Int /\ HourOf(u) <= u /\ u < HourOf(u) + 60
BY DEF HourOf

\* Hours do not overlap.
LEMMA HourIsUnique ==
    ASSUME NEW u \in Int, NEW v \in Int, HourOf(v) <= u, u < HourOf(v) + 60
    PROVE  HourOf(u) = HourOf(v)
BY DEF HourOf

\* Every hour of the model is the hour of some instant.
LEMMA HoursAreHours ==
    ASSUME NEW h \in Hours
    PROVE  h \in Int /\ \E v \in Int : h = HourOf(v)
<1>1. PICK t \in Times : h \in Marked(t)
  BY DEF Hours
<1>2. t \in Int
  BY RollupAssumption
<1>3. h = HourOf(t - 5) \/ h = HourOf(t + 5)
  BY <1>1 DEF Marked
<1>4. t - 5 \in Int /\ t + 5 \in Int
  BY <1>2
<1> QED
  BY <1>3, <1>4, HourBounds

\* A reading that does not mark an hour is more than five minutes before it, or at
\* least five minutes after its end.
LEMMA UnmarkedIsFar ==
    ASSUME NEW h \in Hours, NEW t \in Times, h \notin Marked(t)
    PROVE  t < h - 5 \/ h + 65 <= t
<1>1. t \in Int /\ h \in Int
  BY RollupAssumption, HoursAreHours
<1>2. PICK v \in Int : h = HourOf(v)
  BY HoursAreHours
<1>3. HourOf(t - 5) # h /\ HourOf(t + 5) # h
  BY DEF Marked
<1>4. ~(h <= t - 5 /\ t - 5 < h + 60)
  BY <1>1, <1>2, <1>3, HourIsUnique, t - 5 \in Int
<1>5. ~(h <= t + 5 /\ t + 5 < h + 60)
  BY <1>1, <1>2, <1>3, HourIsUnique, t + 5 \in Int
<1> QED
  BY <1>1, <1>4, <1>5

-----------------------------------------------------------------------------
(* Summaries *)

\* The samples of the window give the summary of all readings (refreshOneHour reads
\* no more than the hour and five minutes on either side).
LEMMA WindowSuffices ==
    ASSUME NEW S, S \subseteq Times, NEW h \in Hours
    PROVE  Summary(Window(S, h), h) = Summary(S, h)
<1>1. h \in Int /\ \A t \in S : t \in Int
  BY RollupAssumption, HoursAreHours
<1>2. Window(S, h) \subseteq S
  BY DEF Window
<1>3. Inside(Window(S, h), h) = Inside(S, h)
  BY <1>1 DEF Inside, Window
<1>4. ASSUME NEW i \in Intervals(S, h)
      PROVE  i \in Intervals(Window(S, h), h)
  <2>1. /\ i \in S \X S /\ i[1] < i[2] /\ i[2] - i[1] <= 5
        /\ \A t \in S : t <= i[1] \/ i[2] <= t
        /\ i[1] < h + 60 /\ h < i[2]
    BY <1>4 DEF Intervals
  <2>2. i[1] \in S /\ i[2] \in S
    BY <2>1
  <2>3. i[1] \in Window(S, h) /\ i[2] \in Window(S, h)
    BY <1>1, <2>1, <2>2 DEF Window
  <2>4. i \in Window(S, h) \X Window(S, h)
    BY <2>1, <2>3
  <2> QED
    BY <1>2, <2>1, <2>4 DEF Intervals
<1>5. ASSUME NEW i \in Intervals(Window(S, h), h)
      PROVE  i \in Intervals(S, h)
  <2>1. /\ i \in Window(S, h) \X Window(S, h) /\ i[1] < i[2] /\ i[2] - i[1] <= 5
        /\ \A t \in Window(S, h) : t <= i[1] \/ i[2] <= t
        /\ i[1] < h + 60 /\ h < i[2]
    BY <1>5 DEF Intervals
  <2>2. i \in S \X S /\ i[1] \in S /\ i[2] \in S
    BY <1>2, <2>1
  <2>3. ASSUME NEW t \in S PROVE t <= i[1] \/ i[2] <= t
    <3>1. CASE t \in Window(S, h)
      BY <2>1, <3>1
    <3>2. CASE t \notin Window(S, h)
      BY <1>1, <2>1, <2>2, <3>2 DEF Window
    <3> QED
      BY <3>1, <3>2
  <2> QED
    BY <2>1, <2>2, <2>3 DEF Intervals
<1> QED
  BY <1>3, <1>4, <1>5 DEF Summary

\* A reading changes the summaries of the hours it marks, and no other.
LEMMA UnmarkedIsUnchanged ==
    ASSUME NEW S, S \subseteq Times, NEW t \in Times, NEW h \in Hours, h \notin Marked(t)
    PROVE  Summary(S \cup {t}, h) = Summary(S, h)
<1> DEFINE T == S \cup {t}
<1>1. /\ h \in Int /\ t \in Int /\ \A u \in T : u \in Int
  BY RollupAssumption, HoursAreHours
<1>2. t < h - 5 \/ h + 65 <= t
  BY UnmarkedIsFar
<1>3. Inside(T, h) = Inside(S, h)
  BY <1>1, <1>2 DEF Inside
<1>4. ASSUME NEW i \in Intervals(T, h)
      PROVE  i \in Intervals(S, h)
  <2>1. /\ i \in T \X T /\ i[1] < i[2] /\ i[2] - i[1] <= 5
        /\ \A u \in T : u <= i[1] \/ i[2] <= u
        /\ i[1] < h + 60 /\ h < i[2]
    BY <1>4 DEF Intervals
  <2>2. i[1] \in T /\ i[2] \in T /\ i[1] \in Int /\ i[2] \in Int
    BY <1>1, <2>1
  <2>3. i[1] # t /\ i[2] # t
    BY <1>1, <1>2, <2>1, <2>2
  <2>4. i \in S \X S
    BY <2>1, <2>3
  <2> QED
    BY <2>1, <2>4 DEF Intervals
<1>5. ASSUME NEW i \in Intervals(S, h)
      PROVE  i \in Intervals(T, h)
  <2>1. /\ i \in S \X S /\ i[1] < i[2] /\ i[2] - i[1] <= 5
        /\ \A u \in S : u <= i[1] \/ i[2] <= u
        /\ i[1] < h + 60 /\ h < i[2]
    BY <1>5 DEF Intervals
  <2>2. i \in T \X T /\ i[1] \in Int /\ i[2] \in Int
    BY <1>1, <2>1
  <2>3. t <= i[1] \/ i[2] <= t
    BY <1>1, <1>2, <2>1, <2>2
  <2> QED
    BY <2>1, <2>2, <2>3 DEF Intervals
<1> QED
  BY <1>3, <1>4, <1>5 DEF Summary
-----------------------------------------------------------------------------
(* The invariant *)

\* A writer holds the rows of the hours it has marked.
WritersHoldMarks ==
    \A w \in Writers :
        writing[w] # Idle =>
            \A h \in Marked(writing[w].reading) \ writing[w].todo : lock[h] = w

\* A worker holds the row of the hour it refreshes.
WorkersHoldHours ==
    \A k \in Workers : refreshing[k] # Idle => lock[refreshing[k].hour] = k

\* What a worker has read still gives the summary of all readings.
ReadsAreCurrent ==
    \A k \in Workers :
        refreshing[k].stage = "read" =>
            Summary(refreshing[k].samples, refreshing[k].hour) = Summary(readings, refreshing[k].hour)

\* A summary counts samples that are in history.
SummariesAreHistory ==
    \A h \in Hours : hourly[h].inside \subseteq Inside(readings, h)

Locking == WritersHoldMarks /\ WorkersHoldHours
Current == ReadsAreCurrent /\ SummariesAreHistory /\ SummariesAreCurrent

-----------------------------------------------------------------------------
(* Types *)

\* A summary of known times is well formed and holds samples of its own hour only.
LEMMA SummaryType ==
    ASSUME NEW S, S \subseteq Times, NEW h \in Hours
    PROVE  Summary(S, h) \in Summaries /\ \A t \in Summary(S, h).inside : InHour(t, h)
<1>1. Inside(S, h) \subseteq Times /\ Intervals(S, h) \subseteq Times \X Times
  BY DEF Inside, Intervals
<1>2. ASSUME NEW t \in Inside(S, h) PROVE InHour(t, h)
  <2>1. t \in Int /\ h <= t /\ t < h + 60
    BY RollupAssumption DEF Inside
  <2>2. PICK v \in Int : h = HourOf(v)
    BY HoursAreHours
  <2> QED
    BY <2>1, <2>2, HourIsUnique DEF InHour
<1> QED
  BY <1>1, <1>2 DEF Summary, Summaries

\* The end of a transaction leaves every row with a known holder or none.
LEMMA ReleasedType ==
    ASSUME TypeOK, NEW c
    PROVE  Released(c) \in [Hours -> {Nobody} \cup Writers \cup Workers]
BY DEF TypeOK, Released

\* The hours that a reading marks are hours of the model.
LEMMA MarkedType ==
    ASSUME NEW t \in Times
    PROVE  Marked(t) \subseteq Hours
BY DEF Hours

\* The types hold at the start.
LEMMA InitTypes == Init => TypeOK
<1> SUFFICES ASSUME Init PROVE TypeOK
  OBVIOUS
<1>1. hourly \in [Hours -> Summaries] /\ \A h \in Hours : \A t \in hourly[h].inside : InHour(t, h)
  BY SummaryType DEF Init
<1> QED
  BY <1>1, RollupAssumption DEF Init, TypeOK

\* Every step keeps the types.
LEMMA NextTypes == TypeOK /\ [Next]_vars => TypeOK'
<1> SUFFICES ASSUME TypeOK, [Next]_vars PROVE TypeOK'
  OBVIOUS
<1> USE RollupAssumption
<1>1. ASSUME NEW w \in Writers, NEW t \in Times, Insert(w, t) PROVE TypeOK'
  BY <1>1, MarkedType DEF TypeOK, Insert, Appends
<1>2. ASSUME NEW w \in Writers, Mark(w) PROVE TypeOK'
  <2>1. writing[w] \in Appends
    BY <1>2 DEF TypeOK, Mark
  <2>2. writing' \in [Writers -> {Idle} \cup Appends]
    BY <1>2, <2>1 DEF TypeOK, Mark, Appends
  <2>3. lock' \in [Hours -> {Nobody} \cup Writers \cup Workers]
    BY <1>2, <2>1 DEF TypeOK, Mark, Appends
  <2> QED
    BY <1>2, <2>2, <2>3 DEF TypeOK, Mark
<1>3. ASSUME NEW w \in Writers, CommitReading(w) PROVE TypeOK'
  <2>1. writing[w] \in Appends
    BY <1>3 DEF TypeOK, CommitReading
  <2>2. readings' \subseteq Times /\ dirty' \subseteq Hours
    BY <1>3, <2>1 DEF TypeOK, CommitReading, Appends, Held
  <2> QED
    BY <1>3, <2>2, ReleasedType DEF TypeOK, CommitReading
<1>4. ASSUME NEW w \in Writers, RollbackReading(w) PROVE TypeOK'
  BY <1>4, ReleasedType DEF TypeOK, RollbackReading
<1>5. ASSUME NEW k \in Workers, Claim(k) PROVE TypeOK'
  BY <1>5 DEF TypeOK, Claim, Locked, Refreshes
<1>6. ASSUME NEW k \in Workers, Read(k) PROVE TypeOK'
  <2>1. refreshing[k].hour \in Hours
    BY <1>6 DEF TypeOK, Read, Refreshes, Idle
  <2>2. Window(readings, refreshing[k].hour) \subseteq Times
    BY DEF TypeOK, Window
  <2> QED
    BY <1>6, <2>1, <2>2 DEF TypeOK, Read, Refreshes
<1>7. ASSUME NEW k \in Workers, CommitSummary(k) PROVE TypeOK'
  <2> DEFINE h == refreshing[k].hour
  <2>1. h \in Hours /\ refreshing[k].samples \subseteq Times
    BY <1>7 DEF TypeOK, CommitSummary, Refreshes, Idle
  <2>2. /\ hourly' \in [Hours -> Summaries]
        /\ \A j \in Hours : \A t \in hourly'[j].inside : InHour(t, j)
    BY <1>7, <2>1, SummaryType DEF TypeOK, CommitSummary
  <2> QED
    BY <1>7, <2>2, ReleasedType DEF TypeOK, CommitSummary
<1>8. ASSUME NEW k \in Workers, RollbackSummary(k) PROVE TypeOK'
  BY <1>8, ReleasedType DEF TypeOK, RollbackSummary
<1>9. CASE UNCHANGED vars
  BY <1>9 DEF TypeOK, vars
<1> QED
  BY <1>1, <1>2, <1>3, <1>4, <1>5, <1>6, <1>7, <1>8, <1>9 DEF Next, Proceed, Refresh

\* Types of the tables and of the transactions on them, and every sample counted
\* in its own hour (summarizeElectricalHour).
THEOREM TypeCorrect == Spec => []TypeOK
<1> QED
  BY InitTypes, NextTypes, PTL DEF Spec

-----------------------------------------------------------------------------
(* Row locks *)

\* At the start nobody holds a row.
LEMMA InitLocking == Init => Locking
BY DEF Init, Locking, WritersHoldMarks, WorkersHoldHours

\* The end of a transaction takes no row from another one.
LEMMA ReleasedKeeps ==
    ASSUME NEW c, NEW h \in Hours, lock[h] # c
    PROVE  Released(c)[h] = lock[h]
BY DEF Released

\* Every step leaves writers with the rows they marked and workers with their hour.
LEMMA NextLocking == TypeOK /\ Locking /\ [Next]_vars => Locking'
<1> SUFFICES ASSUME TypeOK, Locking, [Next]_vars PROVE Locking'
  OBVIOUS
<1> USE RollupAssumption, MarkedType DEF Locking
<1>1. ASSUME NEW w \in Writers, NEW t \in Times, Insert(w, t) PROVE Locking'
  BY <1>1 DEF TypeOK, Insert, WritersHoldMarks, WorkersHoldHours
<1>2. ASSUME NEW w \in Writers, Mark(w) PROVE Locking'
  <2>1. PICK h \in writing[w].todo :
           /\ lock[h] = Nobody
           /\ lock' = [lock EXCEPT ![h] = w]
           /\ writing' = [writing EXCEPT ![w].todo = @ \ {h}]
    BY <1>2 DEF Mark
  <2>2. writing[w] \in Appends /\ h \in Hours
    BY <1>2, <2>1 DEF TypeOK, Mark, Appends
  <2>3. \A j \in Hours : lock'[j] = IF j = h THEN w ELSE lock[j]
    BY <2>1, <2>2 DEF TypeOK
  <2>4. /\ writing'[w].reading = writing[w].reading
        /\ writing'[w].todo = writing[w].todo \ {h}
        /\ \A v \in Writers \ {w} : writing'[v] = writing[v]
    BY <2>1, <2>2 DEF TypeOK, Appends
  <2>5. \A v \in Writers : writing[v] # Idle => Marked(writing[v].reading) \subseteq Hours
    BY DEF TypeOK, Appends
  <2>6. WritersHoldMarks'
    BY <1>2, <2>1, <2>3, <2>4, <2>5 DEF WritersHoldMarks, Mark
  <2>7. \A k \in Workers : refreshing[k] # Idle => refreshing[k].hour \in Hours
    BY DEF TypeOK, Refreshes
  <2>8. WorkersHoldHours'
    BY <1>2, <2>1, <2>3, <2>7 DEF WorkersHoldHours, Mark
  <2> QED
    BY <2>6, <2>8
<1>3. ASSUME NEW c \in Writers \cup Workers,
             lock' = Released(c),
             \A v \in Writers : writing'[v] = IF v = c THEN Idle ELSE writing[v],
             \A k \in Workers : refreshing'[k] = IF k = c THEN Idle ELSE refreshing[k]
      PROVE  Locking'
  <2>1. \A v \in Writers : writing[v] # Idle => Marked(writing[v].reading) \subseteq Hours
    BY DEF TypeOK, Appends
  <2>2. \A k \in Workers : refreshing[k] # Idle => refreshing[k].hour \in Hours
    BY DEF TypeOK, Refreshes
  <2>3. \A h \in Hours : lock[h] # c => lock'[h] = lock[h]
    BY <1>3, ReleasedKeeps
  <2>4. WritersHoldMarks'
    BY <1>3, <2>1, <2>3 DEF WritersHoldMarks
  <2>5. WorkersHoldHours'
    BY <1>3, <2>2, <2>3 DEF WorkersHoldHours
  <2> QED
    BY <2>4, <2>5
<1>4. ASSUME NEW w \in Writers, CommitReading(w) \/ RollbackReading(w) PROVE Locking'
  <2>1. lock' = Released(w) /\ writing' = [writing EXCEPT ![w] = Idle] /\ refreshing' = refreshing
    BY <1>4 DEF CommitReading, RollbackReading
  <2> QED
    BY <1>3, <2>1 DEF TypeOK
<1>5. ASSUME NEW k \in Workers, Claim(k) PROVE Locking'
  <2>1. PICK h \in Hours :
           /\ lock[h] = Nobody
           /\ lock' = [lock EXCEPT ![h] = k]
           /\ refreshing' = [refreshing EXCEPT ![k] = [stage |-> "claimed", hour |-> h]]
           /\ writing' = writing /\ refreshing[k] = Idle
    BY <1>5 DEF TypeOK, Claim, Locked
  <2>2. \A j \in Hours : lock'[j] = IF j = h THEN k ELSE lock[j]
    BY <2>1 DEF TypeOK
  <2>3. \A v \in Writers : writing[v] # Idle => Marked(writing[v].reading) \subseteq Hours
    BY DEF TypeOK, Appends
  <2>4. WritersHoldMarks'
    BY <2>1, <2>2, <2>3 DEF WritersHoldMarks
  <2>5. \A j \in Workers : refreshing[j] # Idle => refreshing[j].hour \in Hours
    BY DEF TypeOK, Refreshes
  <2>6. WorkersHoldHours'
    BY <2>1, <2>2, <2>5 DEF WorkersHoldHours, TypeOK
  <2> QED
    BY <2>4, <2>6
<1>6. ASSUME NEW k \in Workers, Read(k) PROVE Locking'
  <2>1. /\ writing' = writing /\ lock' = lock /\ refreshing[k] # Idle
        /\ refreshing'[k].hour = refreshing[k].hour
        /\ \A j \in Workers \ {k} : refreshing'[j] = refreshing[j]
    BY <1>6 DEF Read, TypeOK, Idle
  <2> QED
    BY <2>1 DEF WritersHoldMarks, WorkersHoldHours
<1>7. ASSUME NEW k \in Workers, CommitSummary(k) \/ RollbackSummary(k) PROVE Locking'
  <2>1. lock' = Released(k) /\ refreshing' = [refreshing EXCEPT ![k] = Idle] /\ writing' = writing
    BY <1>7 DEF CommitSummary, RollbackSummary
  <2> QED
    BY <1>3, <2>1 DEF TypeOK
<1>8. CASE UNCHANGED vars
  BY <1>8 DEF vars, WritersHoldMarks, WorkersHoldHours
<1> QED
  BY <1>1, <1>2, <1>4, <1>5, <1>6, <1>7, <1>8 DEF Next, Proceed, Refresh

-----------------------------------------------------------------------------
(* Summaries and history *)

\* At the start there is no history and nothing to summarize.
LEMMA InitCurrent == Init => Current
<1> SUFFICES ASSUME Init PROVE Current
  OBVIOUS
<1>1. \A h \in Hours : hourly[h] = Summary(readings, h)
  BY DEF Init
<1>2. \A h \in Hours : hourly[h].inside = Inside(readings, h)
  <2>1. \A h \in Hours : Summary(readings, h).inside = Inside(readings, h)
    BY DEF Summary
  <2> QED
    BY <1>1, <2>1
<1>3. ReadsAreCurrent
  BY DEF Init, ReadsAreCurrent, Idle
<1> QED
  BY <1>1, <1>2, <1>3 DEF Current, SummariesAreHistory, SummariesAreCurrent

\* A step that leaves readings, summaries and pending hours alone, and what the
\* workers have read.
LEMMA QuietStep ==
    ASSUME Current, UNCHANGED <<readings, dirty, hourly>>,
           \A k \in Workers : refreshing'[k].stage = "read" => refreshing'[k] = refreshing[k]
    PROVE  Current'
BY DEF Current, ReadsAreCurrent, SummariesAreHistory, SummariesAreCurrent

\* The COMMIT of a writer changes only hours that it marked and whose rows it holds.
LEMMA CommitReadingCurrent ==
    ASSUME TypeOK, Locking, Current, NEW w \in Writers, CommitReading(w)
    PROVE  Current'
<1> DEFINE t == writing[w].reading
<1>1. writing[w] \in Appends /\ writing[w].todo = {} /\ readings' = readings \cup {t}
  BY DEF CommitReading, TypeOK
<1>2. t \in Times /\ Marked(t) \subseteq Hours /\ readings \subseteq Times
  BY <1>1, MarkedType DEF Appends, TypeOK
<1>3. \A h \in Marked(t) : lock[h] = w
  BY <1>1 DEF Locking, WritersHoldMarks, CommitReading
<1>4. \A h \in Hours : h \notin Marked(t) => Summary(readings', h) = Summary(readings, h)
  BY <1>1, <1>2, UnmarkedIsUnchanged
<1>5. ReadsAreCurrent'
  <2> SUFFICES ASSUME NEW k \in Workers, refreshing'[k].stage = "read"
               PROVE  Summary(refreshing'[k].samples, refreshing'[k].hour)
                        = Summary(readings', refreshing'[k].hour)
    BY DEF ReadsAreCurrent
  <2>1. refreshing' = refreshing
    BY DEF CommitReading
  <2>2. refreshing[k] \in Refreshes /\ refreshing[k].hour \in Hours
    BY <2>1 DEF TypeOK, Refreshes, Idle
  <2>3. lock[refreshing[k].hour] = k /\ k # w
    BY <2>1, <2>2, RollupAssumption DEF Locking, WorkersHoldHours, Idle
  <2> QED
    BY <1>3, <1>4, <2>1, <2>2, <2>3 DEF Current, ReadsAreCurrent
<1>6. SummariesAreHistory'
  <2>1. \A h \in Hours : Inside(readings, h) \subseteq Inside(readings', h)
    BY <1>1 DEF Inside
  <2> QED
    BY <2>1 DEF Current, SummariesAreHistory, CommitReading
<1>7. SummariesAreCurrent'
  <2>1. \A h \in Hours \ dirty' : h \notin dirty /\ h \notin Marked(t)
    BY <1>3 DEF CommitReading, Held
  <2> QED
    BY <1>4, <2>1 DEF Current, SummariesAreCurrent, CommitReading
<1> QED
  BY <1>5, <1>6, <1>7 DEF Current

\* The COMMIT of a worker replaces a summary by that of the whole history, which has no fewer samples.
LEMMA CommitSummaryCurrent ==
    ASSUME TypeOK, Current, NEW k \in Workers, CommitSummary(k)
    PROVE  Current' /\ \A h \in Hours : hourly[h].inside \subseteq hourly'[h].inside
<1> DEFINE h == refreshing[k].hour
<1>1. /\ h \in Hours
      /\ hourly' = [hourly EXCEPT ![h] = Summary(refreshing[k].samples, h)]
      /\ dirty' = dirty \ {h}
      /\ readings' = readings
      /\ refreshing' = [refreshing EXCEPT ![k] = Idle]
  BY DEF CommitSummary, TypeOK, Refreshes, Idle
<1>2. Summary(refreshing[k].samples, h) = Summary(readings, h)
  BY DEF CommitSummary, Current, ReadsAreCurrent
<1>3. \A j \in Hours : hourly'[j] = IF j = h THEN Summary(readings, h) ELSE hourly[j]
  BY <1>1, <1>2 DEF TypeOK
<1>4. Summary(readings, h).inside = Inside(readings, h)
  BY DEF Summary
<1>5. ReadsAreCurrent'
  BY <1>1 DEF Current, ReadsAreCurrent, TypeOK, Idle
<1>6. SummariesAreHistory'
  BY <1>1, <1>3, <1>4 DEF Current, SummariesAreHistory
<1>7. SummariesAreCurrent'
  BY <1>1, <1>3 DEF Current, SummariesAreCurrent
<1>8. \A j \in Hours : hourly[j].inside \subseteq hourly'[j].inside
  BY <1>3, <1>4 DEF Current, SummariesAreHistory
<1> QED
  BY <1>5, <1>6, <1>7, <1>8 DEF Current

\* Every step keeps summaries and the samples being summarized true to history.
LEMMA NextCurrent ==
    TypeOK /\ Locking /\ Current /\ [Next]_vars
        => Current' /\ \A h \in Hours : hourly[h].inside \subseteq hourly'[h].inside
<1> SUFFICES ASSUME TypeOK, Locking, Current, [Next]_vars
             PROVE  Current' /\ \A h \in Hours : hourly[h].inside \subseteq hourly'[h].inside
  OBVIOUS
<1>1. ASSUME NEW w \in Writers,
             (\E t \in Times : Insert(w, t)) \/ Mark(w) \/ RollbackReading(w)
      PROVE  Current' /\ hourly' = hourly
  BY <1>1, QuietStep DEF Insert, Mark, RollbackReading
<1>2. ASSUME NEW w \in Writers, CommitReading(w)
      PROVE  Current' /\ hourly' = hourly
  BY <1>2, CommitReadingCurrent DEF CommitReading
<1>3. ASSUME NEW k \in Workers, Claim(k) \/ RollbackSummary(k)
      PROVE  Current' /\ hourly' = hourly
  <2>1. \A j \in Workers : refreshing'[j].stage = "read" => refreshing'[j] = refreshing[j]
    BY <1>3 DEF Claim, RollbackSummary, TypeOK, Idle
  <2> QED
    BY <1>3, <2>1, QuietStep DEF Claim, RollbackSummary
<1>4. ASSUME NEW k \in Workers, Read(k)
      PROVE  Current' /\ hourly' = hourly
  <2> DEFINE h == refreshing[k].hour
  <2>1. h \in Hours /\ readings \subseteq Times
    BY <1>4 DEF Read, TypeOK, Refreshes, Idle
  <2>2. Summary(Window(readings, h), h) = Summary(readings, h)
    BY <2>1, WindowSuffices
  <2>3. /\ refreshing'[k] = [stage |-> "read", hour |-> h, samples |-> Window(readings, h)]
        /\ \A j \in Workers \ {k} : refreshing'[j] = refreshing[j]
        /\ UNCHANGED <<readings, dirty, hourly>>
    BY <1>4 DEF Read, TypeOK
  <2>4. ReadsAreCurrent'
    BY <2>2, <2>3 DEF Current, ReadsAreCurrent
  <2> QED
    BY <2>3, <2>4 DEF Current, SummariesAreHistory, SummariesAreCurrent
<1>5. ASSUME NEW k \in Workers, CommitSummary(k)
      PROVE  Current' /\ \A h \in Hours : hourly[h].inside \subseteq hourly'[h].inside
  BY <1>5, CommitSummaryCurrent
<1>6. CASE UNCHANGED vars
  BY <1>6, QuietStep DEF vars
<1> QED
  BY <1>1, <1>2, <1>3, <1>4, <1>5, <1>6 DEF Next, Proceed, Refresh, vars

-----------------------------------------------------------------------------
(* Theorems *)

\* The three parts hold together in every state of a behaviour.
LEMMA Invariance == Spec => [](TypeOK /\ Locking /\ Current)
<1>1. Init => TypeOK /\ Locking /\ Current
  BY InitTypes, InitLocking, InitCurrent
<1>2. TypeOK /\ Locking /\ Current /\ [Next]_vars => (TypeOK /\ Locking /\ Current)'
  BY NextTypes, NextLocking, NextCurrent
<1> QED
  BY <1>1, <1>2, PTL DEF Spec

\* Whatever appends and refreshes overlap, roll back or come late, the summary of an
\* hour for which no work is pending is that of all the readings (append,
\* refreshOneHour, summarizeElectricalHour).
THEOREM SummariesCorrect == Spec => []SummariesAreCurrent
<1>1. Current => SummariesAreCurrent
  BY DEF Current
<1> QED
  BY <1>1, Invariance, PTL

\* No refresh puts an older summary over a newer one (FOR UPDATE SKIP LOCKED).
THEOREM RegressionIsImpossible == Spec => SummaryNeverRegresses
<1>1. TypeOK /\ Locking /\ Current /\ [Next]_vars
        => [\A h \in Hours : hourly[h].inside \subseteq hourly'[h].inside]_vars
  BY NextCurrent
<1> QED
  BY <1>1, Invariance, PTL DEF Spec, SummaryNeverRegresses
=============================================================================
