------------------------ MODULE CommandTrackerProofs ------------------------
(***************************************************************************)
(* The command tracker for all constants: type correctness, one running    *)
(* execution per device, agreement of verdict and trace, traces that tell  *)
(* one story, no verification after the deadline, and the refinement of    *)
(* the abstract lifecycle.                                                 *)
(*                                                                         *)
(* The inductive invariant is Consistent (CommandTrackerStateProofs) with  *)
(* the stories of the traces.  What an operation does to a consistent      *)
(* state is proved there; here it is proved what it does to the stories    *)
(* and which verdicts it may give after a deadline.                        *)
(***************************************************************************)
EXTENDS CommandTracker, CommandTrackerStateProofs

Stories(st) == \A id \in DOMAIN st.traces : OneStory(st.traces[id])

IInv ==
    /\ now \in Nat \ {0}
    /\ Consistent(tracker, now)
    /\ Stories(tracker)

-----------------------------------------------------------------------------
(* The stories of the traces *)

FailureStages == {"transport_failed", "pre_write_failed", "mismatched"}

\* A running trace may be completed with the stage of its outcome; whether it
\* was verified decides which outcomes are left.
LEMMA CompleteTellsOneStory ==
    ASSUME NEW t \in Traces, NEW outcome \in Completions, NEW stage, NEW at,
           OneStory(t), t.outcome = "running",
           \/ outcome = "failed" /\ t.settlingUntil = 0 /\ stage \in FailureStages
           \/ outcome # "failed" /\ stage = outcome,
           outcome \in {"settled", "drifted"} => t.settlingUntil # 0,
           outcome = "timed_out" => t.settlingUntil = 0
    PROVE  OneStory(Complete(t, outcome, at, stage))
  <1> DEFINE u == Complete(t, outcome, at, stage)
  <1>1. /\ u.outcome = outcome /\ u.settlingUntil = t.settlingUntil
        /\ u.stages = t.stages \cup {stage}
    BY DEF Complete, Staged, Traces
  <1> SUFFICES OneStory(u)
    OBVIOUS
  <1> HIDE DEF u
  <1>2. CASE outcome = "failed"
    BY <1>1, <1>2 DEF OneStory, FailureStages
  <1>3. CASE outcome # "failed"
    BY <1>1, <1>3 DEF OneStory, Completions
  <1> QED BY <1>2, <1>3

\* Replacing the trace of one command leaves the other stories alone.
LEMMA SetTraceTellsOneStory ==
    ASSUME NEW st, NEW id \in DOMAIN st.traces, NEW t \in Traces, TrackerType(st),
           \A other \in DOMAIN st.traces \ {id} : OneStory(st.traces[other]), OneStory(t)
    PROVE  Stories(SetTrace(st, id, t))
  BY SetTraceTyped DEF Stories

\* Expiry of verdicts does not touch the stories.
LEMMA RefreshCommandsKeepsStories ==
    ASSUME NEW st, NEW keys, NEW time \in Nat \ {0}, TrackerType(st), Stories(st)
    PROVE  Stories(RefreshCommands(st, keys, time))
  BY RefreshCommandsEffect DEF Stories

\* Expiry of traces adds the stage of the outcome it gives.
LEMMA RefreshTracesTellsOneStory ==
    ASSUME NEW st, NEW time, TrackerType(st), Stories(st)
    PROVE  Stories(RefreshTraces(st, time))
  <1> DEFINE new == RefreshTraces(st, time)
  <1>1. /\ DOMAIN new.traces = DOMAIN st.traces
        /\ \A id \in DOMAIN st.traces : new.traces[id] = RefreshedTrace(st.traces[id], time)
    BY DEF RefreshTraces, TrackerType
  <1> HIDE DEF new
  <1>2. ASSUME NEW t \in Traces, OneStory(t)
        PROVE  OneStory(RefreshedTrace(t, time))
    <2>1. CASE t.outcome = "running" /\ t.settlingUntil # 0 /\ time >= t.settlingUntil
      <3>1. OneStory(Complete(t, "settled", t.settlingUntil, "settled"))
        BY <1>2, <2>1, CompleteTellsOneStory DEF Completions
      <3> QED BY <2>1, <3>1 DEF RefreshedTrace
    <2>2. CASE t.outcome = "running" /\ t.settlingUntil = 0 /\ time > t.expiresAt
      <3>1. OneStory(Complete(t, "timed_out", t.expiresAt, "timed_out"))
        BY <1>2, <2>2, CompleteTellsOneStory DEF Completions
      <3> QED BY <2>2, <3>1 DEF RefreshedTrace
    <2>3. CASE /\ ~(t.outcome = "running" /\ t.settlingUntil # 0 /\ time >= t.settlingUntil)
               /\ ~(t.outcome = "running" /\ t.settlingUntil = 0 /\ time > t.expiresAt)
      BY <1>2, <2>3 DEF RefreshedTrace
    <2> QED BY <2>1, <2>2, <2>3
  <1> QED BY <1>1, <1>2 DEF Stories, TrackerType, new

\* Publication is a stage that says nothing of the outcome.
LEMMA PublishedTellsOneStory ==
    ASSUME NEW st, NEW deviceId, NEW id, TrackerType(st), Stories(st)
    PROVE  Stories(MarkDeviceCommandPublished(st, deviceId, id))
  <1> SUFFICES ASSUME IsRunning(st, id)
               PROVE  Stories(SetTrace(st, id, Staged(st.traces[id], "published")))
    BY DEF MarkDeviceCommandPublished
  <1> DEFINE t == Staged(st.traces[id], "published")
  <1>1. id \in DOMAIN st.traces /\ st.traces[id] \in Traces /\ OneStory(st.traces[id])
    BY DEF IsRunning, HasTrace, TrackerType, Stories
  <1>2. /\ t \in Traces /\ t.outcome = st.traces[id].outcome
        /\ t.settlingUntil = st.traces[id].settlingUntil
        /\ t.stages = st.traces[id].stages \cup {"published"}
    BY <1>1 DEF Staged, Traces, Stages
  <1> HIDE DEF t
  <1>3. OneStory(t)
    BY <1>1, <1>2 DEF OneStory
  <1> QED BY <1>1, <1>2, <1>3, SetTraceTellsOneStory DEF Stories, t

\* A failure completes a trace that was not verified, because the command it
\* judges was still shown pending.
LEMMA FailTellsOneStory ==
    ASSUME NEW st, NEW deviceId, NEW id, NEW time \in Nat \ {0}, NEW stage \in FailureStages,
           Consistent(st, time), Stories(st)
    PROVE  Stories(Fail(st, deviceId, id, stage, time))
  <1> DEFINE key == st.traces[id].key
             c == [st.commands[key] EXCEPT !.status = "failed", !.expiresAt = time,
                                           !.displayUntil = time + VerdictDisplay]
             mid == SetCommand(st, key, c)
             t == Complete(st.traces[id], "failed", time, stage)
  <1> SUFFICES ASSUME IsOpen(st, deviceId, id)
               PROVE  Stories(SetTrace(mid, id, t))
    BY DEF Fail
  <1>1. /\ id \in DOMAIN st.traces /\ st.traces[id] \in Traces /\ OneStory(st.traces[id])
        /\ st.traces[id].outcome = "running"
        /\ key \in DOMAIN st.commands /\ st.commands[key] \in Commands
        /\ st.commands[key].id = id /\ st.commands[key].status = "pending" /\ id <= st.seq
    BY DEF IsOpen, IsRunning, HasTrace, HasCommand, Consistent, TrackerType, Stories
  <1>2. st.traces[id].settlingUntil = 0
    BY <1>1 DEF Consistent, VerdictsAgree, HasTrace, Agree
  <1>3. c \in Commands /\ c.id = id
    <2>1. time + VerdictDisplay \in Nat
      BY TrackerAssumption
    <2> QED BY <1>1, <2>1 DEF Commands, Statuses
  <1>4. t \in Traces
    BY <1>1 DEF Complete, Staged, Traces, Completions, FailureStages, Stages
  <1>5. OneStory(t)
    BY <1>1, <1>2, CompleteTellsOneStory DEF Completions
  <1>6. TrackerType(mid) /\ mid.traces = st.traces
    <2>1. key \in ScopedDevices
      BY <1>1 DEF Consistent, TrackerType
    <2> HIDE DEF c, key
    <2> QED BY <1>1, <1>3, <2>1, SetCommandTyped DEF Consistent, mid
  <1> HIDE DEF mid, t
  <1> QED BY <1>1, <1>4, <1>5, <1>6, SetTraceTellsOneStory DEF Stories

\* A drift completes a verified trace.
LEMMA DriftTellsOneStory ==
    ASSUME NEW st, NEW key, NEW reported \in Reports, NEW observedAt \in Nat,
           TrackerType(st), Stories(st)
    PROVE  Stories(ObservePossibleDrift(st, key, reported, observedAt))
  <1> DEFINE id == st.latest[key]
             u == Complete(st.traces[id], "drifted", observedAt, "drifted")
             t == [u EXCEPT !.observed = reported]
  <1> SUFFICES ASSUME key \in DOMAIN st.latest, IsRunning(st, id), st.traces[id].settlingUntil # 0
               PROVE  Stories(SetTrace(st, id, t))
    BY DEF ObservePossibleDrift
  <1>1. /\ id \in DOMAIN st.traces /\ st.traces[id] \in Traces /\ OneStory(st.traces[id])
        /\ st.traces[id].outcome = "running"
    BY DEF IsRunning, HasTrace, TrackerType, Stories
  <1>2. u \in Traces
    BY <1>1 DEF Complete, Staged, Traces, Completions, Stages
  <1>3. OneStory(u)
    BY <1>1, CompleteTellsOneStory DEF Completions
  <1> HIDE DEF u, id
  <1>4. /\ t \in Traces /\ t.outcome = u.outcome /\ t.settlingUntil = u.settlingUntil
        /\ t.stages = u.stages
    BY <1>2 DEF Traces
  <1> HIDE DEF t
  <1>5. OneStory(t)
    BY <1>3, <1>4 DEF OneStory
  <1> QED BY <1>1, <1>4, <1>5, SetTraceTellsOneStory DEF Stories

\* A matching report in time adds the verification to a running trace.
LEMMA AcknowledgeTellsOneStory ==
    ASSUME NEW st, NEW key, NEW time \in Nat \ {0}, Consistent(st, time), Stories(st),
           HasCommand(st, key, "pending"), time <= st.commands[key].expiresAt
    PROVE  Stories(Acknowledge(st, key, time))
  <1> DEFINE old == st.commands[key]
             c == [old EXCEPT !.status = "acked", !.displayUntil = time + AckedDisplay]
             mid == SetCommand(st, key, c)
             t == [Staged(st.traces[old.id], "verified")
                     EXCEPT !.settlingUntil = time + SettleWindow]
  <1>1. /\ key \in DOMAIN st.commands /\ key \in ScopedDevices /\ old \in Commands
        /\ old.id <= st.seq /\ old.status = "pending"
    BY DEF HasCommand, Consistent, TrackerType
  <1>2. c \in Commands /\ c.id = old.id
    <2>1. time + AckedDisplay \in Nat
      BY TrackerAssumption
    <2> QED BY <1>1, <2>1 DEF Commands, Statuses
  <1>3. TrackerType(mid) /\ mid.traces = st.traces
    <2> HIDE DEF c
    <2> QED BY <1>1, <1>2, SetCommandTyped DEF Consistent
  <1>4. CASE ~HasTrace(st, old.id)
    BY <1>3, <1>4 DEF Acknowledge, Stories
  <1>5. CASE HasTrace(st, old.id)
    <2>1. Acknowledge(st, key, time) = SetTrace(mid, old.id, t)
      BY <1>5 DEF Acknowledge
    <2>2. st.traces[old.id] \in Traces /\ OneStory(st.traces[old.id])
      BY <1>5 DEF HasTrace, Consistent, TrackerType, Stories
    <2>3. st.traces[old.id].expiresAt = old.expiresAt /\ Agree(old, st.traces[old.id], time)
      BY <1>1, <1>5 DEF Consistent, SameDeadline, VerdictsAgree
    <2>4. st.traces[old.id].outcome = "running"
      BY <1>1, <2>2, <2>3 DEF Agree, Commands, Traces
    <2>5. time + SettleWindow \in Nat \ {0}
      BY TrackerAssumption
    <2>6. /\ t \in Traces /\ t.outcome = "running" /\ t.settlingUntil # 0
          /\ t.stages = st.traces[old.id].stages \cup {"verified"}
      BY <2>2, <2>4, <2>5 DEF Staged, Traces, Stages
    <2> HIDE DEF mid, t
    <2>7. OneStory(t)
      BY <2>2, <2>4, <2>6 DEF OneStory
    <2> QED BY <1>3, <1>5, <2>1, <2>6, <2>7, SetTraceTellsOneStory DEF HasTrace, Stories
  <1> QED BY <1>4, <1>5

\* A report of any age and content keeps every story.
LEMMA ObserveTellsOneStory ==
    ASSUME NEW st, NEW key \in ScopedDevices, NEW reported \in Reports, NEW observedAt \in Nat,
           NEW evidence, NEW time \in Nat \ {0}, Consistent(st, time), Stories(st)
    PROVE  Stories(ObserveTelemetry(st, key, reported, observedAt, evidence, time))
  <1> DEFINE mid == RefreshCommand(st, key, time)
             fresh == RefreshTraces(mid, time)
  <1>1. Consistent(mid, time) /\ Consistent(fresh, time)
    BY RefreshCommandsIsConsistent, RefreshTracesIsConsistent DEF RefreshCommand
  <1>2. Stories(mid)
    BY RefreshCommandsKeepsStories DEF Consistent, RefreshCommand
  <1>3. Stories(fresh)
    <2> HIDE DEF mid
    <2> QED BY <1>1, <1>2, RefreshTracesTellsOneStory DEF Consistent
  <1>4. HasCommand(fresh, key, "pending") => time <= fresh.commands[key].expiresAt
    BY RefreshedPendingIsInTime
  <1>5. CASE HasCommand(fresh, key, "pending")
    <2>1. ObserveTelemetry(st, key, reported, observedAt, evidence, time) \in
            {fresh, Acknowledge(fresh, key, time)}
      BY <1>5 DEF ObserveTelemetry, ObservePending
    <2> HIDE DEF fresh
    <2> QED BY <1>1, <1>3, <1>4, <1>5, <2>1, AcknowledgeTellsOneStory
  <1>6. CASE ~HasCommand(fresh, key, "pending")
    <2>1. ObserveTelemetry(st, key, reported, observedAt, evidence, time) =
            ObservePossibleDrift(fresh, key, reported, observedAt)
      BY <1>6 DEF ObserveTelemetry
    <2> HIDE DEF fresh
    <2> QED BY <1>1, <1>3, <2>1, DriftTellsOneStory DEF Consistent
  <1> QED BY <1>5, <1>6

\* A new command completes its predecessor as superseded and starts a story of its own.
LEMMA PendingTellsOneStory ==
    ASSUME NEW st, NEW key \in ScopedDevices, NEW expected, NEW ttl, NEW time \in Nat \ {0},
           Consistent(st, time), Stories(st)
    PROVE  Stories(MarkDeviceCommandPending(st, key, expected, ttl, time))
  <1> DEFINE id == st.seq + 1
             prior == Supersede(st, key, time)
             last == st.latest[key]
             s == Complete(st.traces[last], "superseded", time, "superseded")
             ts == Put(prior.traces, id, NewTrace(key, expected, time, ttl))
  <1>1. Stories(prior)
    <2>1. CASE key \in DOMAIN st.latest /\ IsRunning(st, last)
      <3>1. /\ last \in DOMAIN st.traces /\ st.traces[last] \in Traces
            /\ OneStory(st.traces[last]) /\ st.traces[last].outcome = "running"
        BY <2>1 DEF IsRunning, HasTrace, Consistent, TrackerType, Stories
      <3>2. s \in Traces
        BY <3>1 DEF Complete, Staged, Traces, Completions, Stages
      <3>3. OneStory(s)
        BY <3>1, CompleteTellsOneStory DEF Completions
      <3>4. prior = SetTrace(st, last, s)
        BY <2>1 DEF Supersede
      <3> HIDE DEF s, last, prior
      <3> QED BY <3>1, <3>2, <3>3, <3>4, SetTraceTellsOneStory DEF Consistent, Stories
    <2>2. CASE ~(key \in DOMAIN st.latest /\ IsRunning(st, last))
      BY <2>2 DEF Supersede
    <2> QED BY <2>1, <2>2
  <1>2. OneStory(NewTrace(key, expected, time, ttl))
    BY DEF OneStory, NewTrace
  <1>3. \A i \in DOMAIN ts : OneStory(ts[i])
    <2> HIDE DEF prior, id
    <2> QED BY <1>1, <1>2 DEF Stories, Put
  <1>4. MarkDeviceCommandPending(st, key, expected, ttl, time).traces = Keep(ts, Retained(ts))
    BY DEF MarkDeviceCommandPending, TrimTraces
  <1> HIDE DEF ts
  <1> QED BY <1>3, <1>4 DEF Stories, Keep

-----------------------------------------------------------------------------
(* Verification in time *)

\* Between st and new nothing was verified after its deadline.
InTime(st, new, time) ==
    /\ \A key \in DOMAIN st.commands :
          HasCommand(st, key, "pending") /\ HasCommand(new, key, "acked") =>
              time <= st.commands[key].expiresAt
    /\ \A id \in DOMAIN st.traces \cap DOMAIN new.traces :
          new.traces[id].settlingUntil # st.traces[id].settlingUntil =>
              time <= st.traces[id].expiresAt

\* Between st and new nothing was verified, and no deadline was moved.
Unverified(st, new) ==
    /\ DOMAIN new.commands \subseteq DOMAIN st.commands
    /\ \A key \in DOMAIN new.commands :
          /\ HasCommand(new, key, "acked") => HasCommand(st, key, "acked")
          /\ HasCommand(new, key, "pending") =>
                 /\ HasCommand(st, key, "pending")
                 /\ new.commands[key].expiresAt = st.commands[key].expiresAt
    /\ DOMAIN new.traces = DOMAIN st.traces
    /\ \A id \in DOMAIN st.traces :
          /\ new.traces[id].settlingUntil = st.traces[id].settlingUntil
          /\ new.traces[id].expiresAt = st.traces[id].expiresAt

\* A step that verifies nothing verifies nothing late.
LEMMA UnverifiedIsInTime ==
    ASSUME NEW st, NEW new, NEW time, Unverified(st, new)
    PROVE  InTime(st, new, time)
  BY DEF Unverified, InTime, HasCommand

\* Two steps that verify nothing are one.
LEMMA UnverifiedTwice ==
    ASSUME NEW st, NEW mid, NEW new, Unverified(st, mid), Unverified(mid, new)
    PROVE  Unverified(st, new)
  BY DEF Unverified

\* A call that leaves the state alone verifies nothing.
LEMMA SameIsUnverified ==
    ASSUME NEW st PROVE Unverified(st, st)
  BY DEF Unverified, HasCommand

\* A trace replaced by one with the same window and deadline.
LEMMA SetTraceIsUnverified ==
    ASSUME NEW st, NEW id \in DOMAIN st.traces, NEW t \in Traces, TrackerType(st),
           t.settlingUntil = st.traces[id].settlingUntil, t.expiresAt = st.traces[id].expiresAt
    PROVE  Unverified(st, SetTrace(st, id, t))
  BY SetTraceTyped DEF Unverified, HasCommand

\* A verdict other than acked and pending.
LEMMA SetCommandIsUnverified ==
    ASSUME NEW st, NEW key \in DOMAIN st.commands, NEW c \in Commands, TrackerType(st),
           c.id <= st.seq, c.status \in {"failed", "no_ack"}
    PROVE  Unverified(st, SetCommand(st, key, c))
  <1>1. key \in ScopedDevices
    BY DEF TrackerType
  <1> DEFINE new == SetCommand(st, key, c)
  <1>2. new.commands = Put(st.commands, key, c) /\ new.traces = st.traces
    BY <1>1, SetCommandTyped
  <1> HIDE DEF new
  <1>3. Unverified(st, new)
    BY <1>2 DEF Unverified, HasCommand, Put
  <1> QED BY <1>3 DEF new

\* Expiry gives a verdict or forgets one, and acknowledges nothing.
LEMMA RefreshCommandsIsUnverified ==
    ASSUME NEW st, NEW keys, NEW time \in Nat \ {0}, TrackerType(st)
    PROVE  Unverified(st, RefreshCommands(st, keys, time))
  <1> DEFINE new == RefreshCommands(st, keys, time)
  <1>1. /\ new.traces = st.traces
        /\ DOMAIN new.commands \subseteq DOMAIN st.commands
        /\ \A k \in DOMAIN new.commands :
              new.commands[k] = st.commands[k] \/ new.commands[k].status = "no_ack"
    BY RefreshCommandsEffect
  <1> HIDE DEF new
  <1>2. Unverified(st, new)
    BY <1>1 DEF Unverified, HasCommand
  <1> QED BY <1>2 DEF new

\* Expiry of traces opens no settle window.
LEMMA RefreshTracesIsUnverified ==
    ASSUME NEW st, NEW time, TrackerType(st)
    PROVE  /\ Unverified(st, RefreshTraces(st, time))
           /\ RefreshTraces(st, time).commands = st.commands
  <1> DEFINE new == RefreshTraces(st, time)
  <1>1. /\ new.commands = st.commands
        /\ DOMAIN new.traces = DOMAIN st.traces
        /\ \A id \in DOMAIN st.traces : new.traces[id] = RefreshedTrace(st.traces[id], time)
    BY DEF RefreshTraces, TrackerType
  <1> HIDE DEF new
  <1>2. Unverified(st, new)
    BY <1>1, RefreshedTraceEffect DEF Unverified, HasCommand, TrackerType
  <1> QED BY <1>1, <1>2 DEF new

\* Publication verifies nothing.
LEMMA PublishedIsUnverified ==
    ASSUME NEW st, NEW deviceId, NEW id, TrackerType(st)
    PROVE  Unverified(st, MarkDeviceCommandPublished(st, deviceId, id))
  <1> DEFINE t == Staged(st.traces[id], "published")
  <1>1. CASE IsRunning(st, id) /\ DeviceIdOf(st.traces[id].key) = deviceId
    <2>1. id \in DOMAIN st.traces /\ st.traces[id] \in Traces
      BY <1>1 DEF IsRunning, HasTrace, TrackerType
    <2>2. /\ t \in Traces /\ t.expiresAt = st.traces[id].expiresAt
          /\ t.settlingUntil = st.traces[id].settlingUntil
      BY <2>1 DEF Staged, Traces, Stages
    <2>3. MarkDeviceCommandPublished(st, deviceId, id) = SetTrace(st, id, t)
      BY <1>1 DEF MarkDeviceCommandPublished
    <2> HIDE DEF t
    <2> QED BY <2>1, <2>2, <2>3, SetTraceIsUnverified
  <1>2. CASE ~(IsRunning(st, id) /\ DeviceIdOf(st.traces[id].key) = deviceId)
    BY <1>2, SameIsUnverified DEF MarkDeviceCommandPublished
  <1> QED BY <1>1, <1>2

\* A drift closes a window and opens none.
LEMMA DriftIsUnverified ==
    ASSUME NEW st, NEW key, NEW reported \in Reports, NEW observedAt \in Nat, TrackerType(st)
    PROVE  Unverified(st, ObservePossibleDrift(st, key, reported, observedAt))
  <1> DEFINE id == st.latest[key]
             t == [Complete(st.traces[id], "drifted", observedAt, "drifted")
                     EXCEPT !.observed = reported]
  <1>1. CASE /\ key \in DOMAIN st.latest /\ IsRunning(st, id) /\ st.traces[id].settlingUntil # 0
             /\ ~Matches(st.traces[id].expected, reported)
    <2>1. id \in DOMAIN st.traces /\ st.traces[id] \in Traces
      BY <1>1 DEF IsRunning, HasTrace, TrackerType
    <2>2. /\ t \in Traces /\ t.expiresAt = st.traces[id].expiresAt
          /\ t.settlingUntil = st.traces[id].settlingUntil
      BY <2>1 DEF Complete, Staged, Traces, Completions, Stages
    <2>3. ObservePossibleDrift(st, key, reported, observedAt) = SetTrace(st, id, t)
      BY <1>1 DEF ObservePossibleDrift
    <2> HIDE DEF t, id
    <2> QED BY <2>1, <2>2, <2>3, SetTraceIsUnverified
  <1>2. CASE ~ /\ key \in DOMAIN st.latest /\ IsRunning(st, id) /\ st.traces[id].settlingUntil # 0
               /\ ~Matches(st.traces[id].expected, reported)
    <2>1. ObservePossibleDrift(st, key, reported, observedAt) = st
      BY <1>2 DEF ObservePossibleDrift
    <2> QED BY <2>1, SameIsUnverified
  <1> QED BY <1>1, <1>2

\* What follows a step that verified nothing is in time when it is in time for the
\* command and the traces that step left.
LEMMA InTimeAfterUnverified ==
    ASSUME NEW st, NEW mid, NEW new, NEW time, Unverified(st, mid), InTime(mid, new, time),
           \A key \in DOMAIN st.commands :
               HasCommand(new, key, "acked") =>
                   HasCommand(mid, key, "acked") \/ HasCommand(mid, key, "pending")
    PROVE  InTime(st, new, time)
  BY DEF Unverified, InTime, HasCommand

\* A failure callback verifies nothing.
LEMMA FailIsInTime ==
    ASSUME NEW st, NEW deviceId, NEW id, NEW time \in Nat \ {0}, NEW stage \in Stages,
           Consistent(st, time)
    PROVE  InTime(st, Fail(st, deviceId, id, stage, time), time)
  <1> DEFINE key == st.traces[id].key
             c == [st.commands[key] EXCEPT !.status = "failed", !.expiresAt = time,
                                           !.displayUntil = time + VerdictDisplay]
             mid == SetCommand(st, key, c)
             t == Complete(st.traces[id], "failed", time, stage)
             new == SetTrace(mid, id, t)
  <1>1. CASE IsOpen(st, deviceId, id)
    <2>1. /\ id \in DOMAIN st.traces /\ st.traces[id] \in Traces
          /\ key \in DOMAIN st.commands /\ key \in ScopedDevices /\ st.commands[key] \in Commands
          /\ st.commands[key].id <= st.seq
      BY <1>1 DEF IsOpen, IsRunning, HasTrace, HasCommand, Consistent, TrackerType
    <2>2. c \in Commands /\ c.id = st.commands[key].id /\ c.status = "failed"
      <3>1. time + VerdictDisplay \in Nat
        BY TrackerAssumption
      <3> QED BY <2>1, <3>1 DEF Commands, Statuses
    <2>3. /\ t \in Traces /\ t.expiresAt = st.traces[id].expiresAt
          /\ t.settlingUntil = st.traces[id].settlingUntil
      BY <2>1 DEF Complete, Staged, Traces, Completions
    <2>4. Fail(st, deviceId, id, stage, time) = new
      BY <1>1 DEF Fail
    <2> HIDE DEF c, t, key
    <2>5. /\ TrackerType(mid) /\ mid.traces = st.traces
          /\ Unverified(st, mid)
      BY <2>1, <2>2, SetCommandTyped, SetCommandIsUnverified DEF Consistent
    <2> HIDE DEF mid
    <2>6. Unverified(mid, new)
      BY <2>1, <2>3, <2>5, SetTraceIsUnverified
    <2> HIDE DEF new
    <2>7. Unverified(st, new)
      BY <2>5, <2>6, UnverifiedTwice
    <2> QED BY <2>4, <2>7, UnverifiedIsInTime
  <1>2. CASE ~IsOpen(st, deviceId, id)
    <2>1. Fail(st, deviceId, id, stage, time) = st
      BY <1>2 DEF Fail
    <2> QED BY <2>1, SameIsUnverified, UnverifiedIsInTime
  <1> QED BY <1>1, <1>2

\* An acknowledgement opens the window of the trace with the deadline of the
\* command it judges, and touches no other device.
LEMMA AcknowledgeIsInTime ==
    ASSUME NEW st, NEW key, NEW time \in Nat \ {0}, Consistent(st, time),
           HasCommand(st, key, "pending"), time <= st.commands[key].expiresAt
    PROVE  LET new == Acknowledge(st, key, time) IN
           /\ InTime(st, new, time)
           /\ \A k \in ScopedDevices \ {key} :
                 HasCommand(new, k, "acked") => HasCommand(st, k, "acked")
  <1> DEFINE old == st.commands[key]
             c == [old EXCEPT !.status = "acked", !.displayUntil = time + AckedDisplay]
             mid == SetCommand(st, key, c)
             t == [Staged(st.traces[old.id], "verified")
                     EXCEPT !.settlingUntil = time + SettleWindow]
             new == Acknowledge(st, key, time)
  <1>1. /\ key \in DOMAIN st.commands /\ key \in ScopedDevices /\ old \in Commands
        /\ old.id <= st.seq /\ old.status = "pending"
    BY DEF HasCommand, Consistent, TrackerType
  <1>2. c \in Commands /\ c.id = old.id
    <2>1. time + AckedDisplay \in Nat
      BY TrackerAssumption
    <2> QED BY <1>1, <2>1 DEF Commands, Statuses
  <1>3. TrackerType(mid) /\ mid.traces = st.traces /\ mid.commands = Put(st.commands, key, c)
    <2> HIDE DEF c
    <2> QED BY <1>1, <1>2, SetCommandTyped DEF Consistent
  <1>4. /\ new.commands = mid.commands
        /\ \A id \in DOMAIN st.traces :
              /\ id \in DOMAIN new.traces
              /\ id # old.id => new.traces[id] = st.traces[id]
    <2>1. CASE ~HasTrace(st, old.id)
      <3>1. new = mid
        BY <2>1 DEF Acknowledge
      <3> QED BY <1>3, <3>1
    <2>2. CASE HasTrace(st, old.id)
      <3>1. new = SetTrace(mid, old.id, t)
        BY <2>2 DEF Acknowledge
      <3>2. t \in Traces
        <4>1. time + SettleWindow \in Nat /\ st.traces[old.id] \in Traces
          BY <2>2, TrackerAssumption DEF HasTrace, Consistent, TrackerType
        <4> QED BY <4>1 DEF Staged, Traces, Stages
      <3> HIDE DEF new, mid, t
      <3> QED BY <1>3, <2>2, <3>1, <3>2, SetTraceTyped DEF HasTrace
    <2> QED BY <2>1, <2>2
  <1>5. HasTrace(st, old.id) => st.traces[old.id].expiresAt = old.expiresAt
    BY <1>1 DEF Consistent, SameDeadline
  <1> HIDE DEF new, mid, c, t
  <1>6. \A k \in ScopedDevices \ {key} : HasCommand(new, k, "acked") => HasCommand(st, k, "acked")
    BY <1>3, <1>4 DEF HasCommand, Put
  <1>7. InTime(st, new, time)
    BY <1>1, <1>4, <1>5, <1>6 DEF InTime, HasCommand, HasTrace, Consistent, TrackerType
  <1> QED BY <1>6, <1>7 DEF new

\* A report is judged after expiry, so what it verifies is still in time.
LEMMA ObserveIsInTime ==
    ASSUME NEW st, NEW key \in ScopedDevices, NEW reported \in Reports, NEW observedAt \in Nat,
           NEW evidence, NEW time \in Nat \ {0}, Consistent(st, time)
    PROVE  InTime(st, ObserveTelemetry(st, key, reported, observedAt, evidence, time), time)
  <1> DEFINE mid == RefreshCommand(st, key, time)
             fresh == RefreshTraces(mid, time)
             new == ObserveTelemetry(st, key, reported, observedAt, evidence, time)
  <1> SUFFICES InTime(st, new, time)
    OBVIOUS
  <1>1. Consistent(mid, time) /\ Consistent(fresh, time)
    BY RefreshCommandsIsConsistent, RefreshTracesIsConsistent DEF RefreshCommand
  <1>2. HasCommand(fresh, key, "pending") => time <= fresh.commands[key].expiresAt
    BY RefreshedPendingIsInTime
  <1>3. Unverified(st, mid)
    BY RefreshCommandsIsUnverified DEF RefreshCommand, Consistent
  <1>4. Unverified(mid, fresh)
    <2> HIDE DEF mid
    <2> QED BY <1>1, RefreshTracesIsUnverified DEF Consistent
  <1>5. CASE HasCommand(fresh, key, "pending")
    <2>1. new \in {fresh, Acknowledge(fresh, key, time)}
      BY <1>5 DEF ObserveTelemetry, ObservePending
    <2> HIDE DEF new, fresh, mid
    <2>2. Unverified(st, fresh)
      BY <1>3, <1>4, UnverifiedTwice
    <2>3. CASE new = fresh
      BY <2>2, <2>3, UnverifiedIsInTime
    <2>4. CASE new = Acknowledge(fresh, key, time)
      <3>1. /\ InTime(fresh, new, time)
            /\ \A k \in ScopedDevices \ {key} :
                  HasCommand(new, k, "acked") => HasCommand(fresh, k, "acked")
        BY <1>1, <1>2, <1>5, <2>4, AcknowledgeIsInTime
      <3>2. DOMAIN st.commands \subseteq ScopedDevices
        BY DEF Consistent, TrackerType
      <3> QED BY <1>5, <2>2, <3>1, <3>2, InTimeAfterUnverified
    <2> QED BY <2>1, <2>3, <2>4
  <1>6. CASE ~HasCommand(fresh, key, "pending")
    <2>1. new = ObservePossibleDrift(fresh, key, reported, observedAt)
      BY <1>6 DEF ObserveTelemetry
    <2> HIDE DEF new, fresh, mid
    <2>2. Unverified(fresh, new)
      BY <1>1, <2>1, DriftIsUnverified DEF Consistent
    <2>3. Unverified(st, fresh)
      BY <1>3, <1>4, UnverifiedTwice
    <2>4. Unverified(st, new)
      BY <2>2, <2>3, UnverifiedTwice
    <2> QED BY <2>4, UnverifiedIsInTime
  <1> QED BY <1>5, <1>6

\* A new command is pending and its trace is new; superseding keeps the window
\* of the predecessor, and evicted traces are not looked at.
LEMMA PendingIsInTime ==
    ASSUME NEW st, NEW key \in ScopedDevices, NEW expected, NEW ttl, NEW time \in Nat \ {0},
           Consistent(st, time)
    PROVE  InTime(st, MarkDeviceCommandPending(st, key, expected, ttl, time), time)
  <1> DEFINE id == st.seq + 1
             prior == Supersede(st, key, time)
             last == st.latest[key]
             s == Complete(st.traces[last], "superseded", time, "superseded")
             cs == Put(prior.commands, key, NewCommand(id, expected, time, ttl))
             ts == Put(prior.traces, id, NewTrace(key, expected, time, ttl))
             new == MarkDeviceCommandPending(st, key, expected, ttl, time)
  <1>1. /\ prior.commands = st.commands
        /\ \A i \in DOMAIN st.traces :
              prior.traces[i].settlingUntil = st.traces[i].settlingUntil
    <2>1. CASE key \in DOMAIN st.latest /\ IsRunning(st, last)
      <3>1. last \in DOMAIN st.traces /\ st.traces[last] \in Traces
        BY <2>1 DEF IsRunning, HasTrace, Consistent, TrackerType
      <3>2. s \in Traces /\ s.settlingUntil = st.traces[last].settlingUntil
        BY <3>1 DEF Complete, Staged, Traces, Completions, Stages
      <3>3. prior = SetTrace(st, last, s)
        BY <2>1 DEF Supersede
      <3> HIDE DEF s, last, prior
      <3> QED BY <3>1, <3>2, <3>3, SetTraceTyped DEF Consistent
    <2>2. CASE ~(key \in DOMAIN st.latest /\ IsRunning(st, last))
      <3>1. prior = st
        BY <2>2 DEF Supersede
      <3> QED BY <3>1
    <2> QED BY <2>1, <2>2
  <1>2. new.commands = cs /\ new.traces = Keep(ts, Retained(ts))
    BY DEF MarkDeviceCommandPending, TrimTraces
  <1>3. id \notin DOMAIN st.traces
    BY DEF Consistent, TrackerType
  <1>4. NewCommand(id, expected, time, ttl).status = "pending"
    BY DEF NewCommand
  <1> HIDE DEF new, prior, id
  <1>5. \A k \in DOMAIN st.commands : HasCommand(new, k, "acked") => HasCommand(st, k, "acked")
    BY <1>1, <1>2, <1>4 DEF HasCommand, Put
  <1>6. \A i \in DOMAIN st.traces \cap DOMAIN new.traces :
            new.traces[i].settlingUntil = st.traces[i].settlingUntil
    <2>1. \A i \in DOMAIN new.traces : new.traces[i] = ts[i]
      BY <1>2 DEF Keep
    <2>2. \A i \in DOMAIN new.traces : i \in DOMAIN ts
      BY <1>2 DEF Keep
    <2> QED BY <1>1, <1>3, <2>1, <2>2 DEF Put
  <1>7. InTime(st, new, time)
    BY <1>5, <1>6 DEF InTime, HasCommand
  <1> QED BY <1>7 DEF new

-----------------------------------------------------------------------------
(* The theorems *)

\* The empty tracker is consistent.
LEMMA InitEstablishes == Init => IInv
  <1> SUFFICES ASSUME Init PROVE IInv
    OBVIOUS
  <1>1. Consistent(tracker, now) /\ DOMAIN tracker.traces = {}
    BY EmptyIsConsistent DEF Init
  <1> QED BY <1>1 DEF IInv, Init, Stories

\* Every step of the tracker, and every stuttering step, keeps IInv.
LEMMA StepPreserves == IInv /\ [Next]_vars => IInv'
  <1> SUFFICES ASSUME IInv, [Next]_vars PROVE IInv'
    OBVIOUS
  <1> USE DEF IInv
  <1>1. CASE Tick
    BY <1>1, LaterIsConsistent DEF Tick, Stories
  <1>2. ASSUME NEW key \in ScopedDevices, NEW expected \in Values, NEW ttl \in {AckTimeout, RouteTtl},
               Issue(key, expected, ttl)
        PROVE  IInv'
    <2>1. ttl \in Nat
      BY TrackerAssumption
    <2>2. tracker.seq < MaxCommands
      BY <1>2 DEF Issue
    <2> QED BY <1>2, <2>1, <2>2, PendingIsConsistent, PendingTellsOneStory DEF Issue
  <1>3. ASSUME NEW deviceId \in DeviceIds, NEW id \in CommandIds, Callback(deviceId, id)
        PROVE  IInv'
    <2>1. CASE Published(deviceId, id)
      BY <2>1, PublishedIsConsistent, PublishedTellsOneStory DEF Published, Consistent
    <2>2. CASE TransportFailed(deviceId, id)
      <3>1. "transport_failed" \in Stages \cap FailureStages
        BY DEF Stages, FailureStages
      <3> QED BY <2>2, <3>1, FailIsConsistent, FailTellsOneStory
              DEF TransportFailed, MarkDeviceCommandTransportFailed
    <2>3. ASSUME NEW reason \in FailureReasons, Failed(deviceId, id, reason)
          PROVE  IInv'
      <3>1. (IF reason = "pre_write" THEN "pre_write_failed" ELSE "mismatched")
              \in Stages \cap FailureStages
        BY DEF Stages, FailureStages
      <3> QED BY <2>3, <3>1, FailIsConsistent, FailTellsOneStory
              DEF Failed, MarkDeviceCommandFailed
    <2> QED BY <1>3, <2>1, <2>2, <2>3 DEF Callback
  <1>4. ASSUME NEW key \in ScopedDevices, Report(key) PROVE IInv'
    <2> PICK reported \in Reports, age \in Ages, evidence \in CommandIds \cup {NoEvidence} :
            age < now /\ Observe(key, reported, now - age, evidence)
      BY <1>4 DEF Report
    <2>1. now - age \in Nat
      BY ClockAssumption
    <2> QED BY <2>1, ObserveIsConsistent, ObserveTellsOneStory DEF Observe
  <1>5. ASSUME NEW key \in ScopedDevices, ReadCommand(key) PROVE IInv'
    BY <1>5, RefreshCommandsIsConsistent, RefreshCommandsKeepsStories
       DEF ReadCommand, RefreshCommand, Consistent
  <1>6. CASE ReadTraces
    BY <1>6, RefreshTracesIsConsistent, RefreshTracesTellsOneStory
       DEF ReadTraces, Consistent
  <1>7. CASE UNCHANGED vars
    BY <1>7 DEF vars
  <1> QED BY <1>1, <1>2, <1>3, <1>4, <1>5, <1>6, <1>7 DEF Next

\* IInv holds in every reachable state.
THEOREM Invariance == Spec => []IInv
  BY InitEstablishes, StepPreserves, PTL DEF Spec

\* The maps of the tracker stay well formed: ids below the counter, latest
\* pointers that name kept traces.
THEOREM TypeCorrect == Spec => []TypeOK
  <1>1. IInv => TypeOK
    BY DEF IInv, Consistent, TypeOK
  <1> QED BY <1>1, Invariance, PTL

\* A scoped device never has two running executions.
THEOREM ExecutionIsUnique == Spec => []OneExecutionPerDevice
  <1>1. IInv => OneExecutionPerDevice
    BY DEF IInv, Consistent, OneExecutionPerDevice
  <1> QED BY <1>1, Invariance, PTL

\* What the portal shows of a command never contradicts its execution trace.
THEOREM VerdictMatchesEvidence == Spec => []VerdictAgreesWithTrace
  <1>1. IInv => VerdictAgreesWithTrace
    BY DEF IInv, Consistent, VerdictAgreesWithTrace
  <1> QED BY <1>1, Invariance, PTL

\* The stages of a kept trace never contradict its outcome or its settle window.
THEOREM StagesTellOneStory == Spec => []TraceTellsOneStory
  <1>1. IInv => TraceTellsOneStory
    BY DEF IInv, Stories, TraceTellsOneStory
  <1> QED BY <1>1, Invariance, PTL

\* No step acknowledges a command or opens a settle window after the deadline.
LEMMA StepIsInTime ==
    ASSUME IInv, [Next]_vars
    PROVE  InTime(tracker, tracker', now)
  <1> USE DEF IInv
  <1>1. CASE UNCHANGED tracker
    BY <1>1, SameIsUnverified, UnverifiedIsInTime
  <1>2. ASSUME NEW key \in ScopedDevices, NEW expected \in Values, NEW ttl \in {AckTimeout, RouteTtl},
               Issue(key, expected, ttl)
        PROVE  InTime(tracker, tracker', now)
    BY <1>2, PendingIsInTime DEF Issue
  <1>3. ASSUME NEW deviceId \in DeviceIds, NEW id \in CommandIds, Callback(deviceId, id)
        PROVE  InTime(tracker, tracker', now)
    <2>1. CASE Published(deviceId, id)
      BY <2>1, PublishedIsUnverified, UnverifiedIsInTime DEF Published, Consistent
    <2>2. CASE TransportFailed(deviceId, id)
      <3>1. "transport_failed" \in Stages
        BY DEF Stages
      <3> QED BY <2>2, <3>1, FailIsInTime DEF TransportFailed, MarkDeviceCommandTransportFailed
    <2>3. ASSUME NEW reason \in FailureReasons, Failed(deviceId, id, reason)
          PROVE  InTime(tracker, tracker', now)
      <3>1. (IF reason = "pre_write" THEN "pre_write_failed" ELSE "mismatched") \in Stages
        BY DEF Stages
      <3> QED BY <2>3, <3>1, FailIsInTime DEF Failed, MarkDeviceCommandFailed
    <2> QED BY <1>3, <2>1, <2>2, <2>3 DEF Callback
  <1>4. ASSUME NEW key \in ScopedDevices, Report(key)
        PROVE  InTime(tracker, tracker', now)
    <2> PICK reported \in Reports, age \in Ages, evidence \in CommandIds \cup {NoEvidence} :
            age < now /\ Observe(key, reported, now - age, evidence)
      BY <1>4 DEF Report
    <2>1. now - age \in Nat
      BY ClockAssumption
    <2> QED BY <2>1, ObserveIsInTime DEF Observe
  <1>5. ASSUME NEW key \in ScopedDevices, ReadCommand(key)
        PROVE  InTime(tracker, tracker', now)
    BY <1>5, RefreshCommandsIsUnverified, UnverifiedIsInTime
       DEF ReadCommand, RefreshCommand, Consistent
  <1>6. CASE ReadTraces
    BY <1>6, RefreshTracesIsUnverified, UnverifiedIsInTime DEF ReadTraces, Consistent
  <1> QED BY <1>1, <1>2, <1>3, <1>4, <1>5, <1>6 DEF Next, Tick, vars

\* An expired command is not revived: whatever its age and content, a report
\* that arrives after the deadline verifies nothing.
THEOREM ExpiredIsNotRevived == Spec => NoVerificationAfterDeadline
  <1>1. IInv /\ [Next]_vars =>
          [/\ \A key \in DOMAIN tracker.commands :
                 HasCommand(tracker, key, "pending") /\ HasCommand(tracker', key, "acked") =>
                     now <= tracker.commands[key].expiresAt
           /\ \A id \in DOMAIN tracker.traces \cap DOMAIN tracker'.traces :
                 tracker'.traces[id].settlingUntil # tracker.traces[id].settlingUntil =>
                     now <= tracker.traces[id].expiresAt
          ]_vars
    BY StepIsInTime DEF InTime
  <1> QED BY <1>1, Invariance, PTL DEF Spec, NoVerificationAfterDeadline

\* Every step of the tracker is a step of the lifecycle.
LEMMA StepIsStep ==
    ASSUME IInv, IInv', [Next]_vars
    PROVE  Lifecycle!Next
  <1>1. /\ now \in Nat \ {0} /\ Consistent(tracker, now)
        /\ TrackerType(tracker) /\ TrackerType(tracker)'
    BY DEF IInv, Consistent
  <1>2. CASE Judges(tracker, tracker')
    BY <1>1, <1>2, JudgesIsJudge DEF Lifecycle!Next
  <1>3. CASE UNCHANGED tracker
    BY <1>2, <1>3, SameExpires, ExpiryJudges
  <1>4. ASSUME NEW key \in ScopedDevices, NEW expected \in Values, NEW ttl \in {AckTimeout, RouteTtl},
               Issue(key, expected, ttl)
        PROVE  Lifecycle!Next
    <2>1. ttl \in Nat
      BY TrackerAssumption
    <2>2. \E id \in CommandIds : Lifecycle!Issue(key, id)
      BY <1>1, <1>4, <2>1, PendingIsIssue DEF Issue
    <2> QED BY <2>2 DEF Lifecycle!Next
  <1>5. ASSUME NEW deviceId \in DeviceIds, NEW id \in CommandIds, Callback(deviceId, id)
        PROVE  Judges(tracker, tracker')
    <2>1. CASE Published(deviceId, id)
      BY <1>1, <2>1, PublishedExpires, ExpiryJudges DEF Published
    <2>2. CASE TransportFailed(deviceId, id)
      <3>1. "transport_failed" \in Stages
        BY DEF Stages
      <3> QED BY <1>1, <2>2, <3>1, FailJudges DEF TransportFailed, MarkDeviceCommandTransportFailed
    <2>3. ASSUME NEW reason \in FailureReasons, Failed(deviceId, id, reason)
          PROVE  Judges(tracker, tracker')
      <3>1. (IF reason = "pre_write" THEN "pre_write_failed" ELSE "mismatched") \in Stages
        BY DEF Stages
      <3> QED BY <1>1, <2>3, <3>1, FailJudges DEF Failed, MarkDeviceCommandFailed
    <2> QED BY <1>5, <2>1, <2>2, <2>3 DEF Callback
  <1>6. ASSUME NEW key \in ScopedDevices, Report(key)
        PROVE  Judges(tracker, tracker')
    <2> PICK reported \in Reports, age \in Ages, evidence \in CommandIds \cup {NoEvidence} :
            age < now /\ Observe(key, reported, now - age, evidence)
      BY <1>6 DEF Report
    <2>1. now - age \in Nat
      BY <1>1, ClockAssumption
    <2> QED BY <1>1, <2>1, ObserveJudges DEF Observe
  <1>7. ASSUME NEW key \in ScopedDevices, ReadCommand(key)
        PROVE  Judges(tracker, tracker')
    BY <1>1, <1>7, RefreshCommandsExpires, ExpiryJudges DEF ReadCommand, RefreshCommand
  <1>8. CASE ReadTraces
    <2>1. Judges(tracker, tracker')
      BY <1>1, <1>8, RefreshTracesExpires, ExpiryJudges DEF ReadTraces
    <2> QED BY <1>2, <2>1
  <1> QED BY <1>2, <1>3, <1>4, <1>5, <1>6, <1>7, <1>8 DEF Next, Tick, vars

\* The tracker implements the command lifecycle: every call it takes judges
\* commands as the lifecycle allows, verdict and execution together.
THEOREM TrackerImplementsLifecycle == Spec => ImplementsLifecycle
  <1>1. IInv /\ IInv' /\ [Next]_vars => Lifecycle!Next
    BY StepIsStep
  <1>2. IInv /\ IInv' /\ [Next]_vars =>
          [Lifecycle!Next]_<<[id \in CommandIds |-> LifeOf(tracker, id)],
                             ActiveOf(tracker), ShownOf(tracker)>>
    BY <1>1
  <1>3. Init => Lifecycle!Init
    BY EmptyIsInit DEF Init
  <1> QED BY <1>2, <1>3, Invariance, PTL DEF Spec, ImplementsLifecycle, Lifecycle!Spec
=============================================================================

