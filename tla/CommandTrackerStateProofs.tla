---------------------- MODULE CommandTrackerStateProofs ----------------------
(***************************************************************************)
(* What every operation of the command tracker does to a consistent        *)
(* tracker state, for all constants: it leaves a consistent state behind   *)
(* and judges commands only as the abstract lifecycle allows.  Behaviours  *)
(* do not appear: the modules that call the tracker cite these lemmas.     *)
(*                                                                         *)
(* Consistent adds to the invariants of the tracker what makes them        *)
(* inductive: a command and its trace belong to the same device and share  *)
(* the deadline while the command can still be judged, and the latest      *)
(* pointer of a device names a trace of that device.                       *)
(***************************************************************************)
EXTENDS CommandTrackerLifecycle, TLAPS

SameDeadline(st) ==
    \A key \in DOMAIN st.commands :
        HasTrace(st, st.commands[key].id) =>
            /\ st.traces[st.commands[key].id].key = key
            /\ st.commands[key].status = "pending" =>
                   st.commands[key].expiresAt = st.traces[st.commands[key].id].expiresAt

LatestIsOwn(st) == \A key \in DOMAIN st.latest : st.traces[st.latest[key]].key = key

Consistent(st, time) ==
    /\ TrackerType(st)
    /\ SingleExecution(st)
    /\ VerdictsAgree(st, time)
    /\ SameDeadline(st)
    /\ LatestIsOwn(st)

-----------------------------------------------------------------------------
(* Writing one command, one trace, or both *)

\* Map.set on the commands keeps the types.
LEMMA SetCommandTyped ==
    ASSUME NEW st, NEW key \in ScopedDevices, NEW c \in Commands,
           TrackerType(st), c.id <= st.seq
    PROVE  LET new == SetCommand(st, key, c) IN
           /\ TrackerType(new)
           /\ new.commands = Put(st.commands, key, c)
           /\ new.traces = st.traces /\ new.latest = st.latest /\ new.seq = st.seq
  <1> DEFINE new == SetCommand(st, key, c)
  <1>1. new = [commands |-> Put(st.commands, key, c), traces |-> st.traces,
               latest |-> st.latest, seq |-> st.seq]
    BY DEF SetCommand, TrackerType
  <1>2. /\ DOMAIN new.commands \subseteq ScopedDevices
        /\ \A k \in DOMAIN new.commands :
              new.commands[k] \in Commands /\ new.commands[k].id <= new.seq
    BY <1>1 DEF TrackerType, Put
  <1> QED BY <1>1, <1>2 DEF TrackerType

\* Map.set on the trace of a known command keeps the types.
LEMMA SetTraceTyped ==
    ASSUME NEW st, NEW id \in DOMAIN st.traces, NEW t \in Traces, TrackerType(st)
    PROVE  LET new == SetTrace(st, id, t) IN
           /\ TrackerType(new)
           /\ new.commands = st.commands /\ new.latest = st.latest /\ new.seq = st.seq
           /\ DOMAIN new.traces = DOMAIN st.traces
           /\ new.traces[id] = t
           /\ \A other \in DOMAIN st.traces \ {id} : new.traces[other] = st.traces[other]
  <1> DEFINE new == SetTrace(st, id, t)
  <1>1. new = [commands |-> st.commands, traces |-> Put(st.traces, id, t),
               latest |-> st.latest, seq |-> st.seq]
    BY DEF SetTrace, TrackerType
  <1>2. /\ DOMAIN new.traces = DOMAIN st.traces
        /\ new.traces[id] = t
        /\ \A other \in DOMAIN st.traces \ {id} : new.traces[other] = st.traces[other]
    BY <1>1 DEF Put
  <1> QED BY <1>1, <1>2 DEF TrackerType

\* A verdict may be given to a command without touching its trace when the two
\* still agree.
LEMMA SetVerdictIsConsistent ==
    ASSUME NEW st, NEW time, NEW key \in DOMAIN st.commands, NEW c \in Commands,
           Consistent(st, time),
           c.id = st.commands[key].id, c.status # "pending",
           HasTrace(st, c.id) => Agree(c, st.traces[c.id], time)
    PROVE  Consistent(SetCommand(st, key, c), time)
  <1> DEFINE new == SetCommand(st, key, c)
  <1>1. /\ TrackerType(new)
        /\ new.commands = Put(st.commands, key, c)
        /\ new.traces = st.traces /\ new.latest = st.latest
    <2>1. key \in ScopedDevices /\ c.id <= st.seq
      BY DEF Consistent, TrackerType
    <2> QED BY <2>1, SetCommandTyped DEF Consistent
  <1>2. SingleExecution(new) /\ LatestIsOwn(new)
    <2> HIDE DEF new
    <2>1. SingleExecution(new)
      BY <1>1 DEF Consistent, SingleExecution, IsRunning, HasTrace
    <2>2. LatestIsOwn(new)
      BY <1>1 DEF Consistent, LatestIsOwn
    <2> QED BY <2>1, <2>2
  <1>3. VerdictsAgree(new, time) /\ SameDeadline(new)
    <2>1. /\ DOMAIN new.commands = DOMAIN st.commands /\ new.commands[key] = c
          /\ \A k \in DOMAIN st.commands \ {key} : new.commands[k] = st.commands[k]
      BY <1>1 DEF Put
    <2> HIDE DEF new
    <2>2. VerdictsAgree(new, time)
      BY <1>1, <2>1 DEF Consistent, VerdictsAgree, HasTrace
    <2>3. SameDeadline(new)
      BY <1>1, <2>1 DEF Consistent, SameDeadline, HasTrace
    <2> QED BY <2>2, <2>3
  <1> QED BY <1>1, <1>2, <1>3 DEF Consistent

\* A trace may change alone when it stays the trace of the same command, does
\* not start running again and agrees with the verdict shown for it.
LEMMA SetTraceIsConsistent ==
    ASSUME NEW st, NEW time, NEW id \in DOMAIN st.traces, NEW t \in Traces,
           Consistent(st, time),
           t.key = st.traces[id].key, t.expiresAt = st.traces[id].expiresAt,
           t.outcome = "running" => st.traces[id].outcome = "running",
           \A key \in DOMAIN st.commands :
               st.commands[key].id = id => Agree(st.commands[key], t, time)
    PROVE  Consistent(SetTrace(st, id, t), time)
  <1> DEFINE new == SetTrace(st, id, t)
  <1>1. /\ TrackerType(new)
        /\ new.commands = st.commands /\ new.latest = st.latest
        /\ DOMAIN new.traces = DOMAIN st.traces
        /\ new.traces[id] = t
        /\ \A other \in DOMAIN st.traces \ {id} : new.traces[other] = st.traces[other]
    BY SetTraceTyped DEF Consistent
  <1>2. SingleExecution(new) /\ LatestIsOwn(new)
    BY <1>1 DEF Consistent, TrackerType, SingleExecution, LatestIsOwn, IsRunning, HasTrace
  <1>3. VerdictsAgree(new, time) /\ SameDeadline(new)
    BY <1>1 DEF Consistent, VerdictsAgree, SameDeadline, HasTrace
  <1> QED BY <1>1, <1>2, <1>3 DEF Consistent

\* A verdict and its trace change together.
LEMMA JudgeIsConsistent ==
    ASSUME NEW st, NEW time, NEW key \in DOMAIN st.commands, NEW c \in Commands, NEW t \in Traces,
           Consistent(st, time),
           c.id = st.commands[key].id, c.status # "pending",
           HasTrace(st, c.id),
           t.key = key, t.expiresAt = st.traces[c.id].expiresAt,
           t.outcome = "running" => st.traces[c.id].outcome = "running",
           Agree(c, t, time)
    PROVE  Consistent(SetTrace(SetCommand(st, key, c), c.id, t), time)
  <1> DEFINE mid == SetCommand(st, key, c)
             new == SetTrace(mid, c.id, t)
  <1>1. /\ TrackerType(mid)
        /\ mid.commands = Put(st.commands, key, c)
        /\ mid.traces = st.traces /\ mid.latest = st.latest
    <2>1. key \in ScopedDevices /\ c.id <= st.seq
      BY DEF Consistent, TrackerType
    <2> QED BY <2>1, SetCommandTyped DEF Consistent
  <1>2. /\ TrackerType(new)
        /\ new.commands = mid.commands /\ new.latest = st.latest
        /\ DOMAIN new.traces = DOMAIN st.traces
        /\ new.traces[c.id] = t
        /\ \A other \in DOMAIN st.traces \ {c.id} : new.traces[other] = st.traces[other]
    BY <1>1, SetTraceTyped DEF HasTrace
  <1>3. st.traces[c.id].key = key
    BY DEF Consistent, SameDeadline
  <1>4. SingleExecution(new) /\ LatestIsOwn(new)
    <2>1. \A id \in DOMAIN st.traces : new.traces[id].key = st.traces[id].key
      BY <1>2, <1>3
    <2>2. \A id \in DOMAIN st.traces :
              new.traces[id].outcome = "running" => st.traces[id].outcome = "running"
      BY <1>2
    <2>3. \A key2 \in DOMAIN st.latest : st.latest[key2] \in DOMAIN st.traces
      BY DEF Consistent, TrackerType
    <2> HIDE DEF mid, new
    <2>4. SingleExecution(new)
      BY <1>2, <2>1, <2>2 DEF Consistent, SingleExecution, IsRunning, HasTrace
    <2>5. LatestIsOwn(new)
      BY <1>2, <2>1, <2>3 DEF Consistent, LatestIsOwn
    <2> QED BY <2>4, <2>5
  <1>5. VerdictsAgree(new, time) /\ SameDeadline(new)
    <2>1. \A k \in DOMAIN st.commands : k # key /\ HasTrace(st, st.commands[k].id) =>
              st.commands[k].id # c.id
      BY <1>3 DEF Consistent, SameDeadline
    <2>2. DOMAIN new.commands = DOMAIN st.commands /\ new.commands[key] = c
      BY <1>1, <1>2 DEF Put
    <2>3. \A k \in DOMAIN st.commands \ {key} : new.commands[k] = st.commands[k]
      BY <1>1, <1>2 DEF Put
    <2> HIDE DEF mid, new
    <2>4. VerdictsAgree(new, time)
      BY <1>2, <2>1, <2>2, <2>3 DEF Consistent, VerdictsAgree, HasTrace
    <2>5. SameDeadline(new)
      BY <1>2, <2>1, <2>2, <2>3 DEF Consistent, SameDeadline, HasTrace
    <2> QED BY <2>4, <2>5
  <1> QED BY <1>2, <1>4, <1>5 DEF Consistent

-----------------------------------------------------------------------------
(* Time passing and expiry *)

\* Time passing keeps a tracker state consistent.
LEMMA LaterIsConsistent ==
    ASSUME NEW st, NEW time \in Nat \ {0}, Consistent(st, time)
    PROVE  Consistent(st, time + 1)
  BY DEF Consistent, VerdictsAgree, Agree, TrackerType, HasTrace, Traces

\* The same command, whatever its verdict.
SameOrder(old, c) ==
    c.id = old.id /\ c.expected = old.expected /\ c.requestedAt = old.requestedAt

\* Expiry of verdicts gives up the unanswered commands and forgets the verdicts
\* that were shown long enough; the traces are not touched.
LEMMA RefreshCommandsEffect ==
    ASSUME NEW st, NEW keys, NEW time \in Nat \ {0}, TrackerType(st)
    PROVE  LET new == RefreshCommands(st, keys, time) IN
           /\ TrackerType(new)
           /\ new.traces = st.traces /\ new.latest = st.latest /\ new.seq = st.seq
           /\ DOMAIN new.commands \subseteq DOMAIN st.commands
           /\ \A k \in DOMAIN st.commands \ DOMAIN new.commands :
                 st.commands[k].status # "pending" /\ time > st.commands[k].displayUntil
           /\ \A k \in DOMAIN new.commands :
                 \/ /\ new.commands[k] = st.commands[k]
                    /\ k \in keys => ~ /\ st.commands[k].status = "pending"
                                       /\ time > st.commands[k].expiresAt
                 \/ /\ st.commands[k].status = "pending" /\ time > st.commands[k].expiresAt
                    /\ SameOrder(st.commands[k], new.commands[k])
                    /\ new.commands[k].status = "no_ack"
                    /\ new.commands[k].displayUntil = time + VerdictDisplay
  <1> DEFINE new == RefreshCommands(st, keys, time)
             GivenUp(c) == [c EXCEPT !.status = "no_ack", !.displayUntil = time + VerdictDisplay]
             known == keys \cap DOMAIN st.commands
             unanswered == {k \in known : st.commands[k].status = "pending" /\ time > st.commands[k].expiresAt}
             outdated == {k \in known : st.commands[k].status # "pending" /\ time > st.commands[k].displayUntil}
             cs == [k \in DOMAIN st.commands \ outdated |->
                       IF k \in unanswered THEN GivenUp(st.commands[k]) ELSE st.commands[k]]
  <1>1. new = [commands |-> cs, traces |-> st.traces, latest |-> st.latest, seq |-> st.seq]
    <2>1. new = [st EXCEPT !.commands = cs]
      BY Zenon DEF RefreshCommands
    <2>2. st = [commands |-> st.commands, traces |-> st.traces,
                latest |-> st.latest, seq |-> st.seq]
      BY DEF TrackerType
    <2> HIDE DEF cs, new
    <2> QED BY <2>1, <2>2
  <1>2. ASSUME NEW c \in Commands
        PROVE  /\ GivenUp(c) \in Commands /\ SameOrder(c, GivenUp(c))
               /\ GivenUp(c).status = "no_ack"
               /\ GivenUp(c).displayUntil = time + VerdictDisplay
    <2>1. time + VerdictDisplay \in Nat
      BY TrackerAssumption
    <2> QED BY <2>1 DEF Commands, Statuses, SameOrder
  <1>3. \A k \in DOMAIN st.commands : st.commands[k] \in Commands /\ st.commands[k].id <= st.seq
    BY DEF TrackerType
  <1> HIDE DEF new, GivenUp
  <1>4. \A k \in DOMAIN new.commands :
          \/ /\ new.commands[k] = st.commands[k]
             /\ k \in keys => ~ /\ st.commands[k].status = "pending"
                                /\ time > st.commands[k].expiresAt
          \/ /\ st.commands[k].status = "pending" /\ time > st.commands[k].expiresAt
             /\ new.commands[k] = GivenUp(st.commands[k])
    BY <1>1
  <1>5. /\ DOMAIN new.commands \subseteq DOMAIN st.commands
        /\ \A k \in DOMAIN st.commands \ DOMAIN new.commands :
              st.commands[k].status # "pending" /\ time > st.commands[k].displayUntil
    BY <1>1
  <1>6. new.traces = st.traces /\ new.latest = st.latest /\ new.seq = st.seq
    BY <1>1
  <1>7. new = [commands |-> new.commands, traces |-> new.traces,
               latest |-> new.latest, seq |-> new.seq]
    BY <1>1
  <1>8. TrackerType(new)
    BY <1>2, <1>3, <1>4, <1>5, <1>6, <1>7 DEF TrackerType, SameOrder
  <1> QED BY <1>2, <1>3, <1>4, <1>5, <1>6, <1>8 DEF new

\* Expiring the verdicts of some devices keeps the state consistent.
LEMMA RefreshCommandsIsConsistent ==
    ASSUME NEW st, NEW keys, NEW time \in Nat \ {0}, Consistent(st, time)
    PROVE  Consistent(RefreshCommands(st, keys, time), time)
  <1> DEFINE new == RefreshCommands(st, keys, time)
  <1>1. /\ TrackerType(new)
        /\ new.traces = st.traces /\ new.latest = st.latest
        /\ DOMAIN new.commands \subseteq DOMAIN st.commands
        /\ \A k \in DOMAIN new.commands :
              \/ new.commands[k] = st.commands[k]
              \/ /\ st.commands[k].status = "pending" /\ time > st.commands[k].expiresAt
                 /\ new.commands[k].id = st.commands[k].id
                 /\ new.commands[k].status = "no_ack"
    BY RefreshCommandsEffect DEF Consistent, SameOrder
  <1> HIDE DEF new
  <1>2. SingleExecution(new) /\ LatestIsOwn(new)
    BY <1>1 DEF Consistent, SingleExecution, LatestIsOwn, IsRunning, HasTrace
  <1>3. SameDeadline(new)
    BY <1>1 DEF Consistent, SameDeadline, HasTrace
  <1>4. VerdictsAgree(new, time)
    <2> SUFFICES ASSUME NEW k \in DOMAIN new.commands, HasTrace(new, new.commands[k].id)
                 PROVE  Agree(new.commands[k], new.traces[new.commands[k].id], time)
      BY DEF VerdictsAgree
    <2>1. /\ k \in DOMAIN st.commands /\ new.commands[k].id = st.commands[k].id
          /\ HasTrace(st, st.commands[k].id)
      BY <1>1 DEF HasTrace
    <2>2. /\ Agree(st.commands[k], st.traces[st.commands[k].id], time)
          /\ st.commands[k].status = "pending" =>
                 st.commands[k].expiresAt = st.traces[st.commands[k].id].expiresAt
      BY <2>1 DEF Consistent, VerdictsAgree, SameDeadline
    <2> QED BY <1>1, <2>1, <2>2 DEF Agree
  <1> QED BY <1>1, <1>2, <1>3, <1>4 DEF Consistent, new

\* Expiry judges a running trace only: verified ones settle, others time out.
LEMMA RefreshedTraceEffect ==
    ASSUME NEW t \in Traces, NEW time
    PROVE  LET u == RefreshedTrace(t, time) IN
           /\ u \in Traces
           /\ u.key = t.key /\ u.expiresAt = t.expiresAt /\ u.settlingUntil = t.settlingUntil
           /\ \/ u.outcome = t.outcome
              \/ t.outcome = "running" /\ u.outcome = "settled" /\ t.settlingUntil # 0
              \/ t.outcome = "running" /\ u.outcome = "timed_out" /\ t.settlingUntil = 0
                                       /\ time > t.expiresAt
  BY DEF RefreshedTrace, Complete, Staged, Traces, Completions, Stages

\* Expiring every trace keeps the state consistent and its verdicts untouched.
LEMMA RefreshTracesIsConsistent ==
    ASSUME NEW st, NEW time \in Nat \ {0}, Consistent(st, time)
    PROVE  Consistent(RefreshTraces(st, time), time)
  <1> DEFINE new == RefreshTraces(st, time)
  <1>1. /\ new = [st EXCEPT !.traces = new.traces]
        /\ DOMAIN new.traces = DOMAIN st.traces
        /\ \A id \in DOMAIN st.traces : new.traces[id] = RefreshedTrace(st.traces[id], time)
    BY DEF RefreshTraces, Consistent, TrackerType
  <1>2. ASSUME NEW t \in Traces
        PROVE  LET u == RefreshedTrace(t, time) IN
               /\ u \in Traces
               /\ u.key = t.key /\ u.expiresAt = t.expiresAt /\ u.settlingUntil = t.settlingUntil
               /\ \/ u.outcome = t.outcome
                  \/ t.outcome = "running" /\ u.outcome = "settled" /\ t.settlingUntil # 0
                  \/ t.outcome = "running" /\ u.outcome = "timed_out" /\ t.settlingUntil = 0
                                           /\ time > t.expiresAt
    BY RefreshedTraceEffect
  <1>3. TrackerType(new)
    BY <1>1, <1>2 DEF Consistent, TrackerType
  <1>4. SingleExecution(new) /\ LatestIsOwn(new)
    BY <1>1, <1>2 DEF Consistent, TrackerType, SingleExecution, LatestIsOwn, IsRunning, HasTrace
  <1>5. VerdictsAgree(new, time) /\ SameDeadline(new)
    BY <1>1, <1>2 DEF Consistent, TrackerType, VerdictsAgree, Agree, SameDeadline, HasTrace
  <1> QED BY <1>3, <1>4, <1>5 DEF Consistent

-----------------------------------------------------------------------------
(* Callbacks *)

\* Publication is noted on a running trace and judges nothing.
LEMMA PublishedIsConsistent ==
    ASSUME NEW st, NEW deviceId, NEW id, NEW time, Consistent(st, time)
    PROVE  Consistent(MarkDeviceCommandPublished(st, deviceId, id), time)
  <1> SUFFICES ASSUME IsRunning(st, id)
               PROVE  Consistent(SetTrace(st, id, Staged(st.traces[id], "published")), time)
    BY DEF MarkDeviceCommandPublished
  <1> DEFINE t == Staged(st.traces[id], "published")
  <1>1. /\ id \in DOMAIN st.traces /\ st.traces[id] \in Traces
    BY DEF IsRunning, HasTrace, Consistent, TrackerType
  <1>2. /\ t \in Traces
        /\ t.key = st.traces[id].key /\ t.expiresAt = st.traces[id].expiresAt
        /\ t.settlingUntil = st.traces[id].settlingUntil /\ t.outcome = st.traces[id].outcome
    BY <1>1 DEF Staged, Traces, Stages
  <1> HIDE DEF t
  <1>3. \A key \in DOMAIN st.commands :
            st.commands[key].id = id => Agree(st.commands[key], t, time)
    BY <1>1, <1>2 DEF Consistent, VerdictsAgree, HasTrace, Agree
  <1> QED BY <1>1, <1>2, <1>3, SetTraceIsConsistent DEF t

\* A failure callback judges the command it names only while that command is the
\* one shown pending.
LEMMA FailIsConsistent ==
    ASSUME NEW st, NEW deviceId, NEW id, NEW time \in Nat \ {0}, NEW stage \in Stages,
           Consistent(st, time)
    PROVE  Consistent(Fail(st, deviceId, id, stage, time), time)
  <1> DEFINE key == st.traces[id].key
             c == [st.commands[key] EXCEPT !.status = "failed", !.expiresAt = time,
                                           !.displayUntil = time + VerdictDisplay]
             t == Complete(st.traces[id], "failed", time, stage)
  <1> SUFFICES ASSUME IsOpen(st, deviceId, id)
               PROVE  Consistent(SetTrace(SetCommand(st, key, c), id, t), time)
    BY DEF Fail
  <1>1. /\ id \in DOMAIN st.traces /\ st.traces[id] \in Traces
        /\ st.traces[id].outcome = "running"
        /\ key \in DOMAIN st.commands /\ st.commands[key] \in Commands
        /\ st.commands[key].id = id /\ st.commands[key].status = "pending"
    BY DEF IsOpen, IsRunning, HasTrace, HasCommand, Consistent, TrackerType
  <1>2. /\ c \in Commands /\ c.id = id /\ c.status = "failed"
    <2>1. time + VerdictDisplay \in Nat
      BY TrackerAssumption
    <2> QED BY <1>1, <2>1 DEF Commands, Statuses
  <1>3. /\ t \in Traces /\ t.outcome = "failed" /\ t.key = key
        /\ t.expiresAt = st.traces[id].expiresAt
        /\ t.settlingUntil = st.traces[id].settlingUntil
    BY <1>1 DEF Complete, Staged, Traces, Completions
  <1>4. st.traces[id].settlingUntil = 0
    BY <1>1 DEF Consistent, VerdictsAgree, HasTrace, Agree
  <1>5. Agree(c, t, time)
    BY <1>2, <1>3, <1>4 DEF Agree
  <1> HIDE DEF c, t
  <1> QED BY <1>1, <1>2, <1>3, <1>5, JudgeIsConsistent DEF HasTrace

-----------------------------------------------------------------------------
(* Reports *)

\* A drift judges the verified execution of a device and leaves its verdict acked.
LEMMA DriftIsConsistent ==
    ASSUME NEW st, NEW key, NEW reported \in Reports, NEW observedAt \in Nat, NEW time,
           Consistent(st, time)
    PROVE  Consistent(ObservePossibleDrift(st, key, reported, observedAt), time)
  <1> DEFINE id == st.latest[key]
             t == [Complete(st.traces[id], "drifted", observedAt, "drifted")
                     EXCEPT !.observed = reported]
  <1> SUFFICES ASSUME key \in DOMAIN st.latest, IsRunning(st, id), st.traces[id].settlingUntil # 0
               PROVE  Consistent(SetTrace(st, id, t), time)
    BY DEF ObservePossibleDrift
  <1>1. id \in DOMAIN st.traces /\ st.traces[id] \in Traces
    BY DEF IsRunning, HasTrace, Consistent, TrackerType
  <1>2. /\ t \in Traces /\ t.outcome = "drifted" /\ t.key = st.traces[id].key
        /\ t.expiresAt = st.traces[id].expiresAt
        /\ t.settlingUntil = st.traces[id].settlingUntil
    BY <1>1 DEF Complete, Staged, Traces, Completions, Stages
  <1> HIDE DEF t, id
  <1>3. \A k \in DOMAIN st.commands : st.commands[k].id = id => Agree(st.commands[k], t, time)
    BY <1>1, <1>2 DEF Consistent, VerdictsAgree, HasTrace, IsRunning, Agree
  <1> QED BY <1>1, <1>2, <1>3, SetTraceIsConsistent

\* A matching report in time acknowledges the command and verifies its trace.
\* The trace cannot have timed out, because it shares the unexpired deadline.
LEMMA AcknowledgeIsConsistent ==
    ASSUME NEW st, NEW key, NEW time \in Nat \ {0}, Consistent(st, time),
           HasCommand(st, key, "pending"), time <= st.commands[key].expiresAt
    PROVE  Consistent(Acknowledge(st, key, time), time)
  <1> DEFINE old == st.commands[key]
             c == [old EXCEPT !.status = "acked", !.displayUntil = time + AckedDisplay]
             t == [Staged(st.traces[old.id], "verified")
                     EXCEPT !.settlingUntil = time + SettleWindow]
  <1>1. key \in DOMAIN st.commands /\ old \in Commands /\ old.status = "pending"
    BY DEF HasCommand, Consistent, TrackerType
  <1>2. c \in Commands /\ c.id = old.id /\ c.status = "acked"
    <2>1. time + AckedDisplay \in Nat
      BY TrackerAssumption
    <2> QED BY <1>1, <2>1 DEF Commands, Statuses
  <1>3. CASE ~HasTrace(st, old.id)
    <2>1. Acknowledge(st, key, time) = SetCommand(st, key, c)
      BY <1>3 DEF Acknowledge
    <2> HIDE DEF c
    <2> QED BY <1>1, <1>2, <1>3, <2>1, SetVerdictIsConsistent
  <1>4. CASE HasTrace(st, old.id)
    <2>1. Acknowledge(st, key, time) = SetTrace(SetCommand(st, key, c), c.id, t)
      BY <1>2, <1>4 DEF Acknowledge
    <2>2. st.traces[old.id] \in Traces
      BY <1>4 DEF HasTrace, Consistent, TrackerType
    <2>3. time + SettleWindow \in Nat \ {0}
      BY TrackerAssumption
    <2>4. /\ t \in Traces /\ t.key = st.traces[old.id].key
          /\ t.expiresAt = st.traces[old.id].expiresAt
          /\ t.outcome = st.traces[old.id].outcome /\ t.settlingUntil # 0
      BY <2>2, <2>3 DEF Staged, Traces, Stages
    <2>5. /\ st.traces[old.id].key = key /\ st.traces[old.id].expiresAt = old.expiresAt
          /\ Agree(old, st.traces[old.id], time)
      BY <1>1, <1>4 DEF Consistent, SameDeadline, VerdictsAgree
    <2>6. st.traces[old.id].outcome = "running"
      BY <1>1, <2>2, <2>5 DEF Agree, Commands, Traces
    <2>7. Agree(c, t, time)
      BY <1>2, <2>4, <2>6 DEF Agree
    <2> HIDE DEF c, t
    <2> QED BY <1>1, <1>2, <1>4, <2>1, <2>4, <2>5, <2>6, <2>7, JudgeIsConsistent
  <1> QED BY <1>3, <1>4

\* After an expiring read, a command that is still pending has not reached its deadline.
LEMMA RefreshedPendingIsInTime ==
    ASSUME NEW st, NEW key \in ScopedDevices, NEW time \in Nat \ {0}, Consistent(st, time),
           NEW fresh, fresh = RefreshTraces(RefreshCommand(st, key, time), time),
           HasCommand(fresh, key, "pending")
    PROVE  time <= fresh.commands[key].expiresAt
  <1> DEFINE mid == RefreshCommands(st, {key}, time)
  <1>1. /\ TrackerType(mid) /\ DOMAIN mid.commands \subseteq DOMAIN st.commands
        /\ \A k \in DOMAIN mid.commands :
              \/ /\ mid.commands[k] = st.commands[k]
                 /\ k \in {key} => ~ /\ st.commands[k].status = "pending"
                                     /\ time > st.commands[k].expiresAt
              \/ mid.commands[k].status = "no_ack"
    BY RefreshCommandsEffect DEF Consistent, SameOrder
  <1>2. fresh = RefreshTraces(mid, time)
    BY DEF RefreshCommand
  <1> HIDE DEF mid
  <1>3. fresh.commands = mid.commands
    BY <1>1, <1>2 DEF RefreshTraces, TrackerType
  <1>4. key \in DOMAIN mid.commands /\ mid.commands[key].status = "pending"
    BY <1>3 DEF HasCommand
  <1>5. st.commands[key].expiresAt \in Nat
    BY <1>1, <1>4 DEF Consistent, TrackerType, Commands
  <1> QED BY <1>1, <1>3, <1>4, <1>5

\* A report, whatever its age, content and evidence id, keeps the state consistent.
LEMMA ObserveIsConsistent ==
    ASSUME NEW st, NEW key \in ScopedDevices, NEW reported \in Reports, NEW observedAt \in Nat,
           NEW evidence, NEW time \in Nat \ {0}, Consistent(st, time)
    PROVE  Consistent(ObserveTelemetry(st, key, reported, observedAt, evidence, time), time)
  <1> DEFINE fresh == RefreshTraces(RefreshCommand(st, key, time), time)
  <1>1. Consistent(fresh, time)
    BY RefreshCommandsIsConsistent, RefreshTracesIsConsistent DEF RefreshCommand
  <1>2. HasCommand(fresh, key, "pending") => time <= fresh.commands[key].expiresAt
    BY RefreshedPendingIsInTime
  <1>4. CASE HasCommand(fresh, key, "pending")
    <2>1. ObserveTelemetry(st, key, reported, observedAt, evidence, time) \in
            {fresh, Acknowledge(fresh, key, time)}
      BY <1>4 DEF ObserveTelemetry, ObservePending
    <2> HIDE DEF fresh
    <2> QED BY <1>1, <1>2, <1>4, <2>1, AcknowledgeIsConsistent
  <1>5. CASE ~HasCommand(fresh, key, "pending")
    <2>1. ObserveTelemetry(st, key, reported, observedAt, evidence, time) =
            ObservePossibleDrift(fresh, key, reported, observedAt)
      BY <1>5 DEF ObserveTelemetry
    <2> HIDE DEF fresh
    <2> QED BY <1>1, <2>1, DriftIsConsistent
  <1> QED BY <1>4, <1>5

-----------------------------------------------------------------------------
(* New commands *)

\* Superseding changes at most the trace the latest pointer of the device names,
\* and leaves no trace of the device running.
LEMMA SupersedeEffect ==
    ASSUME NEW st, NEW key \in ScopedDevices, NEW time \in Nat \ {0}, Consistent(st, time)
    PROVE  LET prior == Supersede(st, key, time) IN
           /\ TrackerType(prior)
           /\ prior.commands = st.commands /\ prior.latest = st.latest /\ prior.seq = st.seq
           /\ DOMAIN prior.traces = DOMAIN st.traces
           /\ \A id \in DOMAIN st.traces :
                 /\ prior.traces[id].key = st.traces[id].key
                 /\ prior.traces[id].outcome = "running" =>
                        /\ st.traces[id].outcome = "running"
                        /\ prior.traces[id].key # key
                 /\ prior.traces[id] # st.traces[id] => st.traces[id].key = key
  <1> DEFINE id == st.latest[key]
             t == Complete(st.traces[id], "superseded", time, "superseded")
  <1>1. CASE key \in DOMAIN st.latest /\ IsRunning(st, id)
    <2>1. Supersede(st, key, time) = SetTrace(st, id, t)
      BY <1>1 DEF Supersede
    <2>2. id \in DOMAIN st.traces /\ st.traces[id] \in Traces /\ st.traces[id].key = key
      BY <1>1 DEF Consistent, TrackerType, LatestIsOwn
    <2>3. t \in Traces /\ t.key = st.traces[id].key /\ t.outcome = "superseded"
      BY <2>2 DEF Complete, Staged, Traces, Completions, Stages
    <2>4. \A other \in DOMAIN st.traces \ {id} :
              st.traces[other].outcome = "running" => st.traces[other].key # key
      BY DEF Consistent, SingleExecution, IsRunning, HasTrace
    <2> HIDE DEF t, id
    <2> QED BY <2>1, <2>2, <2>3, <2>4, SetTraceTyped DEF Consistent
  <1>2. CASE ~(key \in DOMAIN st.latest /\ IsRunning(st, id))
    <2>1. Supersede(st, key, time) = st
      BY <1>2 DEF Supersede
    <2> QED BY <1>2, <2>1 DEF Consistent, SingleExecution, IsRunning, HasTrace
  <1> QED BY <1>1, <1>2

\* Dropping traces, with the latest pointers that name them, keeps the state consistent.
LEMMA TrimIsConsistent ==
    ASSUME NEW st, NEW time, Consistent(st, time)
    PROVE  Consistent(TrimTraces(st), time)
  <1> DEFINE kept == Retained(st.traces)
             ts == Keep(st.traces, kept)
             ls == Keep(st.latest, {k \in DOMAIN st.latest : st.latest[k] \in kept})
             new == TrimTraces(st)
  <1>1. kept \subseteq DOMAIN st.traces
    BY DEF Retained
  <1>2. new = [commands |-> st.commands, traces |-> ts, latest |-> ls, seq |-> st.seq]
    <2>1. new = [st EXCEPT !.traces = ts, !.latest = ls]
      BY Zenon DEF TrimTraces
    <2>2. st = [commands |-> st.commands, traces |-> st.traces,
                latest |-> st.latest, seq |-> st.seq]
      BY DEF Consistent, TrackerType
    <2> HIDE DEF new, ts, ls
    <2> QED BY <2>1, <2>2
  <1> HIDE DEF kept
  <1>3. /\ DOMAIN new.traces = kept
        /\ \A id \in kept : new.traces[id] = st.traces[id]
        /\ DOMAIN new.latest = {k \in DOMAIN st.latest : st.latest[k] \in kept}
        /\ \A k \in DOMAIN new.latest : new.latest[k] = st.latest[k]
        /\ new.commands = st.commands /\ new.seq = st.seq
    BY <1>1, <1>2 DEF Keep
  <1>4. TrackerType(new)
    <2>1. new = [commands |-> new.commands, traces |-> new.traces,
                 latest |-> new.latest, seq |-> new.seq]
      BY <1>2
    <2> HIDE DEF new
    <2> QED BY <1>1, <1>3, <2>1 DEF Consistent, TrackerType
  <1> HIDE DEF new
  <1>5. SingleExecution(new) /\ LatestIsOwn(new)
    BY <1>1, <1>3 DEF Consistent, TrackerType, SingleExecution, LatestIsOwn, IsRunning, HasTrace
  <1>6. VerdictsAgree(new, time) /\ SameDeadline(new)
    BY <1>1, <1>3 DEF Consistent, VerdictsAgree, SameDeadline, HasTrace
  <1> QED BY <1>4, <1>5, <1>6 DEF Consistent, new

\* A new command replaces the verdict, the execution and the latest pointer of
\* its device together.
LEMMA PendingIsConsistent ==
    ASSUME NEW st, NEW key \in ScopedDevices, NEW expected \in Values, NEW ttl \in Nat,
           NEW time \in Nat \ {0}, Consistent(st, time), st.seq < MaxCommands
    PROVE  Consistent(MarkDeviceCommandPending(st, key, expected, ttl, time), time)
  <1> DEFINE id == st.seq + 1
             c == NewCommand(id, expected, time, ttl)
             t == NewTrace(key, expected, time, ttl)
             prior == Supersede(st, key, time)
             new == [commands |-> Put(prior.commands, key, c), traces |-> Put(prior.traces, id, t),
                     latest |-> Put(prior.latest, key, id), seq |-> id]
  <1>1. MarkDeviceCommandPending(st, key, expected, ttl, time) = TrimTraces(new)
    BY DEF MarkDeviceCommandPending
  <1>2. /\ c \in Commands /\ c.id = id /\ c.status = "pending" /\ c.expiresAt = time + ttl
        /\ t \in Traces /\ t.key = key /\ t.outcome = "running" /\ t.settlingUntil = 0
        /\ t.expiresAt = time + ttl
    <2>1. id \in CommandIds /\ time + ttl \in Nat /\ time + AckTimeout + VerdictDisplay \in Nat
      BY TrackerAssumption DEF Consistent, TrackerType, CommandIds
    <2>2. c \in Commands /\ c.id = id /\ c.status = "pending" /\ c.expiresAt = time + ttl
      BY <2>1 DEF NewCommand, Commands, Statuses
    <2>3. /\ t \in Traces /\ t.key = key /\ t.outcome = "running" /\ t.settlingUntil = 0
          /\ t.expiresAt = time + ttl
      BY <2>1 DEF NewTrace, Traces, Reports
    <2> QED BY <2>2, <2>3
  <1>3. /\ TrackerType(prior)
        /\ prior.commands = st.commands /\ prior.latest = st.latest /\ prior.seq = st.seq
        /\ DOMAIN prior.traces = DOMAIN st.traces
        /\ \A i \in DOMAIN st.traces :
              /\ prior.traces[i].key = st.traces[i].key
              /\ prior.traces[i].outcome = "running" =>
                     st.traces[i].outcome = "running" /\ prior.traces[i].key # key
              /\ prior.traces[i] # st.traces[i] => st.traces[i].key = key
    BY SupersedeEffect
  <1> HIDE DEF c, t, prior
  <1>4. /\ id \notin DOMAIN st.traces /\ id \in 1..id /\ id \in 0..MaxCommands
        /\ 1..st.seq \subseteq 1..id
        /\ \A k \in DOMAIN st.commands : st.commands[k].id # id /\ st.commands[k].id <= id
    BY TrackerAssumption DEF Consistent, TrackerType, Commands, CommandIds
  <1> DEFINE cs == Put(prior.commands, key, c)
             ts == Put(prior.traces, id, t)
             ls == Put(prior.latest, key, id)
  <1>5. /\ DOMAIN cs = DOMAIN st.commands \cup {key} /\ cs[key] = c
        /\ \A k \in DOMAIN st.commands \ {key} : cs[k] = st.commands[k]
        /\ DOMAIN ts = DOMAIN st.traces \cup {id} /\ ts[id] = t
        /\ \A i \in DOMAIN st.traces : ts[i] = prior.traces[i]
        /\ DOMAIN ls = DOMAIN st.latest \cup {key} /\ ls[key] = id
        /\ \A k \in DOMAIN st.latest \ {key} : ls[k] = st.latest[k]
    BY <1>3, <1>4 DEF Put
  <1>6. new.commands = cs /\ new.traces = ts /\ new.latest = ls /\ new.seq = id
    OBVIOUS
  <1>7. TrackerType(new)
    <2>1. new = [commands |-> new.commands, traces |-> new.traces,
                 latest |-> new.latest, seq |-> new.seq]
      OBVIOUS
    <2> HIDE DEF new, cs, ts, ls
    <2>2. /\ DOMAIN cs \subseteq ScopedDevices
          /\ \A k \in DOMAIN cs : cs[k] \in Commands /\ cs[k].id <= id
      BY <1>2, <1>4, <1>5 DEF Consistent, TrackerType
    <2>3. DOMAIN ts \subseteq 1..id /\ \A i \in DOMAIN ts : ts[i] \in Traces
      BY <1>2, <1>3, <1>4, <1>5 DEF TrackerType
    <2>4. DOMAIN ls \subseteq ScopedDevices /\ \A k \in DOMAIN ls : ls[k] \in DOMAIN ts
      BY <1>5 DEF Consistent, TrackerType
    <2> HIDE DEF id
    <2> QED BY <1>4, <1>6, <2>1, <2>2, <2>3, <2>4 DEF TrackerType
  <1> HIDE DEF new, cs, ts, ls, id
  <1>8. SingleExecution(new)
    BY <1>2, <1>3, <1>4, <1>5, <1>6 DEF Consistent, SingleExecution, IsRunning, HasTrace
  <1>9. LatestIsOwn(new)
    BY <1>2, <1>3, <1>4, <1>5, <1>6 DEF Consistent, TrackerType, LatestIsOwn
  <1>10. SameDeadline(new)
    BY <1>2, <1>3, <1>4, <1>5, <1>6 DEF Consistent, SameDeadline, HasTrace
  <1>11. VerdictsAgree(new, time)
    <2>1. Agree(c, t, time)
      BY <1>2 DEF Agree
    <2>2. \A k \in DOMAIN st.commands \ {key} : HasTrace(st, st.commands[k].id) =>
              prior.traces[st.commands[k].id] = st.traces[st.commands[k].id]
      BY <1>3 DEF Consistent, SameDeadline, HasTrace
    <2> QED BY <1>2, <1>3, <1>4, <1>5, <1>6, <2>1, <2>2 DEF Consistent, VerdictsAgree, HasTrace
  <1>12. Consistent(new, time)
    BY <1>7, <1>8, <1>9, <1>10, <1>11 DEF Consistent
  <1> QED BY <1>1, <1>12, TrimIsConsistent

-----------------------------------------------------------------------------
(* The tracker implements the abstract lifecycle *)

\* What one call that issues no command does to execution id and to the verdict of key.
ExecutionStep(st, new, id) ==
    LET before == ExecutionState(st.traces[id])
        after == ExecutionState(new.traces[id])
    IN  after # before =>
            /\ <<before, after>> \in Lifecycle!Moves
            /\ after \in {"verified", "failed"} =>
                   \E key \in DOMAIN st.commands \cap DOMAIN new.commands :
                       /\ HasCommand(st, key, "pending") /\ st.commands[key].id = id
                       /\ HasCommand(new, key, IF after = "failed" THEN "failed" ELSE "acked")

ShownStep(st, new, key) ==
    LET id == st.commands[key].id
        becomes(verdict, after) ==
            /\ HasCommand(st, key, "pending") /\ HasCommand(new, key, verdict)
            /\ HasTrace(st, id)
            /\ ExecutionState(st.traces[id]) = "open" /\ ExecutionState(new.traces[id]) = after
    IN  \/ key \notin DOMAIN new.commands /\ st.commands[key].status # "pending"
        \/ /\ key \in DOMAIN new.commands
           /\ new.commands[key].id = id
           /\ \/ HasCommand(new, key, st.commands[key].status)
              \/ HasCommand(st, key, "pending") /\ HasCommand(new, key, "no_ack")
              \/ HasCommand(st, key, "pending") /\ HasCommand(new, key, "acked")
                                                /\ ~HasTrace(st, id)
              \/ becomes("acked", "verified")
              \/ becomes("failed", "failed")

SameKeys(st, new) ==
    /\ new.seq = st.seq /\ new.latest = st.latest
    /\ DOMAIN new.traces = DOMAIN st.traces
    /\ DOMAIN new.commands \subseteq DOMAIN st.commands

Judges(st, new) ==
    /\ SameKeys(st, new)
    /\ \A id \in DOMAIN st.traces : ExecutionStep(st, new, id)
    /\ \A key \in DOMAIN st.commands : ShownStep(st, new, key)

\* What expiry alone does.
Expires(st, new) ==
    /\ SameKeys(st, new)
    /\ \A id \in DOMAIN st.traces :
          LET before == ExecutionState(st.traces[id])
              after == ExecutionState(new.traces[id])
          IN  after = before \/ <<before, after>> \in {<<"verified", "settled">>, <<"open", "timed_out">>}
    /\ \A key \in DOMAIN st.commands :
          \/ key \notin DOMAIN new.commands /\ st.commands[key].status # "pending"
          \/ /\ key \in DOMAIN new.commands
             /\ new.commands[key].id = st.commands[key].id
             /\ \/ HasCommand(new, key, st.commands[key].status)
                \/ HasCommand(st, key, "pending") /\ HasCommand(new, key, "no_ack")

\* Expiry judges.
LEMMA ExpiryJudges ==
    ASSUME NEW st, NEW new, Expires(st, new)
    PROVE  Judges(st, new)
  BY DEF Expires, Judges, ExecutionStep, ShownStep, Lifecycle!Moves

\* A call that applies expiry first judges what expiry left as it was.
LEMMA JudgesAfterExpiry ==
    ASSUME NEW st, NEW mid, NEW new, Expires(st, mid), Judges(mid, new),
           DOMAIN new.commands = DOMAIN mid.commands
    PROVE  Judges(st, new)
  <1>1. SameKeys(st, new)
    BY DEF Expires, Judges, SameKeys
  <1>2. ASSUME NEW id \in DOMAIN st.traces PROVE ExecutionStep(st, new, id)
    <2> DEFINE x == ExecutionState(st.traces[id])
               y == ExecutionState(mid.traces[id])
               z == ExecutionState(new.traces[id])
    <2>1. id \in DOMAIN mid.traces /\ ExecutionStep(mid, new, id)
      BY DEF Expires, Judges, SameKeys
    <2>2. y = x \/ <<x, y>> \in {<<"verified", "settled">>, <<"open", "timed_out">>}
      BY DEF Expires
    <2>3. z # y => <<y, z>> \in Lifecycle!Moves
      BY <2>1 DEF ExecutionStep
    <2> HIDE DEF x, y, z
    <2>4. CASE y = x
      <3>1. \A key \in DOMAIN st.commands \cap DOMAIN mid.commands :
                HasCommand(mid, key, "pending") =>
                    HasCommand(st, key, "pending") /\ st.commands[key].id = mid.commands[key].id
        BY DEF Expires, HasCommand
      <3>2. DOMAIN mid.commands \subseteq DOMAIN st.commands
        BY DEF Expires, SameKeys
      <3> QED BY <2>1, <2>4, <3>1, <3>2 DEF ExecutionStep, x, y, z
    <2>5. CASE y # x
      <3>1. z = y
        BY <2>2, <2>3, <2>5 DEF Lifecycle!Moves
      <3>2. z # x => <<x, z>> \in Lifecycle!Moves /\ z \notin {"verified", "failed"}
        BY <2>2, <2>5, <3>1 DEF Lifecycle!Moves
      <3> QED BY <3>2 DEF ExecutionStep, x, z
    <2> QED BY <2>4, <2>5
  <1>3. ASSUME NEW key \in DOMAIN st.commands PROVE ShownStep(st, new, key)
    <2> DEFINE id == st.commands[key].id
    <2>1. CASE key \notin DOMAIN mid.commands
      BY <2>1 DEF Expires, ShownStep
    <2>2. CASE key \in DOMAIN mid.commands
      <3>1. key \in DOMAIN new.commands /\ ShownStep(mid, new, key) /\ mid.commands[key].id = id
        BY <2>2 DEF Judges, Expires
      <3>2. CASE HasCommand(mid, key, st.commands[key].status)
        <4>1. HasTrace(mid, id) <=> HasTrace(st, id)
          BY DEF Expires, SameKeys, HasTrace
        <4>2. HasTrace(st, id) /\ ExecutionState(mid.traces[id]) = "open" =>
                  ExecutionState(st.traces[id]) = "open"
          BY DEF Expires, HasTrace
        <4> QED BY <2>2, <3>1, <3>2, <4>1, <4>2 DEF ShownStep, HasCommand
      <3>3. CASE HasCommand(st, key, "pending") /\ HasCommand(mid, key, "no_ack")
        BY <3>1, <3>3 DEF ShownStep, HasCommand
      <3> QED BY <2>2, <3>2, <3>3 DEF Expires
    <2> QED BY <2>1, <2>2
  <1> QED BY <1>1, <1>2, <1>3 DEF Judges

\* A call that leaves the state alone expires nothing.
LEMMA SameExpires ==
    ASSUME NEW st PROVE Expires(st, st)
  BY DEF Expires, SameKeys, HasCommand

\* Remarks on the traces change neither verdicts nor executions.
Quiet(st, new) ==
    /\ SameKeys(st, new) /\ new.commands = st.commands
    /\ \A id \in DOMAIN st.traces :
          ExecutionState(new.traces[id]) = ExecutionState(st.traces[id])

\* Publication is such a remark.
LEMMA PublishedIsQuiet ==
    ASSUME NEW st, NEW deviceId, NEW id, TrackerType(st)
    PROVE  Quiet(st, MarkDeviceCommandPublished(st, deviceId, id))
  <1> DEFINE t == Staged(st.traces[id], "published")
             new == SetTrace(st, id, t)
  <1>1. CASE IsRunning(st, id) /\ DeviceIdOf(st.traces[id].key) = deviceId
    <2>1. id \in DOMAIN st.traces /\ st.traces[id] \in Traces
      BY <1>1 DEF IsRunning, HasTrace, TrackerType
    <2>2. t \in Traces /\ ExecutionState(t) = ExecutionState(st.traces[id])
      BY <2>1 DEF Staged, Traces, Stages, ExecutionState
    <2>3. MarkDeviceCommandPublished(st, deviceId, id) = new
      BY <1>1 DEF MarkDeviceCommandPublished
    <2> HIDE DEF t
    <2>4. /\ new.commands = st.commands /\ new.latest = st.latest /\ new.seq = st.seq
          /\ DOMAIN new.traces = DOMAIN st.traces /\ new.traces[id] = t
          /\ \A other \in DOMAIN st.traces \ {id} : new.traces[other] = st.traces[other]
      BY <2>1, <2>2, SetTraceTyped
    <2> HIDE DEF new
    <2>5. Quiet(st, new)
      BY <2>2, <2>4 DEF Quiet, SameKeys
    <2> QED BY <2>3, <2>5
  <1>2. CASE ~(IsRunning(st, id) /\ DeviceIdOf(st.traces[id].key) = deviceId)
    BY <1>2 DEF MarkDeviceCommandPublished, Quiet, SameKeys
  <1> QED BY <1>1, <1>2

\* Publication changes the state of no execution.
LEMMA PublishedExpires ==
    ASSUME NEW st, NEW deviceId, NEW id, TrackerType(st)
    PROVE  Expires(st, MarkDeviceCommandPublished(st, deviceId, id))
  BY PublishedIsQuiet DEF Quiet, Expires, HasCommand

\* Expiry of the verdicts of some devices.
LEMMA RefreshCommandsExpires ==
    ASSUME NEW st, NEW keys, NEW time \in Nat \ {0}, TrackerType(st)
    PROVE  Expires(st, RefreshCommands(st, keys, time))
  BY RefreshCommandsEffect DEF Expires, SameKeys, HasCommand, SameOrder

\* Expiry of the traces.
LEMMA RefreshTracesExpires ==
    ASSUME NEW st, NEW time, TrackerType(st)
    PROVE  /\ Expires(st, RefreshTraces(st, time))
           /\ RefreshTraces(st, time).commands = st.commands
  <1> DEFINE new == RefreshTraces(st, time)
  <1>1. /\ new.commands = st.commands /\ new.latest = st.latest /\ new.seq = st.seq
        /\ DOMAIN new.traces = DOMAIN st.traces
        /\ \A id \in DOMAIN st.traces : new.traces[id] = RefreshedTrace(st.traces[id], time)
    BY DEF RefreshTraces, TrackerType
  <1> HIDE DEF new
  <1>2. ASSUME NEW t \in Traces
        PROVE  LET before == ExecutionState(t)
                   after == ExecutionState(RefreshedTrace(t, time))
               IN  after = before \/ <<before, after>> \in {<<"verified", "settled">>,
                                                            <<"open", "timed_out">>}
    BY RefreshedTraceEffect DEF ExecutionState
  <1>3. Expires(st, new)
    BY <1>1, <1>2 DEF Expires, SameKeys, HasCommand, TrackerType
  <1> QED BY <1>1, <1>3 DEF new

\* Both, one after the other.
LEMMA RefreshExpires ==
    ASSUME NEW st, NEW key \in ScopedDevices, NEW time \in Nat \ {0}, TrackerType(st)
    PROVE  Expires(st, RefreshTraces(RefreshCommand(st, key, time), time))
  <1> DEFINE mid == RefreshCommand(st, key, time)
             new == RefreshTraces(mid, time)
  <1>1. Expires(st, mid) /\ mid.traces = st.traces /\ TrackerType(mid)
    BY RefreshCommandsExpires, RefreshCommandsEffect DEF RefreshCommand
  <1> HIDE DEF mid
  <1>2. Expires(mid, new) /\ new.commands = mid.commands
    BY <1>1, RefreshTracesExpires
  <1> HIDE DEF new
  <1>3. Expires(st, new)
    BY <1>1, <1>2 DEF Expires, SameKeys, HasCommand
  <1> QED BY <1>3 DEF mid, new

\* Command id fails together with its unverified execution; nothing else changes.
FailsCommand(st, new, id, time) ==
    /\ SameKeys(st, new) /\ DOMAIN new.commands = DOMAIN st.commands
    /\ id \in DOMAIN st.traces /\ ExecutionState(st.traces[id]) = "open"
    /\ ExecutionState(new.traces[id]) = "failed"
    /\ \A other \in DOMAIN st.traces \ {id} : new.traces[other] = st.traces[other]
    /\ \E key \in DOMAIN st.commands :
          /\ st.commands[key].id = id /\ st.commands[key].status = "pending"
          /\ SameOrder(st.commands[key], new.commands[key])
          /\ new.commands[key].status = "failed"
          /\ new.commands[key].displayUntil = time + VerdictDisplay
          /\ \A k \in DOMAIN st.commands \ {key} : new.commands[k] = st.commands[k]

\* A failure callback fails the command it names, or does nothing.
LEMMA FailEffect ==
    ASSUME NEW st, NEW deviceId, NEW id, NEW time \in Nat \ {0}, NEW stage \in Stages,
           Consistent(st, time)
    PROVE  LET new == Fail(st, deviceId, id, stage, time) IN
           new = st \/ FailsCommand(st, new, id, time)
  <1> DEFINE key == st.traces[id].key
             c == [st.commands[key] EXCEPT !.status = "failed", !.expiresAt = time,
                                           !.displayUntil = time + VerdictDisplay]
             mid == SetCommand(st, key, c)
             t == Complete(st.traces[id], "failed", time, stage)
             new == Fail(st, deviceId, id, stage, time)
  <1>1. CASE IsOpen(st, deviceId, id)
    <2>1. /\ id \in DOMAIN st.traces /\ st.traces[id] \in Traces
          /\ st.traces[id].outcome = "running"
          /\ key \in DOMAIN st.commands /\ key \in ScopedDevices /\ st.commands[key] \in Commands
          /\ st.commands[key].id = id /\ st.commands[key].status = "pending" /\ id <= st.seq
      BY <1>1 DEF IsOpen, IsRunning, HasTrace, HasCommand, Consistent, TrackerType
    <2>2. st.traces[id].settlingUntil = 0
      BY <2>1 DEF Consistent, VerdictsAgree, HasTrace, Agree
    <2>3. /\ c \in Commands /\ SameOrder(st.commands[key], c) /\ c.id = id
          /\ c.status = "failed" /\ c.displayUntil = time + VerdictDisplay
      <3>1. time + VerdictDisplay \in Nat
        BY TrackerAssumption
      <3> QED BY <2>1, <3>1 DEF Commands, Statuses, SameOrder
    <2>4. t \in Traces /\ ExecutionState(t) = "failed" /\ ExecutionState(st.traces[id]) = "open"
      BY <2>1, <2>2 DEF Complete, Staged, Traces, Completions, ExecutionState
    <2>5. new = SetTrace(mid, id, t)
      BY <1>1 DEF Fail
    <2> HIDE DEF c, t, key, new
    <2>6. /\ TrackerType(mid) /\ mid.commands = Put(st.commands, key, c)
          /\ mid.traces = st.traces /\ mid.latest = st.latest /\ mid.seq = st.seq
      BY <2>1, <2>3, SetCommandTyped DEF Consistent
    <2> HIDE DEF mid
    <2>7. /\ new.commands = mid.commands /\ new.latest = st.latest /\ new.seq = st.seq
          /\ DOMAIN new.traces = DOMAIN st.traces /\ new.traces[id] = t
          /\ \A other \in DOMAIN st.traces \ {id} : new.traces[other] = st.traces[other]
      BY <2>1, <2>4, <2>5, <2>6, SetTraceTyped
    <2>8. /\ DOMAIN new.commands = DOMAIN st.commands /\ new.commands[key] = c
          /\ \A k \in DOMAIN st.commands \ {key} : new.commands[k] = st.commands[k]
      BY <2>1, <2>6, <2>7 DEF Put
    <2>9. SameKeys(st, new)
      BY <2>7, <2>8 DEF SameKeys
    <2>10. FailsCommand(st, new, id, time)
      BY <2>1, <2>3, <2>4, <2>7, <2>8, <2>9 DEF FailsCommand
    <2> QED BY <2>10 DEF new
  <1>2. CASE ~IsOpen(st, deviceId, id)
    BY <1>2 DEF Fail
  <1> QED BY <1>1, <1>2

\* A failure judges the command and its execution together.
LEMMA FailJudges ==
    ASSUME NEW st, NEW deviceId, NEW id, NEW time \in Nat \ {0}, NEW stage \in Stages,
           Consistent(st, time)
    PROVE  Judges(st, Fail(st, deviceId, id, stage, time))
  <1> DEFINE new == Fail(st, deviceId, id, stage, time)
  <1>1. CASE new = st
    BY <1>1, SameExpires, ExpiryJudges
  <1>2. CASE FailsCommand(st, new, id, time)
    <2> HIDE DEF new
    <2>1. SameKeys(st, new) /\ DOMAIN new.commands = DOMAIN st.commands
      BY <1>2 DEF FailsCommand
    <2>2. PICK key \in DOMAIN st.commands :
             /\ st.commands[key].id = id /\ st.commands[key].status = "pending"
             /\ new.commands[key].id = id /\ new.commands[key].status = "failed"
             /\ \A k \in DOMAIN st.commands \ {key} : new.commands[k] = st.commands[k]
      BY <1>2 DEF FailsCommand, SameOrder
    <2>3. \A other \in DOMAIN st.traces : ExecutionStep(st, new, other)
      BY <1>2, <2>1, <2>2 DEF FailsCommand, ExecutionStep, HasCommand, Lifecycle!Moves
    <2>4. \A k \in DOMAIN st.commands : ShownStep(st, new, k)
      BY <1>2, <2>1, <2>2 DEF FailsCommand, ShownStep, HasCommand, HasTrace
    <2>5. Judges(st, new)
      BY <2>1, <2>3, <2>4 DEF Judges
    <2> QED BY <2>5 DEF new
  <1> QED BY <1>1, <1>2, FailEffect

\* A drift judges a verified execution and no verdict.
LEMMA DriftJudges ==
    ASSUME NEW st, NEW key, NEW reported \in Reports, NEW observedAt \in Nat, TrackerType(st)
    PROVE  LET new == ObservePossibleDrift(st, key, reported, observedAt) IN
           Judges(st, new) /\ new.commands = st.commands
  <1> DEFINE id == st.latest[key]
             t == [Complete(st.traces[id], "drifted", observedAt, "drifted")
                     EXCEPT !.observed = reported]
             new == SetTrace(st, id, t)
  <1>1. CASE /\ key \in DOMAIN st.latest /\ IsRunning(st, id) /\ st.traces[id].settlingUntil # 0
             /\ ~Matches(st.traces[id].expected, reported)
    <2>1. id \in DOMAIN st.traces /\ st.traces[id] \in Traces
      BY <1>1 DEF IsRunning, HasTrace, TrackerType
    <2>2. /\ t \in Traces
          /\ ExecutionState(t) = "drifted" /\ ExecutionState(st.traces[id]) = "verified"
      BY <1>1, <2>1 DEF Complete, Staged, Traces, Completions, Stages, ExecutionState, IsRunning
    <2>3. ObservePossibleDrift(st, key, reported, observedAt) = new
      BY <1>1 DEF ObservePossibleDrift
    <2> HIDE DEF t, id
    <2>4. /\ new.commands = st.commands /\ new.latest = st.latest /\ new.seq = st.seq
          /\ DOMAIN new.traces = DOMAIN st.traces /\ new.traces[id] = t
          /\ \A other \in DOMAIN st.traces \ {id} : new.traces[other] = st.traces[other]
      BY <2>1, <2>2, SetTraceTyped
    <2> HIDE DEF new
    <2>5. Judges(st, new)
      BY <2>2, <2>4 DEF Judges, SameKeys, ExecutionStep, ShownStep, HasCommand, Lifecycle!Moves
    <2> QED BY <2>3, <2>4, <2>5
  <1>2. CASE ~ /\ key \in DOMAIN st.latest /\ IsRunning(st, id) /\ st.traces[id].settlingUntil # 0
               /\ ~Matches(st.traces[id].expected, reported)
    <2>1. ObservePossibleDrift(st, key, reported, observedAt) = st
      BY <1>2 DEF ObservePossibleDrift
    <2> QED BY <2>1, SameExpires, ExpiryJudges
  <1> QED BY <1>1, <1>2

\* An acknowledgement in time judges the command and, when its trace is kept,
\* the open execution.
LEMMA AcknowledgeJudges ==
    ASSUME NEW st, NEW key, NEW time \in Nat \ {0}, Consistent(st, time),
           HasCommand(st, key, "pending"), time <= st.commands[key].expiresAt
    PROVE  LET new == Acknowledge(st, key, time) IN
           /\ Judges(st, new) /\ DOMAIN new.commands = DOMAIN st.commands
           /\ \A k \in DOMAIN st.commands \ {key} : new.commands[k] = st.commands[k]
           /\ SameOrder(st.commands[key], new.commands[key])
           /\ new.commands[key].status = "acked"
           /\ new.commands[key].displayUntil = time + AckedDisplay
  <1> DEFINE old == st.commands[key]
             c == [old EXCEPT !.status = "acked", !.displayUntil = time + AckedDisplay]
             mid == SetCommand(st, key, c)
             t == [Staged(st.traces[old.id], "verified")
                     EXCEPT !.settlingUntil = time + SettleWindow]
             new == Acknowledge(st, key, time)
  <1>1. /\ key \in DOMAIN st.commands /\ key \in ScopedDevices /\ old \in Commands
        /\ old.id <= st.seq /\ old.status = "pending"
    BY DEF HasCommand, Consistent, TrackerType
  <1>2. /\ c \in Commands /\ SameOrder(old, c) /\ c.id = old.id
        /\ c.status = "acked" /\ c.displayUntil = time + AckedDisplay
    <2>1. time + AckedDisplay \in Nat
      BY TrackerAssumption
    <2> QED BY <1>1, <2>1 DEF Commands, Statuses, SameOrder
  <1>3. /\ TrackerType(mid)
        /\ mid.commands = Put(st.commands, key, c)
        /\ mid.traces = st.traces /\ mid.latest = st.latest /\ mid.seq = st.seq
    <2> HIDE DEF c
    <2> QED BY <1>1, <1>2, SetCommandTyped DEF Consistent
  <1>4. /\ DOMAIN mid.commands = DOMAIN st.commands /\ mid.commands[key] = c
        /\ \A k \in DOMAIN st.commands \ {key} : mid.commands[k] = st.commands[k]
    <2> HIDE DEF mid, c
    <2> QED BY <1>1, <1>3 DEF Put
  <1>5. CASE ~HasTrace(st, old.id)
    <2>1. new = mid
      BY <1>5 DEF Acknowledge
    <2> HIDE DEF mid, c
    <2>2. Judges(st, mid)
      BY <1>1, <1>2, <1>3, <1>4, <1>5
         DEF Judges, SameKeys, ExecutionStep, ShownStep, HasCommand
    <2> QED BY <1>2, <1>4, <2>1, <2>2
  <1>6. CASE HasTrace(st, old.id)
    <2>1. new = SetTrace(mid, old.id, t)
      BY <1>6 DEF Acknowledge
    <2>2. st.traces[old.id] \in Traces
      BY <1>6 DEF HasTrace, Consistent, TrackerType
    <2>3. st.traces[old.id].expiresAt = old.expiresAt /\ Agree(old, st.traces[old.id], time)
      BY <1>1, <1>6 DEF Consistent, SameDeadline, VerdictsAgree
    <2>4. st.traces[old.id].outcome = "running" /\ st.traces[old.id].settlingUntil = 0
      BY <1>1, <2>2, <2>3 DEF Agree, Commands, Traces
    <2>5. time + SettleWindow \in Nat \ {0}
      BY TrackerAssumption
    <2>6. /\ t \in Traces /\ ExecutionState(t) = "verified"
          /\ ExecutionState(st.traces[old.id]) = "open"
      BY <2>2, <2>4, <2>5 DEF Staged, Traces, Stages, ExecutionState
    <2> HIDE DEF mid, t, new, c
    <2>7. /\ new.commands = mid.commands /\ new.latest = st.latest /\ new.seq = st.seq
          /\ DOMAIN new.traces = DOMAIN st.traces /\ new.traces[old.id] = t
          /\ \A other \in DOMAIN st.traces \ {old.id} : new.traces[other] = st.traces[other]
      BY <1>3, <1>6, <2>1, <2>6, SetTraceTyped DEF HasTrace
    <2>8. \A other \in DOMAIN st.traces : ExecutionStep(st, new, other)
      BY <1>1, <1>2, <1>4, <2>6, <2>7 DEF ExecutionStep, HasCommand, Lifecycle!Moves
    <2>9. \A k \in DOMAIN st.commands : ShownStep(st, new, k)
      BY <1>1, <1>2, <1>4, <1>6, <2>6, <2>7 DEF ShownStep, HasCommand, HasTrace
    <2>10. Judges(st, new)
      BY <1>4, <2>7, <2>8, <2>9 DEF Judges, SameKeys
    <2> QED BY <1>2, <1>4, <2>7, <2>10 DEF new
  <1> QED BY <1>5, <1>6

\* A report judges after expiry.
LEMMA ObserveJudges ==
    ASSUME NEW st, NEW key \in ScopedDevices, NEW reported \in Reports, NEW observedAt \in Nat,
           NEW evidence, NEW time \in Nat \ {0}, Consistent(st, time)
    PROVE  Judges(st, ObserveTelemetry(st, key, reported, observedAt, evidence, time))
  <1> DEFINE fresh == RefreshTraces(RefreshCommand(st, key, time), time)
             new == ObserveTelemetry(st, key, reported, observedAt, evidence, time)
  <1>1. Consistent(fresh, time) /\ Expires(st, fresh)
    BY RefreshCommandsIsConsistent, RefreshTracesIsConsistent, RefreshExpires
       DEF RefreshCommand, Consistent
  <1>2. HasCommand(fresh, key, "pending") => time <= fresh.commands[key].expiresAt
    BY RefreshedPendingIsInTime
  <1>3. \/ new = fresh
        \/ HasCommand(fresh, key, "pending") /\ new = Acknowledge(fresh, key, time)
        \/ new = ObservePossibleDrift(fresh, key, reported, observedAt)
    BY DEF ObserveTelemetry, ObservePending
  <1> SUFFICES Judges(st, new)
    OBVIOUS
  <1> HIDE DEF new, fresh
  <1>4. CASE new = fresh
    BY <1>1, <1>4, ExpiryJudges
  <1>5. CASE HasCommand(fresh, key, "pending") /\ new = Acknowledge(fresh, key, time)
    BY <1>1, <1>2, <1>5, AcknowledgeJudges, JudgesAfterExpiry
  <1>6. CASE new = ObservePossibleDrift(fresh, key, reported, observedAt)
    BY <1>1, <1>6, DriftJudges, JudgesAfterExpiry DEF Consistent
  <1> QED BY <1>3, <1>4, <1>5, <1>6

\* What a command shows after some calls: the same verdict, or a new one of the
\* same command that is still to be shown; only commands of ids have failed.
Remembers(old, c, ids, time) ==
    \/ c = old
    \/ /\ SameOrder(old, c) /\ c.displayUntil >= time
       /\ c.status = "failed" => c.id \in ids

\* What calls that issue no command do between two awaits.
Handles(st, new, ids, time) ==
    /\ Judges(st, new)
    /\ \A key \in DOMAIN new.commands : Remembers(st.commands[key], new.commands[key], ids, time)

\* No call, nothing handled.
LEMMA SameHandles ==
    ASSUME NEW st, NEW ids, NEW time PROVE Handles(st, st, ids, time)
  BY SameExpires, ExpiryJudges DEF Handles, Remembers

\* An execution that fails is one of ids.
LEMMA HandlesFails ==
    ASSUME NEW st, NEW new, NEW ids, NEW time, Handles(st, new, ids, time),
           NEW id \in DOMAIN st.traces, new.traces[id].outcome = "failed"
    PROVE  id \in ids \/ st.traces[id].outcome = "failed"
  <1>1. ExecutionState(new.traces[id]) = "failed" /\ ExecutionStep(st, new, id)
    BY DEF ExecutionState, Handles, Judges
  <1>2. CASE ExecutionState(st.traces[id]) = "failed"
    BY <1>2 DEF ExecutionState
  <1>3. CASE ExecutionState(st.traces[id]) # "failed"
    <2>1. PICK key \in DOMAIN st.commands \cap DOMAIN new.commands :
             /\ st.commands[key].status = "pending" /\ st.commands[key].id = id
             /\ new.commands[key].status = "failed"
      BY <1>1, <1>3 DEF ExecutionStep, HasCommand
    <2> QED BY <2>1 DEF Handles, Remembers, SameOrder
  <1> QED BY <1>2, <1>3

\* What follows a remark is handled as if the remark had not been made.
LEMMA HandlesAfterQuiet ==
    ASSUME NEW st, NEW mid, NEW new, NEW ids, NEW time,
           Quiet(st, mid), Handles(mid, new, ids, time)
    PROVE  Handles(st, new, ids, time)
  <1>1. SameKeys(st, new)
    BY DEF Quiet, Handles, Judges, SameKeys
  <1>2. \A id \in DOMAIN st.traces : ExecutionStep(st, new, id)
    BY DEF Quiet, Handles, Judges, SameKeys, ExecutionStep, HasCommand
  <1>3. \A key \in DOMAIN st.commands : ShownStep(st, new, key)
    BY DEF Quiet, Handles, Judges, SameKeys, ShownStep, HasCommand, HasTrace
  <1> QED BY <1>1, <1>2, <1>3 DEF Quiet, Handles, Judges

\* Expiry of verdicts after other calls: a verdict they gave is not forgotten yet.
LEMMA HandlesThenRefresh ==
    ASSUME NEW st, NEW mid, NEW ids, NEW keys, NEW time \in Nat \ {0},
           TrackerType(st), TrackerType(mid), Handles(st, mid, ids, time)
    PROVE  Handles(st, RefreshCommands(mid, keys, time), ids, time)
  <1> DEFINE new == RefreshCommands(mid, keys, time)
  <1>1. /\ new.traces = mid.traces /\ new.latest = mid.latest /\ new.seq = mid.seq
        /\ DOMAIN new.commands \subseteq DOMAIN mid.commands
        /\ \A k \in DOMAIN mid.commands \ DOMAIN new.commands :
              mid.commands[k].status # "pending" /\ time > mid.commands[k].displayUntil
        /\ \A k \in DOMAIN new.commands :
              \/ new.commands[k] = mid.commands[k]
              \/ /\ mid.commands[k].status = "pending"
                 /\ SameOrder(mid.commands[k], new.commands[k])
                 /\ new.commands[k].status = "no_ack"
                 /\ new.commands[k].displayUntil = time + VerdictDisplay
    BY RefreshCommandsEffect
  <1> HIDE DEF new
  <1>2. /\ DOMAIN mid.commands \subseteq DOMAIN st.commands
        /\ \A k \in DOMAIN mid.commands :
              /\ mid.commands[k].displayUntil \in Nat
              /\ mid.commands[k].id = st.commands[k].id
              /\ mid.commands[k].status = "pending" => st.commands[k].status = "pending"
    BY DEF Handles, Judges, SameKeys, ShownStep, HasCommand, TrackerType, Commands
  <1>3. \A k \in DOMAIN mid.commands \ DOMAIN new.commands :
            mid.commands[k] = st.commands[k] /\ st.commands[k].status # "pending"
    BY <1>1, <1>2 DEF Handles, Remembers
  <1>4. \A k \in DOMAIN new.commands :
            Remembers(st.commands[k], new.commands[k], ids, time)
    <2>1. time + VerdictDisplay >= time
      BY TrackerAssumption
    <2> QED BY <1>1, <2>1 DEF Handles, Remembers, SameOrder
  <1>5. SameKeys(st, new)
    BY <1>1 DEF Handles, Judges, SameKeys
  <1>6. ASSUME NEW id \in DOMAIN st.traces PROVE ExecutionStep(st, new, id)
    BY <1>1, <1>2, <1>3 DEF Handles, Judges, ExecutionStep, HasCommand
  <1>7. ASSUME NEW k \in DOMAIN st.commands PROVE ShownStep(st, new, k)
    <2>1. CASE k \notin DOMAIN new.commands
      <3>1. ShownStep(st, mid, k)
        BY DEF Handles, Judges
      <3> QED BY <1>3, <2>1, <3>1 DEF ShownStep
    <2>2. CASE k \in DOMAIN new.commands
      <3>1. k \in DOMAIN mid.commands /\ ShownStep(st, mid, k)
        BY <1>1, <2>2 DEF Handles, Judges
      <3>2. CASE new.commands[k] = mid.commands[k]
        BY <1>1, <2>2, <3>1, <3>2 DEF ShownStep, HasCommand
      <3>3. CASE /\ mid.commands[k].status = "pending" /\ new.commands[k].status = "no_ack"
                 /\ SameOrder(mid.commands[k], new.commands[k])
        BY <1>2, <2>2, <3>1, <3>3 DEF ShownStep, HasCommand, SameOrder
      <3> QED BY <1>1, <2>2, <3>2, <3>3
    <2> QED BY <2>1, <2>2
  <1>8. Handles(st, new, ids, time)
    BY <1>4, <1>5, <1>6, <1>7 DEF Handles, Judges
  <1> QED BY <1>8 DEF new

\* A failure after other calls: a verdict they gave is not overwritten.
LEMMA HandlesThenFail ==
    ASSUME NEW st, NEW mid, NEW deviceId, NEW id, NEW time \in Nat \ {0}, NEW stage \in Stages,
           Consistent(mid, time), Handles(st, mid, {}, time)
    PROVE  Handles(st, Fail(mid, deviceId, id, stage, time), {id}, time)
  <1> DEFINE new == Fail(mid, deviceId, id, stage, time)
  <1>1. CASE new = mid
    BY <1>1 DEF Handles, Remembers
  <1>2. CASE FailsCommand(mid, new, id, time)
    <2> HIDE DEF new
    <2>1. /\ SameKeys(mid, new) /\ DOMAIN new.commands = DOMAIN mid.commands
          /\ id \in DOMAIN mid.traces /\ ExecutionState(mid.traces[id]) = "open"
          /\ ExecutionState(new.traces[id]) = "failed"
          /\ \A other \in DOMAIN mid.traces \ {id} : new.traces[other] = mid.traces[other]
      BY <1>2 DEF FailsCommand
    <2>2. PICK key \in DOMAIN mid.commands :
             /\ mid.commands[key].id = id /\ mid.commands[key].status = "pending"
             /\ SameOrder(mid.commands[key], new.commands[key])
             /\ new.commands[key].status = "failed"
             /\ new.commands[key].displayUntil = time + VerdictDisplay
             /\ \A k \in DOMAIN mid.commands \ {key} : new.commands[k] = mid.commands[k]
      BY <1>2 DEF FailsCommand
    <2>3. /\ SameKeys(st, mid)
          /\ \A i \in DOMAIN st.traces : ExecutionStep(st, mid, i)
          /\ \A k \in DOMAIN st.commands : ShownStep(st, mid, k)
          /\ \A k \in DOMAIN mid.commands : Remembers(st.commands[k], mid.commands[k], {}, time)
      BY DEF Handles, Judges
    <2>4. /\ key \in DOMAIN st.commands /\ st.commands[key].id = id
          /\ st.commands[key].status = "pending"
      BY <2>2, <2>3 DEF SameKeys, ShownStep, HasCommand
    <2>5. ExecutionState(st.traces[id]) = "open" /\ id \in DOMAIN st.traces
      BY <2>1, <2>3 DEF SameKeys, ExecutionStep, Lifecycle!Moves
    <2>6. SameKeys(st, new)
      BY <2>1, <2>3 DEF SameKeys
    <2>7. ASSUME NEW i \in DOMAIN st.traces PROVE ExecutionStep(st, new, i)
      <3>1. CASE i = id
        BY <2>1, <2>2, <2>4, <2>5, <3>1 DEF ExecutionStep, HasCommand, Lifecycle!Moves, SameOrder
      <3>2. CASE i # id
        <4>1. new.traces[i] = mid.traces[i] /\ ExecutionStep(st, mid, i)
          BY <2>1, <2>3, <3>2 DEF SameKeys
        <4> QED BY <2>1, <2>2, <4>1 DEF ExecutionStep, HasCommand
      <3> QED BY <3>1, <3>2
    <2>8. ASSUME NEW k \in DOMAIN st.commands PROVE ShownStep(st, new, k)
      <3>1. CASE k = key
        BY <2>1, <2>2, <2>4, <2>5, <3>1 DEF ShownStep, HasCommand, HasTrace, SameOrder
      <3>2. CASE k # key
        <4>1. ShownStep(st, mid, k)
          BY <2>3
        <4>2. CASE k \notin DOMAIN mid.commands
          BY <2>1, <4>1, <4>2 DEF ShownStep
        <4>3. CASE k \in DOMAIN mid.commands
          <5>1. new.commands[k] = mid.commands[k]
            BY <2>2, <3>2, <4>3
          <5>2. ExecutionState(mid.traces[st.commands[k].id]) \in {"verified", "failed"}
                  /\ HasTrace(st, st.commands[k].id)
                  => ExecutionState(new.traces[st.commands[k].id])
                        = ExecutionState(mid.traces[st.commands[k].id])
            BY <2>1, <2>3 DEF HasTrace, SameKeys
          <5> QED BY <2>1, <4>1, <4>3, <5>1, <5>2 DEF ShownStep, HasCommand
        <4> QED BY <4>2, <4>3
      <3> QED BY <3>1, <3>2
    <2>9. \A k \in DOMAIN new.commands : Remembers(st.commands[k], new.commands[k], {id}, time)
      <3>1. time + VerdictDisplay >= time
        BY TrackerAssumption
      <3> QED BY <2>1, <2>2, <2>3, <3>1 DEF Remembers, SameOrder
    <2>10. Handles(st, new, {id}, time)
      BY <2>6, <2>7, <2>8, <2>9 DEF Handles, Judges
    <2> QED BY <2>10 DEF new
  <1> QED BY <1>1, <1>2, FailEffect

\* A report gives verdicts that are still to be shown, and fails nothing.  A
\* command it leaves pending is one it does not verify.
LEMMA ObserveHandles ==
    ASSUME NEW st, NEW key \in ScopedDevices, NEW reported \in Reports, NEW observedAt \in Nat,
           NEW evidence, NEW time \in Nat \ {0}, Consistent(st, time)
    PROVE  LET new == ObserveTelemetry(st, key, reported, observedAt, evidence, time) IN
           /\ Handles(st, new, {}, time)
           /\ HasCommand(new, key, "pending") =>
                  ~Verifies(new.commands[key], reported, observedAt, evidence)
  <1> DEFINE mid == RefreshCommands(st, {key}, time)
             fresh == RefreshTraces(mid, time)
             new == ObserveTelemetry(st, key, reported, observedAt, evidence, time)
  <1>1. Consistent(mid, time) /\ Consistent(fresh, time) /\ fresh.commands = mid.commands
    BY RefreshCommandsIsConsistent, RefreshTracesIsConsistent, RefreshTracesExpires DEF Consistent
  <1>2. /\ DOMAIN mid.commands \subseteq DOMAIN st.commands
        /\ \A k \in DOMAIN mid.commands : Remembers(st.commands[k], mid.commands[k], {}, time)
    <2>1. Handles(st, mid, {}, time)
      BY SameHandles, HandlesThenRefresh DEF Consistent
    <2> QED BY <2>1 DEF Handles, Judges, SameKeys
  <1>3. fresh = RefreshTraces(RefreshCommand(st, key, time), time)
    BY DEF RefreshCommand
  <1>4. HasCommand(fresh, key, "pending") => time <= fresh.commands[key].expiresAt
    BY <1>3, RefreshedPendingIsInTime
  <1>5. \/ HasCommand(fresh, key, "pending") /\ new = fresh
           /\ ~Verifies(fresh.commands[key], reported, observedAt, evidence)
        \/ HasCommand(fresh, key, "pending") /\ new = Acknowledge(fresh, key, time)
        \/ ~HasCommand(fresh, key, "pending")
           /\ new = ObservePossibleDrift(fresh, key, reported, observedAt)
    BY <1>3 DEF ObserveTelemetry, ObservePending
  <1>6. Judges(st, new)
    BY ObserveJudges
  <1> SUFFICES /\ \A k \in DOMAIN new.commands : Remembers(st.commands[k], new.commands[k], {}, time)
               /\ HasCommand(new, key, "pending") =>
                      ~Verifies(new.commands[key], reported, observedAt, evidence)
    BY <1>6 DEF Handles
  <1> HIDE DEF new, mid, fresh
  <1>7. CASE HasCommand(fresh, key, "pending") /\ new = fresh
             /\ ~Verifies(fresh.commands[key], reported, observedAt, evidence)
    BY <1>1, <1>2, <1>7
  <1>8. CASE HasCommand(fresh, key, "pending") /\ new = Acknowledge(fresh, key, time)
    <2>1. /\ DOMAIN new.commands = DOMAIN fresh.commands
          /\ \A k \in DOMAIN fresh.commands \ {key} : new.commands[k] = fresh.commands[k]
          /\ SameOrder(fresh.commands[key], new.commands[key])
          /\ new.commands[key].status = "acked"
          /\ new.commands[key].displayUntil = time + AckedDisplay
      BY <1>1, <1>4, <1>8, AcknowledgeJudges
    <2>2. time + AckedDisplay >= time
      BY TrackerAssumption
    <2> QED BY <1>1, <1>2, <2>1, <2>2 DEF Remembers, SameOrder, HasCommand
  <1>9. CASE ~HasCommand(fresh, key, "pending")
             /\ new = ObservePossibleDrift(fresh, key, reported, observedAt)
    <2>1. new.commands = fresh.commands
      BY <1>1, <1>9, DriftJudges DEF Consistent
    <2> QED BY <1>1, <1>2, <1>9, <2>1 DEF HasCommand
  <1> QED BY <1>5, <1>7, <1>8, <1>9

\* A trace is active in the lifecycle exactly while it runs.
LEMMA ActiveIsRunning ==
    ASSUME NEW t \in Traces
    PROVE  /\ ExecutionState(t) \in Lifecycle!Active <=> t.outcome = "running"
           /\ ExecutionState(t) \notin {"unissued", "forgotten"}
  BY DEF ExecutionState, Traces, Completions, Lifecycle!Active

\* The active commands after a step are those of the map that are still running.
LEMMA StillActiveAre ==
    ASSUME NEW map, NEW st, TrackerType(st),
           DOMAIN ActiveOf(st) \subseteq DOMAIN map,
           \A d \in DOMAIN map : map[d] \in CommandIds,
           \A d \in DOMAIN map : IsRunning(st, map[d]) =>
               d \in DOMAIN st.latest /\ st.latest[d] = map[d],
           \A d \in DOMAIN ActiveOf(st) : map[d] = st.latest[d]
    PROVE  ActiveOf(st) = [d \in {d \in DOMAIN map : LifeOf(st, map[d]) \in Lifecycle!Active}
                             |-> map[d]]
  <1>1. \A id \in CommandIds : LifeOf(st, id) \in Lifecycle!Active <=> IsRunning(st, id)
    <2>1. \A id : HasTrace(st, id) => st.traces[id] \in Traces
      BY DEF HasTrace, TrackerType
    <2>2. "forgotten" \notin Lifecycle!Active /\ "unissued" \notin Lifecycle!Active
      BY DEF Lifecycle!Active
    <2> QED BY <2>1, <2>2, ActiveIsRunning DEF LifeOf, IsRunning
  <1>2. /\ DOMAIN ActiveOf(st) = {k \in DOMAIN st.latest : IsRunning(st, st.latest[k])}
        /\ \A k \in DOMAIN ActiveOf(st) : ActiveOf(st)[k] = st.latest[k]
    BY DEF ActiveOf, Keep
  <1> DEFINE kept == {d \in DOMAIN map : LifeOf(st, map[d]) \in Lifecycle!Active}
  <1>3. DOMAIN ActiveOf(st) = kept
    BY <1>1, <1>2
  <1>4. ActiveOf(st) = [k \in DOMAIN ActiveOf(st) |-> ActiveOf(st)[k]]
    BY DEF ActiveOf, Keep
  <1>5. \A k \in kept : ActiveOf(st)[k] = map[k]
    BY <1>2, <1>3
  <1> HIDE DEF kept
  <1>6. ActiveOf(st) = [k \in kept |-> map[k]]
    BY <1>3, <1>4, <1>5
  <1> QED BY <1>6 DEF kept

\* A step that judges is the Judge step of the lifecycle.
LEMMA JudgesIsJudge ==
    ASSUME TrackerType(tracker), TrackerType(tracker)', Judges(tracker, tracker')
    PROVE  Lifecycle!Judge
  <1> DEFINE life == [id \in CommandIds |-> LifeOf(tracker, id)]
  <1>1. SameKeys(tracker, tracker')
    BY DEF Judges
  <1>2. \A id : HasTrace(tracker', id) <=> HasTrace(tracker, id)
    BY <1>1 DEF SameKeys, HasTrace
  <1>3. ASSUME NEW id \in CommandIds, LifeOf(tracker', id) # LifeOf(tracker, id)
        PROVE  /\ HasTrace(tracker, id)
               /\ LifeOf(tracker, id) = ExecutionState(tracker.traces[id])
               /\ LifeOf(tracker', id) = ExecutionState(tracker'.traces[id])
    BY <1>1, <1>2, <1>3 DEF LifeOf, SameKeys
  <1>4. /\ DOMAIN ShownOf(tracker) = DOMAIN tracker.commands
        /\ DOMAIN ShownOf(tracker') = DOMAIN tracker'.commands
        /\ \A d \in DOMAIN tracker.commands : ShownOf(tracker)[d] =
              [id |-> tracker.commands[d].id, verdict |-> tracker.commands[d].status]
        /\ \A d \in DOMAIN tracker'.commands : ShownOf(tracker')[d] =
              [id |-> tracker'.commands[d].id, verdict |-> tracker'.commands[d].status]
    BY DEF ShownOf
  <1>5. \A id \in CommandIds : life'[id] # life[id] =>
           /\ <<life[id], life'[id]>> \in Lifecycle!Moves
           /\ life'[id] \in {"verified", "failed"} => Lifecycle!WithItsVerdict(id)
    <2> SUFFICES ASSUME NEW id \in CommandIds, LifeOf(tracker', id) # LifeOf(tracker, id)
                 PROVE  /\ <<LifeOf(tracker, id), LifeOf(tracker', id)>> \in Lifecycle!Moves
                        /\ LifeOf(tracker', id) \in {"verified", "failed"} =>
                               Lifecycle!WithItsVerdict(id)
      OBVIOUS
    <2>1. ExecutionStep(tracker, tracker', id)
      BY <1>3 DEF Judges, HasTrace
    <2>2. <<LifeOf(tracker, id), LifeOf(tracker', id)>> \in Lifecycle!Moves
      BY <1>3, <2>1 DEF ExecutionStep
    <2>3. ASSUME LifeOf(tracker', id) \in {"verified", "failed"}
          PROVE  Lifecycle!WithItsVerdict(id)
      <3> PICK key \in DOMAIN tracker.commands \cap DOMAIN tracker'.commands :
              /\ HasCommand(tracker, key, "pending") /\ tracker.commands[key].id = id
              /\ HasCommand(tracker', key, IF LifeOf(tracker', id) = "failed"
                                           THEN "failed" ELSE "acked")
        BY <1>3, <2>1, <2>3 DEF ExecutionStep
      <3>1. /\ tracker.commands[key].status = "pending"
            /\ tracker'.commands[key].status = IF LifeOf(tracker', id) = "failed"
                                               THEN "failed" ELSE "acked"
        BY DEF HasCommand
      <3>2. key \in DOMAIN ShownOf(tracker) \cap DOMAIN ShownOf(tracker')
        BY <1>4
      <3>3. ShownOf(tracker)[key] = [id |-> id, verdict |-> "pending"]
        BY <1>4, <3>1
      <3>4. ShownOf(tracker')[key].verdict = IF LifeOf(tracker', id) = "failed"
                                             THEN "failed" ELSE "acked"
        <4>1. ShownOf(tracker')[key] = [id |-> tracker'.commands[key].id,
                                        verdict |-> tracker'.commands[key].status]
          BY <1>4
        <4> QED BY <3>1, <4>1
      <3> QED BY <3>2, <3>3, <3>4 DEF Lifecycle!WithItsVerdict
    <2> QED BY <2>2, <2>3
  <1>6. ActiveOf(tracker') = Lifecycle!StillActive(ActiveOf(tracker))
    <2> DEFINE map == ActiveOf(tracker)
    <2>1. /\ DOMAIN map = {k \in DOMAIN tracker.latest : IsRunning(tracker, tracker.latest[k])}
          /\ \A k \in DOMAIN map : map[k] = tracker.latest[k]
      BY DEF ActiveOf, Keep
    <2>2. \A d \in DOMAIN map : map[d] \in CommandIds
      <3>1. 1..tracker.seq \subseteq CommandIds
        BY TrackerAssumption DEF TrackerType, CommandIds
      <3> QED BY <2>1, <3>1 DEF TrackerType
    <2>3. ASSUME NEW id, IsRunning(tracker', id) PROVE IsRunning(tracker, id)
      <3>1. /\ HasTrace(tracker, id) /\ tracker.traces[id] \in Traces
            /\ tracker'.traces[id] \in Traces
        BY <1>2, <2>3 DEF IsRunning, HasTrace, TrackerType
      <3>2. ExecutionState(tracker'.traces[id]) \in Lifecycle!Active
        BY <2>3, <3>1, ActiveIsRunning DEF IsRunning
      <3>3. ExecutionState(tracker.traces[id]) \in Lifecycle!Active
        BY <3>1, <3>2 DEF Judges, ExecutionStep, HasTrace, Lifecycle!Moves, Lifecycle!Active
      <3> QED BY <3>1, <3>3, ActiveIsRunning DEF IsRunning
    <2>4. /\ DOMAIN ActiveOf(tracker') \subseteq DOMAIN map
          /\ \A d \in DOMAIN ActiveOf(tracker') : map[d] = tracker'.latest[d]
          /\ \A d \in DOMAIN map : IsRunning(tracker', map[d]) =>
                d \in DOMAIN tracker'.latest /\ tracker'.latest[d] = map[d]
      BY <1>1, <2>1, <2>3 DEF SameKeys, ActiveOf, Keep
    <2> HIDE DEF map
    <2>5. ActiveOf(tracker') =
              [d \in {d \in DOMAIN map : LifeOf(tracker', map[d]) \in Lifecycle!Active} |-> map[d]]
      BY <2>2, <2>4, StillActiveAre
    <2>6. Lifecycle!StillActive(map) =
              [d \in {d \in DOMAIN map : LifeOf(tracker', map[d]) \in Lifecycle!Active} |-> map[d]]
      BY <2>2 DEF Lifecycle!StillActive
    <2> QED BY <2>5, <2>6 DEF map
  <1>7. DOMAIN ShownOf(tracker') \subseteq DOMAIN ShownOf(tracker)
    BY <1>1, <1>4 DEF SameKeys
  <1>8. ASSUME NEW d \in DOMAIN ShownOf(tracker) PROVE Lifecycle!VerdictStep(d)
    <2> DEFINE id == tracker.commands[d].id
    <2>1. d \in DOMAIN tracker.commands /\ ShownStep(tracker, tracker', d)
      BY <1>4 DEF Judges
    <2>2. id \in CommandIds /\ id <= tracker.seq
      BY <2>1 DEF TrackerType, Commands
    <2>3. /\ life[id] = LifeOf(tracker, id) /\ life'[id] = LifeOf(tracker', id)
      BY <2>2
    <2>4. ~HasTrace(tracker, id) =>
              LifeOf(tracker, id) = "forgotten" /\ LifeOf(tracker', id) = "forgotten"
      BY <1>1, <1>2, <2>2 DEF LifeOf, SameKeys
    <2>5. HasTrace(tracker, id) =>
              /\ LifeOf(tracker, id) = ExecutionState(tracker.traces[id])
              /\ LifeOf(tracker', id) = ExecutionState(tracker'.traces[id])
      BY <1>2 DEF LifeOf
    <2>6. ShownOf(tracker)[d] = [id |-> id, verdict |-> tracker.commands[d].status]
      BY <1>4, <2>1
    <2>7. d \in DOMAIN tracker'.commands => ShownOf(tracker')[d] =
              [id |-> tracker'.commands[d].id, verdict |-> tracker'.commands[d].status]
      BY <1>4
    <2> HIDE DEF life
    <2> QED BY <1>4, <2>1, <2>3, <2>4, <2>5, <2>6, <2>7
            DEF ShownStep, HasCommand, Lifecycle!VerdictStep, life
  <1> QED BY <1>5, <1>6, <1>7, <1>8 DEF Lifecycle!Judge

\* What issuing a command leaves: the predecessor superseded, the command and
\* its execution new, and of the traces those that are kept.
LEMMA PendingEffect ==
    ASSUME NEW st, NEW key \in ScopedDevices, NEW expected, NEW ttl, NEW time \in Nat \ {0},
           Consistent(st, time)
    PROVE  LET id == st.seq + 1
               new == MarkDeviceCommandPending(st, key, expected, ttl, time)
           IN  /\ new.seq = id
               /\ new.commands = Put(st.commands, key, NewCommand(id, expected, time, ttl))
               /\ DOMAIN new.traces \subseteq DOMAIN st.traces \cup {id}
               /\ id \in DOMAIN new.traces => ExecutionState(new.traces[id]) = "open"
               /\ \A i \in DOMAIN new.traces \ {id} :
                     ExecutionState(new.traces[i]) =
                         IF key \in DOMAIN ActiveOf(st) /\ st.latest[key] = i
                         THEN "superseded" ELSE ExecutionState(st.traces[i])
               /\ DOMAIN new.latest = {k \in DOMAIN st.latest \cup {key} :
                                         Put(st.latest, key, id)[k] \in DOMAIN new.traces}
               /\ \A k \in DOMAIN new.latest : new.latest[k] = Put(st.latest, key, id)[k]
  <1> DEFINE id == st.seq + 1
             prior == Supersede(st, key, time)
             last == st.latest[key]
             s == Complete(st.traces[last], "superseded", time, "superseded")
             ts == Put(prior.traces, id, NewTrace(key, expected, time, ttl))
             ls == Put(prior.latest, key, id)
             new == MarkDeviceCommandPending(st, key, expected, ttl, time)
  <1>1. key \in DOMAIN ActiveOf(st) <=> key \in DOMAIN st.latest /\ IsRunning(st, last)
    BY DEF ActiveOf, Keep
  <1>2. /\ prior.commands = st.commands /\ prior.latest = st.latest
        /\ DOMAIN prior.traces = DOMAIN st.traces
        /\ \A i \in DOMAIN st.traces :
              ExecutionState(prior.traces[i]) =
                  IF key \in DOMAIN ActiveOf(st) /\ last = i
                  THEN "superseded" ELSE ExecutionState(st.traces[i])
    <2>1. CASE key \in DOMAIN st.latest /\ IsRunning(st, last)
      <3>1. last \in DOMAIN st.traces /\ st.traces[last] \in Traces
        BY <2>1 DEF IsRunning, HasTrace, Consistent, TrackerType
      <3>2. s \in Traces /\ ExecutionState(s) = "superseded"
        BY <3>1 DEF Complete, Staged, Traces, Completions, Stages, ExecutionState
      <3>3. prior = SetTrace(st, last, s)
        BY <2>1 DEF Supersede
      <3> HIDE DEF s, last, prior
      <3>4. /\ prior.commands = st.commands /\ prior.latest = st.latest
            /\ DOMAIN prior.traces = DOMAIN st.traces
            /\ prior.traces[last] = s
            /\ \A i \in DOMAIN st.traces \ {last} : prior.traces[i] = st.traces[i]
        BY <3>1, <3>2, <3>3, SetTraceTyped DEF Consistent
      <3> QED BY <1>1, <2>1, <3>2, <3>4
    <2>2. CASE ~(key \in DOMAIN st.latest /\ IsRunning(st, last))
      <3>1. prior = st
        BY <2>2 DEF Supersede
      <3> HIDE DEF prior, last
      <3> QED BY <1>1, <2>2, <3>1
    <2> QED BY <2>1, <2>2
  <1>3. /\ new.seq = id
        /\ new.commands = Put(prior.commands, key, NewCommand(id, expected, time, ttl))
        /\ new.traces = Keep(ts, Retained(ts))
        /\ new.latest = Keep(ls, {k \in DOMAIN ls : ls[k] \in Retained(ts)})
    BY DEF MarkDeviceCommandPending, TrimTraces
  <1>4. id \notin DOMAIN st.traces
    BY DEF Consistent, TrackerType
  <1>5. ExecutionState(NewTrace(key, expected, time, ttl)) = "open"
    BY DEF ExecutionState, NewTrace
  <1>6. Retained(ts) \subseteq DOMAIN ts
    BY DEF Retained
  <1> HIDE DEF new, prior, last, id
  <1>7. /\ DOMAIN ts = DOMAIN st.traces \cup {id}
        /\ ts[id] = NewTrace(key, expected, time, ttl)
        /\ \A i \in DOMAIN st.traces : ts[i] = prior.traces[i]
        /\ ls = Put(st.latest, key, id) /\ DOMAIN ls = DOMAIN st.latest \cup {key}
    BY <1>2, <1>4 DEF Put
  <1> HIDE DEF ts, ls
  <1>8. /\ DOMAIN new.traces = Retained(ts)
        /\ \A i \in DOMAIN new.traces : new.traces[i] = ts[i]
        /\ DOMAIN new.latest = {k \in DOMAIN ls : ls[k] \in DOMAIN new.traces}
        /\ \A k \in DOMAIN new.latest : new.latest[k] = ls[k]
    BY <1>3, <1>6 DEF Keep
  <1>9. \A i \in DOMAIN new.traces \ {id} : i \in DOMAIN st.traces /\ new.traces[i] = prior.traces[i]
    BY <1>6, <1>7, <1>8
  <1>10. id \in DOMAIN new.traces => ExecutionState(new.traces[id]) = "open"
    BY <1>5, <1>7, <1>8
  <1> QED BY <1>2, <1>3, <1>6, <1>7, <1>8, <1>9, <1>10 DEF id, last, new

\* Issuing a command is the Issue step of the lifecycle.
LEMMA PendingIsIssue ==
    ASSUME NEW key \in ScopedDevices, NEW expected \in Values, NEW ttl \in Nat,
           NEW time \in Nat \ {0}, Consistent(tracker, time), TrackerType(tracker)',
           tracker.seq < MaxCommands,
           tracker' = MarkDeviceCommandPending(tracker, key, expected, ttl, time)
    PROVE  \E id \in CommandIds : Lifecycle!Issue(key, id)
  <1> DEFINE id == tracker.seq + 1
             life == [i \in CommandIds |-> LifeOf(tracker, i)]
             next == [other \in CommandIds |->
                        IF other = id THEN "open"
                        ELSE IF key \in DOMAIN ActiveOf(tracker) /\ ActiveOf(tracker)[key] = other
                             THEN "superseded" ELSE life[other]]
             gone == {i \in CommandIds : i <= id /\ ~HasTrace(tracker', i)}
  <1>1. TrackerType(tracker)
    BY DEF Consistent
  <1>2. id \in CommandIds /\ tracker.seq \in Nat /\ CommandIds \subseteq Nat
    BY <1>1, TrackerAssumption DEF TrackerType, CommandIds
  <1>3. /\ tracker'.seq = id
        /\ tracker'.commands = Put(tracker.commands, key, NewCommand(id, expected, time, ttl))
        /\ DOMAIN tracker'.traces \subseteq DOMAIN tracker.traces \cup {id}
        /\ id \in DOMAIN tracker'.traces => ExecutionState(tracker'.traces[id]) = "open"
        /\ \A i \in DOMAIN tracker'.traces \ {id} :
              ExecutionState(tracker'.traces[i]) =
                  IF key \in DOMAIN ActiveOf(tracker) /\ tracker.latest[key] = i
                  THEN "superseded" ELSE ExecutionState(tracker.traces[i])
        /\ DOMAIN tracker'.latest = {k \in DOMAIN tracker.latest \cup {key} :
                                       Put(tracker.latest, key, id)[k] \in DOMAIN tracker'.traces}
        /\ \A k \in DOMAIN tracker'.latest : tracker'.latest[k] = Put(tracker.latest, key, id)[k]
    BY PendingEffect
  <1>4. /\ DOMAIN ActiveOf(tracker) =
              {k \in DOMAIN tracker.latest : IsRunning(tracker, tracker.latest[k])}
        /\ \A k \in DOMAIN ActiveOf(tracker) : ActiveOf(tracker)[k] = tracker.latest[k]
    BY DEF ActiveOf, Keep
  <1>5. /\ DOMAIN tracker.traces \subseteq 1..tracker.seq
        /\ \A i \in DOMAIN tracker.traces : tracker.traces[i] \in Traces
        /\ \A k \in DOMAIN tracker.latest : tracker.latest[k] \in DOMAIN tracker.traces
    BY <1>1 DEF TrackerType
  <1> HIDE DEF id
  <1>6. \A i \in CommandIds : HasTrace(tracker, i) => i <= tracker.seq /\ i # id
    BY <1>2, <1>5 DEF HasTrace, id
  <1>7. life[id] = "unissued"
    BY <1>2, <1>6 DEF LifeOf, id
  <1>8. ASSUME NEW i \in CommandIds
        PROVE  LifeOf(tracker', i) = IF i \in gone THEN "forgotten" ELSE next[i]
    <2>1. CASE HasTrace(tracker', i) /\ i = id
      BY <1>3, <2>1 DEF LifeOf, HasTrace
    <2>2. CASE HasTrace(tracker', i) /\ i # id
      <3>1. HasTrace(tracker, i)
        BY <1>3, <2>2 DEF HasTrace
      <3> QED BY <1>3, <1>4, <2>2, <3>1 DEF LifeOf, HasTrace
    <2>3. CASE ~HasTrace(tracker', i) /\ i <= id
      BY <1>3, <2>3 DEF LifeOf
    <2>4. CASE ~HasTrace(tracker', i) /\ ~(i <= id)
      <3>1. ~(i <= tracker.seq) /\ i # id
        BY <1>2, <2>4 DEF id
      <3>2. ~HasTrace(tracker, i)
        BY <1>6, <3>1
      <3>3. ~(key \in DOMAIN ActiveOf(tracker) /\ ActiveOf(tracker)[key] = i)
        BY <1>4, <3>2 DEF IsRunning
      <3> QED BY <1>3, <2>4, <3>1, <3>2, <3>3 DEF LifeOf
    <2> QED BY <2>1, <2>2, <2>3, <2>4
  <1>9. gone \in SUBSET {other \in CommandIds : next[other] # "unissued"}
    <2> SUFFICES ASSUME NEW i \in gone, i # id PROVE life[i] # "unissued"
      BY <1>2
    <2>1. i <= tracker.seq
      BY <1>2 DEF id
    <2> QED BY <1>5, <2>1, ActiveIsRunning DEF LifeOf, HasTrace
  <1>10. life' = [other \in CommandIds |-> IF other \in gone THEN "forgotten" ELSE next[other]]
    <2> HIDE DEF gone, next
    <2> QED BY <1>8
  <1>11. ShownOf(tracker') = Lifecycle!With(ShownOf(tracker), key, [id |-> id, verdict |-> "pending"])
    <2>1. /\ NewCommand(id, expected, time, ttl).id = id
          /\ NewCommand(id, expected, time, ttl).status = "pending"
      BY DEF NewCommand
    <2> QED BY <1>3, <2>1 DEF ShownOf, Lifecycle!With, Put
  <1>12. ActiveOf(tracker') = Lifecycle!StillActive(Lifecycle!With(ActiveOf(tracker), key, id))
    <2> DEFINE map == Lifecycle!With(ActiveOf(tracker), key, id)
    <2>1. /\ DOMAIN map = DOMAIN ActiveOf(tracker) \cup {key}
          /\ map[key] = id
          /\ \A k \in DOMAIN ActiveOf(tracker) \ {key} : map[k] = tracker.latest[k]
      BY <1>4 DEF Lifecycle!With
    <2>2. \A d \in DOMAIN map : map[d] \in CommandIds
      <3>1. 1..tracker.seq \subseteq CommandIds
        BY <1>2, TrackerAssumption DEF CommandIds, id
      <3> QED BY <1>2, <1>4, <1>5, <2>1, <3>1
    <2> HIDE DEF map
    <2>3. ASSUME NEW i, i # id, IsRunning(tracker', i) PROVE IsRunning(tracker, i)
      <3>1. /\ HasTrace(tracker, i) /\ tracker.traces[i] \in Traces
            /\ i \in DOMAIN tracker'.traces \ {id} /\ tracker'.traces[i] \in Traces
        BY <1>3, <1>5, <2>3 DEF IsRunning, HasTrace, TrackerType
      <3>2. ExecutionState(tracker'.traces[i]) \in Lifecycle!Active
        BY <2>3, <3>1, ActiveIsRunning DEF IsRunning
      <3>3. ExecutionState(tracker.traces[i]) \in Lifecycle!Active
        BY <1>3, <3>1, <3>2 DEF Lifecycle!Active
      <3> QED BY <3>1, <3>3, ActiveIsRunning DEF IsRunning
    <2>4. /\ DOMAIN ActiveOf(tracker') =
                {k \in DOMAIN tracker'.latest : IsRunning(tracker', tracker'.latest[k])}
      BY DEF ActiveOf, Keep
    <2>5. /\ Put(tracker.latest, key, id)[key] = id
          /\ \A k \in DOMAIN tracker.latest \ {key} :
                Put(tracker.latest, key, id)[k] = tracker.latest[k]
      BY DEF Put
    <2>6. \A k \in DOMAIN tracker.latest : tracker.latest[k] # id
      BY <1>2, <1>5, <1>6 DEF HasTrace, id
    <2>7. ASSUME NEW d \in DOMAIN ActiveOf(tracker')
          PROVE  d \in DOMAIN map /\ map[d] = tracker'.latest[d]
      <3>1. CASE d = key
        BY <1>3, <2>1, <2>4, <2>5, <3>1
      <3>2. CASE d # key
        <4>1. d \in DOMAIN tracker.latest /\ tracker'.latest[d] = tracker.latest[d]
          BY <1>3, <2>4, <2>5, <3>2
        <4>2. IsRunning(tracker, tracker.latest[d])
          BY <2>3, <2>4, <2>6, <4>1
        <4> QED BY <1>4, <2>1, <3>2, <4>1, <4>2
      <3> QED BY <3>1, <3>2
    <2>8. ASSUME NEW d \in DOMAIN map, IsRunning(tracker', map[d])
          PROVE  d \in DOMAIN tracker'.latest /\ tracker'.latest[d] = map[d]
      BY <1>3, <1>4, <2>1, <2>5, <2>8 DEF IsRunning, HasTrace
    <2>9. /\ DOMAIN ActiveOf(tracker') \subseteq DOMAIN map
          /\ \A d \in DOMAIN ActiveOf(tracker') : map[d] = tracker'.latest[d]
          /\ \A d \in DOMAIN map : IsRunning(tracker', map[d]) =>
                d \in DOMAIN tracker'.latest /\ tracker'.latest[d] = map[d]
      BY <2>7, <2>8
    <2>10. ActiveOf(tracker') =
              [d \in {d \in DOMAIN map : LifeOf(tracker', map[d]) \in Lifecycle!Active} |-> map[d]]
      <3> DEFINE new == tracker'
      <3>1. TrackerType(new)
        OBVIOUS
      <3>2. /\ DOMAIN ActiveOf(new) \subseteq DOMAIN map
            /\ \A d \in DOMAIN ActiveOf(new) : map[d] = new.latest[d]
            /\ \A d \in DOMAIN map : IsRunning(new, map[d]) =>
                  d \in DOMAIN new.latest /\ new.latest[d] = map[d]
        BY <2>9
      <3> HIDE DEF new
      <3>3. ActiveOf(new) =
                [d \in {d \in DOMAIN map : LifeOf(new, map[d]) \in Lifecycle!Active} |-> map[d]]
        BY <2>2, <3>1, <3>2, StillActiveAre
      <3> QED BY <3>3 DEF new
    <2>11. Lifecycle!StillActive(map) =
              [d \in {d \in DOMAIN map : LifeOf(tracker', map[d]) \in Lifecycle!Active} |-> map[d]]
      BY <2>2 DEF Lifecycle!StillActive
    <2> QED BY <2>10, <2>11 DEF map
  <1> HIDE DEF gone
  <1>13. Lifecycle!Issue(key, id)
    BY <1>7, <1>9, <1>10, <1>11, <1>12 DEF Lifecycle!Issue
  <1> QED BY <1>2, <1>13

-----------------------------------------------------------------------------
(* The tracker at its start *)

\* The empty tracker is consistent and has issued nothing.
LEMMA EmptyIsConsistent ==
    ASSUME NEW st, st = EmptyTracker, NEW time
    PROVE  Consistent(st, time) /\ DOMAIN st.traces = {}
  <1>1. DOMAIN << >> = {}
    BY SMT
  <1>2. /\ st.commands = << >> /\ st.traces = << >> /\ st.latest = << >> /\ st.seq = 0
        /\ st = [commands |-> st.commands, traces |-> st.traces,
                 latest |-> st.latest, seq |-> st.seq]
    BY DEF EmptyTracker
  <1>3. TrackerType(st)
    BY <1>1, <1>2, TrackerAssumption DEF TrackerType
  <1> QED BY <1>1, <1>2, <1>3
          DEF Consistent, SingleExecution, VerdictsAgree, SameDeadline, LatestIsOwn

\* Nothing is issued at the start.
LEMMA EmptyIsInit == tracker = EmptyTracker => Lifecycle!Init
  <1> SUFFICES ASSUME tracker = EmptyTracker PROVE Lifecycle!Init
    OBVIOUS
  <1>1. DOMAIN << >> = {}
    BY SMT
  <1>2. /\ tracker.commands = << >> /\ tracker.traces = << >> /\ tracker.latest = << >>
        /\ tracker.seq = 0
    BY DEF EmptyTracker
  <1>3. [id \in CommandIds |-> LifeOf(tracker, id)] = [id \in CommandIds |-> "unissued"]
    <2>1. \A id \in CommandIds : LifeOf(tracker, id) = "unissued"
      BY <1>1, <1>2, TrackerAssumption DEF LifeOf, HasTrace, CommandIds
    <2> QED BY <2>1
  <1>4. << >> = [d \in {} |-> d]
    BY SMT
  <1>5. ActiveOf(tracker) = << >>
    BY <1>1, <1>2, <1>4 DEF ActiveOf, Keep
  <1>6. ShownOf(tracker) = << >>
    BY <1>1, <1>2, <1>4 DEF ShownOf
  <1> QED BY <1>3, <1>5, <1>6 DEF Lifecycle!Init
=============================================================================
