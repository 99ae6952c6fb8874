----------------------- MODULE CommandTrackerLifecycle -----------------------
(***************************************************************************)
(* A tracker state read as a state of the abstract command lifecycle, for  *)
(* every module that has the tracker among its variables.                  *)
(***************************************************************************)
EXTENDS CommandTrackerState

VARIABLE tracker   \* the tracker's maps

ExecutionState(t) ==
    IF t.outcome # "running" THEN t.outcome
    ELSE IF t.settlingUntil = 0 THEN "open" ELSE "verified"

LifeOf(st, id) ==
    IF HasTrace(st, id) THEN ExecutionState(st.traces[id])
    ELSE IF id <= st.seq THEN "forgotten" ELSE "unissued"

ActiveOf(st) == Keep(st.latest, {k \in DOMAIN st.latest : IsRunning(st, st.latest[k])})

ShownOf(st) ==
    [k \in DOMAIN st.commands |-> [id |-> st.commands[k].id, verdict |-> st.commands[k].status]]

Lifecycle == INSTANCE CommandLifecycle WITH
    Devices <- ScopedDevices,
    Ids <- CommandIds,
    life <- [id \in CommandIds |-> LifeOf(tracker, id)],
    active <- ActiveOf(tracker),
    shown <- ShownOf(tracker)

\* Every call on the tracker, or several calls in one step, is a step of the
\* lifecycle: verdict and execution of a command are judged together, once, and
\* at most one command of a device is active, however expiry, eviction and
\* callbacks interleave.
ImplementsLifecycle == Lifecycle!Spec
=============================================================================
