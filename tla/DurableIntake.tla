--------------------------- MODULE DurableIntake ---------------------------
(***************************************************************************)
(* What the electrical intake promises to the publishers of readings       *)
(* (docs/electrical-telemetry.md, "Durable delivery and its limits"):      *)
(* what was acknowledged is kept, what is kept stays kept, and history is  *)
(* written once for each measurement point.                                *)
(***************************************************************************)
EXTENDS Sequences, Functions

CONSTANTS
    Messages,     \* QoS 1 publications
    Readings,     \* canonical readings
    BatchOf,      \* the readings of each publication
    PointOf       \* the natural key of each reading: stream and observation time

VARIABLES
    acknowledged, \* publications that the broker may forget
    kept,         \* readings that are safe: buffered, quarantined or in history
    history       \* the reading stored for each measurement point

vars == <<acknowledged, kept, history>>

Init ==
    /\ acknowledged = {}
    /\ kept \subseteq Readings
    /\ history = << >>

Keep(m) ==
    /\ kept' = kept \cup Range(BatchOf[m])
    /\ UNCHANGED <<acknowledged, history>>

\* A publication is acknowledged only when all of its readings are kept.
Acknowledge(m) ==
    /\ Range(BatchOf[m]) \subseteq kept
    /\ acknowledged' = acknowledged \cup {m}
    /\ UNCHANGED <<kept, history>>

\* History takes a kept reading for a point that has none.
Record(r) ==
    /\ r \in kept
    /\ PointOf[r] \notin DOMAIN history
    /\ history' = [p \in DOMAIN history \cup {PointOf[r]} |->
                      IF p = PointOf[r] THEN r ELSE history[p]]
    /\ UNCHANGED <<acknowledged, kept>>

Next ==
    \/ \E m \in Messages : Keep(m) \/ Acknowledge(m)
    \/ \E r \in Readings : Record(r)

Spec == Init /\ [][Next]_vars
=============================================================================
