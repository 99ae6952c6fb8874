------------------------- MODULE MCTelemetryRollup -------------------------
(* Instances of TelemetryRollup for TLC. *)
EXTENDS TelemetryRollup, TLC

CONSTANTS w1, w2, k1, k2

\* Around the boundary of two hours: five minutes before it, between, the boundary
\* itself, between, and five minutes after it.
TimeSet == {55, 58, 60, 62, 65}
WriterSet == {w1, w2}
WorkerSet == {k1, k2}
=============================================================================
