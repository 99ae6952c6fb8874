------------------------- MODULE MCTelemetryIngest -------------------------
(* Instances of TelemetryIngest for TLC. *)
EXTENDS TelemetryIngest, TLC

CONSTANTS batch, correction, ignored

\* 1 and 2 are two values reported for one measurement point; 4 is a buffered
\* reading of an older version.
ReadingSet == 1..4
Points == [r \in ReadingSet |-> IF r = 2 THEN 1 ELSE r]
Old == {4}
OldEntries == <<4>>
Publications == {batch, correction, ignored}
Batches == (batch :> <<1, 3>>) @@ (correction :> <<2>>) @@ (ignored :> << >>)
=============================================================================
