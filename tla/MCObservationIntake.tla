------------------------ MODULE MCObservationIntake ------------------------
(* Instances of ObservationIntake for TLC. *)
EXTENDS ObservationIntake, TLC

CONSTANTS power, energy

\* What a poll reads: of a meter a sample of its own, of a sensor the second
\* publication, before or after it is published.
PolledSamples == [shelly |-> {11}, esp |-> {2}]
NoPolls == [shelly |-> {}]
BothFields == {power, energy}
\* The second publication carries both measurements, the others only the power.
SampleFields == [s \in Samples |-> IF s = 2 THEN BothFields ELSE {power}]
=============================================================================
