----------------------------- MODULE MCVoiceTurn -----------------------------
(* Instance of VoiceTurn for TLC. *)
EXTENDS VoiceTurn, TLC

CONSTANT first

OneSocket == {first}
=============================================================================
