-------------------------- MODULE MCCommandTracker --------------------------
(* Instances of CommandTracker for TLC. *)
EXTENDS CommandTracker, TLC

CONSTANTS home, lab, plug, lamp, on, off

OneDevicePerSite == {home, lab}
OneSite == {home}
OneDevice == {plug}
TwoDevices == {plug, lamp}
OnOff == {on, off}
FreshOrOld == {0, 1}
=============================================================================
