--------------------------- MODULE MCDeviceControl ---------------------------
(* Instances of DeviceControl for TLC. *)
EXTENDS DeviceControl, TLC

CONSTANTS home, plug, lamp, first, second, on, off

OneSite == {home}
OneDevice == {plug}
TwoDevices == {plug, lamp}
OneRequest == {first}
TwoRequests == {first, second}
OnOff == {on, off}

NoDevice == {}
NoRoute == {}
EveryDirect == MqttRoutes \cup {"local-http"}
OnlyLamp == {lamp}
SiteLocalOrHttp == {"site-local", "local-http"}
LabRoute == {"virtual-lab"}
EveryRoute == SiteLocalOrHttp \cup LabRoute

\* The order of the source's limits: mosquitto_pub 2.5 s < ack timeout 5 s <
\* three curl calls 15 s; ssh 18 s < docker 22 s < observer route TTL 25 s.
Limits == [r \in Routes |-> IF r = "local-http" THEN 2 ELSE 1]

Symmetry == Permutations(Requests) \cup Permutations(OnOff)
=============================================================================
