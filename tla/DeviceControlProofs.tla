------------------------ MODULE DeviceControlProofs ------------------------
(***************************************************************************)
(* What concurrent requests of execute guarantee, for any number of        *)
(* requests, sites, devices and commands, every route and any limits.      *)
(*                                                                         *)
(* 1. The lock of running Shelly commands.  It does not depend on the      *)
(*    tracker, the relays or the clock: a step leaves each request running *)
(*    or not as it was (Keeps), takes the free lock of a device, or ends a *)
(*    running request in its finally block.                                *)
(* 2. The requests and their commands.  The calls that a request makes on  *)
(*    the tracker between two awaits judge commands and fail no other than *)
(*    its own (Handles); from this follow the types, what callers are told *)
(*    and the refinement of the command lifecycle.                         *)
(* 3. Failed requests.  A request that returns failed has failed its       *)
(*    command in the same step, which closes it while its trace is kept.   *)
(***************************************************************************)
EXTENDS DeviceControl, CommandTrackerStateProofs

\* What the proof needs to know of the type of a request.
Shape ==
    /\ calls = [c \in Requests |-> calls[c]]
    /\ \A c \in Requests : {"pc", "device"} \subseteq DOMAIN calls[c]

LockInv == Shape /\ LockIsHeldByOneRequest

\* Every request runs, or does not, as before, and for the same device.
Keeps ==
    /\ UNCHANGED activeShellyCommands
    /\ \A c \in Requests :
          /\ RunsShelly(c)' <=> RunsShelly(c)
          /\ RunsShelly(c) => calls'[c].device = calls[c].device

-----------------------------------------------------------------------------
(* One request changes *)

\* Becomes replaces one request.
LEMMA BecomesOne ==
    ASSUME Shape, NEW c \in Requests, NEW call, {"pc", "device"} \subseteq DOMAIN call,
           Becomes(c, call)
    PROVE  /\ Shape' /\ calls'[c] = call
           /\ \A b \in Requests : b # c => calls'[b] = calls[b]
BY DEF Shape, Becomes

\* A request that runs on, or waits on, keeps its device.
LEMMA RunsOn ==
    ASSUME Shape, NEW c \in Requests, NEW call, {"pc", "device"} \subseteq DOMAIN call,
           Becomes(c, call), UNCHANGED activeShellyCommands,
           call.pc \in Pending /\ call.device \notin Unlocked <=> RunsShelly(c),
           RunsShelly(c) => call.device = calls[c].device
    PROVE  Shape' /\ Keeps
<1>1. /\ Shape' /\ calls'[c] = call
      /\ \A b \in Requests : b # c => calls'[b] = calls[b]
  BY BecomesOne
<1>2. ASSUME NEW b \in Requests
      PROVE  /\ RunsShelly(b)' <=> RunsShelly(b)
             /\ RunsShelly(b) => calls'[b].device = calls[b].device
  <2>1. CASE b = c
    BY <1>1, <2>1 DEF RunsShelly, OnShelly
  <2>2. CASE b # c
    BY <1>1, <2>2 DEF RunsShelly, OnShelly
  <2> QED
    BY <2>1, <2>2
<1> QED
  BY <1>1, <1>2 DEF Keeps

\* Without a change of the requests everything is kept.
LEMMA NothingRuns ==
    ASSUME Shape, UNCHANGED <<calls, activeShellyCommands>>
    PROVE  Shape' /\ Keeps
BY DEF Shape, Keeps, RunsShelly, OnShelly

\* What is kept keeps the lock.
LEMMA KeepsLock ==
    ASSUME LockIsHeldByOneRequest, Keeps
    PROVE  LockIsHeldByOneRequest'
<1>1. {r \in Requests : RunsShelly(r)'} = {r \in Requests : RunsShelly(r)}
  BY DEF Keeps
<1>2. {calls'[c].device : c \in {r \in Requests : RunsShelly(r)}}
        = {calls[c].device : c \in {r \in Requests : RunsShelly(r)}}
  BY DEF Keeps
<1>3. activeShellyCommands' = {calls'[c].device : c \in {r \in Requests : RunsShelly(r)'}}
  BY <1>1, <1>2 DEF Keeps, LockIsHeldByOneRequest
<1>4. \A b, c \in Requests :
          RunsShelly(b)' /\ RunsShelly(c)' /\ calls'[b].device = calls'[c].device => b = c
  BY DEF Keeps, LockIsHeldByOneRequest
<1> QED
  BY <1>3, <1>4 DEF LockIsHeldByOneRequest

\* The finally block frees the lock of its own request and of no other.
LEMMA ReturnFrees ==
    ASSUME LockInv, NEW c \in Requests, NEW result, NEW known, calls[c].pc \in Pending,
           Return(c, result, known)
    PROVE  LockInv'
<1> DEFINE call == [calls[c] EXCEPT !.pc = "returned", !.result = result, !.known = known,
                                  !.since = 0, !.readAt = 0]
<1>1. {"pc", "device"} \subseteq DOMAIN call /\ call.pc = "returned"
      /\ call.device = calls[c].device
  BY DEF LockInv, Shape
<1>2. Becomes(c, call)
  BY DEF Return
<1> HIDE DEF call
<1>3. /\ Shape' /\ calls'[c] = call
      /\ \A b \in Requests : b # c => calls'[b] = calls[b]
  BY <1>1, <1>2, BecomesOne DEF LockInv
<1>4. ~RunsShelly(c)'
  BY <1>1, <1>3 DEF RunsShelly, Pending
<1>5. \A b \in Requests : b # c => /\ RunsShelly(b)' <=> RunsShelly(b)
                                   /\ calls'[b].device = calls[b].device
  BY <1>3 DEF RunsShelly, OnShelly
<1>6. RunsShelly(c) <=> OnShelly(c)
  BY DEF RunsShelly
<1>7. activeShellyCommands' = {calls'[b].device : b \in {r \in Requests : RunsShelly(r)'}}
  <2>1. CASE ~OnShelly(c)
    <3>1. activeShellyCommands' = activeShellyCommands
      BY <2>1 DEF Return
    <3> QED
      BY <3>1, <2>1, <1>4, <1>5, <1>6 DEF LockInv, LockIsHeldByOneRequest
  <2>2. CASE OnShelly(c)
    <3>1. activeShellyCommands' = activeShellyCommands \ {calls[c].device}
      BY <2>2 DEF Return
    <3>2. \A b \in Requests : b # c /\ RunsShelly(b) => calls[b].device # calls[c].device
      BY <2>2, <1>6 DEF LockInv, LockIsHeldByOneRequest
    <3> QED
      BY <3>1, <3>2, <1>4, <1>5, <1>6 DEF LockInv, LockIsHeldByOneRequest
  <2> QED
    BY <2>1, <2>2
<1>8. \A a, b \in Requests :
          RunsShelly(a)' /\ RunsShelly(b)' /\ calls'[a].device = calls'[b].device => a = b
  BY <1>4, <1>5 DEF LockInv, LockIsHeldByOneRequest
<1> QED
  BY <1>3, <1>7, <1>8 DEF LockInv, LockIsHeldByOneRequest

\* The lock is taken only when no request of the device runs.
LEMMA LockTakes ==
    ASSUME LockInv, NEW c \in Requests, LockShelly(c)
    PROVE  LockInv'
<1> DEFINE call == [calls[c] EXCEPT !.pc = "resolving"]
<1>1. {"pc", "device"} \subseteq DOMAIN call /\ call.pc = "resolving"
      /\ call.device = calls[c].device
  BY DEF LockInv, Shape
<1>2. Becomes(c, call) /\ OnShelly(c) /\ calls[c].pc = "enrolling"
  BY DEF LockShelly, Waits
<1> HIDE DEF call
<1>3. /\ Shape' /\ calls'[c] = call
      /\ \A b \in Requests : b # c => calls'[b] = calls[b]
  BY <1>1, <1>2, BecomesOne DEF LockInv
<1>4. RunsShelly(c)' /\ ~RunsShelly(c) /\ calls'[c].device = calls[c].device
  BY <1>1, <1>2, <1>3 DEF RunsShelly, OnShelly, Pending
<1>5. \A b \in Requests : b # c => /\ RunsShelly(b)' <=> RunsShelly(b)
                                   /\ calls'[b].device = calls[b].device
  BY <1>3 DEF RunsShelly, OnShelly
<1>6. /\ activeShellyCommands' = activeShellyCommands \cup {calls[c].device}
      /\ calls[c].device \notin activeShellyCommands
  BY DEF LockShelly, LockIsFree
<1>7. activeShellyCommands' = {calls'[b].device : b \in {r \in Requests : RunsShelly(r)'}}
  BY <1>4, <1>5, <1>6 DEF LockInv, LockIsHeldByOneRequest
<1>8. \A b \in Requests : b # c /\ RunsShelly(b)' => calls'[b].device # calls'[c].device
  BY <1>4, <1>5, <1>6 DEF LockInv, LockIsHeldByOneRequest
<1>9. \A a, b \in Requests :
          RunsShelly(a)' /\ RunsShelly(b)' /\ calls'[a].device = calls'[b].device => a = b
  BY <1>4, <1>5, <1>8 DEF LockInv, LockIsHeldByOneRequest
<1> QED
  BY <1>3, <1>7, <1>9 DEF LockInv, LockIsHeldByOneRequest

-----------------------------------------------------------------------------
(* The steps *)

\* A request for a device outside the lock goes on without it.
LEMMA UnlockedGoesOn ==
    ASSUME LockInv, NEW c \in Requests, NEW call, {"pc", "device"} \subseteq DOMAIN call,
           Becomes(c, call), UNCHANGED activeShellyCommands,
           call.device = calls[c].device, ~OnShelly(c)
    PROVE  LockInv'
<1>1. ~RunsShelly(c) /\ call.device \in Unlocked
  BY DEF RunsShelly, OnShelly
<1> QED
  BY <1>1, RunsOn, KeepsLock DEF LockInv

\* Before the transport.
LEMMA EnterStep ==
    ASSUME LockInv, NEW c \in Requests, Enter(c)
    PROVE  LockInv'
<1> USE DEF LockInv
<1>1. CASE EnrollmentRefused(c) \/ ShellyAlreadyRunning(c)
  <2> DEFINE call == [calls[c] EXCEPT !.pc = "returned", !.result = "refused"]
  <2>1. /\ {"pc", "device"} \subseteq DOMAIN call /\ call.pc = "returned"
        /\ call.device = calls[c].device
    BY DEF Shape
  <2>2. Becomes(c, call) /\ UNCHANGED activeShellyCommands /\ calls[c].pc = "enrolling"
    BY <1>1 DEF EnrollmentRefused, ShellyAlreadyRunning
  <2> HIDE DEF call
  <2>3. ~RunsShelly(c) /\ call.pc \notin Pending
    BY <2>1, <2>2 DEF RunsShelly, Pending
  <2> QED
    BY <2>1, <2>2, <2>3, RunsOn, KeepsLock
<1>2. CASE LockShelly(c)
  BY <1>2, LockTakes
<1>3. CASE StartMqtt(c)
  <2>1. PICK route : Becomes(c, [Started(c, route, "publishing", "none") EXCEPT !.sent = TRUE])
    BY <1>3 DEF StartMqtt
  <2> DEFINE call == [Started(c, route, "publishing", "none") EXCEPT !.sent = TRUE]
  <2>2. {"pc", "device"} \subseteq DOMAIN call /\ call.device = calls[c].device
    BY DEF Shape, Started
  <2>3. Becomes(c, call) /\ UNCHANGED activeShellyCommands /\ ~OnShelly(c)
    BY <1>3, <2>1 DEF StartMqtt
  <2> QED
    BY <2>2, <2>3, UnlockedGoesOn
<1> QED
  BY <1>1, <1>2, <1>3 DEF Enter

\* A running request that goes on for the same device.
LEMMA GoesOn ==
    ASSUME LockInv, NEW c \in Requests, NEW call, {"pc", "device"} \subseteq DOMAIN call,
           Becomes(c, call), UNCHANGED activeShellyCommands,
           call.device = calls[c].device, call.pc \in Pending <=> calls[c].pc \in Pending
    PROVE  LockInv'
BY RunsOn, KeepsLock DEF LockInv, RunsShelly, OnShelly

\* The route, HTTP and MQTT.
LEMMA TransportStep ==
    ASSUME LockInv, NEW c \in Requests, Resolve(c) \/ Http(c) \/ Mqtt(c)
    PROVE  LockInv'
<1> USE DEF LockInv
<1>1. CASE \/ RouteRejected(c) \/ HttpFailed(c) \/ HttpRead(c) \/ StatusUnread(c)
           \/ MqttPublished(c) \/ MqttFailed(c)
  <2>1. calls[c].pc \in Pending
    BY <1>1
       DEF RouteRejected, HttpFailed, HttpRead, StatusUnread, MqttPublished, MqttFailed, Pending
  <2>2. \E result, known : Return(c, result, known)
    BY <1>1, Zenon
       DEF RouteRejected, HttpFailed, HttpRead, StatusUnread, MqttPublished, MqttFailed
  <2> QED
    BY <2>1, <2>2, ReturnFrees
<1>2. CASE StartHttp(c)
  <2> DEFINE call == Started(c, "local-http", "identifying", "none")
  <2>1. /\ {"pc", "device"} \subseteq DOMAIN call /\ call.device = calls[c].device
        /\ call.pc \in Pending
    BY DEF Shape, Started, Pending
  <2>2. /\ Becomes(c, call) /\ UNCHANGED activeShellyCommands
        /\ calls[c].pc \in Pending \/ ~OnShelly(c)
    BY <1>2 DEF StartHttp, Pending
  <2> QED
    BY <2>1, <2>2, GoesOn, UnlockedGoesOn
<1>3. CASE StartObserver(c)
  <2>1. PICK route : Becomes(c, Started(c, route, "remote", "checking"))
    BY <1>3 DEF StartObserver
  <2> DEFINE call == Started(c, route, "remote", "checking")
  <2>2. /\ {"pc", "device"} \subseteq DOMAIN call /\ call.device = calls[c].device
        /\ call.pc \in Pending
    BY DEF Shape, Started, Pending
  <2>3. UNCHANGED activeShellyCommands /\ calls[c].pc \in Pending
    BY <1>3 DEF StartObserver, Pending
  <2> QED
    BY <2>1, <2>2, <2>3, GoesOn
<1>4. CASE Identified(c)
  <2> DEFINE call == [calls[c] EXCEPT !.pc = "writing", !.sent = TRUE]
  <2>1. /\ {"pc", "device"} \subseteq DOMAIN call /\ call.device = calls[c].device
        /\ call.pc \in Pending
    BY DEF Shape, Pending
  <2>2. Becomes(c, call) /\ UNCHANGED activeShellyCommands /\ calls[c].pc \in Pending
    BY <1>4 DEF Identified, Pending
  <2> QED
    BY <2>1, <2>2, GoesOn
<1>5. CASE WriteAcknowledged(c)
  <2> DEFINE call == [calls[c] EXCEPT !.pc = "reading", !.known = TRUE]
  <2>1. /\ {"pc", "device"} \subseteq DOMAIN call /\ call.device = calls[c].device
        /\ call.pc \in Pending
    BY DEF Shape, Pending
  <2>2. Becomes(c, call) /\ UNCHANGED activeShellyCommands /\ calls[c].pc \in Pending
    BY <1>5 DEF WriteAcknowledged, Pending
  <2> QED
    BY <2>1, <2>2, GoesOn
<1>6. CASE StatusAnswered(c)
  <2> DEFINE call == [calls[c] EXCEPT !.readback = relay[calls[c].device]]
  <2>1. /\ {"pc", "device"} \subseteq DOMAIN call /\ call.device = calls[c].device
        /\ call.pc = calls[c].pc
    BY DEF Shape
  <2>2. Becomes(c, call) /\ UNCHANGED activeShellyCommands
    BY <1>6 DEF StatusAnswered
  <2> QED
    BY <2>1, <2>2, GoesOn
<1> QED
  BY <1>1, <1>2, <1>3, <1>4, <1>5, <1>6 DEF Resolve, Http, Mqtt

\* The answers of the observers end the request.
LEMMA ObserverStep ==
    ASSUME LockInv, NEW c \in Requests, SiteLocal(c) \/ VirtualLab(c)
    PROVE  LockInv'
<1>1. calls[c].pc \in Pending
  BY DEF SiteLocal, SiteLocalRefused, SiteLocalUnread, SiteLocalRead, SiteLocalBroken,
         VirtualLab, VirtualLabRead, VirtualLabUnread, VirtualLabBroken, Delivers, Pending
<1>2. \E result, known : Return(c, result, known)
  <2>1. CASE SiteLocalRefused(c) \/ SiteLocalUnread(c)
    BY <2>1, Zenon DEF SiteLocalRefused, SiteLocalUnread
  <2>2. CASE SiteLocalRead(c)
    BY <2>2, Zenon DEF SiteLocalRead
  <2>3. CASE SiteLocalBroken(c)
    BY <2>3, Zenon DEF SiteLocalBroken, SiteLocalUncertain
  <2>4. CASE VirtualLabRead(c) \/ VirtualLabUnread(c) \/ VirtualLabBroken(c)
    BY <2>4, Zenon DEF VirtualLabRead, VirtualLabUnread, VirtualLabBroken
  <2> QED
    BY <2>1, <2>2, <2>3, <2>4 DEF SiteLocal, VirtualLab
<1> QED
  BY <1>1, <1>2, ReturnFrees

\* The script on the observer and the write on its way do not touch the lock.
LEMMA ScriptStep ==
    ASSUME LockInv, NEW c \in Requests, Script(c) \/ WriteArrives(c) \/ WriteIsLost(c)
    PROVE  LockInv'
<1> USE DEF LockInv
<1>1. CASE ScriptRefuses(c) \/ ScriptGivesUp(c)
  <2> DEFINE call == [calls[c] EXCEPT !.script = "finished"]
  <2>1. /\ {"pc", "device"} \subseteq DOMAIN call /\ call.device = calls[c].device
        /\ call.pc = calls[c].pc
    BY DEF Shape
  <2>2. Becomes(c, call) /\ UNCHANGED activeShellyCommands
    BY <1>1 DEF ScriptRefuses, ScriptGivesUp
  <2> QED
    BY <2>1, <2>2, GoesOn
<1>2. CASE ScriptWrites(c)
  <2> DEFINE call == [calls[c] EXCEPT !.script = "writing", !.sent = TRUE]
  <2>1. /\ {"pc", "device"} \subseteq DOMAIN call /\ call.device = calls[c].device
        /\ call.pc = calls[c].pc
    BY DEF Shape
  <2>2. Becomes(c, call) /\ UNCHANGED activeShellyCommands
    BY <1>2 DEF ScriptWrites
  <2> QED
    BY <2>1, <2>2, GoesOn
<1>3. CASE ScriptReads(c)
  <2>1. PICK observedAt : Becomes(c, [calls[c] EXCEPT !.script = "finished", !.readAt = observedAt,
                                                      !.readback = relay[calls[c].device]])
    BY <1>3 DEF ScriptReads
  <2> DEFINE call == [calls[c] EXCEPT !.script = "finished", !.readAt = observedAt,
                                      !.readback = relay[calls[c].device]]
  <2>2. /\ {"pc", "device"} \subseteq DOMAIN call /\ call.device = calls[c].device
        /\ call.pc = calls[c].pc
    BY DEF Shape
  <2>3. Becomes(c, call) /\ UNCHANGED activeShellyCommands
    BY <1>3, <2>1 DEF ScriptReads
  <2> QED
    BY <2>2, <2>3, GoesOn
<1>4. CASE WriteArrives(c)
  <2> DEFINE call == [calls[c] EXCEPT !.applied = TRUE]
  <2>1. /\ {"pc", "device"} \subseteq DOMAIN call /\ call.device = calls[c].device
        /\ call.pc = calls[c].pc
    BY DEF Shape
  <2>2. Becomes(c, call) /\ UNCHANGED activeShellyCommands
    BY <1>4 DEF WriteArrives
  <2> QED
    BY <2>1, <2>2, GoesOn
<1>5. CASE WriteIsLost(c)
  BY <1>5, NothingRuns, KeepsLock DEF WriteIsLost
<1> QED
  BY <1>1, <1>2, <1>3, <1>4, <1>5 DEF Script

\* Every step preserves the lock.
LEMMA NextKeepsLock == LockInv /\ [Next]_vars => LockInv'
<1> SUFFICES ASSUME LockInv, [Next]_vars PROVE LockInv'
  OBVIOUS
<1>1. ASSUME NEW c \in Requests, NEW d \in DeviceIds, NEW on \in Values, Execute(c, d, on)
      PROVE  LockInv'
  <2> DEFINE call == [Idle EXCEPT !.pc = "enrolling", !.device = d, !.on = on]
  <2>1. {"pc", "device"} \subseteq DOMAIN call /\ call.pc = "enrolling"
    BY DEF Idle
  <2>2. Becomes(c, call) /\ UNCHANGED activeShellyCommands /\ calls[c].pc = "idle"
    BY <1>1 DEF Execute
  <2> HIDE DEF call
  <2>3. ~RunsShelly(c) /\ call.pc \notin Pending
    BY <2>1, <2>2 DEF RunsShelly, Pending
  <2> QED
    BY <2>1, <2>2, <2>3, RunsOn, KeepsLock DEF LockInv
<1>2. ASSUME NEW c \in Requests, Proceed(c) \/ Script(c) \/ WriteArrives(c) \/ WriteIsLost(c)
      PROVE  LockInv'
  BY <1>2, EnterStep, TransportStep, ObserverStep, ScriptStep DEF Proceed
<1>3. ASSUME UNCHANGED <<calls, activeShellyCommands>>
      PROVE  LockInv'
  BY <1>3, NothingRuns, KeepsLock DEF LockInv
<1>4. ASSUME NEW d \in DeviceIds, Pressed(d) \/ RelayReport(d) \/ PowerReport(d)
      PROVE  UNCHANGED <<calls, activeShellyCommands>>
  BY <1>4 DEF Pressed, RelayReport, PowerReport
<1>5. ReadDevices \/ Tick \/ UNCHANGED vars => UNCHANGED <<calls, activeShellyCommands>>
  BY DEF ReadDevices, Tick, vars
<1> QED
  BY <1>1, <1>2, <1>3, <1>4, <1>5 DEF Next

\* No interleaving of requests, answers, timeouts and late scripts leaks the lock of
\* a device, gives it to two requests or frees the lock of another request.
THEOREM LockIsExclusive == Spec => []LockIsHeldByOneRequest
<1>1. Init => LockInv
  BY DEF Init, LockInv, Shape, Idle, LockIsHeldByOneRequest, RunsShelly, Pending
<1>2. LockInv => LockIsHeldByOneRequest
  BY DEF LockInv
<1> QED
  BY <1>1, <1>2, NextKeepsLock, PTL DEF Spec

-----------------------------------------------------------------------------
(* What the calls of a request do to the tracker *)

\* findDevice after other calls of the same step.
LEMMA FindDeviceHandles ==
    ASSUME NEW st, NEW ids, now \in Nat \ {0}, Consistent(tracker, now), Consistent(st, now),
           Handles(tracker, st, ids, now)
    PROVE  Consistent(FindDevice(st), now) /\ Handles(tracker, FindDevice(st), ids, now)
BY RefreshCommandsIsConsistent, HandlesThenRefresh DEF FindDevice, Consistent

\* findDevice alone.
LEMMA FindDeviceOnly ==
    ASSUME now \in Nat \ {0}, Consistent(tracker, now)
    PROVE  Consistent(FindDevice(tracker), now) /\ Handles(tracker, FindDevice(tracker), {}, now)
BY SameHandles, FindDeviceHandles

\* The publication of a request's command.
LEMMA PublishHandles ==
    ASSUME NEW c \in Requests, Consistent(tracker, now)
    PROVE  /\ Consistent(Publish(c, tracker), now)
           /\ Quiet(tracker, Publish(c, tracker))
           /\ Handles(tracker, Publish(c, tracker), {}, now)
<1>1. Consistent(Publish(c, tracker), now) /\ Quiet(tracker, Publish(c, tracker))
  BY PublishedIsConsistent, PublishedIsQuiet DEF Publish, Consistent
<1> QED
  BY <1>1, SameHandles, HandlesAfterQuiet

\* A failure callback, with the findDevice that follows it, fails no other command.
LEMMA FailureHandles ==
    ASSUME NEW c \in Requests, now \in Nat \ {0}, Consistent(tracker, now),
           NEW new \in {TransportFailure(c), PreWriteFailure(c)}
    PROVE  Consistent(new, now) /\ Handles(tracker, new, {calls[c].command}, now)
<1>1. {"transport_failed", "pre_write_failed"} \subseteq Stages
  BY DEF Stages
<1>2. ASSUME NEW stage \in {"transport_failed", "pre_write_failed"}
      PROVE  LET st == Fail(tracker, calls[c].device, calls[c].command, stage, now) IN
             Consistent(st, now) /\ Handles(tracker, st, {calls[c].command}, now)
  BY <1>1, SameHandles, FailIsConsistent, HandlesThenFail
<1>3. PICK stage \in {"transport_failed", "pre_write_failed"} :
         new = FindDevice(Fail(tracker, calls[c].device, calls[c].command, stage, now))
  BY DEF TransportFailure, PreWriteFailure, MarkDeviceCommandTransportFailed,
         MarkDeviceCommandFailed
<1> QED
  BY <1>2, <1>3, FindDeviceHandles

\* A report through ingestDeviceTelemetry, whether or not it is too old.
LEMMA IngestHandles ==
    ASSUME NEW st, now \in Nat \ {0}, Consistent(st, now), NEW d \in DeviceIds,
           NEW reported \in Reports, NEW observedAt \in Nat
    PROVE  LET new == Ingest(st, d, reported, observedAt) IN
           /\ Consistent(new, now) /\ Handles(st, new, {}, now)
           /\ Fresh(d, observedAt) /\ HasCommand(new, Key(d), "pending") =>
                  ~Verifies(new.commands[Key(d)], reported, observedAt, NoEvidence)
<1>1. Key(d) \in ScopedDevices
  BY ControlAssumption DEF Key, ScopedDevices
<1>2. CASE Fresh(d, observedAt)
  BY <1>1, <1>2, ObserveIsConsistent, ObserveHandles DEF Ingest
<1>3. CASE ~Fresh(d, observedAt)
  BY <1>3, SameHandles DEF Ingest
<1> QED
  BY <1>2, <1>3

\* A readback that is ingested after the publication of its command.
LEMMA ReadbackHandles ==
    ASSUME NEW c \in Requests, now \in Nat \ {0}, Consistent(tracker, now),
           calls[c].device \in DeviceIds, calls[c].readback \in Reports, NEW observedAt \in Nat
    PROVE  LET new == Ingest(Publish(c, tracker), calls[c].device, calls[c].readback, observedAt) IN
           /\ Consistent(new, now) /\ Handles(tracker, new, {}, now)
           /\ /\ Fresh(calls[c].device, observedAt)
              /\ HasCommand(new, Key(calls[c].device), "pending")
              => ~Verifies(new.commands[Key(calls[c].device)], calls[c].readback, observedAt, NoEvidence)
<1>1. Consistent(Publish(c, tracker), now) /\ Quiet(tracker, Publish(c, tracker))
  BY PublishHandles
<1> QED
  BY <1>1, IngestHandles, HandlesAfterQuiet

\* The readback that contradicts the request is ingested, then the command fails.
LEMMA MismatchHandles ==
    ASSUME NEW c \in Requests, now \in Nat \ {0}, Consistent(tracker, now),
           calls[c].device \in DeviceIds, calls[c].readback \in Reports, calls[c].readAt \in Nat
    PROVE  LET new == MismatchMarked(c, ObserverReadback(c)) IN
           Consistent(new, now) /\ Handles(tracker, new, {calls[c].command}, now)
<1>1. Consistent(ObserverReadback(c), now) /\ Handles(tracker, ObserverReadback(c), {}, now)
  BY ReadbackHandles DEF ObserverReadback
<1>2. "mismatched" \in Stages
  BY DEF Stages
<1> QED
  BY <1>1, <1>2, FailIsConsistent, HandlesThenFail DEF MismatchMarked, MarkDeviceCommandFailed

-----------------------------------------------------------------------------
(* The inductive invariant *)

Early == {"idle", "enrolling", "resolving"}

\* What a request relies on: before its transport it has issued and sent
\* nothing, the command shown under its id is the one it asked for, when it did, and a
\* failed execution or an uncertain write is what it told its caller.
CallInv(c) ==
    /\ calls[c].pc \in Early =>
           /\ calls[c].command = NoEvidence /\ calls[c].script = "none"
           /\ ~calls[c].known /\ ~calls[c].sent
    /\ calls[c].command <= tracker.seq
    /\ \A key \in DOMAIN tracker.commands :
           tracker.commands[key].id = calls[c].command =>
               /\ tracker.commands[key].expected = calls[c].on
               /\ calls[c].pc # "returned" => tracker.commands[key].requestedAt = calls[c].since
    /\ /\ calls[c].command \in DOMAIN tracker.traces
       /\ tracker.traces[calls[c].command].outcome = "failed"
       => calls[c].pc = "returned" /\ calls[c].result = "failed"
    /\ calls[c].pc = "returned" /\ calls[c].known /\ calls[c].readback = Absent =>
           calls[c].result = "pending"

CallsInv ==
    /\ calls \in [Requests -> CallType]
    /\ wire \subseteq {c \in Requests : calls[c].sent}
    /\ \A c \in Requests : CallInv(c)
    /\ \A b, c \in Requests :
           calls[b].command = calls[c].command /\ calls[c].command # NoEvidence => b = c

WorldInv ==
    /\ live \in [DeviceIds -> Nat]
    /\ relay \in [DeviceIds -> Values]

ControlInv ==
    /\ now \in Nat \ {0}
    /\ Consistent(tracker, now)
    /\ \A key \in DOMAIN tracker.commands : tracker.commands[key].requestedAt <= now
    /\ CallsInv
    /\ WorldInv

\* A step in which request c becomes call and that issues no command; the
\* commands of ids fail in it.
CallStep(c, call, ids) ==
    /\ Becomes(c, call) /\ UNCHANGED now
    /\ Consistent(tracker', now) /\ Handles(tracker, tracker', ids, now)
    /\ wire' \subseteq wire \cup (IF call.sent THEN {c} ELSE {})
    /\ call \in CallType
    /\ call.command = calls[c].command
    /\ call.command # NoEvidence => /\ call.on = calls[c].on
                                    /\ call.pc = "returned" \/ call.since = calls[c].since
    /\ calls[c].sent => call.sent
    /\ calls[c].pc = "returned" => call.pc = "returned" /\ call.result = calls[c].result
    /\ ids \subseteq (IF call.pc = "returned" /\ call.result = "failed" THEN {call.command} ELSE {})
    /\ call.pc \in Early =>
           call.command = NoEvidence /\ call.script = "none" /\ ~call.known /\ ~call.sent
    /\ call.pc = "returned" /\ call.known /\ call.readback = Absent => call.result = "pending"

\* A step in which request c records its command and becomes call.
StartStep(c, call, ttl) ==
    /\ Becomes(c, call) /\ UNCHANGED now
    /\ RecordPending(c, ttl) /\ ttl \in {AckTimeout, RouteTtl}
    /\ wire' \subseteq wire \cup (IF call.sent THEN {c} ELSE {})
    /\ call \in CallType /\ calls[c].pc \in Early
    /\ call.command = tracker.seq + 1 /\ call.on = calls[c].on
    /\ call.since = now
    /\ call.pc \notin Early \cup {"returned"}

CallMoves(c) ==
    \/ \E call, ids : CallStep(c, call, ids)
    \/ \E call, ttl : StartStep(c, call, ttl)

-----------------------------------------------------------------------------
(* What keeps it *)

\* Calls that issue no command leave what was ordered, and fail ids at most.
LEMMA HandlesKeeps ==
    ASSUME ControlInv, NEW ids, Handles(tracker, tracker', ids, now), TrackerType(tracker')
    PROVE  /\ tracker'.seq = tracker.seq
           /\ \A key \in DOMAIN tracker'.commands :
                 /\ key \in DOMAIN tracker.commands
                 /\ SameOrder(tracker.commands[key], tracker'.commands[key])
           /\ DOMAIN tracker'.traces = DOMAIN tracker.traces
           /\ \A id \in DOMAIN tracker.traces :
                 tracker'.traces[id].outcome = "failed" =>
                     id \in ids \/ tracker.traces[id].outcome = "failed"
<1>1. SameKeys(tracker, tracker')
  BY DEF Handles, Judges
<1>2. \A id \in DOMAIN tracker.traces :
          tracker'.traces[id].outcome = "failed" =>
              id \in ids \/ tracker.traces[id].outcome = "failed"
  BY HandlesFails
<1> QED
  BY <1>1, <1>2 DEF SameKeys, Handles, Remembers, SameOrder

\* Without a change of the requests.
LEMMA CallsStay ==
    ASSUME ControlInv, UNCHANGED <<calls, now>>, wire' \subseteq wire,
           Consistent(tracker', now), Handles(tracker, tracker', {}, now)
    PROVE  CallsInv' /\ \A key \in DOMAIN tracker'.commands : tracker'.commands[key].requestedAt <= now
<1>1. TrackerType(tracker')
  BY DEF Consistent
<1>2. /\ tracker'.seq = tracker.seq
      /\ \A key \in DOMAIN tracker'.commands :
            /\ key \in DOMAIN tracker.commands
            /\ SameOrder(tracker.commands[key], tracker'.commands[key])
      /\ DOMAIN tracker'.traces = DOMAIN tracker.traces
      /\ \A id \in DOMAIN tracker.traces :
            tracker'.traces[id].outcome = "failed" => tracker.traces[id].outcome = "failed"
  BY <1>1, HandlesKeeps
<1>3. \A c \in Requests : CallInv(c)'
  BY <1>2 DEF ControlInv, CallsInv, CallInv, SameOrder
<1> QED
  BY <1>2, <1>3 DEF ControlInv, CallsInv, SameOrder

\* With a change of one request.
LEMMA CallChanges ==
    ASSUME ControlInv, NEW c \in Requests, NEW call, NEW ids, CallStep(c, call, ids)
    PROVE  CallsInv' /\ \A key \in DOMAIN tracker'.commands : tracker'.commands[key].requestedAt <= now
<1>1. TrackerType(tracker')
  BY DEF CallStep, Consistent
<1>2. /\ tracker'.seq = tracker.seq
      /\ \A key \in DOMAIN tracker'.commands :
            /\ key \in DOMAIN tracker.commands
            /\ SameOrder(tracker.commands[key], tracker'.commands[key])
      /\ DOMAIN tracker'.traces = DOMAIN tracker.traces
      /\ \A id \in DOMAIN tracker.traces :
            tracker'.traces[id].outcome = "failed" =>
                id \in ids \/ tracker.traces[id].outcome = "failed"
  BY <1>1, HandlesKeeps DEF CallStep
<1>3. /\ calls' \in [Requests -> CallType] /\ calls'[c] = call
      /\ \A b \in Requests \ {c} : calls'[b] = calls[b]
  BY DEF CallStep, Becomes, ControlInv, CallsInv
<1>4. \A b \in Requests : calls'[b].command = calls[b].command
  BY <1>3 DEF CallStep
<1>5. wire' \subseteq {b \in Requests : calls'[b].sent}
  BY <1>3 DEF CallStep, ControlInv, CallsInv
<1>6. CallInv(c)'
  <2>1. \A key \in DOMAIN tracker.commands : tracker.commands[key].id # NoEvidence
    BY DEF ControlInv, Consistent, TrackerType, Commands, CommandIds, NoEvidence
  <2>2. \A key \in DOMAIN tracker'.commands :
            tracker'.commands[key].id = call.command =>
                /\ tracker'.commands[key].expected = call.on
                /\ call.pc # "returned" => tracker'.commands[key].requestedAt = call.since
    BY <1>2, <2>1 DEF CallStep, ControlInv, CallsInv, CallInv, SameOrder
  <2>3. /\ call.command \in DOMAIN tracker'.traces
        /\ tracker'.traces[call.command].outcome = "failed"
        => call.pc = "returned" /\ call.result = "failed"
    BY <1>2 DEF CallStep, ControlInv, CallsInv, CallInv
  <2>4. call.command <= tracker'.seq
    BY <1>2 DEF CallStep, ControlInv, CallsInv, CallInv
  <2> QED
    BY <1>3, <2>2, <2>3, <2>4 DEF CallInv, CallStep
<1>7. ASSUME NEW b \in Requests \ {c}
      PROVE  CallInv(b)'
  <2>1. calls'[b] = calls[b] /\ CallInv(b)
    BY <1>3 DEF ControlInv, CallsInv
  <2>2. calls[b].command \in ids => calls[b].command = NoEvidence
    BY DEF CallStep, ControlInv, CallsInv
  <2>3. NoEvidence \notin DOMAIN tracker.traces
    BY DEF ControlInv, Consistent, TrackerType, NoEvidence
  <2> QED
    BY <1>2, <2>1, <2>2, <2>3 DEF CallInv, CallStep, SameOrder
<1> QED
  BY <1>2, <1>3, <1>4, <1>5, <1>6, <1>7 DEF ControlInv, CallsInv, SameOrder

\* With a new command.
LEMMA CallStarts ==
    ASSUME ControlInv, NEW c \in Requests, NEW call, NEW ttl, StartStep(c, call, ttl)
    PROVE  /\ Consistent(tracker', now) /\ CallsInv'
           /\ \A key \in DOMAIN tracker'.commands : tracker'.commands[key].requestedAt <= now
<1> DEFINE id == tracker.seq + 1
           key == Key(calls[c].device)
           on == calls[c].on
<1>1. /\ calls[c] \in CallType /\ key \in ScopedDevices /\ on \in Values /\ ttl \in Nat
      /\ tracker.seq < MaxCommands /\ now \in Nat \ {0} /\ Consistent(tracker, now)
  BY ControlAssumption, TrackerAssumption
     DEF ControlInv, CallsInv, CallType, StartStep, RecordPending, Key, ScopedDevices
<1>2. tracker' = MarkDeviceCommandPending(tracker, key, on, ttl, now)
  BY DEF StartStep, RecordPending
<1> HIDE DEF key, on
<1>3. Consistent(tracker', now)
  BY <1>1, <1>2, PendingIsConsistent
<1>4. /\ tracker'.seq = id
      /\ tracker'.commands = Put(tracker.commands, key, NewCommand(id, on, now, ttl))
      /\ DOMAIN tracker'.traces \subseteq DOMAIN tracker.traces \cup {id}
      /\ id \in DOMAIN tracker'.traces => ExecutionState(tracker'.traces[id]) = "open"
      /\ \A i \in DOMAIN tracker'.traces \ {id} :
            ExecutionState(tracker'.traces[i]) =
                IF key \in DOMAIN ActiveOf(tracker) /\ tracker.latest[key] = i
                THEN "superseded" ELSE ExecutionState(tracker.traces[i])
  BY <1>1, <1>2, PendingEffect
<1>5. /\ DOMAIN tracker'.commands \subseteq DOMAIN tracker.commands \cup {key}
      /\ tracker'.commands[key].id = id /\ tracker'.commands[key].expected = on
      /\ tracker'.commands[key].requestedAt = now
      /\ \A k \in DOMAIN tracker'.commands \ {key} :
            k \in DOMAIN tracker.commands /\ tracker'.commands[k] = tracker.commands[k]
  BY <1>4 DEF Put, NewCommand
<1>6. \A i \in DOMAIN tracker'.traces : tracker'.traces[i].outcome = "failed" =>
          i # id /\ i \in DOMAIN tracker.traces /\ tracker.traces[i].outcome = "failed"
  BY <1>4 DEF ExecutionState
<1>7. /\ calls' \in [Requests -> CallType] /\ calls'[c] = call
      /\ \A b \in Requests \ {c} : calls'[b] = calls[b]
      /\ calls[c].command = NoEvidence
  BY DEF StartStep, Becomes, ControlInv, CallsInv, CallInv
<1>8. /\ tracker.seq \in Nat /\ NoEvidence = 0
      /\ \A b \in Requests : calls[b].command \in Nat /\ calls[b].command <= tracker.seq
      /\ \A k \in DOMAIN tracker.commands : tracker.commands[k].id <= tracker.seq
                                        /\ tracker.commands[k].id \in Nat
  BY TrackerAssumption
     DEF ControlInv, CallsInv, CallInv, CallType, NoEvidence, CommandIds, Consistent,
         TrackerType, Commands
<1>9. CallInv(c)'
  <2>1. call.since = now /\ call.on = on
    BY DEF StartStep, on
  <2>2. call.command = id /\ call.pc \notin Early \cup {"returned"} /\ now' = now
    BY DEF StartStep
  <2>3. \A k \in DOMAIN tracker'.commands :
            tracker'.commands[k].id = id =>
                tracker'.commands[k].expected = on /\ tracker'.commands[k].requestedAt = now
    BY <1>5, <1>8
  <2> QED
    BY <1>4, <1>6, <1>7, <1>8, <2>1, <2>2, <2>3 DEF CallInv
<1>10. ASSUME NEW b \in Requests \ {c} PROVE CallInv(b)'
  <2>1. calls'[b] = calls[b] /\ CallInv(b) /\ calls[b].command # id
    BY <1>7, <1>8 DEF ControlInv, CallsInv
  <2> QED
    BY <1>4, <1>5, <1>6, <1>8, <2>1 DEF CallInv, StartStep
<1>11. \A a, b \in Requests :
           calls'[a].command = calls'[b].command /\ calls'[b].command # NoEvidence => a = b
  BY <1>7, <1>8 DEF StartStep, ControlInv, CallsInv
<1>12. wire' \subseteq {b \in Requests : calls'[b].sent}
  <2>1. ~calls[c].sent
    BY DEF StartStep, ControlInv, CallsInv, CallInv
  <2> QED
    BY <1>7, <2>1 DEF StartStep, ControlInv, CallsInv
<1>13. \A k \in DOMAIN tracker'.commands : tracker'.commands[k].requestedAt <= now
  BY <1>1, <1>5 DEF ControlInv
<1> QED
  BY <1>3, <1>7, <1>9, <1>10, <1>11, <1>12, <1>13 DEF CallsInv

\* The finally block after the last calls of a request.
LEMMA ReturnStep ==
    ASSUME ControlInv, NEW c \in Requests, NEW result \in Results, NEW known \in BOOLEAN, NEW ids,
           calls[c].pc \in Pending, Return(c, result, known), UNCHANGED <<now, wire>>,
           Consistent(tracker', now), Handles(tracker, tracker', ids, now),
           ids \subseteq (IF result = "failed" THEN {calls[c].command} ELSE {}),
           known /\ calls[c].readback = Absent => result = "pending"
    PROVE  CallMoves(c)
<1> DEFINE call == [calls[c] EXCEPT !.pc = "returned", !.result = result, !.known = known,
                                  !.since = 0, !.readAt = 0]
<1>1. calls[c] \in CallType /\ CallInv(c)
  BY DEF ControlInv, CallsInv
<1>2. /\ call \in CallType /\ call.pc = "returned" /\ call.result = result /\ call.known = known
      /\ call.command = calls[c].command /\ call.on = calls[c].on /\ call.sent = calls[c].sent
      /\ call.readback = calls[c].readback
  BY <1>1 DEF CallType
<1>3. Becomes(c, call)
  BY DEF Return
<1> HIDE DEF call
<1>4. CallStep(c, call, ids)
  BY <1>1, <1>2, <1>3 DEF CallStep, CallInv, Pending, Early
<1> QED
  BY <1>4 DEF CallMoves

\* A request that goes on, or is refused, without a call to the tracker.
LEMMA CallGoesOn ==
    ASSUME ControlInv, NEW c \in Requests, NEW call \in CallType, Becomes(c, call),
           UNCHANGED <<tracker, now>>, wire' \subseteq wire \cup (IF call.sent THEN {c} ELSE {}),
           call.command = calls[c].command, call.on = calls[c].on, calls[c].sent => call.sent,
           call.pc = "returned" \/ call.since = calls[c].since,
           calls[c].pc = "returned" => call.pc = "returned" /\ call.result = calls[c].result,
           call.pc \in Early => calls[c].pc \in Early /\ call.script = calls[c].script
                                /\ ~call.known /\ ~call.sent,
           call.pc = "returned" /\ call.known /\ call.readback = Absent => call.result = "pending"
    PROVE  CallMoves(c)
<1>1. CallInv(c) /\ now \in Nat /\ Consistent(tracker', now)
  BY DEF ControlInv, CallsInv
<1>2. Handles(tracker, tracker', {}, now)
  BY SameHandles
<1>3. CallStep(c, call, {})
  BY <1>1, <1>2 DEF CallStep, CallInv
<1> QED
  BY <1>3 DEF CallMoves

-----------------------------------------------------------------------------
(* Every action keeps it *)

\* Before the transport.
LEMMA EnterMoves ==
    ASSUME ControlInv, NEW c \in Requests, Enter(c) \/ Resolve(c)
    PROVE  CallMoves(c)
<1>1. calls[c] \in CallType /\ CallInv(c) /\ tracker.seq \in Nat
  BY TrackerAssumption DEF ControlInv, CallsInv, Consistent, TrackerType
<1>2. CASE EnrollmentRefused(c) \/ ShellyAlreadyRunning(c)
  <2> DEFINE call == [calls[c] EXCEPT !.pc = "returned", !.result = "refused"]
  <2>1. /\ Becomes(c, call) /\ UNCHANGED <<tracker, now, wire>> /\ calls[c].pc = "enrolling"
    BY <1>2 DEF EnrollmentRefused, ShellyAlreadyRunning
  <2>2. /\ call \in CallType /\ call.pc = "returned" /\ call.command = calls[c].command
        /\ call.on = calls[c].on /\ call.sent = calls[c].sent /\ call.since = calls[c].since
        /\ call.known = calls[c].known
    BY <1>1 DEF CallType, Results
  <2> HIDE DEF call
  <2> QED
    BY <1>1, <2>1, <2>2, CallGoesOn DEF CallInv, Early
<1>3. CASE LockShelly(c)
  <2> DEFINE call == [calls[c] EXCEPT !.pc = "resolving"]
  <2>1. /\ Becomes(c, call) /\ UNCHANGED <<tracker, now, wire>> /\ calls[c].pc = "enrolling"
    BY <1>3 DEF LockShelly, Waits
  <2>2. /\ call \in CallType /\ call.pc = "resolving" /\ call.command = calls[c].command
        /\ call.on = calls[c].on /\ call.sent = calls[c].sent /\ call.since = calls[c].since
        /\ call.known = calls[c].known /\ call.script = calls[c].script
    BY <1>1 DEF CallType, Pending
  <2> HIDE DEF call
  <2> QED
    BY <1>1, <2>1, <2>2, CallGoesOn DEF CallInv, Early
<1>4. ASSUME RecordPending(c, AckTimeout) \/ RecordPending(c, RouteTtl)
      PROVE  tracker.seq + 1 \in CommandIds /\ now \in Nat
  BY <1>1, <1>4, TrackerAssumption DEF RecordPending, CommandIds, ControlInv
<1>5. CASE StartMqtt(c)
  <2>0. PICK route \in MqttRoutes :
           Becomes(c, [Started(c, route, "publishing", "none") EXCEPT !.sent = TRUE])
    BY <1>5 DEF StartMqtt
  <2> DEFINE call == [Started(c, route, "publishing", "none") EXCEPT !.sent = TRUE]
  <2>1. /\ Becomes(c, call) /\ UNCHANGED now /\ RecordPending(c, AckTimeout)
        /\ wire' = wire \cup {c} /\ calls[c].pc \in Early
    BY <1>5, <2>0 DEF StartMqtt, Early
  <2>2. /\ call \in CallType /\ call.command = tracker.seq + 1 /\ call.on = calls[c].on
        /\ call.since = now /\ call.pc = "publishing" /\ call.sent
    BY <1>1, <1>4, <2>1 DEF CallType, Started, Pending, Routes
  <2> HIDE DEF call
  <2>3. StartStep(c, call, AckTimeout)
    BY <2>1, <2>2 DEF StartStep, Early
  <2> QED
    BY <2>3 DEF CallMoves
<1>6. CASE StartHttp(c)
  <2> DEFINE call == Started(c, "local-http", "identifying", "none")
  <2>1. /\ Becomes(c, call) /\ UNCHANGED <<now, wire>> /\ RecordPending(c, AckTimeout)
        /\ calls[c].pc \in Early
    BY <1>6 DEF StartHttp, Early
  <2>2. /\ call \in CallType /\ call.command = tracker.seq + 1 /\ call.on = calls[c].on
        /\ call.since = now /\ call.pc = "identifying"
    BY <1>1, <1>4, <2>1 DEF CallType, Started, Pending, Routes, ShellyRoutes
  <2> HIDE DEF call
  <2>3. StartStep(c, call, AckTimeout)
    BY <2>1, <2>2 DEF StartStep, Early
  <2> QED
    BY <2>3 DEF CallMoves
<1>7. CASE StartObserver(c)
  <2>1. PICK route \in Resolved \cap Observers : Becomes(c, Started(c, route, "remote", "checking"))
    BY <1>7 DEF StartObserver
  <2> DEFINE call == Started(c, route, "remote", "checking")
  <2>2. /\ Becomes(c, call) /\ UNCHANGED <<now, wire>> /\ RecordPending(c, RouteTtl)
        /\ calls[c].pc \in Early
    BY <1>7, <2>1 DEF StartObserver, Early
  <2>3. /\ call \in CallType /\ call.command = tracker.seq + 1 /\ call.on = calls[c].on
        /\ call.since = now /\ call.pc = "remote"
    BY <1>1, <1>4, <2>1, <2>2 DEF CallType, Started, Pending, Routes, ShellyRoutes
  <2> HIDE DEF call
  <2>4. StartStep(c, call, RouteTtl)
    BY <2>2, <2>3 DEF StartStep, Early
  <2> QED
    BY <2>4 DEF CallMoves
<1>8. CASE RouteRejected(c)
  <2>1. Handles(tracker, tracker', {}, now) /\ Consistent(tracker', now)
    BY <1>8, SameHandles DEF RouteRejected, ControlInv
  <2>2. /\ calls[c].pc \in Pending /\ Return(c, "refused", FALSE) /\ UNCHANGED <<now, wire>>
        /\ "refused" \in Results
    BY <1>8 DEF RouteRejected, Results, Pending
  <2> QED
    BY <2>1, <2>2, ReturnStep
<1> QED
  BY <1>2, <1>3, <1>5, <1>6, <1>7, <1>8 DEF Enter, Resolve

\* HTTP and MQTT: a failure is one of the request's own command, and a readback
\* or a publication fails nothing.
LEMMA TransportMoves ==
    ASSUME ControlInv, NEW c \in Requests, Http(c) \/ Mqtt(c)
    PROVE  CallMoves(c)
<1>1. /\ calls[c] \in CallType /\ CallInv(c) /\ now \in Nat \ {0} /\ Consistent(tracker, now)
      /\ relay[calls[c].device] \in Values
  BY DEF ControlInv, CallsInv, WorldInv, CallType
<1>2. CASE Identified(c)
  <2> DEFINE call == [calls[c] EXCEPT !.pc = "writing", !.sent = TRUE]
  <2>1. /\ Becomes(c, call) /\ UNCHANGED <<tracker, now>> /\ wire' = wire \cup {c}
        /\ calls[c].pc = "identifying"
    BY <1>2 DEF Identified
  <2>2. /\ call \in CallType /\ call.pc = "writing" /\ call.command = calls[c].command
        /\ call.on = calls[c].on /\ call.sent /\ call.since = calls[c].since
    BY <1>1 DEF CallType, Pending
  <2> HIDE DEF call
  <2> QED
    BY <2>1, <2>2, CallGoesOn DEF Early
<1>3. CASE WriteAcknowledged(c)
  <2> DEFINE call == [calls[c] EXCEPT !.pc = "reading", !.known = TRUE]
  <2>1. /\ Becomes(c, call) /\ UNCHANGED <<tracker, now, wire>> /\ calls[c].pc = "writing"
    BY <1>3 DEF WriteAcknowledged
  <2>2. /\ call \in CallType /\ call.pc = "reading" /\ call.command = calls[c].command
        /\ call.on = calls[c].on /\ call.sent = calls[c].sent /\ call.since = calls[c].since
    BY <1>1 DEF CallType, Pending
  <2> HIDE DEF call
  <2> QED
    BY <2>1, <2>2, CallGoesOn DEF Early
<1>4. CASE StatusAnswered(c)
  <2> DEFINE call == [calls[c] EXCEPT !.readback = relay[calls[c].device]]
  <2>1. /\ Becomes(c, call) /\ UNCHANGED <<tracker, now, wire>> /\ calls[c].pc = "reading"
    BY <1>4 DEF StatusAnswered
  <2>2. /\ call \in CallType /\ call.pc = "reading" /\ call.command = calls[c].command
        /\ call.on = calls[c].on /\ call.sent = calls[c].sent /\ call.since = calls[c].since
    BY <1>1, <2>1 DEF CallType, Pending, Reports
  <2> HIDE DEF call
  <2> QED
    BY <2>1, <2>2, CallGoesOn DEF Early
<1>5. CASE HttpFailed(c) \/ MqttFailed(c)
  <2>1. /\ calls[c].pc \in Pending /\ Return(c, "failed", FALSE) /\ UNCHANGED <<now, wire>>
        /\ tracker' = TransportFailure(c) /\ "failed" \in Results
    BY <1>5 DEF HttpFailed, MqttFailed, Pending, Results
  <2>2. Consistent(tracker', now) /\ Handles(tracker, tracker', {calls[c].command}, now)
    BY <1>1, <2>1, FailureHandles
  <2> QED
    BY <2>1, <2>2, ReturnStep
<1>6. CASE StatusUnread(c)
  <2>1. /\ calls[c].pc \in Pending /\ Return(c, "pending", TRUE) /\ UNCHANGED <<now, wire>>
        /\ tracker' = FindDevice(Publish(c, tracker)) /\ "pending" \in Results
    BY <1>6 DEF StatusUnread, Pending, Results
  <2>2. Consistent(tracker', now) /\ Handles(tracker, tracker', {}, now)
    BY <1>1, <2>1, PublishHandles, FindDeviceHandles
  <2> QED
    BY <2>1, <2>2, ReturnStep
<1>7. CASE MqttPublished(c)
  <2>1. /\ calls[c].pc \in Pending /\ Return(c, "pending", TRUE) /\ UNCHANGED <<now, wire>>
        /\ tracker' \in {Publish(c, tracker), FindDevice(Publish(c, tracker))}
        /\ "pending" \in Results
    BY <1>7 DEF MqttPublished, Pending, Results
  <2>2. Consistent(tracker', now) /\ Handles(tracker, tracker', {}, now)
    BY <1>1, <2>1, PublishHandles, FindDeviceHandles
  <2> QED
    BY <2>1, <2>2, ReturnStep
<1>8. CASE HttpRead(c)
  <2>1. PICK result \in {"success", "pending"} : Return(c, result, TRUE)
    BY <1>8 DEF HttpRead
  <2>2. /\ calls[c].pc \in Pending /\ UNCHANGED <<now, wire>> /\ result \in Results
        /\ tracker' = FindDevice(HttpReadback(c)) /\ calls[c].readback # Absent
    BY <1>8 DEF HttpRead, Pending, Results
  <2>3. Consistent(HttpReadback(c), now) /\ Handles(tracker, HttpReadback(c), {}, now)
    BY <1>1, ReadbackHandles DEF HttpReadback, CallType
  <2>4. Consistent(tracker', now) /\ Handles(tracker, tracker', {}, now)
    BY <1>1, <2>2, <2>3, FindDeviceHandles
  <2> QED
    BY <2>1, <2>2, <2>4, ReturnStep
<1> QED
  BY <1>2, <1>3, <1>4, <1>5, <1>6, <1>7, <1>8 DEF Http, Mqtt

\* The answers of the observers: a readback that the site-local route takes for a
\* mismatch and an error before the write fail the request's own command.
LEMMA ObserverMoves ==
    ASSUME ControlInv, NEW c \in Requests, SiteLocal(c) \/ VirtualLab(c)
    PROVE  CallMoves(c)
<1>1. /\ calls[c] \in CallType /\ now \in Nat \ {0} /\ Consistent(tracker, now)
      /\ {"success", "failed", "pending"} \subseteq Results
  BY DEF ControlInv, CallsInv, Results
<1>2. calls[c].pc \in Pending /\ UNCHANGED <<now, wire>>
  BY DEF SiteLocal, SiteLocalRefused, SiteLocalUnread, SiteLocalRead, SiteLocalBroken,
         VirtualLab, VirtualLabRead, VirtualLabUnread, VirtualLabBroken, Delivers, Pending
<1>3. ASSUME tracker' = PreWriteFailure(c), Return(c, "failed", FALSE)
      PROVE  CallMoves(c)
  <2>1. Consistent(tracker', now) /\ Handles(tracker, tracker', {calls[c].command}, now)
    BY <1>1, <1>3, FailureHandles
  <2> QED
    BY <1>1, <1>2, <1>3, <2>1, ReturnStep
<1>4. ASSUME NEW known \in BOOLEAN, tracker' = FindDevice(tracker), Return(c, "pending", known)
      PROVE  CallMoves(c)
  <2>1. Consistent(tracker', now) /\ Handles(tracker, tracker', {}, now)
    BY <1>1, <1>4, FindDeviceOnly
  <2> QED
    BY <1>1, <1>2, <1>4, <2>1, ReturnStep
<1>5. ASSUME tracker' = FindDevice(Publish(c, tracker)), Return(c, "pending", TRUE)
      PROVE  CallMoves(c)
  <2>1. Consistent(tracker', now) /\ Handles(tracker, tracker', {}, now)
    BY <1>1, <1>5, PublishHandles, FindDeviceHandles
  <2> QED
    BY <1>1, <1>2, <1>5, <2>1, ReturnStep
<1>6. ASSUME NEW result \in {"success", "failed"}, Return(c, result, TRUE),
             tracker' = FindDevice(ObserverReadback(c)), calls[c].readback # Absent
      PROVE  CallMoves(c)
  <2>1. Consistent(ObserverReadback(c), now) /\ Handles(tracker, ObserverReadback(c), {}, now)
    BY <1>1, ReadbackHandles DEF ObserverReadback, CallType
  <2>2. Consistent(tracker', now) /\ Handles(tracker, tracker', {}, now)
    BY <1>1, <1>6, <2>1, FindDeviceHandles
  <2> QED
    BY <1>1, <1>2, <1>6, <2>2, ReturnStep
<1>7. ASSUME Return(c, "failed", TRUE), calls[c].readback # Absent,
             tracker' = FindDevice(MismatchMarked(c, ObserverReadback(c)))
      PROVE  CallMoves(c)
  <2> DEFINE st == MismatchMarked(c, ObserverReadback(c))
  <2>1. Consistent(st, now) /\ Handles(tracker, st, {calls[c].command}, now)
    BY <1>1, MismatchHandles DEF CallType
  <2>2. tracker' = FindDevice(st)
    BY <1>7
  <2> HIDE DEF st
  <2>3. Consistent(tracker', now) /\ Handles(tracker, tracker', {calls[c].command}, now)
    BY <1>1, <2>1, <2>2, FindDeviceHandles
  <2> QED
    BY <1>1, <1>2, <1>7, <2>3, ReturnStep
<1>8. CASE SiteLocalRefused(c)
  BY <1>3, <1>8 DEF SiteLocalRefused
<1>9. CASE SiteLocalUnread(c)
  BY <1>5, <1>9 DEF SiteLocalUnread
<1>10. CASE SiteLocalRead(c)
  BY <1>6, <1>7, <1>10 DEF SiteLocalRead
<1>11. CASE SiteLocalBroken(c)
  BY <1>3, <1>4, <1>11 DEF SiteLocalBroken, SiteLocalUncertain
<1>12. CASE VirtualLabRead(c)
  BY <1>6, <1>12 DEF VirtualLabRead
<1>13. CASE VirtualLabUnread(c)
  BY <1>5, <1>13 DEF VirtualLabUnread
<1>14. CASE VirtualLabBroken(c)
  BY <1>4, <1>14 DEF VirtualLabBroken
<1> QED
  BY <1>8, <1>9, <1>10, <1>11, <1>12, <1>13, <1>14 DEF SiteLocal, VirtualLab

\* The script runs on and the write arrives without a call to the tracker.
LEMMA ScriptMoves ==
    ASSUME ControlInv, NEW c \in Requests, Script(c) \/ WriteArrives(c)
    PROVE  CallMoves(c)
<1>1. /\ calls[c] \in CallType /\ CallInv(c) /\ now \in Nat
      /\ relay[calls[c].device] \in Values
  BY DEF ControlInv, CallsInv, WorldInv, CallType
<1>2. CASE ScriptRefuses(c) \/ ScriptGivesUp(c)
  <2> DEFINE call == [calls[c] EXCEPT !.script = "finished"]
  <2>1. /\ Becomes(c, call) /\ UNCHANGED <<tracker, now, wire>> /\ calls[c].script # "none"
    BY <1>2 DEF ScriptRefuses, ScriptGivesUp
  <2>2. /\ call \in CallType /\ call.pc = calls[c].pc /\ call.command = calls[c].command
        /\ call.on = calls[c].on /\ call.sent = calls[c].sent /\ call.since = calls[c].since
        /\ call.known = calls[c].known /\ call.readback = calls[c].readback
        /\ call.result = calls[c].result
    BY <1>1 DEF CallType
  <2> HIDE DEF call
  <2> QED
    BY <1>1, <2>1, <2>2, CallGoesOn DEF CallInv
<1>3. CASE ScriptWrites(c)
  <2> DEFINE call == [calls[c] EXCEPT !.script = "writing", !.sent = TRUE]
  <2>1. /\ Becomes(c, call) /\ UNCHANGED <<tracker, now>> /\ wire' = wire \cup {c}
        /\ calls[c].script # "none"
    BY <1>3 DEF ScriptWrites
  <2>2. /\ call \in CallType /\ call.pc = calls[c].pc /\ call.command = calls[c].command
        /\ call.on = calls[c].on /\ call.sent /\ call.since = calls[c].since
        /\ call.known = calls[c].known /\ call.readback = calls[c].readback
        /\ call.result = calls[c].result
    BY <1>1 DEF CallType
  <2> HIDE DEF call
  <2> QED
    BY <1>1, <2>1, <2>2, CallGoesOn DEF CallInv
<1>4. CASE ScriptReads(c)
  <2>0. PICK observedAt \in Nat : Becomes(c, [calls[c] EXCEPT !.script = "finished",
                              !.readAt = observedAt, !.readback = relay[calls[c].device]])
    <3>1. Stamps \subseteq Nat
      BY DEF Stamps
    <3> QED
      BY <1>4, <3>1, Zenon DEF ScriptReads
  <2> DEFINE call == [calls[c] EXCEPT !.script = "finished", !.readAt = observedAt,
                                      !.readback = relay[calls[c].device]]
  <2>1. /\ Becomes(c, call) /\ UNCHANGED <<tracker, now, wire>> /\ calls[c].script # "none"
    BY <1>4, <2>0 DEF ScriptReads
  <2>2. /\ call \in CallType /\ call.pc = calls[c].pc /\ call.command = calls[c].command
        /\ call.on = calls[c].on /\ call.sent = calls[c].sent /\ call.since = calls[c].since
        /\ call.known = calls[c].known /\ call.readback # Absent
        /\ call.result = calls[c].result
    BY <1>1, TrackerAssumption DEF CallType, Reports
  <2> HIDE DEF call
  <2> QED
    BY <1>1, <2>1, <2>2, CallGoesOn DEF CallInv
<1>5. CASE WriteArrives(c)
  <2> DEFINE call == [calls[c] EXCEPT !.applied = TRUE]
  <2>1. /\ Becomes(c, call) /\ UNCHANGED <<tracker, now>> /\ wire' \subseteq wire
        /\ calls[c].sent
    BY <1>5 DEF WriteArrives, ControlInv, CallsInv
  <2>2. /\ call \in CallType /\ call.pc = calls[c].pc /\ call.command = calls[c].command
        /\ call.on = calls[c].on /\ call.sent = calls[c].sent /\ call.since = calls[c].since
        /\ call.known = calls[c].known /\ call.readback = calls[c].readback
        /\ call.result = calls[c].result
    BY <1>1 DEF CallType
  <2> HIDE DEF call
  <2> QED
    BY <1>1, <2>1, <2>2, CallGoesOn DEF CallInv
<1> QED
  BY <1>2, <1>3, <1>4, <1>5 DEF Script

\* What a step does to the tracker: it judges commands or records a new one.
TrackerMoves ==
    \/ Judges(tracker, tracker')
    \/ /\ tracker.seq < MaxCommands
       /\ \E key \in ScopedDevices, expected \in Values, ttl \in Nat :
              tracker' = MarkDeviceCommandPending(tracker, key, expected, ttl, now)

\* The invariant after a step, but for the world around the requests.
Moved ==
    /\ now' \in Nat \ {0} /\ Consistent(tracker', now')
    /\ \A key \in DOMAIN tracker'.commands : tracker'.commands[key].requestedAt <= now'
    /\ CallsInv'
    /\ TrackerMoves

\* The step of one request.
LEMMA CallMovesOn ==
    ASSUME ControlInv, NEW c \in Requests, CallMoves(c)
    PROVE  Moved
<1>1. ASSUME NEW call, NEW ids, CallStep(c, call, ids)
      PROVE  Moved
  <2>1. /\ CallsInv'
        /\ \A key \in DOMAIN tracker'.commands : tracker'.commands[key].requestedAt <= now
    BY <1>1, CallChanges
  <2>2. /\ now' = now /\ Consistent(tracker', now) /\ Judges(tracker, tracker')
    BY <1>1 DEF CallStep, Handles
  <2> QED
    BY <2>1, <2>2 DEF Moved, TrackerMoves, ControlInv
<1>2. ASSUME NEW call, NEW ttl, StartStep(c, call, ttl)
      PROVE  Moved
  <2>1. /\ CallsInv' /\ Consistent(tracker', now)
        /\ \A key \in DOMAIN tracker'.commands : tracker'.commands[key].requestedAt <= now
    BY <1>2, CallStarts
  <2>2. /\ now' = now /\ tracker.seq < MaxCommands /\ ttl \in Nat
        /\ tracker' = MarkDeviceCommandPending(tracker, Key(calls[c].device), calls[c].on, ttl, now)
    BY <1>2, TrackerAssumption DEF StartStep, RecordPending
  <2>3. Key(calls[c].device) \in ScopedDevices /\ calls[c].on \in Values
    BY ControlAssumption DEF ControlInv, CallsInv, CallType, Key, ScopedDevices
  <2> QED
    BY <2>1, <2>2, <2>3 DEF Moved, TrackerMoves, ControlInv
<1> QED
  BY <1>1, <1>2 DEF CallMoves

\* A new request has issued nothing and sent nothing.
LEMMA ExecuteMoves ==
    ASSUME ControlInv, NEW c \in Requests, NEW d \in DeviceIds, NEW on \in Values, Execute(c, d, on)
    PROVE  CallMoves(c)
<1> DEFINE call == [Idle EXCEPT !.pc = "enrolling", !.device = d, !.on = on]
<1>1. /\ Becomes(c, call) /\ UNCHANGED <<now, wire>> /\ calls[c].pc = "idle"
      /\ tracker' = FindDevice(tracker)
  BY DEF Execute
<1>2. /\ call \in CallType /\ call.pc = "enrolling" /\ call.command = NoEvidence
      /\ call.script = "none" /\ ~call.known /\ ~call.sent
  BY DEF CallType, Idle, Results, Reports
<1> HIDE DEF call
<1>3. calls[c].command = NoEvidence /\ ~calls[c].sent /\ now \in Nat \ {0} /\ Consistent(tracker, now)
  BY <1>1 DEF ControlInv, CallsInv, CallInv, Early
<1>4. Consistent(tracker', now) /\ Handles(tracker, tracker', {}, now)
  BY <1>1, <1>3, FindDeviceOnly
<1>5. CallStep(c, call, {})
  BY <1>1, <1>2, <1>3, <1>4 DEF CallStep
<1> QED
  BY <1>5 DEF CallMoves

\* The steps in which no request moves.
LEMMA NobodyMoves ==
    ASSUME ControlInv,
           \/ \E c \in Requests : WriteIsLost(c)
           \/ \E d \in DeviceIds : Pressed(d) \/ RelayReport(d) \/ PowerReport(d)
           \/ ReadDevices \/ Tick \/ UNCHANGED vars
    PROVE  Moved
<1>1. now \in Nat \ {0} /\ Consistent(tracker, now)
  BY DEF ControlInv
<1>2. ASSUME UNCHANGED <<calls, now>>, wire' \subseteq wire,
             Consistent(tracker', now), Handles(tracker, tracker', {}, now)
      PROVE  Moved
  BY <1>1, <1>2, CallsStay DEF Moved, TrackerMoves, Handles
<1>3. Handles(tracker, tracker, {}, now)
  BY SameHandles
<1>4. ASSUME NEW c \in Requests, WriteIsLost(c)
      PROVE  Moved
  BY <1>1, <1>2, <1>3, <1>4 DEF WriteIsLost
<1>5. ASSUME NEW d \in DeviceIds, RelayReport(d)
      PROVE  Moved
  <2>1. relay[d] \in Reports
    BY DEF ControlInv, WorldInv, Reports
  <2>2. PICK observedAt \in Nat : tracker' = Ingest(tracker, d, relay[d], observedAt)
    BY <1>5 DEF RelayReport, Stamps
  <2>3. Consistent(tracker', now) /\ Handles(tracker, tracker', {}, now)
    BY <1>1, <2>1, <2>2, IngestHandles
  <2> QED
    BY <1>2, <1>5, <2>3 DEF RelayReport
<1>6. ASSUME NEW d \in DeviceIds, PowerReport(d)
      PROVE  Moved
  <2>1. Absent \in Reports /\ Key(d) \in ScopedDevices
    BY ControlAssumption DEF Reports, Key, ScopedDevices
  <2>2. PICK observedAt \in Nat :
           tracker' = ObserveTelemetry(tracker, Key(d), Absent, observedAt, NoEvidence, now)
    BY <1>6 DEF PowerReport, Stamps
  <2>3. Consistent(tracker', now) /\ Handles(tracker, tracker', {}, now)
    BY <1>1, <2>1, <2>2, ObserveIsConsistent, ObserveHandles
  <2> QED
    BY <1>2, <1>6, <2>3 DEF PowerReport
<1>10. ASSUME NEW d \in DeviceIds, Pressed(d)
       PROVE  Moved
  BY <1>1, <1>2, <1>3, <1>10 DEF Pressed
<1>7. CASE ReadDevices
  BY <1>1, <1>2, <1>7, FindDeviceOnly DEF ReadDevices
<1>8. CASE UNCHANGED vars
  BY <1>1, <1>2, <1>3, <1>8 DEF vars
<1>9. CASE Tick
  <2>1. now' = now + 1 /\ UNCHANGED <<tracker, wire, calls>>
    BY <1>9 DEF Tick
  <2>2. Consistent(tracker', now')
    BY <1>1, <2>1, LaterIsConsistent
  <2>3. \A key \in DOMAIN tracker'.commands :
            tracker'.commands[key].requestedAt \in Nat /\ tracker'.commands[key].requestedAt <= now'
    BY <1>1, <2>1 DEF ControlInv, Consistent, TrackerType, Commands
  <2>4. ASSUME NEW c \in Requests PROVE CallInv(c)'
    BY <1>1, <2>1 DEF ControlInv, CallsInv, CallType, CallInv
  <2>5. CallsInv'
    BY <2>1, <2>4 DEF ControlInv, CallsInv
  <2> QED
    BY <1>1, <1>3, <2>1, <2>2, <2>3, <2>5 DEF Moved, TrackerMoves, Handles
<1> QED
  BY <1>4, <1>5, <1>6, <1>7, <1>8, <1>9, <1>10

\* The live states and the relays stay within their types.
LEMMA WorldStays ==
    ASSUME ControlInv, [Next]_vars
    PROVE  WorldInv'
<1>1. /\ live \in [DeviceIds -> Nat] /\ now \in Nat
      /\ relay \in [DeviceIds -> Values] /\ calls \in [Requests -> CallType]
  BY DEF ControlInv, WorldInv, CallsInv
<1>2. \A c \in Requests : /\ calls[c].device \in DeviceIds /\ calls[c].on \in Values
                          /\ calls[c].readAt \in Nat
  BY <1>1 DEF CallType
<1>3. UNCHANGED live \/ \E d : \E at \in Nat : live' = [live EXCEPT ![d] = at]
  <2>1. \A d : \A at \in Nat : SeenAt(d, at) =>
            UNCHANGED live \/ live' = [live EXCEPT ![d] = at]
    BY DEF SeenAt
  <2>2. ASSUME NEW c \in Requests, HttpRead(c) \/ SiteLocalRead(c) \/ VirtualLabRead(c)
        PROVE  SeenAt(calls[c].device, now) \/ SeenAt(calls[c].device, calls[c].readAt)
    BY <2>2 DEF HttpRead, SiteLocalRead, VirtualLabRead
  <2>3. ASSUME NEW c \in Requests, Enter(c) \/ Resolve(c) \/ Mqtt(c) \/ Script(c)
                                   \/ WriteArrives(c) \/ WriteIsLost(c)
        PROVE  UNCHANGED live
    BY <2>3 DEF Enter, EnrollmentRefused, ShellyAlreadyRunning, LockShelly, StartMqtt, Resolve,
                RouteRejected, StartHttp, StartObserver, Mqtt, MqttPublished, MqttFailed, Script,
                ScriptRefuses, ScriptWrites, ScriptReads, ScriptGivesUp, WriteArrives, WriteIsLost
  <2>4. ASSUME NEW c \in Requests, Http(c) \/ SiteLocal(c) \/ VirtualLab(c)
        PROVE  UNCHANGED live \/ HttpRead(c) \/ SiteLocalRead(c) \/ VirtualLabRead(c)
    BY <2>4 DEF Http, Identified, HttpFailed, WriteAcknowledged, StatusAnswered, StatusUnread,
                SiteLocal, SiteLocalRefused, SiteLocalUnread, SiteLocalBroken,
                VirtualLab, VirtualLabUnread, VirtualLabBroken
  <2>5. ASSUME NEW d \in DeviceIds, Pressed(d) \/ RelayReport(d) \/ PowerReport(d)
        PROVE  UNCHANGED live \/ \E at \in Nat : SeenAt(d, at)
    BY <2>5 DEF Pressed, RelayReport, PowerReport, Stamps
  <2>6. ASSUME NEW c \in Requests, NEW d \in DeviceIds, NEW on \in Values, Execute(c, d, on)
        PROVE  UNCHANGED live
    BY <2>6 DEF Execute
  <2>7. ReadDevices \/ Tick \/ UNCHANGED vars => UNCHANGED live
    BY DEF ReadDevices, Tick, vars
  <2>8. ASSUME NEW c \in Requests, Proceed(c) \/ Script(c) \/ WriteArrives(c) \/ WriteIsLost(c)
        PROVE  UNCHANGED live \/ \E at \in Nat : SeenAt(calls[c].device, at)
    BY <1>1, <1>2, <2>2, <2>3, <2>4, <2>8 DEF Proceed
  <2>9. UNCHANGED live \/ \E d : \E at \in Nat : SeenAt(d, at)
    BY <2>5, <2>6, <2>7, <2>8 DEF Next
  <2> QED
    BY <2>1, <2>9
<1>4. live' \in [DeviceIds -> Nat]
  BY <1>1, <1>3
<1>5. UNCHANGED relay \/ \E d : \E v \in Values : relay' = [relay EXCEPT ![d] = v]
  <2>1. ASSUME NEW c \in Requests, Proceed(c) \/ Script(c) \/ WriteIsLost(c)
        PROVE  UNCHANGED relay
    <3>1. CASE Enter(c) \/ Resolve(c) \/ Mqtt(c) \/ Script(c) \/ WriteIsLost(c)
      BY <3>1
         DEF Enter, EnrollmentRefused, ShellyAlreadyRunning, LockShelly, StartMqtt, Resolve,
             RouteRejected, StartHttp, StartObserver, Mqtt, MqttPublished, MqttFailed, Script,
             ScriptRefuses, ScriptWrites, ScriptReads, ScriptGivesUp, WriteIsLost
    <3>2. CASE Http(c) \/ SiteLocal(c) \/ VirtualLab(c)
      BY <3>2
         DEF Http, Identified, HttpFailed, WriteAcknowledged, StatusAnswered, HttpRead, StatusUnread,
             SiteLocal, SiteLocalRefused, SiteLocalUnread, SiteLocalRead, SiteLocalBroken,
             VirtualLab, VirtualLabRead, VirtualLabUnread, VirtualLabBroken
    <3> QED
      BY <2>1, <3>1, <3>2 DEF Proceed
  <2>2. ASSUME NEW c \in Requests, NEW d \in DeviceIds, NEW on \in Values, Execute(c, d, on)
        PROVE  UNCHANGED relay
    BY <2>2 DEF Execute
  <2>3. ASSUME NEW d \in DeviceIds, Pressed(d) \/ RelayReport(d) \/ PowerReport(d)
        PROVE  UNCHANGED relay \/ \E v \in Values : relay' = [relay EXCEPT ![d] = v]
    BY <2>3 DEF Pressed, RelayReport, PowerReport
  <2>4. ReadDevices \/ Tick \/ UNCHANGED vars => UNCHANGED relay
    BY DEF ReadDevices, Tick, vars
  <2>5. \A c \in Requests :
            WriteArrives(c) => relay' = [relay EXCEPT ![calls[c].device] = calls[c].on]
    BY DEF WriteArrives
  <2> QED
    BY <1>2, <2>1, <2>2, <2>3, <2>4, <2>5 DEF Next
<1>6. relay' \in [DeviceIds -> Values]
  BY <1>1, <1>5
<1> QED
  BY <1>4, <1>6 DEF WorldInv

\* Every step keeps the invariant and moves the tracker as its callers rely on.
LEMMA NextKeeps == ControlInv /\ [Next]_vars => ControlInv' /\ TrackerMoves
<1> SUFFICES ASSUME ControlInv, [Next]_vars PROVE ControlInv' /\ TrackerMoves
  OBVIOUS
<1>1. ASSUME NEW c \in Requests, Proceed(c) \/ Script(c) \/ WriteArrives(c)
      PROVE  Moved
  <2>1. CallMoves(c)
    BY <1>1, EnterMoves, TransportMoves, ObserverMoves, ScriptMoves DEF Proceed
  <2> QED
    BY <2>1, CallMovesOn
<1>2. ASSUME NEW c \in Requests, NEW d \in DeviceIds, NEW on \in Values, Execute(c, d, on)
      PROVE  Moved
  BY <1>2, ExecuteMoves, CallMovesOn
<1>3. Moved
  BY <1>1, <1>2, NobodyMoves DEF Next
<1>4. WorldInv'
  BY WorldStays
<1> QED
  BY <1>3, <1>4 DEF ControlInv, Moved

\* The invariant holds at the start.
LEMMA InitIsControlled == Init => ControlInv
<1> SUFFICES ASSUME Init PROVE ControlInv
  OBVIOUS
<1>1. /\ now = 1 /\ tracker = EmptyTracker /\ wire = {} /\ relay \in [DeviceIds -> Values]
      /\ live = [d \in DeviceIds |-> 0] /\ calls = [c \in Requests |-> Idle]
  BY DEF Init
<1>2. Consistent(tracker, now) /\ DOMAIN tracker.traces = {}
  BY <1>1, EmptyIsConsistent
<1>3. DOMAIN tracker.commands = {} /\ tracker.seq = 0
  <2>1. DOMAIN << >> = {}
    BY SMT
  <2> QED
    BY <1>1, <2>1 DEF EmptyTracker
<1>4. Idle \in CallType
  <2>1. (CHOOSE d \in DeviceIds : TRUE) \in DeviceIds /\ (CHOOSE v \in Values : TRUE) \in Values
    BY ControlAssumption
  <2> QED
    BY <2>1 DEF Idle, CallType, Results, Reports
<1>5. /\ Idle.pc = "idle" /\ Idle.command = NoEvidence /\ Idle.script = "none" /\ ~Idle.known
      /\ ~Idle.sent
  BY DEF Idle
<1>6. CallsInv
  BY <1>1, <1>2, <1>3, <1>4, <1>5 DEF CallsInv, CallInv, Early, NoEvidence
<1> QED
  BY <1>1, <1>2, <1>3, <1>6 DEF ControlInv, WorldInv

-----------------------------------------------------------------------------
(* The theorems about requests and their commands *)

\* The invariant holds in every state of a behaviour.
LEMMA ControlIsInvariant == Spec => []ControlInv
<1>1. ControlInv /\ [Next]_vars => ControlInv'
  BY NextKeeps
<1> QED
  BY <1>1, InitIsControlled, PTL DEF Spec

\* Every variable keeps its type, whatever the requests, the devices and the
\* transports do.
THEOREM TypeCorrect == Spec => []TypeOK
<1>1. ControlInv /\ LockIsHeldByOneRequest => TypeOK
  <2> SUFFICES ASSUME ControlInv, LockIsHeldByOneRequest PROVE TypeOK
    OBVIOUS
  <2>1. \A c \in Requests : calls[c].device \in DeviceIds
    BY DEF ControlInv, CallsInv, CallType
  <2>2. activeShellyCommands \subseteq DeviceIds
    BY <2>1 DEF LockIsHeldByOneRequest
  <2> QED
    BY <2>2 DEF ControlInv, CallsInv, WorldInv, Consistent, TypeOK
<1> QED
  BY <1>1, ControlIsInvariant, LockIsExclusive, PTL

\* No callback of one request, however late, fails the execution of another: an
\* execution fails in the step in which its own request tells its caller so.
THEOREM FailuresAreTold == Spec => []FailureIsTold
<1>1. ControlInv => FailureIsTold
  BY DEF ControlInv, CallsInv, CallInv, FailureIsTold, HasTrace
<1> QED
  BY <1>1, ControlIsInvariant, PTL

\* A request that knows of its write and has read nothing back answers pending,
\* and nothing that happens later fails its execution.
THEOREM UncertainStaysPending == Spec => []UncertainWriteStaysPending
<1>1. ControlInv => UncertainWriteStaysPending
  BY DEF ControlInv, CallsInv, CallInv, UncertainWriteStaysPending, HasTrace
<1> QED
  BY <1>1, ControlIsInvariant, PTL

\* The tracker behind the concurrent requests implements the abstract lifecycle:
\* each step between two awaits, with all its calls, is one judgement of commands
\* or the issue of one.
THEOREM ControlImplementsLifecycle == Spec => ImplementsLifecycle
<1>1. Init => Lifecycle!Init
  BY EmptyIsInit DEF Init
<1>2. ControlInv /\ ControlInv' /\ TrackerMoves
        => [Lifecycle!Next]_<<[id \in CommandIds |-> LifeOf(tracker, id)],
                              ActiveOf(tracker), ShownOf(tracker)>>
  <2> SUFFICES ASSUME ControlInv, ControlInv', TrackerMoves
               PROVE  Lifecycle!Next
    OBVIOUS
  <2>1. /\ TrackerType(tracker) /\ TrackerType(tracker)' /\ now \in Nat \ {0}
        /\ Consistent(tracker, now)
    BY DEF ControlInv, Consistent
  <2>2. CASE Judges(tracker, tracker')
    BY <2>1, <2>2, JudgesIsJudge DEF Lifecycle!Next
  <2>3. ASSUME NEW key \in ScopedDevices, NEW expected \in Values, NEW ttl \in Nat,
               tracker' = MarkDeviceCommandPending(tracker, key, expected, ttl, now),
               tracker.seq < MaxCommands
        PROVE  Lifecycle!Next
    BY <2>1, <2>3, PendingIsIssue DEF Lifecycle!Next
  <2> QED
    BY <2>2, <2>3 DEF TrackerMoves
<1>3. ControlInv /\ [Next]_vars => ControlInv' /\ TrackerMoves
  BY NextKeeps
<1> QED
  BY <1>1, <1>2, <1>3, ControlIsInvariant, PTL DEF Spec, ImplementsLifecycle, Lifecycle!Spec

-----------------------------------------------------------------------------
(* The answer of a request *)

\* A request returns in a step of its own function, not of its script, its write
\* or another request.
LEMMA ReturnIsOwn ==
    ASSUME ControlInv, [Next]_vars, NEW c \in Requests, NEW result, Returns(c, result)
    PROVE  Proceed(c)
<1>1. /\ calls = [b \in Requests |-> calls[b]] /\ calls[c] \in CallType
      /\ calls[c].pc # "returned" /\ calls'[c].pc = "returned"
  BY DEF ControlInv, CallsInv, Returns
<1>2. ASSUME NEW b \in Requests, NEW call, Becomes(b, call), b # c \/ call.pc = calls[c].pc
      PROVE  FALSE
  BY <1>1, <1>2 DEF Becomes
<1>3. ASSUME NEW b \in Requests, NEW d \in DeviceIds, NEW on \in Values, Execute(b, d, on)
      PROVE  FALSE
  <2> DEFINE call == [Idle EXCEPT !.pc = "enrolling", !.device = d, !.on = on]
  <2>1. Becomes(b, call) /\ call.pc = "enrolling"
    BY <1>3 DEF Execute, Idle
  <2> HIDE DEF call
  <2> QED
    BY <1>1, <2>1 DEF Becomes
<1>4. ASSUME NEW b \in Requests, b # c, Proceed(b)
      PROVE  FALSE
  <2>1. \E call : Becomes(b, call)
    <3>1. CASE Enter(b) \/ Resolve(b) \/ Http(b) \/ Mqtt(b)
      BY <3>1, Zenon
         DEF Enter, EnrollmentRefused, ShellyAlreadyRunning, LockShelly, StartMqtt, Resolve,
             RouteRejected, StartHttp, StartObserver, Http, Identified, HttpFailed,
             WriteAcknowledged, StatusAnswered, HttpRead, StatusUnread, Mqtt, MqttPublished,
             MqttFailed, Return, Waits
    <3>2. CASE SiteLocal(b)
      BY <3>2, Zenon
         DEF SiteLocal, SiteLocalRefused, SiteLocalUnread, SiteLocalRead, SiteLocalBroken,
             SiteLocalUncertain, Return
    <3>3. CASE VirtualLab(b)
      BY <3>3, Zenon
         DEF VirtualLab, VirtualLabRead, VirtualLabUnread, VirtualLabBroken, Return
    <3> QED
      BY <1>4, <3>1, <3>2, <3>3 DEF Proceed
  <2> QED
    BY <1>2, <1>4, <2>1
<1>5. ASSUME NEW b \in Requests, Script(b) \/ WriteArrives(b)
      PROVE  FALSE
  <2>1. calls[b] \in CallType
    BY DEF ControlInv, CallsInv
  <2>2. \E call : Becomes(b, call) /\ call.pc = calls[b].pc
    <3>1. CASE ScriptRefuses(b) \/ ScriptGivesUp(b)
      <4>1. [calls[b] EXCEPT !.script = "finished"].pc = calls[b].pc
        BY <2>1 DEF CallType
      <4> QED
        BY <3>1, <4>1 DEF ScriptRefuses, ScriptGivesUp
    <3>2. CASE ScriptWrites(b)
      <4>1. [calls[b] EXCEPT !.script = "writing", !.sent = TRUE].pc = calls[b].pc
        BY <2>1 DEF CallType
      <4> QED
        BY <3>2, <4>1 DEF ScriptWrites
    <3>3. CASE ScriptReads(b)
      <4>1. \A at : [calls[b] EXCEPT !.script = "finished", !.readAt = at,
                                     !.readback = relay[calls[b].device]].pc = calls[b].pc
        BY <2>1 DEF CallType
      <4> QED
        BY <3>3, <4>1 DEF ScriptReads
    <3>4. CASE WriteArrives(b)
      <4>1. [calls[b] EXCEPT !.applied = TRUE].pc = calls[b].pc
        BY <2>1 DEF CallType
      <4> QED
        BY <3>4, <4>1 DEF WriteArrives
    <3> QED
      BY <1>5, <3>1, <3>2, <3>3, <3>4 DEF Script
  <2> QED
    BY <1>2, <2>2
<1>6. \/ \E b \in Requests : WriteIsLost(b)
      \/ \E d \in DeviceIds : Pressed(d) \/ RelayReport(d) \/ PowerReport(d)
      \/ ReadDevices \/ Tick \/ UNCHANGED vars
      => UNCHANGED calls
  BY DEF WriteIsLost, Pressed, RelayReport, PowerReport, ReadDevices, Tick, vars
<1> QED
  BY <1>1, <1>3, <1>4, <1>5, <1>6 DEF Next

\* The finally block returns the result it is given.
LEMMA ReturnTells ==
    ASSUME ControlInv, NEW c \in Requests, NEW result, NEW known, Return(c, result, known)
    PROVE  calls'[c].pc = "returned" /\ calls'[c].result = result
BY DEF ControlInv, CallsInv, CallType, Return, Becomes

\* Only the end of a transport returns success or failed: the other steps refuse
\* the request or wait on.
LEMMA AnswerSteps ==
    ASSUME ControlInv, [Next]_vars, NEW c \in Requests, NEW result \in {"success", "failed"},
           Returns(c, result)
    PROVE  \/ HttpFailed(c) \/ HttpRead(c) \/ StatusUnread(c)
           \/ Mqtt(c) \/ SiteLocal(c) \/ VirtualLab(c)
<1>1. /\ calls = [b \in Requests |-> calls[b]] /\ calls[c] \in CallType
      /\ calls[c].pc # "returned" /\ calls'[c].pc = "returned" /\ calls'[c].result = result
  BY DEF ControlInv, CallsInv, Returns
<1>2. \A answer, known : Return(c, answer, known) => answer = result
  BY <1>1, ReturnTells
<1>3. ASSUME NEW call, Becomes(c, call)
      PROVE  call.pc = "returned" /\ call.result = result
  BY <1>1, <1>3 DEF Becomes
<1>4. ~Enter(c)
  <2>1. CASE EnrollmentRefused(c) \/ ShellyAlreadyRunning(c)
    <3>1. [calls[c] EXCEPT !.pc = "returned", !.result = "refused"].result = "refused"
      BY <1>1 DEF CallType
    <3> QED
      BY <1>3, <2>1, <3>1 DEF EnrollmentRefused, ShellyAlreadyRunning
  <2>2. CASE LockShelly(c)
    <3>1. [calls[c] EXCEPT !.pc = "resolving"].pc = "resolving"
      BY <1>1 DEF CallType
    <3> QED
      BY <1>3, <2>2, <3>1 DEF LockShelly, Waits
  <2>3. CASE StartMqtt(c)
    <3>1. \A route : [Started(c, route, "publishing", "none") EXCEPT !.sent = TRUE].pc
                         = "publishing"
      BY <1>1 DEF CallType, Started
    <3> QED
      BY <1>3, <2>3, <3>1 DEF StartMqtt
  <2> QED
    BY <2>1, <2>2, <2>3 DEF Enter
<1>5. ~Resolve(c)
  <2>1. ~RouteRejected(c)
    BY <1>2 DEF RouteRejected
  <2>2. ~StartHttp(c)
    <3>1. Started(c, "local-http", "identifying", "none").pc = "identifying"
      BY <1>1 DEF CallType, Started
    <3> QED
      BY <1>3, <3>1 DEF StartHttp
  <2>3. ~StartObserver(c)
    <3>1. \A route : Started(c, route, "remote", "checking").pc = "remote"
      BY <1>1 DEF CallType, Started
    <3> QED
      BY <1>3, <3>1 DEF StartObserver
  <2> QED
    BY <2>1, <2>2, <2>3 DEF Resolve
<1>6. Http(c) => HttpFailed(c) \/ HttpRead(c) \/ StatusUnread(c)
  <2>1. ~Identified(c)
    <3>1. [calls[c] EXCEPT !.pc = "writing", !.sent = TRUE].pc = "writing"
      BY <1>1 DEF CallType
    <3> QED
      BY <1>3, <3>1 DEF Identified
  <2>2. ~WriteAcknowledged(c)
    <3>1. [calls[c] EXCEPT !.pc = "reading", !.known = TRUE].pc = "reading"
      BY <1>1 DEF CallType
    <3> QED
      BY <1>3, <3>1 DEF WriteAcknowledged
  <2>3. ~StatusAnswered(c)
    <3>1. [calls[c] EXCEPT !.readback = relay[calls[c].device]].pc = calls[c].pc
      BY <1>1 DEF CallType
    <3> QED
      BY <1>1, <1>3, <3>1 DEF StatusAnswered
  <2> QED
    BY <2>1, <2>2, <2>3 DEF Http
<1> QED
  BY <1>4, <1>5, <1>6, ReturnIsOwn DEF Proceed

-----------------------------------------------------------------------------
(* A confirmed request *)

\* Of a confirmed request, on any route: its readback matches what it asked for
\* and goes to the tracker with the stamp of its route.
Confirms(c) ==
    /\ calls[c].readback = calls[c].on
    /\ tracker' = FindDevice(Ingest(Publish(c, tracker), calls[c].device, calls[c].readback,
                                    ReadbackTime(c)))

\* Only such a step returns success.
LEMMA SuccessSteps ==
    ASSUME ControlInv, [Next]_vars, NEW c \in Requests, Returns(c, "success")
    PROVE  Confirms(c)
<1>1. \A answer, known : Return(c, answer, known) => answer = "success"
  BY ReturnTells DEF Returns
<1>2. ~HttpFailed(c) /\ ~StatusUnread(c) /\ ~Mqtt(c)
  BY <1>1 DEF HttpFailed, StatusUnread, Mqtt, MqttPublished, MqttFailed
<1>3. HttpRead(c) => Confirms(c)
  BY <1>1 DEF HttpRead, HttpReadback, Confirms, ReadbackTime
<1>4. SiteLocal(c) => Confirms(c)
  <2>1. ~SiteLocalRefused(c) /\ ~SiteLocalUnread(c) /\ ~SiteLocalBroken(c)
    BY <1>1 DEF SiteLocalRefused, SiteLocalUnread, SiteLocalBroken, SiteLocalUncertain
  <2>2. SiteLocalRead(c) => Confirms(c)
    BY <1>1 DEF SiteLocalRead, Delivers, ObserverReadback, Confirms, ReadbackTime
  <2> QED
    BY <2>1, <2>2 DEF SiteLocal
<1>5. VirtualLab(c) => Confirms(c)
  <2>1. ~VirtualLabUnread(c) /\ ~VirtualLabBroken(c)
    BY <1>1 DEF VirtualLabUnread, VirtualLabBroken
  <2>2. VirtualLabRead(c) => Confirms(c)
    BY <1>1 DEF VirtualLabRead, Delivers, ObserverReadback, Confirms, ReadbackTime
  <2> QED
    BY <2>1, <2>2 DEF VirtualLab
<1> QED
  BY <1>2, <1>3, <1>4, <1>5, AnswerSteps

\* A fresh readback of no earlier stamp than the command verifies it, unless it was
\* judged before.
LEMMA ReadCloses ==
    ASSUME ControlInv, NEW c \in Requests, Confirms(c), Returns(c, "success"),
           ReadbackTime(c) >= calls[c].since, Fresh(calls[c].device, ReadbackTime(c)),
           OwnCommandPending(c)
    PROVE  FALSE
<1> DEFINE d == calls[c].device
           key == Key(d)
           at == ReadbackTime(c)
           new == Ingest(Publish(c, tracker), d, calls[c].readback, at)
<1>1. /\ now \in Nat \ {0} /\ Consistent(tracker, now) /\ CallInv(c)
      /\ d \in DeviceIds /\ calls[c].readback \in Reports /\ calls[c].since \in Nat
      /\ at \in Nat
  BY DEF ControlInv, CallsInv, CallType, ReadbackTime
<1>2. HasCommand(tracker', key, "pending") /\ tracker'.commands[key].id = calls[c].command
  BY DEF OwnCommandPending
<1>3. tracker' = FindDevice(new) /\ calls[c].readback = calls[c].on
  BY DEF Confirms
<1>4. /\ Consistent(new, now) /\ Handles(tracker, new, {}, now)
      /\ HasCommand(new, key, "pending")
         => ~Verifies(new.commands[key], calls[c].readback, at, NoEvidence)
  BY <1>1, ReadbackHandles
<1> HIDE DEF new
<1>5. Consistent(tracker', now) /\ Handles(tracker, tracker', {}, now)
  BY <1>1, <1>3, <1>4, FindDeviceHandles
<1> HIDE DEF key, at
<1>6. key \in DOMAIN new.commands /\ new.commands[key] = tracker'.commands[key]
  BY <1>1, <1>2, <1>3, <1>4, RefreshCommandsEffect DEF FindDevice, Consistent, HasCommand
<1>7. /\ key \in DOMAIN tracker.commands
      /\ SameOrder(tracker.commands[key], tracker'.commands[key])
  BY <1>2, <1>5, HandlesKeeps DEF Consistent, HasCommand
<1>8. /\ tracker'.commands[key].expected = calls[c].on
      /\ tracker'.commands[key].requestedAt = calls[c].since
  BY <1>1, <1>2, <1>7 DEF CallInv, SameOrder, Returns
<1>9. at >= tracker'.commands[key].requestedAt
  BY <1>8 DEF at
<1>10. HasCommand(new, key, "pending")
  BY <1>2, <1>6 DEF HasCommand
<1>11. Verifies(tracker'.commands[key], calls[c].readback, at, NoEvidence)
  BY <1>3, <1>8, <1>9 DEF Verifies, Matches
<1> QED
  BY <1>4, <1>6, <1>10, <1>11

\* A request that returns success leaves its command judged, whatever other requests,
\* reports and expiries came between its write and its readback, whenever that
\* readback is not stamped before the request or before what is already known.
THEOREM SuccessRegisters == Spec => SuccessIsRegistered
<1>1. ControlInv /\ [Next]_vars =>
          [\A c \in Requests :
              /\ Returns(c, "success")
              /\ ReadbackTime(c) >= calls[c].since /\ Fresh(calls[c].device, ReadbackTime(c))
              => ~OwnCommandPending(c)]_vars
  BY SuccessSteps, ReadCloses
<1> QED
  BY <1>1, ControlIsInvariant, PTL DEF Spec, SuccessIsRegistered

-----------------------------------------------------------------------------
(* A failed request *)

\* A failure callback, with the findDevice that follows it, leaves the command it
\* names judged as long as the trace of the command is kept: the callback fails it,
\* or its deadline has passed and findDevice gives it up.
LEMMA FailCloses ==
    ASSUME NEW st, now \in Nat \ {0}, Consistent(st, now), NEW d \in DeviceIds, NEW id,
           HasTrace(st, id), NEW stage \in Stages,
           NEW new, new = FindDevice(Fail(st, d, id, stage, now)),
           HasCommand(new, Key(d), "pending"), new.commands[Key(d)].id = id
    PROVE  FALSE
<1> DEFINE key == Key(d)
           mid == Fail(st, d, id, stage, now)
<1>1. Consistent(mid, now) /\ (mid = st \/ FailsCommand(st, mid, id, now))
  BY FailIsConsistent, FailEffect
<1>2. /\ key \in {Key(e) : e \in DeviceIds} /\ DeviceIdOf(key) = d
      /\ key \in DOMAIN new.commands /\ new.commands[key].status = "pending"
      /\ new.commands[key].id = id /\ new = RefreshCommands(mid, {Key(e) : e \in DeviceIds}, now)
  BY DEF Key, DeviceIdOf, HasCommand, FindDevice
<1> HIDE DEF key, mid
<1>3. /\ key \in DOMAIN mid.commands /\ mid.commands[key].status = "pending"
      /\ mid.commands[key].id = id /\ ~(now > mid.commands[key].expiresAt)
  BY <1>1, <1>2, RefreshCommandsEffect DEF Consistent
<1>4. CASE mid = st
  <2>1. /\ st.traces[id].key = key /\ st.commands[key].expiresAt = st.traces[id].expiresAt
        /\ Agree(st.commands[key], st.traces[id], now)
    BY <1>3, <1>4 DEF Consistent, SameDeadline, VerdictsAgree
  <2>2. st.traces[id].outcome = "running"
    BY <1>3, <1>4, <2>1 DEF Agree
  <2>3. IsOpen(st, d, id)
    BY <1>2, <1>3, <1>4, <2>1, <2>2 DEF IsOpen, IsRunning, HasCommand
  <2>4. mid = SetTrace(SetCommand(st, key, [st.commands[key] EXCEPT !.status = "failed",
                               !.expiresAt = now, !.displayUntil = now + VerdictDisplay]),
                       id, Complete(st.traces[id], "failed", now, stage))
    BY <2>1, <2>3 DEF Fail, mid
  <2>5. /\ id \in DOMAIN mid.traces
        /\ mid.traces[id] = Complete(st.traces[id], "failed", now, stage)
    BY <2>4 DEF SetTrace, SetCommand, Put, Consistent, TrackerType
  <2>6. mid.traces[id].outcome = "failed"
    <3>1. st.traces[id] \in Traces
      BY DEF Consistent, TrackerType, HasTrace
    <3> QED
      BY <2>5, <3>1 DEF Complete, Staged, Traces
  <2> QED
    BY <1>4, <2>2, <2>6
<1>5. CASE FailsCommand(st, mid, id, now)
  <2>1. ExecutionState(mid.traces[id]) = "failed" /\ id \in DOMAIN mid.traces
    BY <1>5 DEF FailsCommand, SameKeys
  <2>2. mid.traces[id].outcome = "failed"
    BY <2>1 DEF ExecutionState
  <2>3. Agree(mid.commands[key], mid.traces[id], now)
    BY <1>1, <1>3, <2>1 DEF Consistent, VerdictsAgree, HasTrace
  <2> QED
    BY <1>3, <2>2, <2>3 DEF Agree
<1> QED
  BY <1>1, <1>4, <1>5

\* The step in which a request returns failed.
Fails(c) ==
    \/ HttpFailed(c) \/ MqttFailed(c) \/ SiteLocalRefused(c)
    \/ Route(c) = "site-local" /\ tracker' = PreWriteFailure(c) /\ UNCHANGED now
    \/ SiteLocalRead(c) /\ tracker' = FindDevice(MismatchMarked(c, ObserverReadback(c)))
    \/ VirtualLabRead(c)

\* The other steps answer success or pending.
LEMMA FailedSteps ==
    ASSUME ControlInv, [Next]_vars, NEW c \in Requests, Returns(c, "failed")
    PROVE  Fails(c)
<1>1. \A answer, known : Return(c, answer, known) => answer = "failed"
  BY ReturnTells DEF Returns
<1>2. ~HttpRead(c) /\ ~StatusUnread(c)
  BY <1>1 DEF HttpRead, StatusUnread
<1>3. Mqtt(c) => MqttFailed(c)
  BY <1>1 DEF Mqtt, MqttPublished
<1>4. SiteLocal(c) => Fails(c)
  <2>1. ~SiteLocalUnread(c)
    BY <1>1 DEF SiteLocalUnread
  <2>2. SiteLocalRead(c) => tracker' = FindDevice(MismatchMarked(c, ObserverReadback(c)))
    BY <1>1 DEF SiteLocalRead
  <2>3. SiteLocalBroken(c) => /\ Route(c) = "site-local" /\ UNCHANGED now
                              /\ tracker' = PreWriteFailure(c)
    BY <1>1 DEF SiteLocalBroken, SiteLocalUncertain
  <2> QED
    BY <2>1, <2>2, <2>3 DEF SiteLocal, Fails
<1>5. VirtualLab(c) => VirtualLabRead(c)
  BY <1>1 DEF VirtualLab, VirtualLabUnread, VirtualLabBroken
<1> QED
  BY <1>2, <1>3, <1>4, <1>5, AnswerSteps DEF Fails

\* Between a failure and its answer: the command it names is judged.
LEMMA FailureCloses ==
    ASSUME ControlInv, NEW c \in Requests, Fails(c), Route(c) # "virtual-lab",
           HasTrace(tracker, calls[c].command), OwnCommandPending(c)
    PROVE  FALSE
<1> DEFINE d == calls[c].device
           id == calls[c].command
<1>1. /\ now \in Nat \ {0} /\ Consistent(tracker, now) /\ d \in DeviceIds
      /\ calls[c].readback \in Reports /\ calls[c].readAt \in Nat
      /\ {"transport_failed", "pre_write_failed", "mismatched"} \subseteq Stages
  BY DEF ControlInv, CallsInv, CallType, Stages
<1>2. HasCommand(tracker', Key(d), "pending") /\ tracker'.commands[Key(d)].id = id
  BY DEF OwnCommandPending
<1>3. ASSUME NEW st, Consistent(st, now), HasTrace(st, id), NEW stage \in Stages,
             tracker' = FindDevice(Fail(st, d, id, stage, now))
      PROVE  FALSE
  BY <1>1, <1>2, <1>3, FailCloses
<1>4. CASE HttpFailed(c) \/ MqttFailed(c)
  <2>1. tracker' = FindDevice(Fail(tracker, d, id, "transport_failed", now))
    BY <1>4 DEF HttpFailed, MqttFailed, TransportFailure, MarkDeviceCommandTransportFailed
  <2> QED
    BY <1>1, <1>3, <2>1
<1>5. CASE SiteLocalRefused(c) \/ tracker' = PreWriteFailure(c)
  <2>1. tracker' = FindDevice(Fail(tracker, d, id, "pre_write_failed", now))
    BY <1>5 DEF SiteLocalRefused, PreWriteFailure, MarkDeviceCommandFailed
  <2> QED
    BY <1>1, <1>3, <2>1
<1>6. CASE tracker' = FindDevice(MismatchMarked(c, ObserverReadback(c)))
  <2> DEFINE st == ObserverReadback(c)
  <2>1. tracker' = FindDevice(Fail(st, d, id, "mismatched", now))
    BY <1>6 DEF MismatchMarked, MarkDeviceCommandFailed
  <2>2. Consistent(st, now) /\ Handles(tracker, st, {}, now)
    BY <1>1, ReadbackHandles DEF ObserverReadback
  <2> HIDE DEF st
  <2>3. HasTrace(st, id)
    BY <2>2 DEF Handles, Judges, SameKeys, HasTrace
  <2> QED
    BY <1>1, <1>3, <2>1, <2>2, <2>3
<1>7. ~VirtualLabRead(c)
  BY DEF VirtualLabRead, Delivers
<1> QED
  BY <1>4, <1>5, <1>6, <1>7 DEF Fails

\* A request on any route but the virtual lab's that returns failed while the trace
\* of its command is kept leaves that command judged: verified by a report that
\* came first, failed by its own callback, or given up at its deadline.
THEOREM TracedFailuresClose == Spec => FailedRequestClosesCommand
<1>1. ControlInv /\ [Next]_vars =>
          [\A c \in Requests :
              /\ Returns(c, "failed") /\ Route(c) # "virtual-lab"
              /\ HasTrace(tracker, calls[c].command)
              => ~OwnCommandPending(c)]_vars
  BY FailedSteps, FailureCloses
<1> QED
  BY <1>1, ControlIsInvariant, PTL DEF Spec, FailedRequestClosesCommand

-----------------------------------------------------------------------------
(* The tracker under concurrent requests *)

\* However the requests interleave, a device has at most one running execution and
\* what the portal shows for a command is what its execution trace says of it.
THEOREM TrackerStaysConsistent == Spec => [](SingleExecution(tracker) /\ VerdictsAgree(tracker, now))
<1>1. ControlInv => SingleExecution(tracker) /\ VerdictsAgree(tracker, now)
  BY DEF ControlInv, Consistent
<1> QED
  BY <1>1, ControlIsInvariant, PTL
=============================================================================
