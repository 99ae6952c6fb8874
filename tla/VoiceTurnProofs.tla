--------------------------- MODULE VoiceTurnProofs ---------------------------
(***************************************************************************)
(* What a spoken turn guarantees, for any number of sockets and any        *)
(* bounds: the approval, the audio that is transcribed, and the end of the *)
(* turn.                                                                   *)
(***************************************************************************)
EXTENDS VoiceTurn, SequenceTheorems, TLAPS

\* The stored audio of turn t up to the send that is awaited has reached an
\* open provider p; a committed input is complete and the turn takes no more.
AudioSound(t, p) ==
  /\ t.pushed <= Len(t.chunks)
  /\ p.sending => t.pushed < Len(t.chunks)
  /\ Len(p.received) <= Len(t.chunks)
  /\ p.open => Len(p.received) = t.pushed + (IF p.sending THEN 1 ELSE 0)
  /\ \A i \in 1..Len(p.received) : p.received[i] = t.chunks[i]
  /\ t.input # "recording" => t.ended
  /\ p.committed => /\ t.input \in {"committing", "closed"}
                    /\ t.pushed = Len(t.chunks) /\ ~p.sending
                    /\ p.received = t.chunks

\* A reply answers a final transcript, the only one.
ReplySound(t, p) ==
  t.assistant # "idle" => p.committed /\ ~p.answerable /\ t.transcript = "speech"

\* A turn that is over has had its reply or can no longer get a transcript.
Settled(t, p) ==
  \/ t.assistant = "done"
  \/ /\ t.assistant = "idle"
     /\ ~p.open \/ ~p.answerable \/ (~p.committed /\ t.input = "closed")

\* An approval that is pending was not decided (d), and there is none before
\* the reply that asks for it.
ApprovalSound(t, d) ==
  /\ Len(d) <= 1
  /\ t.approval => d = <<>>
  /\ t.assistant \in {"idle", "thinking"} => d = <<>> /\ ~t.approval

\* A confirmation on its way is a click on the approval it names.
ClicksAreConfirmed ==
  \A s \in Sockets : \A m \in up[s] : m.kind = "confirm" => m.id \in confirmed

Sound(s) ==
  /\ AudioSound(turn[s], stt[s])
  /\ ReplySound(turn[s], stt[s])
  /\ s \in over => Settled(turn[s], stt[s])
  /\ ApprovalSound(turn[s], decided[s])
  /\ decided[s] = <<"executed">> => s \in confirmed
Inv == TypeOK /\ ClicksAreConfirmed /\ \A s \in Sockets : Sound(s)

-----------------------------------------------------------------------------
(* Type correctness *)

\* The types hold at the start.
LEMMA InitTypes == Init => TypeOK
<1> SUFFICES ASSUME Init PROVE TypeOK
  OBVIOUS
<1>1. NewTurn \in Turn /\ NewStt \in Stt
  BY DEF NewTurn, NewStt, Turn, Stt
<1>2. turn \in [Sockets -> Turn] /\ stt \in [Sockets -> Stt]
  BY <1>1 DEF Init
<1>3. decided \in [Sockets -> Seq(Decisions)] /\ down \in Seq(Events)
  BY DEF Init
<1>4. /\ sent \in [Sockets -> [audio : Nat, ends : Nat, clicks : Nat]]
      /\ up \in [Sockets -> SUBSET Messages]
  BY DEF Init
<1> QED
  BY <1>2, <1>3, <1>4 DEF Init, TypeOK, Links

\* Sending keeps the type of the messages on their way.
LEMMA SendTypes ==
  ASSUME TypeOK, NEW s \in Sockets, NEW m \in Messages, Send(s, m)
  PROVE  up' \in [Sockets -> SUBSET Messages]
BY DEF TypeOK, Send

\* Counting what was sent keeps the type of the counters.
LEMMA CountTypes ==
  ASSUME TypeOK, NEW s \in Sockets, NEW field \in {"audio", "ends", "clicks"},
         Count(s, field)
  PROVE  sent' \in [Sockets -> [audio : Nat, ends : Nat, clicks : Nat]]
<1>1. \A c \in [audio : Nat, ends : Nat, clicks : Nat] :
        [c EXCEPT ![field] = @ + 1] \in [audio : Nat, ends : Nat, clicks : Nat]
  <2> TAKE c \in [audio : Nat, ends : Nat, clicks : Nat]
  <2>1. CASE field = "audio"
    BY <2>1
  <2>2. CASE field = "ends"
    BY <2>2
  <2>3. CASE field = "clicks"
    BY <2>3
  <2> QED
    BY <2>1, <2>2, <2>3
<1> QED
  BY <1>1 DEF TypeOK, Count

\* What a step of the portal may touch, each with its type.
PortalTyped ==
  /\ ws' \in Sockets \cup {Absent} /\ shown' \in Sockets \cup {Absent}
  /\ ready' \in BOOLEAN /\ recording' \in BOOLEAN
  /\ link' \in [Sockets -> Links]
  /\ up' \in [Sockets -> SUBSET Messages]
  /\ down' \in Seq(Events)
  /\ sent' \in [Sockets -> [audio : Nat, ends : Nat, clicks : Nat]]
  /\ confirmed' \subseteq Sockets

\* For a step of the portal it is enough to look at what the portal changes.
LEMMA PortalStepTypes ==
  ASSUME TypeOK, PortalTyped, UNCHANGED <<streaming, gateway, server, decided, over>>
  PROVE  TypeOK'
BY DEF TypeOK, PortalTyped, gateway, server

\* Every step of the portal keeps the types.
LEMMA PortalTypes == ASSUME TypeOK, Portal PROVE TypeOK'
<1>u. /\ UNCHANGED portal => /\ ws' \in Sockets \cup {Absent}
                             /\ shown' \in Sockets \cup {Absent}
                             /\ ready' \in BOOLEAN /\ recording' \in BOOLEAN
      /\ UNCHANGED up => up' \in [Sockets -> SUBSET Messages]
      /\ UNCHANGED link => link' \in [Sockets -> Links]
      /\ UNCHANGED down => down' \in Seq(Events)
      /\ UNCHANGED sent => sent' \in [Sockets -> [audio : Nat, ends : Nat, clicks : Nat]]
      /\ UNCHANGED confirmed => confirmed' \subseteq Sockets
  BY DEF TypeOK, portal
<1>m. /\ [kind |-> "authenticate"] \in Messages
      /\ \A n \in Nat : [kind |-> "audio", n |-> n] \in Messages
      /\ \A n \in Nat : [kind |-> "end", n |-> n] \in Messages
      /\ \A k \in {"confirm", "cancel"}, n \in Nat, i \in Sockets :
           [kind |-> k, n |-> n, id |-> i] \in Messages
  BY DEF Messages
<1>n. \A s \in Sockets : /\ sent[s].audio + 1 \in Nat /\ sent[s].ends + 1 \in Nat
                         /\ sent[s].clicks + 1 \in Nat
  BY DEF TypeOK
<1>c. \A s \in Sockets : Closing(s) \in [Sockets -> Links]
  BY DEF TypeOK, Closing, Links
<1>w. ws # Absent => ws \in Sockets
  BY DEF TypeOK
<1>1. CASE \E s \in Sockets : Connect(s)
  <2>1. PICK s \in Sockets : Connect(s)
    BY <1>1
  <2>2. up' \in [Sockets -> SUBSET Messages]
    BY <2>1, <1>m, SendTypes DEF Connect
  <2>3. link' \in [Sockets -> Links]
    BY <2>1 DEF Connect, TypeOK, Links
  <2>4. PortalTyped
    <3>1. /\ ws' \in Sockets \cup {Absent} /\ shown' \in Sockets \cup {Absent}
          /\ ready' \in BOOLEAN /\ recording' \in BOOLEAN
      BY <2>1 DEF Connect, TypeOK
    <3>2. /\ down' \in Seq(Events) /\ confirmed' \subseteq Sockets
          /\ sent' \in [Sockets -> [audio : Nat, ends : Nat, clicks : Nat]]
      BY <2>1, <1>u DEF Connect, history
    <3> QED
      BY <2>2, <2>3, <3>1, <3>2 DEF PortalTyped
  <2> QED
    BY <2>1, <2>4, PortalStepTypes DEF Connect, history
<1>2. CASE StartRecording \/ Disconnect \/ GiveUp \/ PortalClosed
  <2>1. /\ ws' \in Sockets \cup {Absent} /\ shown' \in Sockets \cup {Absent}
        /\ ready' \in BOOLEAN /\ recording' \in BOOLEAN
    BY <1>2 DEF StartRecording, Disconnect, GiveUp, PortalClosed, TypeOK, portal
  <2>2. link' \in [Sockets -> Links]
    BY <1>2, <1>c, <1>u, <1>w
       DEF StartRecording, Disconnect, GiveUp, PortalClosed, wire
  <2>3. down' \in Seq(Events)
    <3>0. <<>> \in Seq(Events)
      OBVIOUS
    <3>1. CASE Disconnect \/ GiveUp
      BY <3>0, <3>1 DEF Disconnect, GiveUp
    <3>2. CASE StartRecording \/ PortalClosed
      BY <3>2, <1>u DEF StartRecording, PortalClosed, wire
    <3> QED
      BY <1>2, <3>1, <3>2
  <2>4. PortalTyped
    BY <1>2, <2>1, <2>2, <2>3, <1>u
       DEF StartRecording, Disconnect, GiveUp, PortalClosed, PortalTyped,
           wire, history
  <2> QED
    BY <1>2, <2>4, PortalStepTypes
       DEF StartRecording, Disconnect, GiveUp, PortalClosed, history
<1>3. CASE SendPcmChunk
  <2>1. up' \in [Sockets -> SUBSET Messages]
    BY <1>3, <1>m, <1>n, <1>w, SendTypes DEF SendPcmChunk
  <2>2. sent' \in [Sockets -> [audio : Nat, ends : Nat, clicks : Nat]]
    BY <1>3, <1>w, CountTypes DEF SendPcmChunk
  <2>3. PortalTyped
    BY <1>3, <2>1, <2>2, <1>u DEF SendPcmChunk, PortalTyped
  <2> QED
    BY <1>3, <2>3, PortalStepTypes DEF SendPcmChunk
<1>4. CASE StopRecording
  <2>1. up' \in [Sockets -> SUBSET Messages]
    BY <1>4, <1>m, <1>n, <1>w, <1>u, SendTypes DEF StopRecording
  <2>2. sent' \in [Sockets -> [audio : Nat, ends : Nat, clicks : Nat]]
    BY <1>4, <1>w, <1>u, CountTypes DEF StopRecording
  <2>3. PortalTyped
    BY <1>4, <2>1, <2>2 DEF StopRecording, PortalTyped, TypeOK
  <2> QED
    BY <1>4, <2>3, PortalStepTypes DEF StopRecording
<1>5. CASE \E kind \in {"confirm", "cancel"} : Click(kind)
  <2>1. PICK kind \in {"confirm", "cancel"} : Click(kind)
    BY <1>5
  <2>2. shown \in Sockets /\ ws \in Sockets
    BY <2>1 DEF Click, TypeOK
  <2>3. up' \in [Sockets -> SUBSET Messages]
    BY <2>1, <2>2, <1>m, <1>n, SendTypes DEF Click
  <2>4. sent' \in [Sockets -> [audio : Nat, ends : Nat, clicks : Nat]]
    BY <2>1, <2>2, CountTypes DEF Click
  <2>5. confirmed' \subseteq Sockets
    BY <2>1, <2>2 DEF Click, TypeOK
  <2>6. PortalTyped
    BY <2>1, <2>3, <2>4, <2>5, <1>u DEF Click, PortalTyped
  <2> QED
    BY <2>1, <2>6, PortalStepTypes DEF Click
<1>6. CASE Receive
  <2>1. down' \in Seq(Events)
    BY <1>6 DEF Receive, TypeOK
  <2>2. link' \in [Sockets -> Links]
    BY <1>6, <1>c, <1>w, <1>u DEF Receive
  <2>3. /\ ws' \in Sockets \cup {Absent} /\ shown' \in Sockets \cup {Absent}
        /\ ready' \in BOOLEAN /\ recording' \in BOOLEAN
    BY <1>6, <1>w DEF Receive, TypeOK
  <2>4. PortalTyped
    BY <1>6, <2>1, <2>2, <2>3, <1>u DEF Receive, PortalTyped, history
  <2> QED
    BY <1>6, <2>4, PortalStepTypes DEF Receive, history
<1> QED
  BY <1>1, <1>2, <1>3, <1>4, <1>5, <1>6 DEF Portal

\* An event keeps the type of the events on their way.
LEMMA EmitTypes ==
  ASSUME TypeOK, NEW s \in Sockets, NEW e \in Events, Emit(s, e)
  PROVE  down' \in Seq(Events)
BY DEF TypeOK, Emit

\* Every step of the gateway keeps the types.
LEMMA GatewayTypes ==
  ASSUME TypeOK, NEW s \in Sockets, Gateway(s)
  PROVE  TypeOK'
<1> USE DEF TypeOK, Links, Take, CloseSocket, Closing, wire, gateway, server, history, portal
<1>1. CASE Authenticate(s)
  BY <1>1 DEF Authenticate
<1>2. CASE RefuseSocket(s)
  <2>1. link' \in [Sockets -> Links]
    BY <1>2 DEF RefuseSocket
  <2>2. up' \in [Sockets -> SUBSET Messages]
    BY <1>2 DEF RefuseSocket
  <2> QED
    BY <1>2, <2>1, <2>2 DEF RefuseSocket
<1>3. CASE OpenSession(s)
  BY <1>3, EmitTypes DEF OpenSession, Events
<1>4. CASE OpenFails(s)
  BY <1>4 DEF OpenFails
<1>5. CASE RefuseMessage(s)
  BY <1>5 DEF RefuseMessage
<1>6. CASE SocketClosed(s)
  BY <1>6 DEF SocketClosed, Stt
<1> QED
  BY <1>1, <1>2, <1>3, <1>4, <1>5, <1>6 DEF Gateway

\* What a step of the session may touch, each with its type.
SessionTyped ==
  /\ turn' \in [Sockets -> Turn] /\ stt' \in [Sockets -> Stt]
  /\ up' \in [Sockets -> SUBSET Messages]
  /\ link' \in [Sockets -> Links]
  /\ down' \in Seq(Events) /\ over' \subseteq Sockets
  /\ decided' \in [Sockets -> Seq(Decisions)]
Aside == <<streaming, portal, gateway, sessions, sent, confirmed>>

\* For a step of a session it is enough to look at what a session changes.
LEMMA SessionStepTypes == ASSUME TypeOK, SessionTyped, UNCHANGED Aside PROVE TypeOK'
BY DEF TypeOK, SessionTyped, Aside, portal, gateway

\* Replacing a turn by a turn keeps the type of the turns.
LEMMA UpdateTypes ==
  ASSUME TypeOK, NEW s \in Sockets, NEW t \in Turn, Update(s, t)
  PROVE  turn' \in [Sockets -> Turn]
BY DEF TypeOK, Update

\* Replacing the state of a provider keeps the type of the providers.
LEMMA UpdateSttTypes ==
  ASSUME TypeOK, NEW s \in Sockets, NEW p \in Stt, UpdateStt(s, p)
  PROVE  stt' \in [Sockets -> Stt]
BY DEF TypeOK, UpdateStt

\* Taking a message keeps the type of the messages on their way.
LEMMA TakeTypes ==
  ASSUME TypeOK, NEW s \in Sockets, NEW m, Take(s, m)
  PROVE  up' \in [Sockets -> SUBSET Messages]
BY DEF TypeOK, Take

\* Announcing the end of the turn keeps the types of events and history.
LEMMA EndTurnEventTypes ==
  ASSUME TypeOK, NEW s \in Sockets, EndTurnEvent(s)
  PROVE  down' \in Seq(Events) /\ over' \subseteq Sockets
<1>1. "turn_end" \in Events
  BY DEF Events
<1> QED
  BY <1>1, EmitTypes DEF EndTurnEvent, TypeOK

\* Every step of a session keeps the types.
LEMMA SessionTypes ==
  ASSUME TypeOK, NEW s \in Sockets, Session(s)
  PROVE  TypeOK'
<1>t. turn[s] \in Turn /\ stt[s] \in Stt
  BY DEF TypeOK
<1>e. Events = {"authenticated", "required", "result", "turn_end"}
  BY DEF Events
<1>f. UNCHANGED Inside => UNCHANGED Aside /\ up' \in [Sockets -> SUBSET Messages]
  BY DEF Inside, Aside, TypeOK
<1>u. /\ UNCHANGED turn => turn' \in [Sockets -> Turn]
      /\ UNCHANGED stt => stt' \in [Sockets -> Stt]
      /\ UNCHANGED up => up' \in [Sockets -> SUBSET Messages]
      /\ UNCHANGED link => link' \in [Sockets -> Links]
      /\ UNCHANGED down => down' \in Seq(Events)
      /\ UNCHANGED over => over' \subseteq Sockets
      /\ UNCHANGED decided => decided' \in [Sockets -> Seq(Decisions)]
  BY DEF TypeOK
<1>1. CASE PushAudio(s)
  <2>1. PICK m \in up[s], fits \in BOOLEAN, loud \in BOOLEAN : PushAudio(s)!(m, fits, loud)
    BY <1>1 DEF PushAudio
  <2>2. m \in Messages /\ m.kind = "audio"
    BY <2>1 DEF TypeOK, Handled, Take
  <2>3. m.n \in Nat
    BY <2>2 DEF Messages
  <2>h. (turn[s].heard \/ loud) \in BOOLEAN
    OBVIOUS
  <2>a. Append(turn[s].chunks, m.n) \in Seq(Nat)
    BY <1>t, <2>3 DEF Turn
  <2>4. [turn[s] EXCEPT !.chunks = Append(@, m.n), !.heard = @ \/ loud] \in Turn
    BY <1>t, <2>a, <2>h DEF Turn
  <2>5. turn' \in [Sockets -> Turn]
    BY <2>1, <2>4, <1>u, UpdateTypes
  <2>6. up' \in [Sockets -> SUBSET Messages]
    BY <2>1, TakeTypes DEF Handled
  <2>7. link' \in [Sockets -> Links]
    <3>1. UNCHANGED link \/ CloseSocket(s)
      BY <2>1
    <3> QED
      BY <3>1 DEF TypeOK, CloseSocket, Links
  <2> QED
    BY <2>1, <2>5, <2>6, <2>7, <1>u, SessionStepTypes DEF SessionTyped, Aside, history
<1>2. CASE SendChunk(s)
  <2>1. turn[s].chunks[turn[s].pushed + 1] \in Nat
    BY <1>2, <1>t DEF SendChunk, Pushing, Turn
  <2>a. Append(stt[s].received, turn[s].chunks[turn[s].pushed + 1]) \in Seq(Nat)
    BY <1>t, <2>1 DEF Stt
  <2>b. [stt[s] EXCEPT !.sending = TRUE,
           !.received = Append(@, turn[s].chunks[turn[s].pushed + 1])] \in Stt
    BY <1>t, <2>a DEF Stt
  <2>2. stt' \in [Sockets -> Stt]
    BY <1>2, <2>b, UpdateSttTypes DEF SendChunk
  <2> QED
    BY <1>2, <2>2, <1>u, SessionStepTypes DEF SendChunk, SessionTyped, Aside, history, wire
<1>3. CASE ChunkSent(s)
  <2>1. [turn[s] EXCEPT !.pushed = @ + 1] \in Turn
    BY <1>t DEF Turn
  <2>2. stt' \in [Sockets -> Stt]
    <3>1. [stt[s] EXCEPT !.sending = FALSE] \in Stt
      BY <1>t DEF Stt
    <3> QED
      BY <1>3, <3>1, UpdateSttTypes DEF ChunkSent
  <2> QED
    BY <1>3, <2>1, <2>2, <1>u, UpdateTypes, SessionStepTypes DEF ChunkSent, SessionTyped, Aside, history, wire
<1>4. CASE ChunkRejected(s)
  <2>1. [turn[s] EXCEPT !.failed = TRUE] \in Turn
    BY <1>t DEF Turn
  <2>2. stt' \in [Sockets -> Stt]
    <3>1. [stt[s] EXCEPT !.sending = FALSE, !.open = FALSE] \in Stt
      BY <1>t DEF Stt
    <3> QED
      BY <1>4, <3>1, UpdateSttTypes DEF ChunkRejected
  <2> QED
    BY <1>4, <2>1, <2>2, <1>u, UpdateTypes, SessionStepTypes DEF ChunkRejected, SessionTyped, Aside, history, wire
<1>5. CASE ChunkIgnored(s)
  <2>1. [turn[s] EXCEPT !.pushed = @ + 1] \in Turn
    BY <1>t DEF Turn
  <2> QED
    BY <1>5, <2>1, <1>u, UpdateTypes, SessionStepTypes DEF ChunkIgnored, SessionTyped, Aside, history, wire
<1>6. CASE EndTurn(s)
  <2>1. PICK m \in up[s], passes \in BOOLEAN : EndTurn(s)!(m, passes)
    BY <1>6 DEF EndTurn
  <2>2. \A i \in {"closed", "draining"} : [turn[s] EXCEPT !.ended = TRUE, !.input = i] \in Turn
    BY <1>t DEF Turn
  <2>3. turn' \in [Sockets -> Turn]
    BY <2>1, <2>2, <1>u, UpdateTypes
  <2>4. down' \in Seq(Events) /\ over' \subseteq Sockets
    BY <2>1, <1>u, EndTurnEventTypes
  <2>5. up' \in [Sockets -> SUBSET Messages]
    BY <2>1, TakeTypes DEF Handled
  <2> QED
    BY <2>1, <2>3, <2>4, <2>5, <1>u, SessionStepTypes DEF SessionTyped, Aside
<1>7. CASE EndInput(s)
  <2>1. \A i \in {"closed", "committing"} : [turn[s] EXCEPT !.input = i] \in Turn
    BY <1>t DEF Turn
  <2>2. turn' \in [Sockets -> Turn]
    BY <1>7, <2>1, UpdateTypes DEF EndInput
  <2>3. stt' \in [Sockets -> Stt]
    <3>1. [stt[s] EXCEPT !.committed = stt[s].open] \in Stt
      BY <1>t DEF Stt
    <3> QED
      BY <1>7, <3>1, <1>u, UpdateSttTypes DEF EndInput
  <2>4. down' \in Seq(Events) /\ over' \subseteq Sockets
    BY <1>7, <1>u, EndTurnEventTypes DEF EndInput
  <2> QED
    BY <1>7, <2>2, <2>3, <2>4, <1>f, <1>u, SessionStepTypes DEF EndInput, SessionTyped
<1>8. CASE InputEnded(s)
  <2>1. [turn[s] EXCEPT !.input = "closed"] \in Turn
    BY <1>t DEF Turn
  <2> QED
    BY <1>8, <2>1, <1>f, <1>u, UpdateTypes, SessionStepTypes DEF InputEnded, SessionTyped
<1>9. CASE CommitFails(s)
  <2>1. [turn[s] EXCEPT !.input = "closed"] \in Turn
    BY <1>t DEF Turn
  <2>2. stt' \in [Sockets -> Stt]
    <3>1. [stt[s] EXCEPT !.answerable = FALSE] \in Stt
      BY <1>t DEF Stt
    <3> QED
      BY <1>9, <3>1, UpdateSttTypes DEF CommitFails
  <2>3. down' \in Seq(Events) /\ over' \subseteq Sockets
    BY <1>9, EndTurnEventTypes DEF CommitFails
  <2> QED
    BY <1>9, <2>1, <2>2, <2>3, <1>f, <1>u, UpdateTypes, SessionStepTypes DEF CommitFails, SessionTyped
<1>10. CASE \E text \in {"filler", "speech"} : SttFinal(s, text)
  <2>1. PICK text \in {"filler", "speech"} : SttFinal(s, text)
    BY <1>10
  <2>2. /\ [turn[s] EXCEPT !.transcript = text, !.finalized = TRUE, !.assistant = "thinking"] \in Turn
        /\ [turn[s] EXCEPT !.transcript = text] \in Turn
    BY <1>t DEF Turn
  <2>3. turn' \in [Sockets -> Turn]
    BY <2>1, <2>2, UpdateTypes DEF SttFinal
  <2>4. stt' \in [Sockets -> Stt]
    <3>1. [stt[s] EXCEPT !.answerable = FALSE] \in Stt
      BY <1>t DEF Stt
    <3> QED
      BY <2>1, <3>1, UpdateSttTypes DEF SttFinal
  <2>5. down' \in Seq(Events) /\ over' \subseteq Sockets
    BY <2>1, <1>u, EndTurnEventTypes DEF SttFinal
  <2> QED
    BY <2>1, <2>3, <2>4, <2>5, <1>f, <1>u, SessionStepTypes DEF SttFinal, SessionTyped
<1>11. CASE SttError(s)
  <2>1. \A u \in BOOLEAN : [turn[s] EXCEPT !.failed = TRUE, !.finalized = @ \/ u] \in Turn
    BY <1>t DEF Turn
  <2>2. (turn[s].ended /\ turn[s].transcript # "speech") \in BOOLEAN
    OBVIOUS
  <2>3. turn' \in [Sockets -> Turn]
    BY <1>11, <2>1, <2>2, UpdateTypes DEF SttError
  <2>4. stt' \in [Sockets -> Stt]
    <3>1. [stt[s] EXCEPT !.open = FALSE] \in Stt
      BY <1>t DEF Stt
    <3> QED
      BY <1>11, <3>1, UpdateSttTypes DEF SttError
  <2>5. down' \in Seq(Events) /\ over' \subseteq Sockets
    BY <1>11, <1>u, EndTurnEventTypes DEF SttError
  <2> QED
    BY <1>11, <2>3, <2>4, <2>5, <1>f, <1>u, SessionStepTypes DEF SttError, SessionTyped
<1>12. CASE \E device \in BOOLEAN : PlanReply(s, device)
  <2>1. PICK device \in BOOLEAN : PlanReply(s, device)
    BY <1>12
  <2>2. [turn[s] EXCEPT !.assistant = "speaking", !.approval = device, !.late = FALSE] \in Turn
    BY <1>t DEF Turn
  <2>3. down' \in Seq(Events)
    BY <2>1, <1>e, <1>u, EmitTypes DEF PlanReply
  <2> QED
    BY <2>1, <2>2, <2>3, <1>f, <1>u, UpdateTypes, SessionStepTypes DEF PlanReply, SessionTyped
<1>13. CASE ReplyDone(s) \/ ReplyFails(s)
  <2>1. [turn[s] EXCEPT !.assistant = "done"] \in Turn
    BY <1>t DEF Turn
  <2>2. down' \in Seq(Events) /\ over' \subseteq Sockets
    BY <1>13, EndTurnEventTypes DEF ReplyDone, ReplyFails
  <2> QED
    BY <1>13, <2>1, <2>2, <1>f, <1>u, UpdateTypes, SessionStepTypes DEF ReplyDone, ReplyFails, SessionTyped
<1>d. ASSUME NEW t \in Turn, NEW d \in Decisions, Decide(s, t, d)
      PROVE  turn' \in [Sockets -> Turn] /\ decided' \in [Sockets -> Seq(Decisions)]
  <2>1. [t EXCEPT !.approval = FALSE] \in Turn
    BY DEF Turn
  <2> QED
    BY <1>d, <2>1, UpdateTypes DEF Decide, TypeOK
<1>g. Decisions = {"executed", "cancelled", "expired"}
  BY DEF Decisions
<1>14. CASE ConfirmAction(s)
  <2>1. PICK m \in up[s] : ConfirmAction(s)!(m)
    BY <1>14 DEF ConfirmAction
  <2>2. [turn[s] EXCEPT !.executing = TRUE] \in Turn
    BY <1>t DEF Turn
  <2>3. turn' \in [Sockets -> Turn] /\ decided' \in [Sockets -> Seq(Decisions)]
    BY <2>1, <2>2, <1>d, <1>g, <1>t, <1>u
  <2>4. down' \in Seq(Events)
    BY <2>1, <1>e, <1>u, EmitTypes
  <2>5. up' \in [Sockets -> SUBSET Messages]
    BY <2>1, TakeTypes DEF Handled
  <2> QED
    BY <2>1, <2>3, <2>4, <2>5, <1>u, SessionStepTypes DEF SessionTyped, Aside
<1>15. CASE CancelAction(s)
  <2>1. PICK m \in up[s] : CancelAction(s)!(m)
    BY <1>15 DEF CancelAction
  <2>2. turn' \in [Sockets -> Turn] /\ decided' \in [Sockets -> Seq(Decisions)]
    BY <2>1, <1>d, <1>g, <1>t, <1>u
  <2>3. down' \in Seq(Events)
    BY <2>1, <1>e, <1>u, EmitTypes
  <2>4. up' \in [Sockets -> SUBSET Messages]
    BY <2>1, TakeTypes DEF Handled
  <2> QED
    BY <2>1, <2>2, <2>3, <2>4, <1>u, SessionStepTypes DEF SessionTyped, Aside
<1>16. CASE Executed(s)
  <2>1. [turn[s] EXCEPT !.executing = FALSE] \in Turn
    BY <1>t DEF Turn
  <2>2. down' \in Seq(Events)
    BY <1>16, <1>e, EmitTypes DEF Executed
  <2> QED
    BY <1>16, <2>1, <2>2, <1>f, <1>u, UpdateTypes, SessionStepTypes DEF Executed, SessionTyped
<1>17. CASE ApprovalExpires(s)
  <2>1. [turn[s] EXCEPT !.late = TRUE] \in Turn
    BY <1>t DEF Turn
  <2> QED
    BY <1>17, <2>1, <1>f, <1>u, UpdateTypes, SessionStepTypes DEF ApprovalExpires, SessionTyped
<1>18. CASE ExpiryTimer(s)
  <2>1. down' \in Seq(Events)
    BY <1>18, <1>e, EmitTypes DEF ExpiryTimer
  <2> QED
    BY <1>18, <2>1, <1>d, <1>g, <1>t, <1>f, <1>u, SessionStepTypes DEF ExpiryTimer, SessionTyped
<1> QED
  BY <1>1, <1>2, <1>3, <1>4, <1>5, <1>6, <1>7, <1>8, <1>9, <1>10, <1>11, <1>12,
     <1>13, <1>14, <1>15, <1>16, <1>17, <1>18 DEF Session

\* Every step keeps the types.
LEMMA NextTypes == ASSUME TypeOK, [Next]_vars PROVE TypeOK'
BY PortalTypes, GatewayTypes, SessionTypes
   DEF Next, TypeOK, vars, wire, gateway, server, history, portal

-----------------------------------------------------------------------------
(* A step of one session leaves the others alone. *)

Untouched(x) ==
  /\ turn'[x] = turn[x] /\ stt'[x] = stt[x] /\ decided'[x] = decided[x]
  /\ x \in over' <=> x \in over

\* A session that a step does not touch stays sound.
LEMMA UntouchedIsSound ==
  ASSUME NEW x \in Sockets, Sound(x), Untouched(x), confirmed \subseteq confirmed'
  PROVE  Sound(x)'
BY DEF Sound, Untouched

\* A step of one session touches no other.
LEMMA OthersAreUntouched ==
  ASSUME TypeOK, NEW s \in Sockets, Session(s), NEW x \in Sockets, x # s
  PROVE  Untouched(x) /\ UNCHANGED confirmed
<1>1. \A t : Update(s, t) => turn'[x] = turn[x]
  BY DEF TypeOK, Update
<1>2. \A p : UpdateStt(s, p) => stt'[x] = stt[x]
  BY DEF TypeOK, UpdateStt
<1>3. EndTurnEvent(s) => (x \in over' <=> x \in over)
  BY DEF EndTurnEvent
<1>4. \A t, d : Decide(s, t, d) => turn'[x] = turn[x] /\ decided'[x] = decided[x]
  BY DEF TypeOK, Decide, Update
<1>5. CASE PushAudio(s)
  BY <1>5, <1>1 DEF PushAudio, Untouched, history
<1>6. CASE SendChunk(s) \/ ChunkSent(s) \/ ChunkRejected(s) \/ ChunkIgnored(s)
  BY <1>6, <1>1, <1>2
     DEF SendChunk, ChunkSent, ChunkRejected, ChunkIgnored, Untouched, history
<1>7. CASE EndTurn(s)
  BY <1>7, <1>1, <1>3 DEF EndTurn, Untouched
<1>8. CASE EndInput(s)
  BY <1>8, <1>1, <1>2, <1>3 DEF EndInput, Inside, Untouched
<1>9. CASE InputEnded(s) \/ CommitFails(s)
  BY <1>9, <1>1, <1>2, <1>3 DEF InputEnded, CommitFails, Inside, Untouched
<1>10. CASE SttError(s) \/ \E text \in {"filler", "speech"} : SttFinal(s, text)
  BY <1>10, <1>1, <1>2, <1>3 DEF SttError, SttFinal, Inside, Untouched
<1>11. CASE \/ \E device \in BOOLEAN : PlanReply(s, device)
            \/ ReplyDone(s) \/ ReplyFails(s)
  BY <1>11, <1>1, <1>3 DEF PlanReply, ReplyDone, ReplyFails, Inside, Untouched
<1>12. CASE ConfirmAction(s) \/ CancelAction(s)
  BY <1>12, <1>4 DEF ConfirmAction, CancelAction, Untouched
<1>13. CASE Executed(s) \/ ApprovalExpires(s) \/ ExpiryTimer(s)
  BY <1>13, <1>1, <1>4 DEF Executed, ApprovalExpires, ExpiryTimer, Inside, Untouched
<1> QED
  BY <1>5, <1>6, <1>7, <1>8, <1>9, <1>10, <1>11, <1>12, <1>13 DEF Session

-----------------------------------------------------------------------------
(* A step of a session keeps it sound. *)

\* The new values of the session's own records.
LEMMA OwnValues ==
  ASSUME TypeOK, NEW s \in Sockets
  PROVE  /\ \A t : Update(s, t) => turn'[s] = t
         /\ \A p : UpdateStt(s, p) => stt'[s] = p
         /\ \A t, d : Decide(s, t, d) =>
              /\ turn'[s] = [t EXCEPT !.approval = FALSE]
              /\ decided'[s] = Append(decided[s], d)
         /\ EndTurnEvent(s) => s \in over'
         /\ turn[s] \in Turn /\ stt[s] \in Stt /\ decided[s] \in Seq(Decisions)
BY DEF TypeOK, Update, UpdateStt, Decide, EndTurnEvent

\* Storing and sending chunks keeps what was pushed the front of what was stored.
LEMMA AudioStepIsSound ==
  ASSUME Inv, NEW s \in Sockets,
         PushAudio(s) \/ SendChunk(s) \/ ChunkSent(s) \/ ChunkRejected(s) \/ ChunkIgnored(s)
  PROVE  Sound(s)'
<1> DEFINE t == turn[s]
           p == stt[s]
<1>1. /\ TypeOK /\ AudioSound(t, p) /\ ReplySound(t, p)
      /\ s \in over => Settled(t, p)
      /\ ApprovalSound(t, decided[s])
      /\ decided[s] = <<"executed">> => s \in confirmed
  BY DEF Inv, Sound
<1>2. /\ t.chunks \in Seq(Nat) /\ t.pushed \in Nat /\ p.received \in Seq(Nat)
      /\ t \in Turn /\ p \in Stt
  BY <1>1, OwnValues DEF Turn, Stt
<1>3. UNCHANGED <<decided, over, confirmed>>
  BY DEF PushAudio, SendChunk, ChunkSent, ChunkRejected, ChunkIgnored, history
<1>4. CASE PushAudio(s)
  <2>1. PICK m \in up[s], fits \in BOOLEAN, loud \in BOOLEAN : PushAudio(s)!(m, fits, loud)
    BY <1>4 DEF PushAudio
  <2>2. stt'[s] = p
    BY <2>1
  <2>3. CASE turn' = turn
    BY <1>1, <1>3, <2>2, <2>3 DEF Sound
  <2>4. CASE /\ ~t.ended
             /\ turn'[s] = [t EXCEPT !.chunks = Append(@, m.n), !.heard = @ \/ loud]
    <3>1. m.n \in Nat
      BY <1>1, <2>1 DEF TypeOK, Handled, Take, Messages
    <3>2. ~p.committed /\ t.input = "recording"
      BY <1>1, <2>4 DEF AudioSound
    <3>3. /\ turn'[s].chunks = Append(t.chunks, m.n)
          /\ turn'[s].pushed = t.pushed /\ turn'[s].input = t.input
          /\ turn'[s].ended = t.ended /\ turn'[s].assistant = t.assistant
          /\ turn'[s].approval = t.approval /\ turn'[s].transcript = t.transcript
      BY <2>4, <1>2 DEF Turn
    <3>4. AudioSound(turn'[s], p)
      BY <1>1, <1>2, <3>1, <3>2, <3>3 DEF AudioSound
    <3> QED
      BY <1>1, <1>3, <2>2, <3>3, <3>4 DEF Sound, ReplySound, Settled, ApprovalSound
  <2> QED
    BY <2>1, <2>3, <2>4, <1>1, OwnValues
<1>5. CASE SendChunk(s)
  <2>1. /\ turn'[s] = t /\ ~p.sending /\ p.open /\ t.pushed < Len(t.chunks)
        /\ stt'[s] = [p EXCEPT !.sending = TRUE,
                               !.received = Append(@, t.chunks[t.pushed + 1])]
    BY <1>5, <1>1, OwnValues DEF SendChunk, Pushing
  <2>2. ~p.committed /\ Len(p.received) = t.pushed
    BY <1>1, <1>2, <2>1 DEF AudioSound
  <2>3. /\ stt'[s].received = Append(p.received, t.chunks[t.pushed + 1])
        /\ stt'[s].sending /\ stt'[s].open /\ ~stt'[s].committed
        /\ stt'[s].answerable = p.answerable
    BY <1>2, <2>1, <2>2 DEF Stt
  <2>4. t.chunks[t.pushed + 1] \in Nat
    BY <1>2, <2>1
  <2>5. AudioSound(t, stt'[s])
    <3>1. Len(stt'[s].received) = t.pushed + 1
      BY <1>2, <2>2, <2>3, <2>4
    <3>2. ASSUME NEW i \in 1..Len(stt'[s].received)
          PROVE  stt'[s].received[i] = t.chunks[i]
      <4>1. CASE i = t.pushed + 1
        BY <1>2, <2>2, <2>3, <2>4, <4>1
      <4>2. CASE i \in 1..Len(p.received)
        BY <1>1, <1>2, <2>3, <2>4, <4>2 DEF AudioSound
      <4> QED
        BY <1>2, <2>2, <3>1, <3>2, <4>1, <4>2
    <3>3. /\ t.pushed <= Len(t.chunks) /\ t.pushed < Len(t.chunks)
          /\ Len(stt'[s].received) <= Len(t.chunks)
          /\ t.input # "recording" => t.ended
      BY <1>1, <1>2, <2>1, <3>1 DEF AudioSound
    <3>4. Len(stt'[s].received) = t.pushed + (IF stt'[s].sending THEN 1 ELSE 0)
      BY <2>3, <3>1
    <3> QED
      BY <2>3, <3>2, <3>3, <3>4 DEF AudioSound
  <2> QED
    BY <1>1, <1>3, <2>1, <2>2, <2>3, <2>5 DEF Sound, ReplySound, Settled
<1>6. CASE ChunkSent(s)
  <2>1. /\ p.sending
        /\ turn'[s] = [t EXCEPT !.pushed = @ + 1]
        /\ stt'[s] = [p EXCEPT !.sending = FALSE]
    BY <1>6, <1>1, OwnValues DEF ChunkSent
  <2>2. AudioSound(turn'[s], stt'[s])
    BY <1>1, <1>2, <2>1 DEF AudioSound, Turn, Stt
  <2> QED
    BY <1>1, <1>2, <1>3, <2>1, <2>2 DEF Sound, ReplySound, Settled, ApprovalSound, Turn, Stt
<1>7. CASE ChunkRejected(s)
  <2>1. /\ p.sending \/ t.pushed < Len(t.chunks)
        /\ turn'[s] = [t EXCEPT !.failed = TRUE]
        /\ stt'[s] = [p EXCEPT !.sending = FALSE, !.open = FALSE]
    BY <1>7, <1>1, OwnValues DEF ChunkRejected, Pushing
  <2>2. ~p.committed
    BY <1>1, <1>2, <2>1 DEF AudioSound
  <2>3. AudioSound(turn'[s], stt'[s])
    BY <1>1, <1>2, <2>1, <2>2 DEF AudioSound, Turn, Stt
  <2> QED
    BY <1>1, <1>2, <1>3, <2>1, <2>2, <2>3 DEF Sound, ReplySound, Settled, ApprovalSound, Turn, Stt
<1>8. CASE ChunkIgnored(s)
  <2>1. /\ ~p.open /\ ~p.sending /\ t.pushed < Len(t.chunks) /\ stt'[s] = p
        /\ turn'[s] = [t EXCEPT !.pushed = @ + 1]
    BY <1>8, <1>1, OwnValues DEF ChunkIgnored, Pushing
  <2>2. ~p.committed
    BY <1>1, <1>2, <2>1 DEF AudioSound
  <2>3. AudioSound(turn'[s], stt'[s])
    BY <1>1, <1>2, <2>1, <2>2 DEF AudioSound, Turn, Stt
  <2> QED
    BY <1>1, <1>2, <1>3, <2>1, <2>3 DEF Sound, ReplySound, Settled, ApprovalSound, Turn, Stt
<1> QED
  BY <1>4, <1>5, <1>6, <1>7, <1>8

\* The input is committed once, and only when every chunk was sent.
LEMMA InputStepIsSound ==
  ASSUME Inv, NEW s \in Sockets,
         EndTurn(s) \/ EndInput(s) \/ InputEnded(s) \/ CommitFails(s)
  PROVE  Sound(s)'
<1> DEFINE t == turn[s]
           p == stt[s]
<1>1. /\ TypeOK /\ AudioSound(t, p) /\ ReplySound(t, p)
      /\ s \in over => Settled(t, p)
      /\ ApprovalSound(t, decided[s])
      /\ decided[s] = <<"executed">> => s \in confirmed
  BY DEF Inv, Sound
<1>2. /\ t.chunks \in Seq(Nat) /\ t.pushed \in Nat /\ p.received \in Seq(Nat)
      /\ t \in Turn /\ p \in Stt
  BY <1>1, OwnValues DEF Turn, Stt
<1>3. UNCHANGED <<decided, confirmed>>
  BY DEF EndTurn, EndInput, InputEnded, CommitFails, Inside
<1>4. CASE EndTurn(s)
  <2>1. PICK m \in up[s], passes \in BOOLEAN : EndTurn(s)!(m, passes)
    BY <1>4 DEF EndTurn
  <2>2. stt'[s] = p
    BY <2>1
  <2>3. CASE turn' = turn /\ over' = over
    BY <1>1, <1>3, <2>2, <2>3 DEF Sound
  <2>4. ASSUME NEW i \in {"closed", "draining"}, ~t.ended,
               turn'[s] = [t EXCEPT !.ended = TRUE, !.input = i],
               i = "closed" \/ over' = over
        PROVE  Sound(s)'
    <3>1. ~p.committed /\ t.input = "recording"
      BY <1>1, <2>4 DEF AudioSound
    <3>2. t.assistant = "idle"
      BY <1>1, <3>1 DEF ReplySound
    <3>3. AudioSound(turn'[s], p)
      BY <1>1, <1>2, <2>4, <3>1 DEF AudioSound, Turn
    <3>4. ReplySound(turn'[s], p) /\ ApprovalSound(turn'[s], decided[s])
      BY <1>1, <1>2, <2>4 DEF ReplySound, ApprovalSound, Turn
    <3>5. s \in over' => Settled(turn'[s], p)
      BY <1>1, <1>2, <2>4, <3>1, <3>2 DEF Settled, Turn
    <3> QED
      BY <1>1, <1>3, <2>2, <3>3, <3>4, <3>5 DEF Sound
  <2> QED
    BY <2>1, <2>3, <2>4, <1>1, OwnValues
<1>5. CASE EndInput(s)
  <2>1. /\ t.input = "draining" /\ ~p.sending
        /\ turn'[s] = [t EXCEPT !.input = IF t.failed THEN "closed" ELSE "committing"]
    BY <1>5, <1>1, OwnValues DEF EndInput
  <2>2. ~p.committed
    BY <1>1, <2>1 DEF AudioSound
  <2>3. t.assistant = "idle"
    BY <1>1, <2>2 DEF ReplySound
  <2>4. CASE t.failed
    <3>1. stt'[s] = p /\ turn'[s] = [t EXCEPT !.input = "closed"]
      BY <1>5, <2>1, <2>4 DEF EndInput
    <3>2. AudioSound(turn'[s], p)
      BY <1>1, <1>2, <2>1, <2>2, <3>1 DEF AudioSound, Turn
    <3>3. ReplySound(turn'[s], p) /\ ApprovalSound(turn'[s], decided[s]) /\ Settled(turn'[s], p)
      BY <1>1, <1>2, <2>2, <2>3, <3>1 DEF ReplySound, ApprovalSound, Settled, Turn
    <3> QED
      BY <1>1, <1>3, <3>1, <3>2, <3>3 DEF Sound
  <2>5. CASE ~t.failed
    <3>1. /\ stt'[s] = [p EXCEPT !.committed = p.open]
          /\ turn'[s] = [t EXCEPT !.input = "committing"] /\ over' = over
      BY <1>5, <1>1, <2>1, <2>5, OwnValues DEF EndInput
    <3>2. t.pushed = Len(t.chunks)
      BY <1>5, <1>1, <1>2, <2>1, <2>5 DEF EndInput, Pushing, AudioSound
    <3>3. p.open => p.received = t.chunks
      <4>1. p.open => Len(p.received) = Len(t.chunks)
        BY <1>1, <1>2, <2>1, <3>2 DEF AudioSound
      <4> QED
        BY <1>1, <1>2, <4>1, SeqEqual DEF AudioSound
    <3>4. AudioSound(turn'[s], stt'[s])
      BY <1>1, <1>2, <2>1, <3>1, <3>2, <3>3 DEF AudioSound, Turn, Stt
    <3>5. /\ ReplySound(turn'[s], stt'[s]) /\ ApprovalSound(turn'[s], decided[s])
          /\ s \in over' => Settled(turn'[s], stt'[s])
      BY <1>1, <1>2, <2>1, <2>2, <2>3, <3>1 DEF ReplySound, ApprovalSound, Settled, Turn, Stt
    <3> QED
      BY <1>1, <1>3, <3>4, <3>5 DEF Sound
  <2> QED
    BY <2>4, <2>5
<1>6. CASE InputEnded(s)
  <2>1. /\ t.input = "committing" /\ stt'[s] = p /\ over' = over
        /\ turn'[s] = [t EXCEPT !.input = "closed"]
    BY <1>6, <1>1, OwnValues DEF InputEnded
  <2>2. AudioSound(turn'[s], p)
    BY <1>1, <1>2, <2>1 DEF AudioSound, Turn
  <2>3. /\ ReplySound(turn'[s], p) /\ ApprovalSound(turn'[s], decided[s])
        /\ s \in over => Settled(turn'[s], p)
    BY <1>1, <1>2, <2>1 DEF ReplySound, ApprovalSound, Settled, Turn
  <2> QED
    BY <1>1, <1>3, <2>1, <2>2, <2>3 DEF Sound
<1>7. CASE CommitFails(s)
  <2>1. /\ t.input = "committing" /\ p.committed /\ p.answerable
        /\ stt'[s] = [p EXCEPT !.answerable = FALSE]
        /\ turn'[s] = [t EXCEPT !.input = "closed"]
    BY <1>7, <1>1, OwnValues DEF CommitFails
  <2>2. t.assistant = "idle"
    BY <1>1, <2>1 DEF ReplySound
  <2>3. AudioSound(turn'[s], stt'[s])
    BY <1>1, <1>2, <2>1 DEF AudioSound, Turn, Stt
  <2>4. /\ ReplySound(turn'[s], stt'[s]) /\ ApprovalSound(turn'[s], decided[s])
        /\ Settled(turn'[s], stt'[s])
    BY <1>1, <1>2, <2>1, <2>2 DEF ReplySound, ApprovalSound, Settled, Turn, Stt
  <2> QED
    BY <1>1, <1>3, <2>3, <2>4 DEF Sound
<1> QED
  BY <1>4, <1>5, <1>6, <1>7

\* A transcript or an error answers a commit once and starts a reply or ends the turn.
LEMMA TranscriptStepIsSound ==
  ASSUME Inv, NEW s \in Sockets,
         SttError(s) \/ \E text \in {"filler", "speech"} : SttFinal(s, text)
  PROVE  Sound(s)'
<1> DEFINE t == turn[s]
           p == stt[s]
<1>1. /\ TypeOK /\ AudioSound(t, p) /\ ReplySound(t, p)
      /\ s \in over => Settled(t, p)
      /\ ApprovalSound(t, decided[s])
      /\ decided[s] = <<"executed">> => s \in confirmed
  BY DEF Inv, Sound
<1>2. /\ t.chunks \in Seq(Nat) /\ t.pushed \in Nat /\ p.received \in Seq(Nat)
      /\ t \in Turn /\ p \in Stt
  BY <1>1, OwnValues DEF Turn, Stt
<1>3. UNCHANGED <<decided, confirmed>>
  BY DEF SttError, SttFinal, Inside
<1>4. CASE SttError(s)
  <2> DEFINE unanswered == t.ended /\ t.transcript # "speech"
  <2>1. /\ stt'[s] = [p EXCEPT !.open = FALSE]
        /\ turn'[s] = [t EXCEPT !.failed = TRUE, !.finalized = @ \/ unanswered]
        /\ unanswered \/ over' = over
    BY <1>4, <1>1, OwnValues DEF SttError
  <2>2. /\ turn'[s].chunks = t.chunks /\ turn'[s].pushed = t.pushed
        /\ turn'[s].input = t.input /\ turn'[s].ended = t.ended
        /\ turn'[s].transcript = t.transcript /\ turn'[s].assistant = t.assistant
        /\ turn'[s].approval = t.approval
    BY <1>2, <2>1 DEF Turn
  <2>3. AudioSound(turn'[s], stt'[s])
    BY <1>1, <1>2, <2>1, <2>2 DEF AudioSound, Stt
  <2>4. /\ ReplySound(turn'[s], stt'[s]) /\ ApprovalSound(turn'[s], decided[s])
    BY <1>1, <1>2, <2>1, <2>2 DEF ReplySound, ApprovalSound, Stt
  <2>5. s \in over' => Settled(turn'[s], stt'[s])
    BY <1>1, <1>2, <2>1, <2>2 DEF ReplySound, Settled, Stt
  <2> QED
    BY <1>1, <1>3, <2>3, <2>4, <2>5 DEF Sound
<1>5. ASSUME NEW text \in {"filler", "speech"}, SttFinal(s, text)
      PROVE  Sound(s)'
  <2>1. /\ p.open /\ p.committed /\ p.answerable
        /\ stt'[s] = [p EXCEPT !.answerable = FALSE]
    BY <1>5, <1>1, OwnValues DEF SttFinal
  <2>2. t.assistant = "idle" /\ s \notin over
    BY <1>1, <2>1 DEF ReplySound, Settled
  <2>3. CASE text = "speech"
    <3>1. /\ over' = over
          /\ turn'[s] = [t EXCEPT !.transcript = text, !.finalized = TRUE,
                                  !.assistant = "thinking"]
      BY <1>5, <1>1, <2>3, OwnValues DEF SttFinal
    <3>2. AudioSound(turn'[s], stt'[s])
      BY <1>1, <1>2, <2>1, <3>1 DEF AudioSound, Turn, Stt
    <3>3. ReplySound(turn'[s], stt'[s]) /\ ApprovalSound(turn'[s], decided[s])
      BY <1>1, <1>2, <2>1, <2>2, <2>3, <3>1 DEF ReplySound, ApprovalSound, Turn, Stt
    <3> QED
      BY <1>1, <1>3, <2>2, <3>1, <3>2, <3>3 DEF Sound
  <2>4. CASE text # "speech"
    <3>1. turn'[s] = [t EXCEPT !.transcript = text]
      BY <1>5, <1>1, <2>4, OwnValues DEF SttFinal
    <3>2. AudioSound(turn'[s], stt'[s])
      BY <1>1, <1>2, <2>1, <3>1 DEF AudioSound, Turn, Stt
    <3>3. /\ ReplySound(turn'[s], stt'[s]) /\ ApprovalSound(turn'[s], decided[s])
          /\ Settled(turn'[s], stt'[s])
      BY <1>1, <1>2, <2>1, <2>2, <3>1 DEF ReplySound, ApprovalSound, Settled, Turn, Stt
    <3> QED
      BY <1>1, <1>3, <3>2, <3>3 DEF Sound
  <2> QED
    BY <2>3, <2>4
<1> QED
  BY <1>4, <1>5

\* A reply asks for at most one approval, or ends the turn.
LEMMA ReplyStepIsSound ==
  ASSUME Inv, NEW s \in Sockets,
         \/ \E device \in BOOLEAN : PlanReply(s, device)
         \/ ReplyDone(s) \/ ReplyFails(s)
  PROVE  Sound(s)'
<1> DEFINE t == turn[s]
           p == stt[s]
<1>1. /\ TypeOK /\ AudioSound(t, p) /\ ReplySound(t, p)
      /\ s \in over => Settled(t, p)
      /\ ApprovalSound(t, decided[s])
      /\ decided[s] = <<"executed">> => s \in confirmed
  BY DEF Inv, Sound
<1>2. t \in Turn
  BY <1>1, OwnValues
<1>3. UNCHANGED <<stt, decided, confirmed>>
  BY DEF PlanReply, ReplyDone, ReplyFails, Inside
<1>4. ASSUME NEW device \in BOOLEAN, PlanReply(s, device)
      PROVE  Sound(s)'
  <2>1. /\ t.assistant = "thinking" /\ over' = over
        /\ turn'[s] = [t EXCEPT !.assistant = "speaking", !.approval = device,
                                !.late = FALSE]
    BY <1>4, <1>1, OwnValues DEF PlanReply, Inside
  <2>2. s \notin over
    BY <1>1, <2>1 DEF Settled
  <2>3. AudioSound(turn'[s], stt[s])
    BY <1>1, <1>2, <2>1 DEF AudioSound, Turn
  <2>4. ReplySound(turn'[s], stt[s]) /\ ApprovalSound(turn'[s], decided[s])
    BY <1>1, <1>2, <2>1 DEF ReplySound, ApprovalSound, Turn
  <2> QED
    BY <1>1, <1>3, <2>1, <2>2, <2>3, <2>4 DEF Sound
<1>5. CASE ReplyDone(s) \/ ReplyFails(s)
  <2>1. /\ t.assistant \in {"thinking", "speaking"}
        /\ turn'[s] = [t EXCEPT !.assistant = "done"]
    BY <1>5, <1>1, OwnValues DEF ReplyDone, ReplyFails
  <2>2. AudioSound(turn'[s], stt[s])
    BY <1>1, <1>2, <2>1 DEF AudioSound, Turn
  <2>3. /\ ReplySound(turn'[s], stt[s]) /\ ApprovalSound(turn'[s], decided[s])
        /\ Settled(turn'[s], stt[s])
    BY <1>1, <1>2, <2>1 DEF ReplySound, ApprovalSound, Settled, Turn
  <2> QED
    BY <1>1, <1>3, <2>2, <2>3 DEF Sound
<1> QED
  BY <1>4, <1>5

\* Confirmation, cancellation and expiry decide an approval that is still open.
LEMMA ApprovalStepIsSound ==
  ASSUME Inv, NEW s \in Sockets,
         \/ ConfirmAction(s) \/ Executed(s) \/ CancelAction(s)
         \/ ApprovalExpires(s) \/ ExpiryTimer(s)
  PROVE  Sound(s)'
<1> DEFINE t == turn[s]
           p == stt[s]
<1>1. /\ TypeOK /\ AudioSound(t, p) /\ ReplySound(t, p)
      /\ s \in over => Settled(t, p)
      /\ ApprovalSound(t, decided[s])
      /\ decided[s] = <<"executed">> => s \in confirmed
  BY DEF Inv, Sound
<1>2. t \in Turn /\ decided[s] \in Seq(Decisions)
  BY <1>1, OwnValues
<1>3. UNCHANGED <<stt, over, confirmed>>
  BY DEF ConfirmAction, Executed, CancelAction, ApprovalExpires, ExpiryTimer, Inside
\* What the five steps leave alone, and what they do to the approval.
<1>4. ASSUME turn'[s] \in Turn,
             turn'[s].chunks = t.chunks, turn'[s].pushed = t.pushed,
             turn'[s].input = t.input, turn'[s].ended = t.ended,
             turn'[s].transcript = t.transcript, turn'[s].assistant = t.assistant,
             ApprovalSound(turn'[s], decided'[s]),
             decided'[s] = <<"executed">> => s \in confirmed
      PROVE  Sound(s)'
  BY <1>1, <1>3, <1>4 DEF Sound, AudioSound, ReplySound, Settled
<1>5. ASSUME NEW u \in Turn, NEW d \in Decisions, Decide(s, u, d), t.approval,
             u = t \/ u = [t EXCEPT !.executing = TRUE],
             d = "executed" => s \in confirmed
      PROVE  Sound(s)'
  <2>1. /\ turn'[s] = [u EXCEPT !.approval = FALSE]
        /\ decided'[s] = Append(decided[s], d)
    BY <1>1, <1>5, OwnValues
  <2>2. decided[s] = <<>> /\ t.assistant \notin {"idle", "thinking"}
    BY <1>1, <1>5 DEF ApprovalSound
  <2>3. decided'[s] = <<d>>
    BY <2>1, <2>2
  <2>4. /\ turn'[s] \in Turn /\ ~turn'[s].approval
        /\ turn'[s].chunks = t.chunks /\ turn'[s].pushed = t.pushed
        /\ turn'[s].input = t.input /\ turn'[s].ended = t.ended
        /\ turn'[s].transcript = t.transcript /\ turn'[s].assistant = t.assistant
    <3>1. CASE u = t
      BY <1>2, <2>1, <3>1 DEF Turn
    <3>2. CASE u = [t EXCEPT !.executing = TRUE]
      BY <1>2, <2>1, <3>2 DEF Turn
    <3> QED
      BY <1>5, <3>1, <3>2
  <2>5. ApprovalSound(turn'[s], decided'[s])
    BY <2>2, <2>3, <2>4 DEF ApprovalSound
  <2>6. decided'[s] = <<"executed">> => s \in confirmed
    BY <1>5, <2>3
  <2> QED
    BY <1>4, <2>4, <2>5, <2>6
<1>6. Decisions = {"executed", "cancelled", "expired"}
  BY DEF Decisions
<1>7. CASE UNCHANGED <<turn, decided>>
  BY <1>1, <1>3, <1>7 DEF Sound
<1>8. CASE ConfirmAction(s)
  <2>1. PICK m \in up[s] : ConfirmAction(s)!(m)
    BY <1>8 DEF ConfirmAction
  <2>2. m.id = s => s \in confirmed
    BY <2>1 DEF Inv, ClicksAreConfirmed
  <2>3. [t EXCEPT !.executing = TRUE] \in Turn
    BY <1>2 DEF Turn
  <2> QED
    BY <1>2, <1>5, <1>6, <1>7, <2>1, <2>2, <2>3
<1>9. CASE CancelAction(s)
  <2>1. PICK m \in up[s] : CancelAction(s)!(m)
    BY <1>9 DEF CancelAction
  <2> QED
    BY <1>2, <1>5, <1>6, <1>7, <2>1
<1>10. CASE ExpiryTimer(s)
  BY <1>2, <1>5, <1>6, <1>10 DEF ExpiryTimer
<1>11. CASE Executed(s) \/ ApprovalExpires(s)
  <2>1. /\ decided' = decided
        /\ \/ turn'[s] = [t EXCEPT !.executing = FALSE]
           \/ turn'[s] = [t EXCEPT !.late = TRUE]
    BY <1>1, <1>11, OwnValues DEF Executed, ApprovalExpires
  <2>2. /\ turn'[s] \in Turn /\ turn'[s].approval = t.approval
        /\ turn'[s].chunks = t.chunks /\ turn'[s].pushed = t.pushed
        /\ turn'[s].input = t.input /\ turn'[s].ended = t.ended
        /\ turn'[s].transcript = t.transcript /\ turn'[s].assistant = t.assistant
    BY <1>2, <2>1 DEF Turn
  <2>3. ApprovalSound(turn'[s], decided'[s])
    BY <1>1, <2>1, <2>2 DEF ApprovalSound
  <2> QED
    BY <1>1, <1>4, <2>1, <2>2, <2>3
<1> QED
  BY <1>8, <1>9, <1>10, <1>11

-----------------------------------------------------------------------------
(* The steps of the portal and of the gateway. *)

\* The portal touches no session.
LEMMA PortalStepIsSound ==
  ASSUME Inv, Portal, NEW x \in Sockets
  PROVE  Sound(x)'
<1>1. UNCHANGED <<turn, stt, decided, over>> /\ confirmed \subseteq confirmed'
  BY DEF Portal, Connect, StartRecording, SendPcmChunk, StopRecording, Click,
         Disconnect, GiveUp, Receive, PortalClosed, server, history
<1> QED
  BY <1>1, UntouchedIsSound DEF Inv, Untouched

\* All the gateway does to a session is to close its provider, after which it stays sound.
LEMMA GatewayStepIsSound ==
  ASSUME Inv, NEW s \in Sockets, Gateway(s), NEW x \in Sockets
  PROVE  Sound(x)'
<1>1. UNCHANGED <<turn, decided, over, confirmed>>
  BY DEF Gateway, Authenticate, RefuseSocket, OpenSession, OpenFails, RefuseMessage,
         SocketClosed, server, history
<1>2. CASE stt' = stt
  BY <1>1, <1>2, UntouchedIsSound DEF Inv, Untouched
<1>3. CASE stt' # stt
  <2>1. stt' = [stt EXCEPT ![s].open = FALSE]
    BY <1>3 DEF Gateway, Authenticate, RefuseSocket, OpenSession, OpenFails,
               RefuseMessage, SocketClosed, server
  <2>2. stt[x] \in Stt /\ Sound(x)
    BY DEF Inv, TypeOK
  <2>3. stt'[x] = stt[x] \/ stt'[x] = [stt[x] EXCEPT !.open = FALSE]
    BY <2>1 DEF Inv, TypeOK
  <2>4. /\ stt'[x].received = stt[x].received /\ stt'[x].sending = stt[x].sending
        /\ stt'[x].committed = stt[x].committed
        /\ stt'[x].answerable = stt[x].answerable
        /\ stt'[x].open => stt[x].open
    BY <2>2, <2>3 DEF Stt
  <2> QED
    BY <1>1, <2>2, <2>4 DEF Sound, AudioSound, ReplySound, Settled, ApprovalSound
<1> QED
  BY <1>2, <1>3

\* Every confirmation on its way comes from a click.
LEMMA ClicksStayConfirmed == ASSUME Inv, Next PROVE ClicksAreConfirmed'
<1>0. TypeOK /\ ClicksAreConfirmed
  BY DEF Inv
<1>1. ASSUME \A x \in Sockets : up'[x] \subseteq up[x], confirmed \subseteq confirmed'
      PROVE  ClicksAreConfirmed'
  BY <1>0, <1>1 DEF ClicksAreConfirmed
<1>2. ASSUME NEW s \in Sockets, NEW m, Send(s, m), confirmed \subseteq confirmed',
             m.kind = "confirm" => m.id \in confirmed'
      PROVE  ClicksAreConfirmed'
  BY <1>0, <1>2 DEF ClicksAreConfirmed, Send, TypeOK
<1>3. \A s \in Sockets : \A m : Take(s, m) => \A x \in Sockets : up'[x] \subseteq up[x]
  BY <1>0 DEF Take, TypeOK
<1>4. CASE Portal
  <2>w. ws # Absent => ws \in Sockets
    BY <1>0 DEF TypeOK
  <2>1. CASE \E s \in Sockets : Connect(s)
    BY <1>2, <2>1 DEF Connect, history
  <2>2. CASE SendPcmChunk
    BY <1>2, <2>w, <2>2 DEF SendPcmChunk
  <2>3. CASE StopRecording
    BY <1>1, <1>2, <2>w, <2>3 DEF StopRecording
  <2>4. CASE \E kind \in {"confirm", "cancel"} : Click(kind)
    <3>1. PICK kind \in {"confirm", "cancel"} : Click(kind)
      BY <2>4
    <3>2. ws \in Sockets /\ confirmed \subseteq confirmed'
      BY <2>w, <3>1 DEF Click
    <3>3. kind = "confirm" => shown \in confirmed'
      BY <3>1 DEF Click
    <3> QED
      BY <1>2, <3>1, <3>2, <3>3 DEF Click
  <2>5. CASE StartRecording \/ Disconnect \/ GiveUp \/ Receive \/ PortalClosed
    BY <1>1, <2>5
       DEF StartRecording, Disconnect, GiveUp, Receive, PortalClosed, wire, history
  <2> QED
    BY <1>4, <2>1, <2>2, <2>3, <2>4, <2>5 DEF Portal
<1>5. ASSUME NEW s \in Sockets, Gateway(s)
      PROVE  ClicksAreConfirmed'
  <2>1. confirmed' = confirmed
    BY <1>5 DEF Gateway, Authenticate, RefuseSocket, OpenSession, OpenFails,
               RefuseMessage, SocketClosed, history
  <2>2. \A x \in Sockets : up'[x] \subseteq up[x]
    <3>1. CASE Authenticate(s) \/ RefuseMessage(s)
      BY <1>3, <3>1 DEF Authenticate, RefuseMessage
    <3>2. CASE RefuseSocket(s) \/ SocketClosed(s)
      BY <1>0, <3>2 DEF RefuseSocket, SocketClosed, TypeOK
    <3>3. CASE OpenSession(s) \/ OpenFails(s)
      BY <3>3 DEF OpenSession, OpenFails
    <3> QED
      BY <1>5, <3>1, <3>2, <3>3 DEF Gateway
  <2> QED
    BY <1>1, <2>1, <2>2
<1>6. ASSUME NEW s \in Sockets, Session(s)
      PROVE  ClicksAreConfirmed'
  <2>1. confirmed' = confirmed
    BY <1>6 DEF Session, PushAudio, SendChunk, ChunkSent, ChunkRejected, ChunkIgnored,
               EndTurn, EndInput, InputEnded, CommitFails, SttError, SttFinal,
               PlanReply, ReplyDone, ReplyFails, ConfirmAction, Executed,
               CancelAction, ApprovalExpires, ExpiryTimer, Inside, history
  <2>2. \A x \in Sockets : up'[x] \subseteq up[x]
    <3>1. CASE PushAudio(s) \/ EndTurn(s) \/ ConfirmAction(s) \/ CancelAction(s)
      BY <1>3, <3>1 DEF PushAudio, EndTurn, ConfirmAction, CancelAction, Handled
    <3>2. CASE up' = up
      BY <3>2
    <3> QED
      BY <1>6, <3>1, <3>2
         DEF Session, SendChunk, ChunkSent, ChunkRejected, ChunkIgnored,
             EndInput, InputEnded, CommitFails, SttError, SttFinal, PlanReply,
             ReplyDone, ReplyFails, Executed, ApprovalExpires, ExpiryTimer, Inside, wire
  <2> QED
    BY <1>1, <2>1, <2>2
<1> QED
  BY <1>4, <1>5, <1>6 DEF Next

-----------------------------------------------------------------------------
(* The invariant, and what follows from it. *)

\* The invariant holds at the start.
LEMMA InitInv == Init => Inv
<1> SUFFICES ASSUME Init PROVE Inv
  OBVIOUS
<1>1. \A s \in Sockets : turn[s] = NewTurn /\ stt[s] = NewStt /\ decided[s] = <<>>
  BY DEF Init
<1>2. over = {} /\ \A s \in Sockets : up[s] = {}
  BY DEF Init
<1>3. AudioSound(NewTurn, NewStt)
  BY DEF AudioSound, NewTurn, NewStt
<1>4. ReplySound(NewTurn, NewStt) /\ ApprovalSound(NewTurn, <<>>)
  BY DEF ReplySound, ApprovalSound, NewTurn, NewStt
<1>5. ASSUME NEW s \in Sockets
      PROVE  Sound(s)
  <2>1. turn[s] = NewTurn /\ stt[s] = NewStt /\ decided[s] = <<>> /\ s \notin over
    BY <1>1, <1>2
  <2>2. decided[s] # <<"executed">>
    BY <2>1
  <2> QED
    BY <1>3, <1>4, <2>1, <2>2, Zenon DEF Sound
<1> QED
  BY <1>2, <1>5, InitTypes DEF Inv, ClicksAreConfirmed

\* Every step keeps the invariant.
LEMMA NextInv == Inv /\ [Next]_vars => Inv'
<1> SUFFICES ASSUME Inv, [Next]_vars PROVE Inv'
  OBVIOUS
<1>1. TypeOK'
  BY NextTypes DEF Inv
<1>2. CASE UNCHANGED vars
  BY <1>1, <1>2, UntouchedIsSound
     DEF Inv, Untouched, vars, server, history, wire, ClicksAreConfirmed
<1>3. CASE Next
  <2>1. ASSUME NEW x \in Sockets
        PROVE  Sound(x)'
    <3>1. CASE Portal
      BY <3>1, PortalStepIsSound
    <3>2. ASSUME NEW s \in Sockets, Gateway(s)
          PROVE  Sound(x)'
      BY <3>2, GatewayStepIsSound
    <3>3. ASSUME NEW s \in Sockets, Session(s), x # s
          PROVE  Sound(x)'
      BY <3>3, OthersAreUntouched, UntouchedIsSound DEF Inv
    <3>4. ASSUME Session(x)
          PROVE  Sound(x)'
      BY <3>4, AudioStepIsSound, InputStepIsSound, TranscriptStepIsSound,
         ReplyStepIsSound, ApprovalStepIsSound DEF Session
    <3> QED
      BY <1>3, <3>1, <3>2, <3>3, <3>4 DEF Next
  <2> QED
    BY <1>1, <1>3, <2>1, ClicksStayConfirmed DEF Inv
<1> QED
  BY <1>2, <1>3

\* Types, sound sessions and confirmed clicks: the inductive invariant.
THEOREM TurnsAreSound == Spec => []Inv
BY InitInv, NextInv, PTL DEF Spec

\* The variables keep their types: portal, wire, gateway and session.
THEOREM TypeCorrect == Spec => []TypeOK
<1>1. Inv => TypeOK
  BY DEF Inv
<1> QED
  BY <1>1, TurnsAreSound, PTL

\* However confirmations, cancellations and the expiry timer meet, an approval
\* is decided at most once and executed only after its own confirmation.
THEOREM ApprovalsAreDecidedOnce == Spec => []ApprovalIsDecidedOnce
<1>1. Inv => ApprovalIsDecidedOnce
  BY DEF Inv, Sound, ApprovalSound, ApprovalIsDecidedOnce
<1> QED
  BY <1>1, TurnsAreSound, PTL

\* Whatever fails or closes while audio is sent, what is transcribed is the
\* stored audio, whole, in order and once.
THEOREM TranscribedAudioIsWhole == Spec => []CommittedAudioIsWhole
<1>1. Inv => CommittedAudioIsWhole
  BY DEF Inv, Sound, AudioSound, CommittedAudioIsWhole
<1> QED
  BY <1>1, TurnsAreSound, PTL

\* After turn_end no reply starts and no approval is asked for, although
\* provider, queue and model still have callbacks to deliver.
THEOREM TurnEndIsFinal == Spec => NothingAfterTurnEnd
<1> DEFINE Kept(s) == s \in over => /\ turn'[s].assistant = turn[s].assistant
                                    /\ turn'[s].approval => turn[s].approval
<1>1. ASSUME Inv, Next, NEW s \in Sockets, s \in over
      PROVE  Kept(s)
  <2>1. Settled(turn[s], stt[s]) /\ TypeOK /\ turn[s] \in Turn
    BY <1>1 DEF Inv, Sound, TypeOK
  <2>2. turn[s].assistant \notin {"thinking", "speaking"}
    BY <2>1 DEF Settled
  <2>3. CASE turn'[s] = turn[s]
    BY <2>3
  <2>4. CASE Portal \/ \E x \in Sockets : Gateway(x)
    <3>1. turn' = turn
      BY <2>4 DEF Portal, Connect, StartRecording, SendPcmChunk, StopRecording, Click,
         Disconnect, GiveUp, Receive, PortalClosed, Gateway, Authenticate,
         RefuseSocket, OpenSession, OpenFails, RefuseMessage, SocketClosed, server
    <3> QED
      BY <2>3, <3>1
  <2>5. ASSUME NEW x \in Sockets, Session(x), x # s
        PROVE  Kept(s)
    BY <2>1, <2>5, OthersAreUntouched DEF Untouched
  <2>6. ASSUME Session(s)
        PROVE  Kept(s)
    <3>1. ASSUME NEW text \in {"filler", "speech"}, SttFinal(s, text)
          PROVE  Kept(s)
      <4>1. stt[s].open /\ stt[s].committed /\ stt[s].answerable
        BY <3>1 DEF SttFinal
      <4>2. turn[s].assistant = "done"
        BY <2>1, <4>1 DEF Settled
      <4> QED
        BY <1>1, <4>1, <4>2 DEF Inv, Sound, ReplySound
    <3>2. CASE ReplyDone(s) \/ ReplyFails(s) \/ \E d \in BOOLEAN : PlanReply(s, d)
      BY <2>2, <3>2 DEF ReplyDone, ReplyFails, PlanReply
    <3>3. CASE PushAudio(s)
      <4>1. \/ turn' = turn
            \/ \E m \in up[s], loud \in BOOLEAN :
                 turn'[s] = [turn[s] EXCEPT !.chunks = Append(@, m.n), !.heard = @ \/ loud]
        BY <2>1, <3>3, OwnValues DEF PushAudio
      <4> QED
        BY <2>1, <2>3, <4>1 DEF Turn
    <3>4. CASE EndTurn(s) \/ EndInput(s) \/ InputEnded(s) \/ CommitFails(s)
      <4>1. \/ turn' = turn
            \/ \E i \in {"closed", "draining", "committing"} :
                 \/ turn'[s] = [turn[s] EXCEPT !.input = i]
                 \/ turn'[s] = [turn[s] EXCEPT !.ended = TRUE, !.input = i]
        <5>1. CASE EndTurn(s)
          BY <2>1, <5>1, OwnValues DEF EndTurn
        <5>2. CASE EndInput(s) \/ InputEnded(s) \/ CommitFails(s)
          BY <2>1, <5>2, OwnValues DEF EndInput, InputEnded, CommitFails
        <5> QED
          BY <3>4, <5>1, <5>2
      <4> QED
        BY <2>1, <2>3, <4>1 DEF Turn
    <3>7. CASE \/ SendChunk(s) \/ ChunkSent(s) \/ ChunkRejected(s) \/ ChunkIgnored(s)
               \/ SttError(s)
      <4>1. \/ turn' = turn
            \/ turn'[s] = [turn[s] EXCEPT !.pushed = @ + 1]
            \/ turn'[s] = [turn[s] EXCEPT !.failed = TRUE]
            \/ \E f \in BOOLEAN : turn'[s] = [turn[s] EXCEPT !.failed = TRUE, !.finalized = f]
        <5>1. CASE SttError(s)
          BY <2>1, <5>1, OwnValues DEF SttError
        <5>2. CASE SendChunk(s) \/ ChunkSent(s) \/ ChunkRejected(s) \/ ChunkIgnored(s)
          BY <2>1, <5>2, OwnValues DEF SendChunk, ChunkSent, ChunkRejected, ChunkIgnored
        <5> QED
          BY <3>7, <5>1, <5>2
      <4> QED
        BY <2>1, <2>3, <4>1 DEF Turn
    <3>5. CASE ConfirmAction(s) \/ CancelAction(s) \/ ExpiryTimer(s)
      <4>1. \/ turn' = turn
            \/ turn'[s] = [turn[s] EXCEPT !.approval = FALSE]
            \/ turn'[s] = [[turn[s] EXCEPT !.executing = TRUE] EXCEPT !.approval = FALSE]
        BY <2>1, <3>5, OwnValues DEF ConfirmAction, CancelAction, ExpiryTimer
      <4> QED
        BY <2>1, <2>3, <4>1 DEF Turn
    <3>6. CASE Executed(s) \/ ApprovalExpires(s)
      BY <2>1, <3>6, OwnValues DEF Executed, ApprovalExpires, Turn
    <3> QED
      BY <2>6, <3>1, <3>2, <3>3, <3>4, <3>5, <3>6, <3>7 DEF Session
  <2> QED
    BY <1>1, <2>4, <2>5, <2>6 DEF Next
<1>2. Inv /\ [Next]_vars => [\A s \in Sockets : Kept(s)]_vars
  BY <1>1
<1> QED
  BY <1>2, TurnsAreSound, PTL DEF Spec, NothingAfterTurnEnd
=============================================================================
