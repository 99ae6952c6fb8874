------------------------------ MODULE VoiceTurn ------------------------------
(***************************************************************************)
(* A spoken turn between the portal and the API.  The portal opens one     *)
(* WebSocket per turn, streams audio, sends end_of_turn, and shows the     *)
(* approval the server asks for before it switches a device; it closes the *)
(* socket when the server says turn_end.                                   *)
(*                                                                         *)
(*   portal    ws, ready, recording, shown   useVoiceTransport.ts          *)
(*   wire      link, up, down                                              *)
(*   gateway   gate, gone                    voice.gateway.ts              *)
(*   server    sessions, turn, stt           voice-session.service.ts      *)
(*   history   sent, confirmed, decided, over                          *)
(*                                                                         *)
(* The gateway awaits the authentication of every message before it        *)
(* handles it, so messages of one socket are handled in any order, also    *)
(* after the socket has closed: up[s] is a set.  Events to the portal      *)
(* arrive in the order they were sent.  An approval id is a random UUID    *)
(* and a session asks at most once, so the socket names the approval.      *)
(*                                                                         *)
(* The OpenAI session is configured with turn_detection null: a final      *)
(* transcript comes only after the commit of endInput, and so do those of  *)
(* the buffered mode.                                                      *)
(***************************************************************************)
EXTENDS Naturals, Sequences

CONSTANTS
  Sockets,    \* the connections the portal may open
  Absent,     \* no socket, no approval shown
  MaxAudio,   \* bound: chunks recorded on a socket
  MaxEnds,    \* bound: utterances recorded on a socket
  MaxClicks   \* bound: clicks on one approval

ASSUME SocketAssumption == Absent \notin Sockets
ASSUME BoundAssumption ==
  MaxAudio \in Nat /\ MaxEnds \in Nat /\ MaxClicks \in Nat

VARIABLES streaming, ws, ready, recording, shown, link, up, down,
          gate, gone, sessions, turn, stt,
          sent, confirmed, decided, over

portal == <<ws, ready, recording, shown>>
wire == <<link, up, down>>
gateway == <<gate, gone>>
server == <<sessions, turn, stt>>
history == <<sent, confirmed, decided, over>>
vars == <<streaming, portal, wire, gateway, server, history>>

Messages ==
  [kind : {"authenticate"}]
    \cup [kind : {"audio"}, n : Nat]
    \cup [kind : {"end"}, n : Nat]
    \cup [kind : {"confirm", "cancel"}, n : Nat, id : Sockets]
\* A link is ending when the server has closed it and the portal does not know
\* yet, closing when the portal knows.
Links == {"unused", "open", "ending", "closing"}
Events == {"authenticated", "required", "result", "turn_end"}
Decisions == {"executed", "cancelled", "expired"}

\* ActiveVoiceSession.  Streaming sends from the first chunk the speech gate
\* passes; heard says that there was one.
Turn == [chunks : Seq(Nat), heard : BOOLEAN, pushed : Nat,
         failed : BOOLEAN, ended : BOOLEAN, finalized : BOOLEAN,
         input : {"recording", "draining", "committing", "closed"},
         transcript : {"none", "filler", "speech"},
         assistant : {"idle", "thinking", "speaking", "done"},
         approval : BOOLEAN, late : BOOLEAN, executing : BOOLEAN]

\* The speech provider: what reached it, a send that is awaited, whether the
\* input was committed, and whether it can still answer.
Stt == [open : BOOLEAN, received : Seq(Nat), sending : BOOLEAN,
        committed : BOOLEAN, answerable : BOOLEAN]

TypeOK ==
  /\ streaming \in BOOLEAN
  /\ ws \in Sockets \cup {Absent} /\ shown \in Sockets \cup {Absent}
  /\ ready \in BOOLEAN /\ recording \in BOOLEAN
  /\ link \in [Sockets -> Links]
  /\ up \in [Sockets -> SUBSET Messages]
  /\ down \in Seq(Events)
  /\ gate \in [Sockets -> {"waiting", "opening", "open"}]
  /\ gone \in [Sockets -> BOOLEAN]
  /\ sessions \subseteq Sockets
  /\ turn \in [Sockets -> Turn]
  /\ stt \in [Sockets -> Stt]
  /\ sent \in [Sockets -> [audio : Nat, ends : Nat, clicks : Nat]]
  /\ confirmed \subseteq Sockets
  /\ decided \in [Sockets -> Seq(Decisions)]
  /\ over \subseteq Sockets

NewTurn ==
  [chunks |-> <<>>, heard |-> FALSE, pushed |-> 0, failed |-> FALSE,
   ended |-> FALSE, finalized |-> FALSE, input |-> "recording",
   transcript |-> "none", assistant |-> "idle", approval |-> FALSE,
   late |-> FALSE, executing |-> FALSE]
NewStt ==
  [open |-> TRUE, received |-> <<>>, sending |-> FALSE, committed |-> FALSE,
   answerable |-> TRUE]

Init ==
  /\ streaming \in BOOLEAN
  /\ ws = Absent /\ shown = Absent /\ ready = FALSE /\ recording = FALSE
  /\ link = [s \in Sockets |-> "unused"]
  /\ up = [s \in Sockets |-> {}]
  /\ down = <<>>
  /\ gate = [s \in Sockets |-> "waiting"]
  /\ gone = [s \in Sockets |-> FALSE]
  /\ sessions = {}
  /\ turn = [s \in Sockets |-> NewTurn]
  /\ stt = [s \in Sockets |-> NewStt]
  /\ sent = [s \in Sockets |-> [audio |-> 0, ends |-> 0, clicks |-> 0]]
  /\ confirmed = {}
  /\ decided = [s \in Sockets |-> <<>>]
  /\ over = {}

-----------------------------------------------------------------------------
(* The portal. *)

IsOpen(s) == link[s] \in {"open", "ending"}      \* readyState in the browser
Live(s) == ws = s /\ ready /\ IsOpen(s)          \* isVoiceReady
Closing(s) == [link EXCEPT ![s] = "closing"]
Send(s, m) == up' = [up EXCEPT ![s] = @ \cup {m}]
Count(s, field) == sent' = [sent EXCEPT ![s][field] = @ + 1]

\* connectVoice replaces a socket that is closing without waiting for its
\* close event.  The talk button is disabled while an approval is shown, the
\* wake word of the Android shell is not.
Connect(s) ==
  /\ link[s] = "unused"
  /\ ws # Absent => \/ link[ws] = "closing"
                    \/ link[ws] = "ending" /\ down = <<>>
  /\ ws' = s /\ ready' = FALSE
  /\ link' = [link EXCEPT ![s] = "open"]
  /\ Send(s, [kind |-> "authenticate"])
  /\ down' = <<>>
  /\ UNCHANGED <<streaming, recording, shown, gateway, server, history>>

StartRecording ==
  /\ ~recording /\ ws # Absent /\ Live(ws)
  /\ sent[ws].ends < MaxEnds
  /\ recording' = TRUE
  /\ UNCHANGED <<streaming, ws, ready, shown, wire, gateway, server, history>>

SendPcmChunk ==
  /\ recording /\ ws # Absent /\ Live(ws)
  /\ sent[ws].audio < MaxAudio
  /\ Send(ws, [kind |-> "audio", n |-> sent[ws].audio + 1])
  /\ Count(ws, "audio")
  /\ UNCHANGED <<streaming, portal, link, down, gateway, server, confirmed,
                 decided, over>>

\* stopRecording: end_of_turn is sent only on a ready socket.
StopRecording ==
  /\ recording
  /\ recording' = FALSE
  /\ IF ws # Absent /\ Live(ws)
       THEN /\ Send(ws, [kind |-> "end", n |-> sent[ws].ends + 1])
            /\ Count(ws, "ends")
       ELSE UNCHANGED <<up, sent>>
  /\ UNCHANGED <<streaming, ws, ready, shown, link, down, gateway, server,
                 confirmed, decided, over>>

\* A click is not acknowledged: the approval stays shown until its result
\* arrives and can be clicked again.  The expiry the portal checks is a time
\* of the server read on the browser's clock, so it excludes nothing here.
Click(kind) ==
  /\ shown # Absent /\ ws # Absent /\ Live(ws)
  /\ sent[shown].clicks < MaxClicks
  /\ Send(ws, [kind |-> kind, n |-> sent[shown].clicks + 1, id |-> shown])
  /\ Count(shown, "clicks")
  /\ confirmed' = IF kind = "confirm" THEN confirmed \cup {shown} ELSE confirmed
  /\ UNCHANGED <<streaming, portal, link, down, gateway, server, decided,
                 over>>

\* disconnectVoice (sign-out, another endpoint, unmount).
Disconnect ==
  /\ ws # Absent
  /\ ws' = Absent /\ ready' = FALSE /\ shown' = Absent /\ down' = <<>>
  /\ link' = Closing(ws)
  /\ UNCHANGED <<streaming, recording, up, gateway, server, history>>

\* The portal waits 15 s for its authentication and closes the socket.
GiveUp ==
  /\ ws # Absent /\ ~ready /\ IsOpen(ws)
  /\ link' = Closing(ws) /\ down' = <<>>
  /\ UNCHANGED <<streaming, portal, up, gateway, server, history>>

\* The message listener.  turn_end closes the socket and forgets it, but
\* leaves the approval shown.
Receive ==
  /\ ws # Absent /\ down # <<>>
  /\ LET e == Head(down)
         ends == e = "turn_end" /\ ready /\ IsOpen(ws)
     IN /\ ready' = IF e = "authenticated" THEN TRUE
                    ELSE ready /\ ~ends
        /\ shown' = IF ~ready THEN shown
                    ELSE CASE e = "required" -> ws
                           [] e = "result" -> Absent
                           [] OTHER -> shown
        /\ ws' = IF ends THEN Absent ELSE ws
        /\ link' = IF ends THEN Closing(ws) ELSE link
        /\ down' = IF ends THEN <<>> ELSE Tail(down)
  /\ UNCHANGED <<streaming, recording, up, gateway, server, history>>

\* The close listener of the socket in use; that of a socket already given up
\* returns at once.
PortalClosed ==
  /\ ws # Absent /\ link[ws] \in {"ending", "closing"} /\ down = <<>>
  /\ ws' = Absent /\ ready' = FALSE /\ shown' = Absent
  /\ UNCHANGED <<streaming, recording, wire, gateway, server, history>>

-----------------------------------------------------------------------------
(* The gateway. *)

Take(s, m) == m \in up[s] /\ up' = [up EXCEPT ![s] = @ \ {m}]
\* sendToClient
Emit(s, e) == down' = IF link[s] = "open" THEN Append(down, e) ELSE down
CloseSocket(s) == link' = IF link[s] = "open" THEN [link EXCEPT ![s] = "ending"] ELSE link

\* The credentials are good; the session is opened behind an await.
Authenticate(s) ==
  /\ gate[s] = "waiting" /\ Take(s, [kind |-> "authenticate"])
  /\ gate' = [gate EXCEPT ![s] = "opening"]
  /\ UNCHANGED <<streaming, portal, link, down, gone, server, history>>

\* Refused at capacity or for its credentials, or closed by the five-second
\* timer while the credentials are still being checked.
RefuseSocket(s) ==
  /\ gate[s] = "waiting" /\ CloseSocket(s)
  /\ \E left \in {up[s], {}} : up' = [up EXCEPT ![s] = left]
  /\ UNCHANGED <<streaming, portal, down, gateway, server, history>>

\* openSession registers the session whether or not its socket still exists.
OpenSession(s) ==
  /\ gate[s] = "opening"
  /\ gate' = [gate EXCEPT ![s] = "open"]
  /\ sessions' = sessions \cup {s}
  /\ Emit(s, "authenticated")
  /\ UNCHANGED <<streaming, portal, link, up, gone, turn, stt, history>>

\* Only a streaming provider is contacted to create a session.
OpenFails(s) ==
  /\ gate[s] = "opening" /\ streaming
  /\ gate' = [gate EXCEPT ![s] = "open"]
  /\ CloseSocket(s)
  /\ UNCHANGED <<streaming, portal, up, down, gone, server, history>>

\* The access token of the socket has expired, or its user or session ended.
RefuseMessage(s) ==
  /\ gate[s] = "open"
  /\ \E m \in up[s] : Take(s, m)
  /\ CloseSocket(s)
  /\ UNCHANGED <<streaming, portal, down, gateway, server, history>>

\* The close event: closeSession finds no session while it is being opened.
\* A buffered session is opened without waiting for anything.  A message that
\* is still being authenticated will find no session and change nothing.
SocketClosed(s) ==
  /\ link[s] \in {"ending", "closing"} /\ ~gone[s]
  /\ gate[s] = "opening" => streaming
  /\ gone' = [gone EXCEPT ![s] = TRUE]
  /\ sessions' = sessions \ {s}
  /\ stt' = IF s \in sessions THEN [stt EXCEPT ![s].open = FALSE] ELSE stt
  /\ up' = IF gate[s] = "open" THEN [up EXCEPT ![s] = {}] ELSE up
  /\ UNCHANGED <<streaming, portal, link, down, gate, turn, history>>

-----------------------------------------------------------------------------
(* The session: audio to the speech provider. *)

Handled(s, m) == gate[s] = "open" /\ Take(s, m)
Update(s, t) == turn' = [turn EXCEPT ![s] = t]
UpdateStt(s, p) == stt' = [stt EXCEPT ![s] = p]
\* emitTurnEnd
EndTurnEvent(s) ==
  /\ Emit(s, "turn_end")
  /\ over' = over \cup {s}
\* What does not change when the session works without a message.
Inside == <<streaming, portal, up, gateway, sessions, sent, confirmed>>

\* pushAudio.  A chunk that does not fit into VOICE_MAX_AUDIO_BYTES closes the
\* socket; one frame may exceed the smallest limit.  A chunk is loud when the
\* speech gate passes it.
PushAudio(s) ==
  \E m \in up[s], fits \in BOOLEAN, loud \in BOOLEAN :
    LET t == turn[s]
        stores == s \in sessions /\ ~t.ended /\ ~t.failed
    IN /\ m.kind = "audio" /\ Handled(s, m)
       /\ IF stores /\ ~fits THEN CloseSocket(s) ELSE UNCHANGED link
       /\ IF stores /\ fits
            THEN Update(s, [t EXCEPT !.chunks = Append(@, m.n),
                                     !.heard = @ \/ loud])
            ELSE UNCHANGED turn
       /\ UNCHANGED <<streaming, portal, down, gateway, sessions, stt, history>>

\* The sttPushQueue: one loop sends the stored chunks one after the other,
\* while streaming as they come, otherwise when the turn has ended.
Pushing(s) ==
  /\ turn[s].input = "draining" \/ (streaming /\ turn[s].heard)
  /\ ~turn[s].failed /\ turn[s].pushed < Len(turn[s].chunks)

\* Mutant of SendChunk: sends overlap, the count is not advanced yet.
SendChunkAgain(s) ==
  /\ Pushing(s) /\ stt[s].open
  /\ UpdateStt(s, [stt[s] EXCEPT !.sending = TRUE,
                      !.received = Append(@, turn[s].chunks[turn[s].pushed + 1])])
  /\ UNCHANGED <<streaming, portal, wire, gateway, sessions, turn, history>>

SendChunk(s) ==
  /\ Pushing(s) /\ ~stt[s].sending
  /\ stt[s].open
  /\ UpdateStt(s, [stt[s] EXCEPT !.sending = TRUE,
                      !.received = Append(@, turn[s].chunks[turn[s].pushed + 1])])
  /\ UNCHANGED <<streaming, portal, wire, gateway, sessions, turn, history>>

\* The awaited send returns; the count is advanced after the await.
ChunkSent(s) ==
  /\ stt[s].sending
  /\ UpdateStt(s, [stt[s] EXCEPT !.sending = FALSE])
  /\ Update(s, [turn[s] EXCEPT !.pushed = @ + 1])
  /\ UNCHANGED <<streaming, portal, wire, gateway, sessions, history>>

\* A send that is rejected, or refused because the provider is gone, fails
\* the turn (handleVoiceEventError) and closes the provider.  The buffered
\* provider rejects nothing: closed, it ignores what it is given.
ChunkRejected(s) ==
  /\ streaming
  /\ stt[s].sending \/ (Pushing(s) /\ ~stt[s].open)
  /\ UpdateStt(s, [stt[s] EXCEPT !.sending = FALSE, !.open = FALSE])
  /\ Update(s, [turn[s] EXCEPT !.failed = TRUE])
  /\ UNCHANGED <<streaming, portal, wire, gateway, sessions, history>>

ChunkIgnored(s) ==
  /\ ~streaming /\ Pushing(s) /\ ~stt[s].sending /\ ~stt[s].open
  /\ Update(s, [turn[s] EXCEPT !.pushed = @ + 1])
  /\ UNCHANGED <<streaming, portal, wire, gateway, sessions, stt, history>>

\* Mutant of EndTurn: a turn that is dropped is not told to the portal.
EndTurnSilently(s) ==
  \E m \in up[s], passes \in BOOLEAN :
    LET t == turn[s]
        refused == s \notin sessions \/ t.ended \/ t.finalized
        dropped == ~refused /\ (~passes \/ t.failed)
    IN /\ m.kind = "end" /\ Handled(s, m)
       /\ passes => t.heard
       /\ IF refused THEN UNCHANGED turn
          ELSE Update(s, [t EXCEPT !.ended = TRUE,
                          !.input = IF dropped THEN "closed" ELSE "draining"])
       /\ UNCHANGED <<streaming, portal, link, down, gateway, sessions, stt,
                      history>>

\* endTurn up to the first await of endSttInput.  A turn with a loud chunk
\* may still be too quiet as a whole; one without never passes the gate.
EndTurn(s) ==
  \E m \in up[s], passes \in BOOLEAN :
    LET t == turn[s]
        refused == s \notin sessions \/ t.ended \/ t.finalized
        dropped == ~refused /\ (~passes \/ t.failed)
    IN /\ m.kind = "end" /\ Handled(s, m)
       /\ passes => t.heard
       /\ IF refused THEN UNCHANGED turn
          ELSE Update(s, [t EXCEPT !.ended = TRUE,
                          !.input = IF dropped THEN "closed" ELSE "draining"])
       /\ IF dropped THEN EndTurnEvent(s) ELSE UNCHANGED <<down, over>>
       /\ UNCHANGED <<streaming, portal, link, gateway, sessions, stt, sent,
                      confirmed, decided>>

\* After the queue: a failure ends the turn, otherwise the input is ended.
\* A provider that is closed, or was told that before, commits nothing.
EndInput(s) ==
  /\ turn[s].input = "draining" /\ ~stt[s].sending /\ ~Pushing(s)
  /\ Update(s, [turn[s] EXCEPT !.input = IF turn[s].failed THEN "closed" ELSE "committing"])
  /\ IF turn[s].failed
       THEN EndTurnEvent(s) /\ UNCHANGED stt
       ELSE /\ UpdateStt(s, [stt[s] EXCEPT !.committed = stt[s].open])
            /\ UNCHANGED <<down, over>>
  /\ UNCHANGED <<Inside, link, decided>>

\* endInput returns.  The buffered one returns after the reply it awaits.
InputEnded(s) ==
  /\ turn[s].input = "committing"
  /\ ~streaming => /\ ~(stt[s].open /\ stt[s].answerable)
                   /\ turn[s].assistant \notin {"thinking", "speaking"}
  /\ Update(s, [turn[s] EXCEPT !.input = "closed"])
  /\ UNCHANGED <<Inside, link, down, stt, decided, over>>

\* The commit could not be sent, so the provider does not answer it.
CommitFails(s) ==
  /\ streaming /\ turn[s].input = "committing"
  /\ stt[s].committed /\ stt[s].answerable
  /\ UpdateStt(s, [stt[s] EXCEPT !.answerable = FALSE])
  /\ Update(s, [turn[s] EXCEPT !.input = "closed"])
  /\ EndTurnEvent(s)
  /\ UNCHANGED <<Inside, link, decided>>

-----------------------------------------------------------------------------
(* The session: what the speech provider says. *)

\* handleSttFinalCandidate and finalizePendingTranscript: a filler is dropped.
SttFinal(s, text) ==
  /\ stt[s].open /\ stt[s].committed /\ stt[s].answerable
  /\ UpdateStt(s, [stt[s] EXCEPT !.answerable = FALSE])
  /\ IF text = "speech"
       THEN /\ Update(s, [turn[s] EXCEPT !.transcript = text, !.finalized = TRUE,
                                         !.assistant = "thinking"])
            /\ UNCHANGED <<down, over>>
       ELSE Update(s, [turn[s] EXCEPT !.transcript = text]) /\ EndTurnEvent(s)
  /\ UNCHANGED <<Inside, link, decided>>

\* Mutant of SttError: the provider that failed is not closed.
SttErrorKeepsProvider(s) ==
  LET unanswered == turn[s].ended /\ turn[s].transcript # "speech"
  IN /\ s \in sessions /\ stt[s].open /\ ~turn[s].failed
     /\ ~streaming => stt[s].committed /\ stt[s].answerable
     /\ Update(s, [turn[s] EXCEPT !.failed = TRUE,
                                  !.finalized = @ \/ unanswered])
     /\ IF unanswered THEN EndTurnEvent(s) ELSE UNCHANGED <<down, over>>
     /\ UNCHANGED <<Inside, link, stt, decided>>

\* handleSttError: a streaming provider may fail at any time, the buffered
\* one when it transcribes.
SttError(s) ==
  LET unanswered == turn[s].ended /\ turn[s].transcript # "speech"
  IN /\ s \in sessions /\ stt[s].open
     /\ ~streaming => stt[s].committed /\ stt[s].answerable
     /\ UpdateStt(s, [stt[s] EXCEPT !.open = FALSE])
     /\ Update(s, [turn[s] EXCEPT !.failed = TRUE,
                                  !.finalized = @ \/ unanswered])
     /\ IF unanswered THEN EndTurnEvent(s) ELSE UNCHANGED <<down, over>>
     /\ UNCHANGED <<Inside, link, decided>>

-----------------------------------------------------------------------------
(* The session: the reply and the approval. *)

\* A planned device action asks for an approval and is not executed.
PlanReply(s, device) ==
  /\ turn[s].assistant = "thinking"
  /\ Update(s, [turn[s] EXCEPT !.assistant = "speaking", !.approval = device,
                               !.late = FALSE])
  /\ IF device THEN Emit(s, "required") ELSE UNCHANGED down
  /\ UNCHANGED <<Inside, link, stt, decided, over>>

\* The reply is spoken, or the model or the speech synthesis failed: the turn
\* ends either way, the approval stays.
ReplyDone(s) ==
  /\ turn[s].assistant = "speaking"
  /\ Update(s, [turn[s] EXCEPT !.assistant = "done"])
  /\ EndTurnEvent(s)
  /\ UNCHANGED <<Inside, link, stt, decided>>

ReplyFails(s) ==
  /\ turn[s].assistant \in {"thinking", "speaking"}
  /\ Update(s, [turn[s] EXCEPT !.assistant = "done"])
  /\ EndTurnEvent(s)
  /\ UNCHANGED <<Inside, link, stt, decided>>

\* Mutant of Decide: the approval is kept.
DecideAndKeep(s, t, decision) ==
  /\ Update(s, t)
  /\ decided' = [decided EXCEPT ![s] = Append(@, decision)]

Decide(s, t, decision) ==
  /\ Update(s, [t EXCEPT !.approval = FALSE])
  /\ decided' = [decided EXCEPT ![s] = Append(@, decision)]

\* confirmPendingAction: the approval is cleared before the plan is executed.
ConfirmAction(s) ==
  \E m \in up[s] :
    LET t == turn[s]
        valid == s \in sessions /\ t.approval /\ m.id = s
    IN /\ m.kind = "confirm" /\ Handled(s, m)
       /\ CASE ~valid ->
                 UNCHANGED <<turn, decided>>
            [] valid /\ t.late -> Decide(s, t, "expired")
            [] valid /\ ~t.late -> Decide(s, [t EXCEPT !.executing = TRUE], "executed")
       /\ IF s \in sessions /\ ~(valid /\ ~t.late) THEN Emit(s, "result") ELSE UNCHANGED down
       /\ UNCHANGED <<streaming, portal, link, gateway, sessions, stt, sent,
                      confirmed, over>>

\* executePlan has returned or thrown.
Executed(s) ==
  /\ turn[s].executing
  /\ Update(s, [turn[s] EXCEPT !.executing = FALSE])
  /\ Emit(s, "result")
  /\ UNCHANGED <<Inside, link, stt, decided, over>>

\* cancelPendingAction does not look at the expiry.
CancelAction(s) ==
  \E m \in up[s] :
    LET t == turn[s]
        valid == s \in sessions /\ t.approval /\ m.id = s
    IN /\ m.kind = "cancel" /\ Handled(s, m)
       /\ IF valid THEN Decide(s, t, "cancelled") ELSE UNCHANGED <<turn, decided>>
       /\ IF s \in sessions THEN Emit(s, "result") ELSE UNCHANGED down
       /\ UNCHANGED <<streaming, portal, link, gateway, sessions, stt, sent,
                      confirmed, over>>

\* expiresAt passes; its timer fires at that time or later.
ApprovalExpires(s) ==
  /\ turn[s].approval /\ ~turn[s].late
  /\ Update(s, [turn[s] EXCEPT !.late = TRUE])
  /\ UNCHANGED <<Inside, link, down, stt, decided, over>>

ExpiryTimer(s) ==
  /\ turn[s].approval /\ turn[s].late
  /\ Decide(s, turn[s], "expired")
  /\ Emit(s, "result")
  /\ UNCHANGED <<Inside, link, stt, over>>

-----------------------------------------------------------------------------
Portal ==
  \/ \E s \in Sockets : Connect(s)
  \/ StartRecording \/ SendPcmChunk \/ StopRecording \/ Disconnect \/ GiveUp
  \/ \E kind \in {"confirm", "cancel"} : Click(kind)
  \/ Receive \/ PortalClosed

Gateway(s) ==
  \/ Authenticate(s) \/ RefuseSocket(s) \/ OpenSession(s) \/ OpenFails(s)
  \/ RefuseMessage(s) \/ SocketClosed(s)

Session(s) ==
  \/ PushAudio(s) \/ SendChunk(s) \/ ChunkSent(s) \/ ChunkRejected(s)
  \/ ChunkIgnored(s) \/ EndTurn(s) \/ EndInput(s) \/ InputEnded(s)
  \/ CommitFails(s) \/ SttError(s)
  \/ \E text \in {"filler", "speech"} : SttFinal(s, text)
  \/ \E device \in BOOLEAN : PlanReply(s, device)
  \/ ReplyDone(s) \/ ReplyFails(s)
  \/ ConfirmAction(s) \/ Executed(s) \/ CancelAction(s)
  \/ ApprovalExpires(s) \/ ExpiryTimer(s)

Next == Portal \/ \E s \in Sockets : Gateway(s) \/ Session(s)

Spec == Init /\ [][Next]_vars

\* The event loops of the browser and of the API run what is ready; the
\* provider answers a committed input; replies and plans return.  Nothing is
\* assumed of the user, of timers, or of failures.
Fairness ==
  /\ WF_vars(Receive) /\ WF_vars(PortalClosed)
  /\ \A s \in Sockets :
       /\ WF_vars(EndTurn(s) \/ RefuseMessage(s))
       /\ WF_vars(SendChunk(s) \/ ChunkIgnored(s))
       /\ WF_vars(ChunkSent(s) \/ ChunkRejected(s))
       /\ WF_vars(EndInput(s))
       /\ WF_vars(SttError(s) \/ \E text \in {"filler", "speech"} : SttFinal(s, text))
       /\ WF_vars(ReplyFails(s) \/ ReplyDone(s) \/ \E d \in BOOLEAN : PlanReply(s, d))

FairSpec == Spec /\ Fairness

-----------------------------------------------------------------------------
\* An approval is decided at most once, whatever clicks, cancellation and
\* timer do to it, and executed only if the user confirmed that very approval.
ApprovalIsDecidedOnce ==
  \A s \in Sockets :
    /\ Len(decided[s]) <= 1
    /\ decided[s] = <<"executed">> => s \in confirmed

\* The provider gets the stored audio in order and no chunk twice, and what
\* it is asked to transcribe is the whole of it.
CommittedAudioIsWhole ==
  \A s \in Sockets :
    /\ Len(stt[s].received) <= Len(turn[s].chunks)
    /\ \A i \in 1..Len(stt[s].received) : stt[s].received[i] = turn[s].chunks[i]
    /\ stt[s].committed => stt[s].received = turn[s].chunks

\* Once the portal was told that the turn is over, no reply starts and no
\* approval is asked for.
NothingAfterTurnEnd ==
  [][\A s \in Sockets :
       s \in over =>
         /\ turn'[s].assistant = turn[s].assistant
         /\ turn'[s].approval => turn[s].approval]_vars

\* Every utterance the portal sends is settled: its socket is given up, by
\* the turn_end of the session or by a close.
EveryUtteranceSettles ==
  \A s \in Sockets : (ws = s /\ sent[s].ends > 0) ~> ws # s
=============================================================================
