------------------------ MODULE PortalSessionProofs ------------------------
(***************************************************************************)
(* The rows of a session, for any number of requests, sessions and tokens  *)
(* and every interleaving of their transactions.                           *)
(*                                                                         *)
(* A transaction changes only rows it holds and rows nobody knows yet      *)
(* (RowStep), and takes or releases only its own locks (KeepsOthers).  So  *)
(* what another transaction relies on stays true (OthersKeep), and each    *)
(* step is left to show what it does to the rows and to its own request.   *)
(*                                                                         *)
(* The second part shows that the transactions never wait for each other   *)
(* in a circle: what each holds while it waits (Holding), and the circle   *)
(* that this excludes.  The third counts what runs (CountInv) and follows  *)
(* a token from the request that inserted it through the browser           *)
(* (TabInv).  The last shows that every commit is one step of the abstract *)
(* account (Relies, StepImplements).                                       *)
(***************************************************************************)
EXTENDS PortalSession, FiniteSetTheorems, TLAPS

ServerType ==
    /\ version \in Nat
    /\ session \in [Sessions -> SessionRow]
    /\ token \in [Tokens -> TokenRow]
    /\ request \in [Requests -> Request]
    /\ sessionHolder \in [Sessions -> Holders]
    /\ tokenHolder \in [Tokens -> Holders]

\* What the tables say of each other.
TokensInSessions == \A t \in Issued : token[t].session \in Present
ReplacedIsNotCurrent ==
    \A t \in Issued : token[t].from # 0 =>
        token[t].from \in Issued /\ token[token[t].from].status # "current"
OpenedAsVersioned == \A s \in Present : session[s].version = session[s].opened
RowInv ==
    /\ TokensInSessions /\ ReplacedIsNotCurrent /\ TokenIsRotatedOnce
    /\ RevokedHasNoToken /\ OpenedAsVersioned

HeldIsPresent ==
    /\ \A s \in Sessions : sessionHolder[s] # Nobody => s \in Present
    /\ \A t \in Tokens : tokenHolder[t] # Nobody => t \in Issued

\* What a transaction relies on between two of its steps.
InSession(r) == request[r].at \in {"session", "token", "decide"}
RequestInv(r) ==
    /\ InSession(r) => /\ request[r].op \in {"rotate", "logout"}
                       /\ request[r].session \in Present
    /\ InSession(r) /\ request[r].op = "rotate" =>
          /\ request[r].token \in Issued
          /\ token[request[r].token].session = request[r].session
    /\ request[r].at \in {"token", "decide"} =>
          /\ sessionHolder[request[r].session] = r
          /\ request[r].revoked = (session[request[r].session].state = "revoked")
    /\ request[r].at = "token" => request[r].op = "rotate"
    /\ request[r].at = "verify" => request[r].version = request[r].opened
    /\ request[r].at = "sessions" => request[r].left \subseteq Present
    /\ request[r].at = "tokens" =>
          \A t \in Issued :
              /\ token[t].status = "current"
              /\ sessionHolder[token[t].session] = r
              => t \in request[r].left \/ tokenHolder[t] = r

Inv ==
    /\ ServerType /\ RowInv /\ HeldIsPresent
    /\ \A r \in Requests : RequestInv(r)

KeepsOthers(r) ==
    \A q \in Requests \ {r} :
        /\ request'[q] = request[q]
        /\ \A s \in Sessions : sessionHolder'[s] = q <=> sessionHolder[s] = q
        /\ \A t \in Tokens : tokenHolder'[t] = q <=> tokenHolder[t] = q

RowStep(r) ==
    /\ \A s \in Present :
          /\ s \in Present'
          /\ session'[s].state = session[s].state \/ sessionHolder[s] = r
    /\ \A t \in Issued : t \in Issued' /\ token'[t].session = token[t].session
    /\ \A t \in Issued' : token'[t].status = "current" =>
          \/ t \in Issued /\ token[t].status = "current"
          \/ /\ token'[t].session \in Sessions
             /\ sessionHolder[token'[t].session] \in {r, Nobody}

-----------------------------------------------------------------------------
(* What the others rely on stays true *)

\* A step of one request that changes no row held by another leaves what the others rely on.
LEMMA OthersKeep ==
    ASSUME Inv, NEW r \in Requests, KeepsOthers(r), RowStep(r), ServerType'
    PROVE  \A q \in Requests \ {r} : RequestInv(q)'
<1> SUFFICES ASSUME NEW q \in Requests \ {r}
             PROVE  RequestInv(q)'
  OBVIOUS
<1>1. /\ request'[q] = request[q]
      /\ \A s \in Sessions : sessionHolder'[s] = q <=> sessionHolder[s] = q
      /\ \A t \in Tokens : tokenHolder'[t] = q <=> tokenHolder[t] = q
  BY DEF KeepsOthers
<1>2. RequestInv(q)
  BY DEF Inv
<1>3. Present \subseteq Present' /\ Issued \subseteq Issued'
  BY DEF RowStep
<1>4. /\ InSession(q)' <=> InSession(q)
      /\ InSession(q) => /\ request[q].op \in {"rotate", "logout"}
                         /\ request[q].session \in Present'
  BY <1>1, <1>2, <1>3 DEF RequestInv, InSession
<1>5. InSession(q) /\ request[q].op = "rotate" =>
          /\ request[q].token \in Issued'
          /\ token'[request[q].token].session = request[q].session
  BY <1>2, <1>3 DEF RequestInv, RowStep
<1>6. ASSUME request[q].at \in {"token", "decide"}
      PROVE  /\ sessionHolder'[request[q].session] = q
             /\ session'[request[q].session].state = session[request[q].session].state
  <2>1. /\ request[q].session \in Present /\ request[q].session \in Sessions
        /\ sessionHolder[request[q].session] = q
    BY <1>2, <1>6 DEF RequestInv, InSession, Present
  <2> QED
    BY <1>1, <2>1 DEF RowStep
<1>7. ASSUME request[q].at = "tokens", NEW t \in Issued',
             token'[t].status = "current", sessionHolder'[token'[t].session] = q
      PROVE  t \in request[q].left \/ tokenHolder'[t] = q
  <2>1. q # r /\ q # Nobody
    BY SessionAssumption
  <2>2. t \in Tokens
    BY DEF Issued
  <2>3. CASE t \in Issued /\ token[t].status = "current"
    <3>1. token'[t].session = token[t].session /\ token[t].session \in Sessions
      BY <2>3 DEF RowStep, Inv, RowInv, TokensInSessions, Present
    <3>2. sessionHolder[token[t].session] = q
      BY <1>1, <1>7, <3>1
    <3> QED
      BY <1>1, <1>2, <1>7, <2>2, <2>3, <3>2 DEF RequestInv
  <2>4. CASE /\ token'[t].session \in Sessions
             /\ sessionHolder[token'[t].session] \in {r, Nobody}
    BY <1>1, <1>7, <2>1, <2>4
  <2> QED
    BY <1>7, <2>3, <2>4 DEF RowStep
<1>8. /\ request[q].at = "token" => request[q].op = "rotate"
      /\ request[q].at = "verify" => request[q].version = request[q].opened
      /\ request[q].at = "sessions" => request[q].left \subseteq Present'
  BY <1>2, <1>3 DEF RequestInv
<1>9. request[q].at \in {"token", "decide"} =>
          /\ sessionHolder'[request[q].session] = q
          /\ request[q].revoked = (session'[request[q].session].state = "revoked")
  BY <1>2, <1>6 DEF RequestInv
<1> QED
  BY <1>1, <1>4, <1>5, <1>7, <1>8, <1>9 DEF RequestInv

\* A step that leaves the tables alone keeps what they say.
LEMMA RowsKept ==
    ASSUME Inv, NEW r \in Requests, UNCHANGED rows
    PROVE  RowInv' /\ RowStep(r) /\ Present' = Present /\ Issued' = Issued
<1>1. Present' = Present /\ Issued' = Issued
  BY DEF rows, Present, Issued
<1>2. RowStep(r)
  BY <1>1 DEF RowStep, rows
<1>3. RowInv'
  BY <1>1 DEF Inv, RowInv, TokensInSessions, ReplacedIsNotCurrent, TokenIsRotatedOnce,
     RevokedHasNoToken, CurrentOf, OpenedAsVersioned, rows
<1> QED
  BY <1>1, <1>2, <1>3

\* The steps of one request combined.
LEMMA Combine ==
    ASSUME Inv, NEW r \in Requests, KeepsOthers(r), RowStep(r), ServerType',
           RowInv', HeldIsPresent', RequestInv(r)'
    PROVE  Inv'
<1>1. \A q \in Requests \ {r} : RequestInv(q)'
  BY OthersKeep
<1> QED
  BY <1>1 DEF Inv

-----------------------------------------------------------------------------
(* The end of a transaction *)

\* A request that was answered relies on nothing any more.
LEMMA Finished ==
    ASSUME Inv, NEW r \in Requests, NEW result \in {"ok", "invalid", "reused", "failed"},
           NEW t \in Nat, Answer(r, result, t), Release(r)
    PROVE  /\ request' \in [Requests -> Request]
           /\ sessionHolder' \in [Sessions -> Holders]
           /\ tokenHolder' \in [Tokens -> Holders]
           /\ KeepsOthers(r) /\ RequestInv(r)'
           /\ \A s \in Sessions : sessionHolder'[s] # Nobody => sessionHolder[s] # Nobody
           /\ \A k \in Tokens : tokenHolder'[k] # Nobody => tokenHolder[k] # Nobody
<1>1. /\ request \in [Requests -> Request]
      /\ sessionHolder \in [Sessions -> Holders]
      /\ tokenHolder \in [Tokens -> Holders]
  BY DEF Inv, ServerType
<1>2. /\ request' \in [Requests -> Request]
      /\ request'[r].at = "done"
      /\ \A q \in Requests \ {r} : request'[q] = request[q]
  BY <1>1 DEF Answer, Idle, Request
<1>3. /\ sessionHolder' \in [Sessions -> Holders]
      /\ tokenHolder' \in [Tokens -> Holders]
  BY <1>1 DEF Release, Holders
<1>4. KeepsOthers(r)
  BY <1>1, <1>2, SessionAssumption DEF Release, KeepsOthers
<1>5. RequestInv(r)'
  BY <1>2 DEF RequestInv, InSession
<1> QED
  BY <1>1, <1>2, <1>3, <1>4, <1>5 DEF Release

\* The same when the request keeps its locks, as a login does that has none.
LEMMA AnsweredOnly ==
    ASSUME Inv, NEW r \in Requests, NEW new \in Request,
           new.at \in {"idle", "done", "user"},
           request' = [request EXCEPT ![r] = new],
           UNCHANGED <<sessionHolder, tokenHolder>>
    PROVE  /\ request' \in [Requests -> Request]
           /\ KeepsOthers(r) /\ RequestInv(r)'
<1>1. request \in [Requests -> Request]
  BY DEF Inv, ServerType
<1>2. request'[r] = new /\ \A q \in Requests \ {r} : request'[q] = request[q]
  BY <1>1
<1> QED
  BY <1>1, <1>2 DEF RequestInv, InSession, KeepsOthers

-----------------------------------------------------------------------------
(* Steps that change no table *)

\* Records of requests with some fields replaced.
LEMMA RequestUpdated ==
    ASSUME NEW q \in Request, NEW left \in SUBSET Nat, NEW revoked \in BOOLEAN,
           NEW at \in {"token", "decide", "sessions", "tokens"}
    PROVE  /\ [q EXCEPT !.at = at, !.revoked = revoked] \in Request
           /\ [q EXCEPT !.at = at, !.left = left] \in Request
           /\ [q EXCEPT !.left = left] \in Request
<1>1. [q EXCEPT !.at = at, !.revoked = revoked] \in Request
  BY DEF Request
<1>2. [q EXCEPT !.at = at, !.left = left] \in Request
  BY DEF Request
<1>3. [q EXCEPT !.left = left] \in Request
  BY DEF Request
<1> QED
  BY <1>1, <1>2, <1>3

\* A request that begins has locked nothing and read nothing.
LEMMA StartsKeep ==
    ASSUME Inv, NEW r \in Requests, Start(r)
    PROVE  Inv'
<1>0. /\ UNCHANGED <<rows, sessionHolder, tokenHolder>>
      /\ request \in [Requests -> Request] /\ version \in Nat
      /\ token \in [Tokens -> TokenRow]
  BY DEF Start, StartRotate, StartLogin, StartLogout, StartEndAll, locks, Inv, ServerType
<1>1. RowInv' /\ RowStep(r) /\ Present' = Present /\ Issued' = Issued
  BY <1>0, RowsKept
<1>2. HeldIsPresent' /\ RowInv
  BY <1>0, <1>1 DEF Inv, HeldIsPresent
<1>3. ASSUME NEW t \in Tokens, StartRotate(r, t)
      PROVE  ServerType' /\ KeepsOthers(r) /\ RequestInv(r)'
  <2> DEFINE new == [Idle EXCEPT !.op = "rotate", !.at = "session", !.token = t,
                       !.session = token[t].session, !.version = version]
  <2>1. t \in Issued /\ token[t].session \in Present /\ token[t].session \in Nat
    BY <1>0, <1>2, <1>3 DEF StartRotate, RowInv, TokensInSessions, TokenRow, Issued
  <2>2. t \in Nat
    BY SessionAssumption DEF Tokens
  <2>8. new \in Request
    BY <1>0, <2>1, <2>2 DEF Request, Idle
  <2>3. request' = [request EXCEPT ![r] = new]
    BY <1>3 DEF StartRotate
  <2>4. request'[r] = new /\ \A q \in Requests \ {r} : request'[q] = request[q]
    BY <1>0, <2>3
  <2>5. ServerType' /\ KeepsOthers(r)
    BY <1>0, <2>8, <2>3, <2>4 DEF Inv, ServerType, KeepsOthers, rows
  <2>6. /\ new.at = "session" /\ new.op = "rotate" /\ new.token = t
        /\ new.session = token[t].session
    BY DEF Idle
  <2>7. RequestInv(r)'
    BY <1>0, <1>1, <2>1, <2>4, <2>6 DEF RequestInv, InSession, rows
  <2> QED
    BY <2>5, <2>7
<1>4. ASSUME StartLogin(r)
      PROVE  ServerType' /\ KeepsOthers(r) /\ RequestInv(r)'
  <2> DEFINE new == [Idle EXCEPT !.op = "login", !.at = "verify", !.version = version,
                       !.opened = version]
  <2>2. new \in Request /\ new.at = "verify" /\ new.version = new.opened
    BY <1>0 DEF Request, Idle
  <2>3. request' = [request EXCEPT ![r] = new]
    BY <1>4 DEF StartLogin
  <2>4. request'[r] = new /\ \A q \in Requests \ {r} : request'[q] = request[q]
    BY <1>0, <2>3
  <2>5. ServerType' /\ KeepsOthers(r)
    BY <1>0, <2>2, <2>3, <2>4 DEF Inv, ServerType, KeepsOthers, rows
  <2>7. RequestInv(r)'
    BY <2>2, <2>4 DEF RequestInv, InSession
  <2> QED
    BY <2>5, <2>7
<1>5. ASSUME NEW s \in Sessions, StartLogout(r, s)
      PROVE  ServerType' /\ KeepsOthers(r) /\ RequestInv(r)'
  <2> DEFINE new == [Idle EXCEPT !.op = "logout", !.at = "session", !.session = s]
  <2>1. s \in Present
    BY <1>5 DEF StartLogout, Usable
  <2>6. s \in Nat
    BY SessionAssumption DEF Sessions
  <2>2. new \in Request /\ new.at = "session" /\ new.op = "logout" /\ new.session = s
    BY <2>6 DEF Request, Idle
  <2>3. request' = [request EXCEPT ![r] = new]
    BY <1>5 DEF StartLogout
  <2>4. request'[r] = new /\ \A q \in Requests \ {r} : request'[q] = request[q]
    BY <1>0, <2>3
  <2>5. ServerType' /\ KeepsOthers(r)
    BY <1>0, <2>2, <2>3, <2>4 DEF Inv, ServerType, KeepsOthers, rows
  <2>7. RequestInv(r)'
    BY <1>1, <2>1, <2>2, <2>4 DEF RequestInv, InSession
  <2> QED
    BY <2>5, <2>7
<1>6. ASSUME StartEndAll(r)
      PROVE  ServerType' /\ KeepsOthers(r) /\ RequestInv(r)'
  <2>1. /\ [Idle EXCEPT !.op = "endAll", !.at = "user"] \in Request
        /\ [Idle EXCEPT !.op = "endAll", !.at = "user"].at = "user"
    BY DEF Request, Idle
  <2>2. request' \in [Requests -> Request] /\ KeepsOthers(r) /\ RequestInv(r)'
    BY <1>0, <1>6, <2>1, AnsweredOnly DEF StartEndAll
  <2> QED
    BY <1>0, <2>2 DEF Inv, ServerType, rows
<1> QED
  BY <1>1, <1>2, <1>3, <1>4, <1>5, <1>6, Combine DEF Start

\* A request whose COMMIT is unheard stays as it is, but for what it is told.
LEMMA UnheardFails ==
    ASSUME request \in [Requests -> Request], NEW r \in Requests, CommitUnheard(r)
    PROVE  /\ request' \in [Requests -> Request]
           /\ \A q \in Requests \ {r} : request'[q] = request[q]
           /\ request[r].at = "done"
           /\ request'[r] = [request[r] EXCEPT !.result = "failed", !.token = 0]
           /\ request'[r].at = "done" /\ request'[r].op = request[r].op
           /\ request'[r].result = "failed"
           /\ UNCHANGED <<rows, locks, activeLogins, replayed>>
<1>1. /\ request[r].at = "done"
      /\ request' = [request EXCEPT ![r].result = "failed", ![r].token = 0]
      /\ UNCHANGED <<rows, locks, activeLogins, replayed>>
  BY DEF CommitUnheard
<1> DEFINE new == [request[r] EXCEPT !.result = "failed", !.token = 0]
<1>2. new \in Request
  BY DEF Request
<1>3. /\ new.at = request[r].at /\ new.op = request[r].op /\ new.result = "failed"
  BY DEF Request
<1>4. request' = [request EXCEPT ![r] = new]
  BY <1>1
<1> HIDE DEF new
<1>5. /\ request' \in [Requests -> Request] /\ request'[r] = new
      /\ \A q \in Requests \ {r} : request'[q] = request[q]
  BY <1>2, <1>4
<1> QED
  BY <1>1, <1>3, <1>5 DEF new

\* Rolled back, refused, unheard or handed over: nothing but the request ends.
LEMMA EndsKeep ==
    ASSUME Inv, NEW r \in Requests,
           Fail(r) \/ RotateRefused(r) \/ CommitUnheard(r) \/ Respond(r)
    PROVE  Inv'
<1>0. UNCHANGED rows /\ request \in [Requests -> Request]
  BY DEF Fail, RotateRefused, CommitUnheard, Respond, Inv, ServerType
<1>1. RowInv' /\ RowStep(r) /\ Present' = Present /\ Issued' = Issued
  BY <1>0, RowsKept
<1>2. CASE Fail(r) \/ RotateRefused(r)
  <2>1. PICK result \in {"failed", "invalid"} : Answer(r, result, 0) /\ Release(r)
    BY <1>2 DEF Fail, RotateRefused
  <2>2. /\ request' \in [Requests -> Request]
        /\ sessionHolder' \in [Sessions -> Holders]
        /\ tokenHolder' \in [Tokens -> Holders]
        /\ KeepsOthers(r) /\ RequestInv(r)'
        /\ \A s \in Sessions : sessionHolder'[s] # Nobody => sessionHolder[s] # Nobody
        /\ \A t \in Tokens : tokenHolder'[t] # Nobody => tokenHolder[t] # Nobody
    BY <2>1, Finished
  <2>3. ServerType' /\ HeldIsPresent'
    BY <1>0, <1>1, <2>2 DEF Inv, ServerType, HeldIsPresent, rows
  <2> QED
    BY <1>1, <2>2, <2>3, Combine
<1>3. CASE Respond(r)
  <2>1. Idle \in Request /\ Idle.at = "idle"
    BY DEF Idle, Request
  <2>2. request' \in [Requests -> Request] /\ KeepsOthers(r) /\ RequestInv(r)'
    BY <1>3, <2>1, AnsweredOnly DEF Respond, locks
  <2>3. ServerType' /\ HeldIsPresent'
    BY <1>0, <1>1, <1>3, <2>2 DEF Inv, ServerType, HeldIsPresent, rows, Respond, locks
  <2> QED
    BY <1>1, <2>2, <2>3, Combine
<1>4. CASE CommitUnheard(r)
  <2>1. /\ request' \in [Requests -> Request] /\ request'[r].at = "done"
        /\ \A q \in Requests \ {r} : request'[q] = request[q]
        /\ UNCHANGED <<rows, locks, activeLogins, replayed>>
    BY <1>0, <1>4, UnheardFails
  <2>2. KeepsOthers(r) /\ RequestInv(r)'
    BY <2>1 DEF KeepsOthers, RequestInv, InSession, locks
  <2>3. ServerType' /\ HeldIsPresent'
    BY <1>0, <1>1, <2>1 DEF Inv, ServerType, HeldIsPresent, rows, locks
  <2> QED
    BY <1>1, <2>2, <2>3, Combine
<1> QED
  BY <1>2, <1>3, <1>4

\* FOR UPDATE: the row is free, and from now on held by this request only.
LEMMA LocksKeep ==
    ASSUME Inv, NEW r \in Requests, LockSession(r) \/ LockToken(r)
    PROVE  Inv'
<1>0. /\ UNCHANGED rows /\ request \in [Requests -> Request]
      /\ session \in [Sessions -> SessionRow]
      /\ sessionHolder \in [Sessions -> Holders]
      /\ tokenHolder \in [Tokens -> Holders]
      /\ r \in Holders /\ r # Nobody
  BY SessionAssumption DEF LockSession, LockToken, Inv, ServerType, Holders
<1>1. RowInv' /\ RowStep(r) /\ Present' = Present /\ Issued' = Issued
  BY <1>0, RowsKept
<1>2. RequestInv(r) /\ HeldIsPresent
  BY DEF Inv
<1>3. CASE LockSession(r)
  <2> DEFINE s == request[r].session
             at == IF request[r].op = "rotate" THEN "token" ELSE "decide"
             known == session[s].state = "revoked"
  <2>1. /\ request[r].at = "session" /\ s \in Present /\ s \in Sessions
        /\ request[r].op \in {"rotate", "logout"}
    BY <1>2, <1>3 DEF LockSession, RequestInv, InSession, Present
  <2>2. /\ sessionHolder[s] = Nobody
        /\ sessionHolder' = [sessionHolder EXCEPT ![s] = r]
        /\ tokenHolder' = tokenHolder
        /\ request' = [request EXCEPT ![r].at = at, ![r].revoked = known]
    BY <1>3 DEF LockSession
  <2>3. /\ request'[r] = [request[r] EXCEPT !.at = at, !.revoked = known]
        /\ \A q \in Requests \ {r} : request'[q] = request[q]
    BY <1>0, <2>2
  <2>4. at \in {"token", "decide"} /\ known \in BOOLEAN
    OBVIOUS
  <2>5. request'[r] \in Request
    <3>1. at \in {"token", "decide", "sessions", "tokens"} /\ {} \in SUBSET Nat
      BY <2>4
    <3> HIDE DEF at, known
    <3>2. [request[r] EXCEPT !.at = at, !.revoked = known] \in Request
      BY <1>0, <2>4, <3>1, RequestUpdated
    <3> QED
      BY <2>3, <3>2
  <2>6. /\ request'[r].at = at /\ request'[r].revoked = known
        /\ request'[r].op = request[r].op /\ request'[r].session = s
        /\ request'[r].token = request[r].token
    BY <1>0, <2>3 DEF Request
  <2>7. ServerType' /\ KeepsOthers(r) /\ HeldIsPresent'
    <3>1. request' \in [Requests -> Request]
      BY <1>0, <2>2, <2>3, <2>5
    <3>2. ServerType'
      BY <1>0, <2>2, <3>1 DEF Inv, ServerType, rows
    <3>3. KeepsOthers(r)
      BY <1>0, <2>1, <2>2, <2>3, SessionAssumption DEF KeepsOthers
    <3>4. HeldIsPresent'
      BY <1>0, <1>1, <1>2, <2>1, <2>2 DEF HeldIsPresent
    <3> QED
      BY <3>2, <3>3, <3>4
  <2>8. RequestInv(r)'
    <3>1. sessionHolder'[s] = r
      BY <1>0, <2>1, <2>2
    <3>2. request'[r].revoked = (session'[s].state = "revoked")
      BY <1>0, <2>6 DEF rows
    <3> QED
      BY <1>0, <1>1, <1>2, <2>1, <2>4, <2>6, <3>1, <3>2 DEF RequestInv, InSession, rows
  <2> QED
    BY <1>1, <2>7, <2>8, Combine
<1>4. CASE LockToken(r)
  <2> DEFINE t == request[r].token
  <2>1. request[r].at = "token" /\ request[r].op = "rotate" /\ t \in Issued /\ t \in Tokens
    BY <1>2, <1>4 DEF LockToken, RequestInv, InSession, Issued
  <2>2. /\ tokenHolder[t] = Nobody
        /\ tokenHolder' = [tokenHolder EXCEPT ![t] = r]
        /\ sessionHolder' = sessionHolder
        /\ request' = [request EXCEPT ![r].at = "decide"]
    BY <1>4 DEF LockToken
  <2>3. /\ request'[r] = [request[r] EXCEPT !.at = "decide"]
        /\ \A q \in Requests \ {r} : request'[q] = request[q]
    BY <1>0, <2>2
  <2>4. /\ request'[r] \in Request
        /\ request'[r].at = "decide" /\ request'[r].revoked = request[r].revoked
        /\ request'[r].op = request[r].op /\ request'[r].session = request[r].session
        /\ request'[r].token = request[r].token
    BY <1>0, <2>3 DEF Request
  <2>5. request' \in [Requests -> Request]
    BY <1>0, <2>2, <2>3, <2>4
  <2>6. ServerType'
    BY <1>0, <2>2, <2>5 DEF Inv, ServerType, rows
  <2>7. KeepsOthers(r)
    BY <1>0, <2>1, <2>2, <2>3, SessionAssumption DEF KeepsOthers
  <2>8. HeldIsPresent'
    BY <1>0, <1>1, <1>2, <2>1, <2>2 DEF HeldIsPresent
  <2>9. RequestInv(r)'
    BY <1>0, <1>1, <1>2, <2>1, <2>2, <2>4 DEF RequestInv, InSession, rows
  <2> QED
    BY <1>1, <2>6, <2>7, <2>8, <2>9, Combine
<1> QED
  BY <1>3, <1>4

\* The statements of revokeAll and recoverPassword before their commit.
LEMMA StatementsKeep ==
    ASSUME Inv, NEW r \in Requests,
           \/ LockUser(r) \/ SelectTokens(r)
           \/ \E s \in Sessions : LockEachSession(r, s)
           \/ \E t \in Tokens : LockEachToken(r, t)
    PROVE  Inv'
<1>0. /\ UNCHANGED rows /\ request \in [Requests -> Request]
      /\ sessionHolder \in [Sessions -> Holders]
      /\ tokenHolder \in [Tokens -> Holders]
      /\ r \in Holders /\ r # Nobody
  BY SessionAssumption DEF LockUser, SelectTokens, LockEachSession, LockEachToken,
     Inv, ServerType, Holders
<1>1. RowInv' /\ RowStep(r) /\ Present' = Present /\ Issued' = Issued
  BY <1>0, RowsKept
<1>2. RequestInv(r) /\ HeldIsPresent
  BY DEF Inv
<1>3. Present \in SUBSET Nat /\ Issued \in SUBSET Nat
  BY SessionAssumption DEF Present, Issued, Sessions, Tokens
<1>4. ASSUME NEW at \in {"sessions", "tokens"}, NEW left \in SUBSET Nat,
             request' = [request EXCEPT ![r].at = at, ![r].left = left]
      PROVE  /\ request' \in [Requests -> Request]
             /\ request'[r].at = at /\ request'[r].left = left
             /\ \A q \in Requests \ {r} : request'[q] = request[q]
  <2>1. [request[r] EXCEPT !.at = at, !.left = left] \in Request
    BY <1>0, RequestUpdated
  <2>2. /\ request'[r] = [request[r] EXCEPT !.at = at, !.left = left]
        /\ \A q \in Requests \ {r} : request'[q] = request[q]
    BY <1>0, <1>4
  <2>3. request' \in [Requests -> Request]
    BY <1>0, <1>4, <2>1, <2>2
  <2> QED
    BY <1>0, <2>2, <2>3 DEF Request
<1>9. ASSUME NEW left \in SUBSET Nat, request' = [request EXCEPT ![r].left = left]
      PROVE  /\ request' \in [Requests -> Request]
             /\ request'[r].at = request[r].at /\ request'[r].left = left
             /\ \A q \in Requests \ {r} : request'[q] = request[q]
  <2>1. [request[r] EXCEPT !.left = left] \in Request
    BY <1>0, RequestUpdated
  <2>2. /\ request'[r] = [request[r] EXCEPT !.left = left]
        /\ \A q \in Requests \ {r} : request'[q] = request[q]
    BY <1>0, <1>9
  <2>3. request' \in [Requests -> Request]
    BY <1>0, <1>9, <2>1, <2>2
  <2> QED
    BY <1>0, <2>2, <2>3 DEF Request
<1>5. CASE LockUser(r)
  <2>1. /\ request' = [request EXCEPT ![r].at = "sessions", ![r].left = Present]
        /\ UNCHANGED <<sessionHolder, tokenHolder>>
    BY <1>5 DEF LockUser
  <2>2. /\ request' \in [Requests -> Request]
        /\ request'[r].at = "sessions" /\ request'[r].left = Present
        /\ \A q \in Requests \ {r} : request'[q] = request[q]
    BY <1>3, <1>4, <2>1
  <2>3. ServerType' /\ KeepsOthers(r) /\ HeldIsPresent'
    BY <1>0, <1>1, <1>2, <2>1, <2>2 DEF Inv, ServerType, KeepsOthers, HeldIsPresent, rows
  <2>4. RequestInv(r)'
    BY <1>1, <2>2 DEF RequestInv, InSession
  <2> QED
    BY <1>1, <2>3, <2>4, Combine
<1>6. CASE SelectTokens(r)
  <2> DEFINE left == {t \in Issued : token[t].status = "current"}
  <2>1. /\ request' = [request EXCEPT ![r].at = "tokens", ![r].left = left]
        /\ UNCHANGED <<sessionHolder, tokenHolder>>
    BY <1>6 DEF SelectTokens, locks
  <2>2. /\ request' \in [Requests -> Request]
        /\ request'[r].at = "tokens" /\ request'[r].left = left
        /\ \A q \in Requests \ {r} : request'[q] = request[q]
    <3>1. left \in SUBSET Nat
      BY <1>3
    <3> QED
      BY <1>4, <2>1, <3>1
  <2>3. ServerType' /\ KeepsOthers(r) /\ HeldIsPresent'
    BY <1>0, <1>1, <1>2, <2>1, <2>2 DEF Inv, ServerType, KeepsOthers, HeldIsPresent, rows
  <2>4. RequestInv(r)'
    BY <1>0, <1>1, <2>2 DEF RequestInv, InSession, rows
  <2> QED
    BY <1>1, <2>3, <2>4, Combine
<1>7. ASSUME NEW s \in Sessions, LockEachSession(r, s)
      PROVE  Inv'
  <2> DEFINE left == request[r].left \ {s}
  <2>0. /\ request[r].at = "sessions" /\ s \in Present
        /\ request[r].left \subseteq Present /\ left \in SUBSET Nat
    BY <1>2, <1>3, <1>7 DEF LockEachSession, RequestInv
  <2>1. /\ request' = [request EXCEPT ![r].left = left]
        /\ sessionHolder[s] = Nobody
        /\ sessionHolder' = [sessionHolder EXCEPT ![s] = r]
        /\ tokenHolder' = tokenHolder
    BY <1>7 DEF LockEachSession
  <2>2. /\ request' \in [Requests -> Request]
        /\ request'[r].at = "sessions" /\ request'[r].left = left
        /\ \A q \in Requests \ {r} : request'[q] = request[q]
    BY <1>9, <2>0, <2>1
  <2>3. ServerType' /\ HeldIsPresent'
    BY <1>0, <1>1, <1>2, <2>0, <2>1, <2>2 DEF Inv, ServerType, HeldIsPresent, rows
  <2>4. KeepsOthers(r)
    BY <1>0, <2>1, <2>2, SessionAssumption DEF KeepsOthers
  <2>5. RequestInv(r)'
    BY <1>1, <2>0, <2>2 DEF RequestInv, InSession
  <2> QED
    BY <1>1, <2>3, <2>4, <2>5, Combine
<1>8. ASSUME NEW t \in Tokens, LockEachToken(r, t)
      PROVE  Inv'
  <2> DEFINE left == request[r].left \ {t}
  <2>0. request[r].at = "tokens" /\ left \in SUBSET Nat
    BY <1>0, <1>8 DEF LockEachToken, Request
  <2>1. /\ request' = [request EXCEPT ![r].left = left]
        /\ sessionHolder' = sessionHolder
    BY <1>8 DEF LockEachToken
  <2>2. /\ request' \in [Requests -> Request]
        /\ request'[r].at = "tokens" /\ request'[r].left = left
        /\ \A q \in Requests \ {r} : request'[q] = request[q]
    BY <1>9, <2>0, <2>1
  <2>3. /\ tokenHolder[t] = Nobody
        /\ tokenHolder' \in [Tokens -> Holders]
        /\ \A u \in Tokens \ {t} : tokenHolder'[u] = tokenHolder[u]
        /\ tokenHolder'[t] \in {r, Nobody}
        /\ token[t].status = "current" => tokenHolder'[t] = r
        /\ tokenHolder'[t] # Nobody => t \in Issued
    BY <1>0, <1>8 DEF LockEachToken, Issued
  <2>4. ServerType' /\ HeldIsPresent'
    BY <1>0, <1>1, <1>2, <2>1, <2>2, <2>3 DEF Inv, ServerType, HeldIsPresent, rows
  <2>5. KeepsOthers(r)
    BY <1>0, <2>1, <2>2, <2>3, SessionAssumption DEF KeepsOthers
  <2>6. ASSUME NEW u \in Issued, token[u].status = "current",
               sessionHolder[token[u].session] = r
        PROVE  u \in left \/ tokenHolder'[u] = r
    BY <1>2, <2>0, <2>3, <2>6 DEF RequestInv, Issued
  <2>7. RequestInv(r)'
    BY <1>0, <1>1, <2>1, <2>2, <2>6 DEF RequestInv, InSession, rows
  <2> QED
    BY <1>1, <2>4, <2>5, <2>7, Combine
<1> QED
  BY <1>5, <1>6, <1>7, <1>8

-----------------------------------------------------------------------------
(* Commits that revoke *)

\* What TokensRevoked leaves, for tokens all of which are current.
LEMMA Revoking ==
    ASSUME ServerType, NEW ts \in SUBSET Issued, token' = TokensRevoked(ts)
    PROVE  /\ token' \in [Tokens -> TokenRow] /\ Issued' = Issued
           /\ \A t \in Tokens : /\ token'[t].session = token[t].session
                               /\ token'[t].from = token[t].from
           /\ \A t \in Issued :
                 token'[t].status = IF t \in ts THEN "revoked" ELSE token[t].status
<1>1. token \in [Tokens -> TokenRow] /\ Issued \subseteq Tokens
  BY DEF ServerType, Issued
<1>2. \A t \in Tokens :
          /\ token'[t] = IF t \in ts THEN [token[t] EXCEPT !.status = "revoked"] ELSE token[t]
          /\ token'[t] \in TokenRow
  BY <1>1 DEF TokensRevoked, TokenRow
<1>3. token' \in [Tokens -> TokenRow]
  BY <1>1, <1>2 DEF TokensRevoked
<1>4. ASSUME NEW t \in Tokens
      PROVE  /\ token'[t].session = token[t].session /\ token'[t].from = token[t].from
             /\ token'[t].status = IF t \in ts THEN "revoked" ELSE token[t].status
  <2>1. CASE t \in ts
    <3>1. token'[t] = [token[t] EXCEPT !.status = "revoked"] /\ token[t] \in TokenRow
      BY <1>1, <1>2, <2>1
    <3> QED
      BY <2>1, <3>1 DEF TokenRow
  <2>2. CASE t \notin ts
    BY <1>2, <2>2
  <2> QED
    BY <2>1, <2>2
<1>5. Issued' = Issued
  BY <1>4 DEF Issued
<1> QED
  BY <1>1, <1>3, <1>4, <1>5

\* Sessions are revoked together with every current token they have.
LEMMA RevokingRows ==
    ASSUME Inv, NEW r \in Requests,
           NEW ss \in SUBSET Present, NEW ts \in SUBSET Issued,
           \A s \in ss : sessionHolder[s] = r,
           \A s \in ss : CurrentOf(s) \subseteq ts,
           session' \in [Sessions -> SessionRow],
           \A s \in Sessions : session'[s] =
               IF s \in ss THEN [session[s] EXCEPT !.state = "revoked"] ELSE session[s],
           token' = TokensRevoked(ts)
    PROVE  /\ RowInv' /\ RowStep(r) /\ Present' = Present /\ Issued' = Issued
           /\ token' \in [Tokens -> TokenRow]
<1>1. /\ ServerType /\ RowInv
      /\ session \in [Sessions -> SessionRow] /\ token \in [Tokens -> TokenRow]
      /\ Present \subseteq Sessions /\ Issued \subseteq Tokens
  BY DEF Inv, ServerType, Present, Issued
<1>2. /\ token' \in [Tokens -> TokenRow] /\ Issued' = Issued
      /\ \A t \in Tokens : /\ token'[t].session = token[t].session
                          /\ token'[t].from = token[t].from
      /\ \A t \in Issued :
            token'[t].status = IF t \in ts THEN "revoked" ELSE token[t].status
  BY <1>1, Revoking
<1>3. \A s \in Sessions :
          /\ session'[s].version = session[s].version
          /\ session'[s].opened = session[s].opened
          /\ session'[s].state = IF s \in ss THEN "revoked" ELSE session[s].state
  BY <1>1 DEF SessionRow
<1>4. Present' = Present
  BY <1>3 DEF Present
<1>5. TokensInSessions'
  BY <1>1, <1>2, <1>4 DEF RowInv, TokensInSessions
<1>6. ReplacedIsNotCurrent'
  BY <1>1, <1>2 DEF RowInv, ReplacedIsNotCurrent
<1>7. TokenIsRotatedOnce'
  BY <1>1, <1>2 DEF RowInv, TokenIsRotatedOnce
<1>8. OpenedAsVersioned'
  BY <1>1, <1>3, <1>4 DEF RowInv, OpenedAsVersioned
<1>9. ASSUME NEW s \in Present, session'[s].state = "revoked", NEW t \in Issued,
             token'[t].session = s, token'[t].status = "current"
      PROVE  FALSE
  <2>1. t \notin ts /\ t \in CurrentOf(s)
    BY <1>1, <1>2, <1>9 DEF CurrentOf
  <2>2. s \notin ss /\ session[s].state = "revoked"
    BY <1>1, <1>3, <1>9, <2>1
  <2> QED
    BY <1>1, <2>1, <2>2 DEF RowInv, RevokedHasNoToken
<1>10. RevokedHasNoToken'
  BY <1>2, <1>4, <1>9 DEF RevokedHasNoToken, CurrentOf
<1>11. RowStep(r)
  BY <1>1, <1>2, <1>3, <1>4 DEF RowStep
<1> QED
  BY <1>2, <1>4, <1>5, <1>6, <1>7, <1>8, <1>10, <1>11 DEF RowInv

\* The commit of a transaction that revokes.
LEMMA RevokesKeep ==
    ASSUME Inv, NEW r \in Requests,
           RotateReplay(r) \/ RevokeSession(r) \/ EndAll(r)
    PROVE  Inv'
<1>1. /\ ServerType /\ RequestInv(r) /\ HeldIsPresent
      /\ session \in [Sessions -> SessionRow] /\ version \in Nat
      /\ r # Nobody
  BY SessionAssumption DEF Inv, ServerType
<1>2. PICK result \in {"ok", "reused"} : Answer(r, result, 0) /\ Release(r)
  BY DEF RotateReplay, RevokeSession, EndAll
<1>3. /\ request' \in [Requests -> Request]
      /\ sessionHolder' \in [Sessions -> Holders]
      /\ tokenHolder' \in [Tokens -> Holders]
      /\ KeepsOthers(r) /\ RequestInv(r)'
      /\ \A s \in Sessions : sessionHolder'[s] # Nobody => sessionHolder[s] # Nobody
      /\ \A t \in Tokens : tokenHolder'[t] # Nobody => tokenHolder[t] # Nobody
  BY <1>2, Finished
<1>4. version' \in Nat
  BY <1>1 DEF RotateReplay, RevokeSession, EndAll
<1>5. ASSUME NEW ss \in SUBSET Present, NEW ts \in SUBSET Issued,
             \A s \in ss : sessionHolder[s] = r,
             \A s \in ss : CurrentOf(s) \subseteq ts,
             session' \in [Sessions -> SessionRow],
             \A s \in Sessions : session'[s] =
                 IF s \in ss THEN [session[s] EXCEPT !.state = "revoked"] ELSE session[s],
             token' = TokensRevoked(ts)
      PROVE  Inv'
  <2>1. /\ RowInv' /\ RowStep(r) /\ Present' = Present /\ Issued' = Issued
        /\ token' \in [Tokens -> TokenRow]
    BY <1>5, RevokingRows
  <2>2. ServerType' /\ HeldIsPresent'
    BY <1>1, <1>3, <1>4, <1>5, <2>1 DEF ServerType, HeldIsPresent
  <2> QED
    BY <1>3, <2>1, <2>2, Combine
<1>6. CASE RotateReplay(r) \/ RevokeSession(r)
  <2> DEFINE s == request[r].session
  <2>1. request[r].at = "decide" /\ s \in Present /\ s \in Sessions /\ sessionHolder[s] = r
    BY <1>1, <1>6 DEF RotateReplay, RevokeSession, RequestInv, InSession, Present
  <2>2. /\ session' = [session EXCEPT ![s].state = "revoked"]
        /\ token' = TokensRevoked(CurrentOf(s))
    BY <1>6 DEF RotateReplay, RevokeSession
  <2>3. /\ session' \in [Sessions -> SessionRow]
        /\ \A u \in Sessions : session'[u] =
              IF u \in {s} THEN [session[u] EXCEPT !.state = "revoked"] ELSE session[u]
    BY <1>1, <2>1, <2>2 DEF SessionRow
  <2>4. CurrentOf(s) \in SUBSET Issued /\ {s} \in SUBSET Present
    BY <2>1 DEF CurrentOf
  <2> HIDE DEF s
  <2>5. /\ \A u \in {s} : sessionHolder[u] = r
        /\ \A u \in {s} : CurrentOf(u) \subseteq CurrentOf(s)
    BY <2>1
  <2> QED
    BY <1>5, <2>2, <2>3, <2>4, <2>5
<1>7. CASE EndAll(r)
  <2> DEFINE ss == {s \in Sessions : sessionHolder[s] = r}
             held == {t \in Tokens : tokenHolder[t] = r}
             ts == {t \in Issued : tokenHolder[t] = r}
  <2>1. request[r].at = "tokens" /\ request[r].left = {}
    BY <1>7 DEF EndAll
  <2>2. ss \in SUBSET Present
    BY <1>1 DEF HeldIsPresent
  <2>3. /\ session' \in [Sessions -> SessionRow]
        /\ \A s \in Sessions : session'[s] =
              IF s \in ss THEN [session[s] EXCEPT !.state = "revoked"] ELSE session[s]
    BY <1>1, <1>7 DEF EndAll, SessionRow
  <2>4. \A s \in ss : CurrentOf(s) \subseteq ts
    BY <1>1, <2>1 DEF RequestInv, CurrentOf
  <2>5. token' = TokensRevoked(ts)
    <3>1. held = ts
      BY <1>1 DEF HeldIsPresent, Issued
    <3>2. token' = TokensRevoked(held)
      BY <1>7 DEF EndAll
    <3> QED
      BY <3>1, <3>2
  <2>6. ts \in SUBSET Issued /\ \A s \in ss : sessionHolder[s] = r
    OBVIOUS
  <2> HIDE DEF ss, ts
  <2> QED
    BY <1>5, <2>2, <2>3, <2>4, <2>5, <2>6
<1> QED
  BY <1>6, <1>7

-----------------------------------------------------------------------------
(* Commits that insert *)

\* A current token is inserted into an open session, while the tokens it
\* makes used are all the current ones that session had.
LEMMA InsertingRows ==
    ASSUME Inv, NEW next \in Tokens \ Issued, NEW row \in TokenRow,
           NEW gone \in SUBSET Issued, row.status = "current",
           token'[next] = row,
           \A u \in Tokens \ {next} :
               /\ token'[u].session = token[u].session /\ token'[u].from = token[u].from
               /\ token'[u].status = IF u \in gone THEN "used" ELSE token[u].status,
           row.from # 0 => row.from \in gone /\ token[row.from].status = "current",
           \A u \in Issued :
               token[u].session = row.session /\ token[u].status = "current" => u \in gone,
           Present' = Present \cup {row.session}, session'[row.session].state = "open",
           \A s \in Present : session'[s].state = session[s].state,
           \A s \in Present' : session'[s].version = session'[s].opened
    PROVE  RowInv' /\ Issued' = Issued \cup {next}
<1>1. /\ RowInv /\ Issued \subseteq Tokens /\ Issued' \subseteq Tokens
  BY DEF Inv, Issued
<1>2. Issued' = Issued \cup {next}
  BY DEF Issued
<1>3. TokensInSessions'
  BY <1>1, <1>2 DEF RowInv, TokensInSessions
<1>4. ASSUME NEW u \in Issued', token'[u].from # 0
      PROVE  token'[u].from \in Issued' /\ token'[token'[u].from].status # "current"
  <2>1. CASE u = next
    BY <1>1, <1>2, <1>4, <2>1
  <2>2. CASE u # next
    <3>1. /\ token'[u].from = token[u].from /\ token[u].from \in Issued
          /\ token[token[u].from].status # "current"
      BY <1>1, <1>2, <1>4, <2>2 DEF RowInv, ReplacedIsNotCurrent
    <3> QED
      BY <1>1, <1>2, <3>1
  <2> QED
    BY <2>1, <2>2
<1>5. ReplacedIsNotCurrent'
  BY <1>4 DEF ReplacedIsNotCurrent
<1>6. ASSUME NEW u \in Issued, row.from # 0
      PROVE  token[u].from # row.from
  BY <1>1, <1>6 DEF RowInv, ReplacedIsNotCurrent
<1>7. ASSUME NEW u \in Issued, token[u].session = row.session
      PROVE  token'[u].status # "current"
  BY <1>1, <1>7
<1>8. TokenIsRotatedOnce'
  <2>1. ASSUME NEW t \in Issued', NEW u \in Issued',
               token'[t].from = token'[u].from, token'[t].from # 0
        PROVE  t = u
    <3>1. CASE t = next \/ u = next
      BY <1>1, <1>2, <1>6, <2>1, <3>1
    <3>2. CASE t # next /\ u # next
      BY <1>1, <1>2, <2>1, <3>2 DEF RowInv, TokenIsRotatedOnce
    <3> QED
      BY <3>1, <3>2
  <2>2. ASSUME NEW t \in Issued', NEW u \in Issued',
               token'[t].session = token'[u].session,
               token'[t].status = "current", token'[u].status = "current"
        PROVE  t = u
    <3>1. CASE t = next \/ u = next
      BY <1>1, <1>2, <1>7, <2>2, <3>1
    <3>2. CASE t # next /\ u # next
      BY <1>1, <1>2, <2>2, <3>2 DEF RowInv, TokenIsRotatedOnce
    <3> QED
      BY <3>1, <3>2
  <2> QED
    BY <2>1, <2>2 DEF TokenIsRotatedOnce
<1>9. ASSUME NEW s \in Present', session'[s].state = "revoked", NEW u \in Issued',
             token'[u].session = s, token'[u].status = "current"
      PROVE  FALSE
  <2>1. s \in Present /\ session[s].state = "revoked" /\ s # row.session
    BY <1>9
  <2>2. /\ u \in Issued /\ token[u].session = s /\ token[u].status = "current"
    BY <1>1, <1>2, <1>9, <2>1
  <2> QED
    BY <1>1, <2>1, <2>2 DEF RowInv, RevokedHasNoToken, CurrentOf
<1>10. RevokedHasNoToken'
  BY <1>9 DEF RevokedHasNoToken, CurrentOf
<1>11. OpenedAsVersioned'
  BY DEF OpenedAsVersioned
<1> QED
  BY <1>2, <1>3, <1>5, <1>8, <1>10, <1>11 DEF RowInv

\* The rotation holds its session, which is not revoked, and its token, which
\* is the only current one of that session.
LEMMA RotateKeeps ==
    ASSUME Inv, NEW r \in Requests, NEW next \in Tokens, Rotate(r, next)
    PROVE  Inv'
<1> DEFINE s == request[r].session
           t == request[r].token
           row == [session |-> s, status |-> "current", from |-> t]
<1>1. /\ ServerType /\ RowInv /\ RequestInv(r) /\ HeldIsPresent
      /\ session \in [Sessions -> SessionRow] /\ token \in [Tokens -> TokenRow]
      /\ r # Nobody /\ Issued \subseteq Tokens /\ Present \subseteq Sessions
  BY SessionAssumption DEF Inv, ServerType, Issued, Present
<1>2. /\ request[r].at = "decide" /\ request[r].op = "rotate"
      /\ MayRotate(r) /\ next \in Tokens \ Issued
      /\ token' = [token EXCEPT ![t].status = "used", ![next] = row]
      /\ Answer(r, "ok", next) /\ Release(r)
      /\ version' = version /\ session' = session
  BY DEF Rotate
<1>3. /\ t \in Issued /\ token[t].session = s /\ s \in Present
      /\ sessionHolder[s] = r /\ request[r].revoked = (session[s].state = "revoked")
  BY <1>1, <1>2 DEF RequestInv, InSession
<1>4. token[t].status = "current" /\ session[s].state = "open"
  <2>1. token[t].status = "current" /\ ~request[r].revoked
    BY <1>2 DEF MayRotate
  <2>2. session[s].state \in {"absent", "open", "revoked"}
    BY <1>1, <1>3 DEF SessionRow
  <2> QED
    BY <1>3, <2>1, <2>2 DEF Present
<1>5. next \in Nat /\ t \in Nat /\ s \in Nat /\ t # next /\ t \in Tokens
  BY <1>1, <1>2, <1>3, SessionAssumption DEF Tokens, Sessions
<1>6. row \in TokenRow /\ row.status = "current" /\ row.session = s /\ row.from = t
  BY <1>5 DEF TokenRow
<1> HIDE DEF row, s, t
<1>7. /\ token'[next] = row
      /\ token'[t] = [token[t] EXCEPT !.status = "used"]
      /\ \A u \in Tokens \ {t, next} : token'[u] = token[u]
  BY <1>1, <1>2, <1>5
<1>8. /\ token'[t].session = token[t].session /\ token'[t].from = token[t].from
      /\ token'[t].status = "used" /\ token'[t] \in TokenRow
  BY <1>1, <1>5, <1>7 DEF TokenRow
<1>9. token' \in [Tokens -> TokenRow]
  BY <1>1, <1>2, <1>6, <1>7, <1>8
<1>10. /\ \A u \in Tokens \ {next} :
             /\ token'[u].session = token[u].session /\ token'[u].from = token[u].from
             /\ token'[u].status = IF u \in {t} THEN "used" ELSE token[u].status
  BY <1>7, <1>8
<1>11. Present' = Present /\ Present' = Present \cup {row.session}
  BY <1>2, <1>3, <1>6 DEF Present
<1>12. RowInv' /\ Issued' = Issued \cup {next}
  <2> DEFINE gone == {t}
  <2>1. \A u \in Issued :
            token[u].session = row.session /\ token[u].status = "current" => u \in gone
    BY <1>1, <1>3, <1>4, <1>6 DEF RowInv, TokenIsRotatedOnce
  <2>2. \A x \in Present' : session'[x].version = session'[x].opened
    BY <1>1, <1>2, <1>11 DEF RowInv, OpenedAsVersioned
  <2>3. session'[row.session].state = "open"
    BY <1>2, <1>4, <1>6
  <2>4. gone \in SUBSET Issued /\ row.from \in gone /\ token[row.from].status = "current"
    BY <1>3, <1>4, <1>6
  <2>5. \A x \in Present : session'[x].state = session[x].state
    BY <1>2
  <2>6. /\ next \in Tokens \ Issued /\ token'[next] = row
        /\ row \in TokenRow /\ row.status = "current"
        /\ Present' = Present \cup {row.session}
    BY <1>2, <1>6, <1>7, <1>11
  <2>7. gone \in SUBSET Issued /\ (row.from # 0 =>
            row.from \in gone /\ token[row.from].status = "current")
    BY <2>4
  <2>8. \A u \in Tokens \ {next} :
            /\ token'[u].session = token[u].session /\ token'[u].from = token[u].from
            /\ token'[u].status = IF u \in gone THEN "used" ELSE token[u].status
    BY <1>10
  <2> HIDE DEF gone
  <2> QED
    BY <2>1, <2>2, <2>3, <2>5, <2>6, <2>7, <2>8, InsertingRows
<1>13. RowStep(r)
  <2>1. \A u \in Issued' : token'[u].status = "current" =>
            \/ u \in Issued /\ token[u].status = "current"
            \/ token'[u].session = s
    BY <1>1, <1>6, <1>7, <1>8, <1>12
  <2>2. \A u \in Issued : u \in Issued' /\ token'[u].session = token[u].session
    BY <1>1, <1>2, <1>10, <1>12
  <2> QED
    BY <1>1, <1>2, <1>3, <1>11, <2>1, <2>2 DEF RowStep
<1>14. /\ request' \in [Requests -> Request]
       /\ sessionHolder' \in [Sessions -> Holders]
       /\ tokenHolder' \in [Tokens -> Holders]
       /\ KeepsOthers(r) /\ RequestInv(r)'
       /\ \A x \in Sessions : sessionHolder'[x] # Nobody => sessionHolder[x] # Nobody
       /\ \A u \in Tokens : tokenHolder'[u] # Nobody => tokenHolder[u] # Nobody
  BY <1>2, <1>5, Finished
<1>15. ServerType' /\ HeldIsPresent'
  BY <1>1, <1>2, <1>9, <1>11, <1>12, <1>14 DEF ServerType, HeldIsPresent
<1> QED
  BY <1>12, <1>13, <1>14, <1>15, Combine

\* The session is new, so nobody holds it and no token belongs to it.
LEMMA CreateSessionKeeps ==
    ASSUME Inv, NEW r \in Requests, NEW s \in Sessions, NEW next \in Tokens,
           CreateSession(r, s, next)
    PROVE  Inv'
<1> DEFINE row == [session |-> s, status |-> "current", from |-> 0]
           opened == [state |-> "open", version |-> request[r].version,
                      opened |-> request[r].opened]
<1>1. /\ ServerType /\ RowInv /\ RequestInv(r) /\ HeldIsPresent
      /\ session \in [Sessions -> SessionRow] /\ token \in [Tokens -> TokenRow]
      /\ request[r] \in Request
      /\ Issued \subseteq Tokens /\ Present \subseteq Sessions
  BY DEF Inv, ServerType, Issued, Present
<1>2. /\ request[r].at = "verify"
      /\ s \in Sessions \ Present /\ next \in Tokens \ Issued
      /\ session' = [session EXCEPT ![s] = opened]
      /\ token' = [token EXCEPT ![next] = row]
      /\ Answer(r, "ok", next)
      /\ version' = version /\ UNCHANGED <<sessionHolder, tokenHolder>>
  BY DEF CreateSession, VersionOfLogin, locks
<1>3. /\ next \in Nat /\ s \in Nat /\ request[r].version = request[r].opened
      /\ request[r].version \in Nat /\ request[r].opened \in Nat
  BY <1>1, <1>2, SessionAssumption DEF Tokens, Sessions, RequestInv, Request
<1>4. /\ row \in TokenRow /\ row.status = "current" /\ row.session = s /\ row.from = 0
      /\ opened \in SessionRow /\ opened.state = "open"
      /\ opened.version = opened.opened
  BY <1>3 DEF TokenRow, SessionRow
<1> HIDE DEF row, opened
<1>5. /\ token' \in [Tokens -> TokenRow] /\ token'[next] = row
      /\ \A u \in Tokens \ {next} : token'[u] = token[u]
      /\ session' \in [Sessions -> SessionRow] /\ session'[s] = opened
      /\ \A x \in Sessions \ {s} : session'[x] = session[x]
  BY <1>1, <1>2, <1>4
<1>6. Present' = Present \cup {row.session} /\ s \notin Present
  BY <1>2, <1>4, <1>5 DEF Present
<1>7. RowInv' /\ Issued' = Issued \cup {next}
  <2> DEFINE gone == {}
  <2>1. \A u \in Issued :
            token[u].session = row.session /\ token[u].status = "current" => u \in gone
    BY <1>1, <1>4, <1>6 DEF RowInv, TokensInSessions
  <2>2. \A x \in Present' : session'[x].version = session'[x].opened
    BY <1>1, <1>4, <1>5, <1>6 DEF RowInv, OpenedAsVersioned
  <2>3. /\ session'[row.session].state = "open"
        /\ \A x \in Present : session'[x].state = session[x].state
    BY <1>1, <1>4, <1>5, <1>6
  <2>4. gone \in SUBSET Issued /\ row.from = 0
    BY <1>4
  <2>5. \A u \in Tokens \ {next} :
            /\ token'[u].session = token[u].session /\ token'[u].from = token[u].from
            /\ token'[u].status = IF u \in gone THEN "used" ELSE token[u].status
    BY <1>5
  <2>6. /\ next \in Tokens \ Issued /\ token'[next] = row
        /\ row \in TokenRow /\ row.status = "current"
        /\ Present' = Present \cup {row.session}
    BY <1>2, <1>4, <1>5, <1>6
  <2>7. row.from # 0 => row.from \in gone /\ token[row.from].status = "current"
    BY <2>4
  <2> HIDE DEF gone
  <2> QED
    BY <2>1, <2>2, <2>3, <2>4, <2>5, <2>6, <2>7, InsertingRows
<1>8. RowStep(r)
  <2>1. sessionHolder[s] = Nobody
    BY <1>1, <1>2 DEF HeldIsPresent
  <2>2. \A u \in Issued' : token'[u].status = "current" =>
            \/ u \in Issued /\ token[u].status = "current"
            \/ token'[u].session = s
    BY <1>1, <1>4, <1>5, <1>7
  <2>3. \A u \in Issued : u \in Issued' /\ token'[u].session = token[u].session
    BY <1>1, <1>2, <1>5, <1>7
  <2>4. \A x \in Present : x \in Present' /\ session'[x].state = session[x].state
    BY <1>1, <1>5, <1>6
  <2> QED
    BY <2>1, <2>2, <2>3, <2>4 DEF RowStep
<1>9. request' \in [Requests -> Request] /\ KeepsOthers(r) /\ RequestInv(r)'
  <2> DEFINE new == [Idle EXCEPT !.op = request[r].op, !.at = "done", !.result = "ok",
                                 !.token = next]
  <2>1. new \in Request /\ new.at \in {"idle", "done", "user"}
    BY <1>1, <1>3 DEF Idle, Request
  <2>2. request' = [request EXCEPT ![r] = new]
    BY <1>2 DEF Answer
  <2> HIDE DEF new
  <2> QED
    BY <1>2, <2>1, <2>2, AnsweredOnly
<1>10. ServerType' /\ HeldIsPresent'
  BY <1>1, <1>2, <1>5, <1>6, <1>7, <1>9 DEF ServerType, HeldIsPresent
<1> QED
  BY <1>7, <1>8, <1>9, <1>10, Combine

-----------------------------------------------------------------------------
(* Every step *)

\* The invariant holds before the first request.
LEMMA InitEstablishes == Init => Inv
<1> SUFFICES ASSUME Init PROVE Inv
  OBVIOUS
<1>1. /\ version = 0
      /\ session = [s \in Sessions |-> [state |-> "absent", version |-> 0, opened |-> 0]]
      /\ token = [t \in Tokens |-> [session |-> 0, status |-> "absent", from |-> 0]]
      /\ request = [r \in Requests |-> Idle]
      /\ sessionHolder = [s \in Sessions |-> Nobody]
      /\ tokenHolder = [t \in Tokens |-> Nobody]
  BY DEF Init, ServerInit
<1>2. Idle \in Request /\ Idle.at = "idle"
  BY DEF Idle, Request
<1>3. ServerType
  BY <1>1, <1>2 DEF ServerType, SessionRow, TokenRow, Holders
<1>4. Present = {} /\ Issued = {}
  BY <1>1 DEF Present, Issued
<1>5. RowInv
  BY <1>4 DEF RowInv, TokensInSessions, ReplacedIsNotCurrent, TokenIsRotatedOnce,
     RevokedHasNoToken, OpenedAsVersioned
<1>6. HeldIsPresent
  BY <1>1 DEF HeldIsPresent
<1>7. \A r \in Requests : RequestInv(r)
  BY <1>1, <1>2 DEF RequestInv, InSession
<1> QED
  BY <1>3, <1>5, <1>6, <1>7 DEF Inv

\* What the browser does beyond the requests it sends changes no row.
LEMMA ServerSteps ==
    Next => ServerNext \/ UNCHANGED serverVars
<1> SUFFICES ASSUME NEW r \in Requests,
                    \/ PostRefresh(r) \/ OverlappingRefresh(r) \/ RefreshAnswered(r)
                    \/ RefreshAbandoned(r) \/ AbandonedEnds(r)
                    \/ PostLogin(r) \/ LoginAnswered(r)
                    \/ PostLogout(r) \/ LogoutAnswered(r)
                    \/ EndedElsewhere(r) \/ AtTheApi(r) \/ CommitIsUnheard(r)
             PROVE  \/ Start(r) \/ Step(r) \/ Fail(r) \/ CommitUnheard(r) \/ Respond(r)
                    \/ UNCHANGED serverVars
  BY DEF Next, ServerNext
<1>1. CASE PostRefresh(r) \/ OverlappingRefresh(r)
  <2>1. StartRotate(r, cookie)
    BY <1>1 DEF PostRefresh, OverlappingRefresh
  <2>2. cookie \in Tokens
    BY <2>1 DEF StartRotate, Issued
  <2> QED
    BY <2>1, <2>2 DEF Start
<1>2. CASE RefreshAnswered(r) \/ AbandonedEnds(r) \/ LoginAnswered(r) \/ LogoutAnswered(r)
  BY <1>2 DEF RefreshAnswered, AbandonedEnds, LoginAnswered, LogoutAnswered
<1>3. CASE RefreshAbandoned(r)
  BY <1>3 DEF RefreshAbandoned
<1>4. CASE PostLogin(r) \/ PostLogout(r)
  BY <1>4 DEF PostLogin, PostLogout, Start
<1>5. CASE EndedElsewhere(r)
  BY <1>5 DEF EndedElsewhere, Start
<1>6. CASE AtTheApi(r) \/ CommitIsUnheard(r)
  BY <1>6 DEF AtTheApi, CommitIsUnheard
<1> QED
  BY <1>1, <1>2, <1>3, <1>4, <1>5, <1>6

\* Every step of the sessions and of the browser keeps the invariant.
LEMMA StepKeeps ==
    Inv /\ [Next]_vars => Inv'
<1> SUFFICES ASSUME Inv, ServerNext \/ UNCHANGED serverVars
             PROVE  Inv'
  BY ServerSteps DEF vars
<1>1. CASE UNCHANGED serverVars
  <2>1. /\ Present' = Present /\ Issued' = Issued
    BY <1>1 DEF serverVars, Present, Issued
  <2>2. RowInv'
    BY <1>1, <2>1 DEF Inv, RowInv, TokensInSessions, ReplacedIsNotCurrent,
       TokenIsRotatedOnce, RevokedHasNoToken, CurrentOf, OpenedAsVersioned, serverVars
  <2>3. ServerType' /\ HeldIsPresent'
    BY <1>1, <2>1 DEF Inv, ServerType, HeldIsPresent, serverVars
  <2>4. \A r \in Requests : RequestInv(r)'
    BY <1>1, <2>1 DEF Inv, RequestInv, InSession, serverVars
  <2> QED
    BY <2>2, <2>3, <2>4 DEF Inv
<1>2. ASSUME NEW r \in Requests,
             Start(r) \/ Step(r) \/ Fail(r) \/ CommitUnheard(r) \/ Respond(r)
      PROVE  Inv'
  <2>1. CASE Start(r)
    BY <2>1, StartsKeep
  <2>2. CASE Fail(r) \/ CommitUnheard(r) \/ Respond(r) \/ RotateRefused(r)
    BY <2>2, EndsKeep
  <2>3. CASE LockSession(r) \/ LockToken(r)
    BY <2>3, LocksKeep
  <2>4. CASE \/ LockUser(r) \/ SelectTokens(r)
             \/ \E s \in Sessions : LockEachSession(r, s)
             \/ \E t \in Tokens : LockEachToken(r, t)
    BY <2>4, StatementsKeep
  <2>5. CASE RotateReplay(r) \/ RevokeSession(r) \/ EndAll(r)
    BY <2>5, RevokesKeep
  <2>6. CASE \E t \in Tokens : Rotate(r, t)
    BY <2>6, RotateKeeps
  <2>7. CASE \E s \in Sessions, t \in Tokens : CreateSession(r, s, t)
    BY <2>7, CreateSessionKeeps
  <2> QED
    BY <1>2, <2>1, <2>2, <2>3, <2>4, <2>5, <2>6, <2>7 DEF Step
<1> QED
  BY <1>1, <1>2 DEF ServerNext

\* The inductive invariant: the tables agree with each other, a locked row
\* exists, and what every transaction under way read is still so.
THEOREM RowsAndRequestsAgree == Spec => []Inv
<1>1. Init => Inv
  BY InitEstablishes
<1>2. Inv /\ [Next]_vars => Inv'
  BY StepKeeps
<1> QED
  BY <1>1, <1>2, PTL DEF Spec

\* Two rotations of one token never both succeed, and a session has at most
\* one current token, for any number of requests (rotateRefreshToken).
THEOREM RotationIsSingle == Spec => []TokenIsRotatedOnce
<1>1. Inv => TokenIsRotatedOnce
  BY DEF Inv, RowInv
<1> QED
  BY <1>1, RowsAndRequestsAgree, PTL

\* No token of a revoked session stays current, however the revocation raced
\* with rotations and logins (revokeSession, revokeAll, recoverPassword).
THEOREM RevocationReachesTokens == Spec => []RevokedHasNoToken
<1>1. Inv => RevokedHasNoToken
  BY DEF Inv, RowInv
<1> QED
  BY <1>1, RowsAndRequestsAgree, PTL

\* A login that had read the account before all sessions were ended never
\* yields an accepted session (createSession, userForAccess).
THEOREM EndedLoginsStayOut == Spec => []OldLoginIsClosed
<1>1. Inv => OldLoginIsClosed
  BY DEF Inv, RowInv, OpenedAsVersioned, OldLoginIsClosed, Usable
<1> QED
  BY <1>1, RowsAndRequestsAgree, PTL

-----------------------------------------------------------------------------
(* What transactions hold while they wait *)

\* What a transaction holds at each of its steps: users before sessions before
\* tokens.  Of the tokens of one session, the end of all sessions locks or waits
\* for one at most, the one that was current when its statement began.
Holding(r) ==
    /\ userHolder = r <=> request[r].at \in {"sessions", "tokens"}
    /\ \A s \in Sessions : sessionHolder[s] = r =>
          \/ request[r].at \in {"token", "decide"} /\ request[r].session = s
          \/ request[r].at \in {"sessions", "tokens"}
    /\ \A t \in Tokens : tokenHolder[t] = r =>
          \/ request[r].at = "decide" /\ request[r].op = "rotate" /\ request[r].token = t
          \/ request[r].at = "tokens"
    /\ request[r].at = "tokens" =>
          /\ request[r].left \subseteq Issued
          /\ \A t, u \in Tokens :
                /\ t \in request[r].left
                /\ u \in request[r].left \/ tokenHolder[u] = r
                /\ token[t].session = token[u].session
                => t = u

LockInv == \A r \in Requests : Holding(r)
-----------------------------------------------------------------------------
(* Holding is an invariant *)

\* A step of r takes no lock from the others and moves no token.
Alone(r) ==
    /\ KeepsOthers(r)
    /\ \A q \in Requests \ {r} : userHolder' = q <=> userHolder = q
    /\ \A t \in Issued : t \in Issued' /\ token'[t].session = token[t].session

\* What the others hold stays as it is.
LEMMA OthersHold ==
    ASSUME Inv, LockInv, NEW r \in Requests, Alone(r), Holding(r)'
    PROVE  LockInv'
<1>1. ASSUME NEW q \in Requests \ {r}
      PROVE  Holding(q)'
  <2>1. /\ request'[q] = request[q]
        /\ userHolder' = q <=> userHolder = q
        /\ \A s \in Sessions : sessionHolder'[s] = q <=> sessionHolder[s] = q
        /\ \A t \in Tokens : tokenHolder'[t] = q <=> tokenHolder[t] = q
    BY DEF Alone, KeepsOthers
  <2>2. Holding(q)
    BY DEF LockInv
  <2>3. \A t \in Tokens : tokenHolder[t] = q => t \in Issued
    BY SessionAssumption DEF Inv, HeldIsPresent
  <2>4. ASSUME request'[q].at = "tokens", NEW t \in Tokens, NEW u \in Tokens,
               t \in request'[q].left, u \in request'[q].left \/ tokenHolder'[u] = q,
               token'[t].session = token'[u].session
        PROVE  t = u
    <3>1. t \in Issued /\ u \in Issued
      BY <2>1, <2>2, <2>3, <2>4 DEF Holding
    <3> QED
      BY <2>1, <2>2, <2>4, <3>1 DEF Holding, Alone
  <2>5. request'[q].at = "tokens" => request'[q].left \subseteq Issued'
    BY <2>1, <2>2 DEF Holding, Alone
  <2> QED
    BY <2>1, <2>2, <2>4, <2>5 DEF Holding
<1> QED
  BY <1>1 DEF LockInv

\* A transaction that ends holds nothing.
LEMMA EndedHolds ==
    ASSUME Inv, LockInv, NEW r \in Requests, NEW result \in {"ok", "invalid", "reused", "failed"},
           NEW n \in Nat, Answer(r, result, n), Release(r),
           \A t \in Issued : t \in Issued' /\ token'[t].session = token[t].session
    PROVE  LockInv'
<1>1. /\ request \in [Requests -> Request]
      /\ sessionHolder \in [Sessions -> Holders]
      /\ tokenHolder \in [Tokens -> Holders]
  BY DEF Inv, ServerType
<1>2. /\ request'[r].at = "done"
      /\ \A q \in Requests \ {r} : request'[q] = request[q]
  BY <1>1 DEF Answer, Idle, Request
<1>3. /\ \A s \in Sessions : sessionHolder'[s] = IF sessionHolder[s] = r THEN Nobody
                                                                      ELSE sessionHolder[s]
      /\ \A t \in Tokens : tokenHolder'[t] = IF tokenHolder[t] = r THEN Nobody
                                                                  ELSE tokenHolder[t]
      /\ userHolder' = IF userHolder = r THEN Nobody ELSE userHolder
  BY <1>1 DEF Release
<1>4. Nobody # r /\ \A q \in Requests : q # Nobody
  BY SessionAssumption
<1>5. Alone(r)
  BY <1>2, <1>3, <1>4 DEF Alone, KeepsOthers
<1>6. Holding(r)'
  BY <1>2, <1>3, <1>4 DEF Holding
<1> QED
  BY <1>5, <1>6, OthersHold

\* Steps that end the transaction, or never had one.
LEMMA EndsHold ==
    ASSUME Inv, LockInv, NEW r \in Requests,
           \/ RotateReplay(r) \/ RotateRefused(r) \/ RevokeSession(r) \/ EndAll(r) \/ Fail(r)
    PROVE  LockInv'
<1>1. token \in [Tokens -> TokenRow]
  BY DEF Inv, ServerType
<1>2. ASSUME NEW ts, token' = TokensRevoked(ts)
      PROVE  \A t \in Issued : t \in Issued' /\ token'[t].session = token[t].session
  BY <1>1, <1>2 DEF TokensRevoked, Issued, TokenRow
<1>3. UNCHANGED rows => \A t \in Issued : t \in Issued' /\ token'[t].session = token[t].session
  BY DEF rows, Issued
<1>4. CASE RotateReplay(r)
  BY <1>2, <1>4, EndedHolds DEF RotateReplay
<1>5. CASE RotateRefused(r)
  BY <1>3, <1>5, EndedHolds DEF RotateRefused
<1>6. CASE RevokeSession(r)
  BY <1>2, <1>6, EndedHolds DEF RevokeSession
<1>7. CASE EndAll(r)
  BY <1>2, <1>7, EndedHolds DEF EndAll
<1>8. CASE Fail(r)
  BY <1>3, <1>8, EndedHolds DEF Fail
<1> QED
  BY <1>4, <1>5, <1>6, <1>7, <1>8

\* A rotation inserts its token and ends.
LEMMA RotateHolds ==
    ASSUME Inv, LockInv, NEW r \in Requests, NEW n \in Tokens, Rotate(r, n)
    PROVE  LockInv'
<1>1. token \in [Tokens -> TokenRow] /\ n \in Nat
  BY DEF Inv, ServerType, Tokens
<1>2. \A t \in Issued : t \in Issued' /\ token'[t].session = token[t].session
  BY <1>1 DEF Rotate, Issued, TokenRow
<1> QED
  BY <1>1, <1>2, EndedHolds DEF Rotate

\* A step that takes no lock, of a request that holds none before and after.
LEMMA FreeHolds ==
    ASSUME Inv, LockInv, NEW r \in Requests, UNCHANGED locks,
           request[r].at \in {"idle", "verify", "done"},
           request'[r].at \in {"idle", "verify", "user", "session", "done"},
           \A q \in Requests \ {r} : request'[q] = request[q],
           \A t \in Issued : t \in Issued' /\ token'[t].session = token[t].session
    PROVE  LockInv'
<1>1. Alone(r)
  BY DEF Alone, KeepsOthers, locks
<1>2. Holding(r)'
  BY DEF LockInv, Holding, locks
<1> QED
  BY <1>1, <1>2, OthersHold

\* Requests that start, log in or answer.
LEMMA StartsHold ==
    ASSUME Inv, LockInv, NEW r \in Requests,
           \/ Start(r) \/ CommitUnheard(r) \/ Respond(r)
           \/ \E s \in Sessions, t \in Tokens : CreateSession(r, s, t)
    PROVE  LockInv'
<1>1. request \in [Requests -> Request] /\ token \in [Tokens -> TokenRow]
  BY DEF Inv, ServerType
<1>2. UNCHANGED rows => \A t \in Issued : t \in Issued' /\ token'[t].session = token[t].session
  BY DEF rows, Issued
<1>3. CASE Start(r)
  <2>1. /\ UNCHANGED <<rows, locks>> /\ request[r].at = "idle"
        /\ request'[r].at \in {"verify", "user", "session"}
        /\ \A q \in Requests \ {r} : request'[q] = request[q]
    BY <1>1, <1>3 DEF Start, StartRotate, StartLogin, StartLogout, StartEndAll, Idle
  <2> QED
    BY <1>2, <2>1, FreeHolds
<1>4. CASE Respond(r)
  <2>1. /\ UNCHANGED <<rows, locks>> /\ request[r].at = "done" /\ request'[r].at = "idle"
        /\ \A q \in Requests \ {r} : request'[q] = request[q]
    BY <1>1, <1>4 DEF Respond, Idle
  <2> QED
    BY <1>2, <2>1, FreeHolds
<1>5. ASSUME NEW s \in Sessions, NEW t \in Tokens, CreateSession(r, s, t)
      PROVE  LockInv'
  <2>1. /\ UNCHANGED locks /\ request[r].at = "verify" /\ request'[r].at = "done"
        /\ \A q \in Requests \ {r} : request'[q] = request[q]
    BY <1>1, <1>5 DEF CreateSession, Answer, Idle
  <2>2. \A u \in Issued : u \in Issued' /\ token'[u].session = token[u].session
    BY <1>1, <1>5 DEF CreateSession, Issued
  <2> QED
    BY <2>1, <2>2, FreeHolds
<1>6. CASE CommitUnheard(r)
  BY <1>1, <1>2, <1>6, UnheardFails, FreeHolds
<1> QED
  BY <1>3, <1>4, <1>5, <1>6

\* Locks are taken in order.
LEMMA LocksHold ==
    ASSUME Inv, LockInv, NEW r \in Requests,
           \/ LockSession(r) \/ LockToken(r) \/ LockUser(r)
           \/ \E s \in Sessions : LockEachSession(r, s)
           \/ SelectTokens(r)
           \/ \E t \in Tokens : LockEachToken(r, t)
    PROVE  LockInv'
<1>1. /\ request \in [Requests -> Request] /\ token \in [Tokens -> TokenRow]
      /\ sessionHolder \in [Sessions -> Holders]
      /\ tokenHolder \in [Tokens -> Holders]
  BY DEF Inv, ServerType
<1>2. UNCHANGED rows /\ \A q \in Requests \ {r} : request'[q] = request[q]
  BY <1>1 DEF LockSession, LockToken, LockUser, LockEachSession, SelectTokens, LockEachToken
<1>3. Issued' = Issued /\ token' = token
  BY <1>2 DEF rows, Issued
<1>4. /\ Holding(r) /\ RequestInv(r)
      /\ r # Nobody /\ \A q \in Requests : q # Nobody
  BY SessionAssumption DEF LockInv, Inv
<1>5. CASE LockSession(r)
  <2>1. /\ request'[r] = [request[r] EXCEPT
              !.at = IF request[r].op = "rotate" THEN "token" ELSE "decide",
              !.revoked = session[request[r].session].state = "revoked"]
        /\ request[r].at = "session" /\ sessionHolder[request[r].session] = Nobody
        /\ sessionHolder' = [sessionHolder EXCEPT ![request[r].session] = r]
        /\ UNCHANGED <<userHolder, tokenHolder>>
    BY <1>1, <1>5 DEF LockSession
  <2>2. request'[r].at \in {"token", "decide"} /\ request'[r].session = request[r].session
    BY <1>1, <2>1 DEF Request
  <2>3. Alone(r)
    BY <1>1, <1>2, <1>3, <1>4, <2>1 DEF Alone, KeepsOthers
  <2>4. Holding(r)'
    BY <1>1, <1>4, <2>1, <2>2 DEF Holding
  <2> QED
    BY <2>3, <2>4, OthersHold
<1>6. CASE LockToken(r)
  <2>1. /\ request'[r] = [request[r] EXCEPT !.at = "decide"]
        /\ request[r].at = "token" /\ request[r].op = "rotate"
        /\ tokenHolder[request[r].token] = Nobody
        /\ tokenHolder' = [tokenHolder EXCEPT ![request[r].token] = r]
        /\ UNCHANGED <<userHolder, sessionHolder>>
    BY <1>1, <1>4, <1>6 DEF LockToken, RequestInv
  <2>2. /\ request'[r].at = "decide" /\ request'[r].session = request[r].session
        /\ request'[r].token = request[r].token /\ request'[r].op = "rotate"
    BY <1>1, <2>1 DEF Request
  <2>3. Alone(r)
    BY <1>1, <1>2, <1>3, <1>4, <2>1 DEF Alone, KeepsOthers
  <2>4. Holding(r)'
    BY <1>1, <1>4, <2>1, <2>2 DEF Holding
  <2> QED
    BY <2>3, <2>4, OthersHold
<1>7. CASE LockUser(r)
  <2>1. /\ request'[r] = [request[r] EXCEPT !.at = "sessions", !.left = Present]
        /\ request[r].at = "user" /\ userHolder = Nobody /\ userHolder' = r
        /\ UNCHANGED <<sessionHolder, tokenHolder>>
    BY <1>1, <1>7 DEF LockUser
  <2>2. request'[r].at = "sessions"
    BY <1>1, <2>1 DEF Request
  <2>3. Alone(r)
    BY <1>2, <1>3, <1>4, <2>1 DEF Alone, KeepsOthers
  <2>4. Holding(r)'
    BY <1>4, <2>1, <2>2 DEF Holding
  <2> QED
    BY <2>3, <2>4, OthersHold
<1>8. ASSUME NEW s \in Sessions, LockEachSession(r, s)
      PROVE  LockInv'
  <2>1. /\ request'[r] = [request[r] EXCEPT !.left = @ \ {s}]
        /\ request[r].at = "sessions" /\ sessionHolder[s] = Nobody
        /\ sessionHolder' = [sessionHolder EXCEPT ![s] = r]
        /\ UNCHANGED <<userHolder, tokenHolder>>
    BY <1>1, <1>8 DEF LockEachSession
  <2>2. request'[r].at = "sessions"
    BY <1>1, <2>1 DEF Request
  <2>3. Alone(r)
    BY <1>1, <1>2, <1>3, <1>4, <2>1 DEF Alone, KeepsOthers
  <2>4. Holding(r)'
    BY <1>1, <1>4, <2>1, <2>2 DEF Holding
  <2> QED
    BY <2>3, <2>4, OthersHold
<1>9. CASE SelectTokens(r)
  <2>1. /\ request'[r] = [request[r] EXCEPT !.at = "tokens",
              !.left = {t \in Issued : token[t].status = "current"}]
        /\ request[r].at = "sessions" /\ UNCHANGED locks
    BY <1>1, <1>9 DEF SelectTokens
  <2>2. /\ request'[r].at = "tokens"
        /\ request'[r].left = {t \in Issued : token[t].status = "current"}
    BY <1>1, <2>1 DEF Request
  <2>3. Alone(r)
    BY <1>2, <1>3, <2>1 DEF Alone, KeepsOthers, locks
  <2>4. \A t \in Tokens : tokenHolder[t] # r
    BY <1>4, <2>1 DEF Holding
  <2>5. \A t, u \in request'[r].left : token[t].session = token[u].session => t = u
    BY <2>2 DEF Inv, RowInv, TokenIsRotatedOnce
  <2>6. Holding(r)'
    BY <1>3, <1>4, <2>1, <2>2, <2>4, <2>5 DEF Holding, locks
  <2> QED
    BY <2>3, <2>6, OthersHold
<1>10. ASSUME NEW t \in Tokens, LockEachToken(r, t)
       PROVE  LockInv'
  <2>1. /\ request'[r] = [request[r] EXCEPT !.left = @ \ {t}]
        /\ request[r].at = "tokens" /\ t \in request[r].left /\ tokenHolder[t] = Nobody
        /\ tokenHolder' \in {tokenHolder, [tokenHolder EXCEPT ![t] = r]}
        /\ UNCHANGED <<userHolder, sessionHolder>>
    BY <1>1, <1>10 DEF LockEachToken
  <2>2. request'[r].at = "tokens" /\ request'[r].left = request[r].left \ {t}
    BY <1>1, <2>1 DEF Request
  <2>3. \A u \in Tokens : tokenHolder'[u] # tokenHolder[u] => u = t /\ tokenHolder'[u] = r
    BY <1>1, <2>1
  <2>4. Alone(r)
    BY <1>2, <1>3, <1>4, <2>1, <2>3 DEF Alone, KeepsOthers
  <2>5. Holding(r)'
    BY <1>3, <1>4, <2>1, <2>2, <2>3 DEF Holding
  <2> QED
    BY <2>4, <2>5, OthersHold
<1> QED
  BY <1>5, <1>6, <1>7, <1>8, <1>9, <1>10

\* Every step of server or browser keeps what transactions hold.
LEMMA NextHolds == Inv /\ LockInv /\ [Next]_vars => LockInv'
<1> SUFFICES ASSUME Inv, LockInv, ServerNext \/ UNCHANGED serverVars
             PROVE  LockInv'
  BY ServerSteps DEF vars
<1>1. CASE UNCHANGED serverVars
  <2>1. Issued' = Issued
    BY <1>1 DEF serverVars, Issued
  <2> QED
    BY <1>1, <2>1 DEF LockInv, Holding, serverVars
<1>2. ASSUME NEW r \in Requests,
             Start(r) \/ Step(r) \/ Fail(r) \/ CommitUnheard(r) \/ Respond(r)
      PROVE  LockInv'
  BY <1>2, EndsHold, RotateHolds, StartsHold, LocksHold DEF Step
<1> QED
  BY <1>1, <1>2 DEF ServerNext

\* Initially nothing is locked.
LEMMA InitHolds == Init => LockInv
<1> SUFFICES ASSUME Init
             PROVE  LockInv
  OBVIOUS
<1>1. Nobody \notin Requests
  BY SessionAssumption
<1> QED
  BY <1>1 DEF Init, ServerInit, LockInv, Holding, Idle
-----------------------------------------------------------------------------
(* No circle *)

\* A set of waiting transactions has none at the tokens, hence none at the
\* sessions, at one session or at the user: it is empty.
LEMMA NobodyWaitsInACircle == Inv /\ LockInv => NoDeadlock
<1> SUFFICES ASSUME Inv, LockInv, NEW W \in (SUBSET Requests) \ {{}},
                    \A r \in W : BlockedBy(r) \cap (W \ {r}) # {}
             PROVE  FALSE
  BY DEF NoDeadlock
<1>1. /\ request \in [Requests -> Request] /\ token \in [Tokens -> TokenRow]
      /\ \A q \in Requests : q # Nobody
  BY SessionAssumption DEF Inv, ServerType
<1>2. \A r \in W : r \in Requests /\ Holding(r) /\ RequestInv(r)
  BY DEF Inv, LockInv
\* Only one request ends all sessions beyond its first lock.
<1>3. ASSUME NEW e \in W, NEW f \in W, request[e].at \in {"sessions", "tokens"},
             request[f].at \in {"sessions", "tokens"}
      PROVE  e = f
  BY <1>2, <1>3 DEF Holding
\* Who holds a token others wait for.
<1>4. ASSUME NEW t \in Tokens, NEW q \in W, tokenHolder[t] = q
      PROVE  \/ request[q].at = "tokens"
             \/ /\ request[q].at = "decide" /\ request[q].op = "rotate"
                /\ request[q].token = t /\ sessionHolder[token[t].session] = q
                /\ request[q].session = token[t].session
  BY <1>2, <1>4 DEF Holding, RequestInv, InSession
\* A replayed token or a logout can wait only for the end of all sessions.
<1>5. ASSUME NEW r \in W, request[r].at = "decide"
      PROVE  \E e \in W, t \in Tokens :
                /\ request[e].at = "tokens" /\ tokenHolder[t] = e
                /\ token[t].session = request[r].session
  <2>1. PICK q \in W \ {r} : q \in BlockedBy(r)
    OBVIOUS
  <2>2. PICK t \in CurrentOf(request[r].session) : q = tokenHolder[t]
    BY <1>5, <2>1 DEF BlockedBy
  <2>3. t \in Tokens /\ token[t].session = request[r].session
    BY <2>2 DEF CurrentOf, Issued
  <2>4. sessionHolder[request[r].session] = r
    BY <1>2, <1>5 DEF RequestInv
  <2> QED
    BY <1>4, <2>1, <2>2, <2>3, <2>4
\* The end of all sessions can wait only for a rotation.
<1>6. ASSUME NEW e \in W, request[e].at = "tokens"
      PROVE  \E x \in W, t \in request[e].left :
                /\ t \in Tokens /\ tokenHolder[t] = x
                /\ request[x].at = "decide" /\ request[x].session = token[t].session
  <2>1. PICK x \in W \ {e} : x \in BlockedBy(e)
    OBVIOUS
  <2>2. PICK t \in request[e].left : x = tokenHolder[t]
    BY <1>6, <2>1 DEF BlockedBy
  <2>3. t \in Tokens
    BY <1>2, <1>6 DEF Holding, Issued
  <2> QED
    BY <1>3, <1>4, <1>6, <2>1, <2>2, <2>3
\* Both together: they would hold two tokens of one session.
<1>7. ~\E e \in W : request[e].at = "tokens"
  <2> SUFFICES ASSUME NEW e \in W, request[e].at = "tokens"
               PROVE  FALSE
    OBVIOUS
  <2>1. PICK x \in W, t \in request[e].left :
           /\ t \in Tokens /\ tokenHolder[t] = x
           /\ request[x].at = "decide" /\ request[x].session = token[t].session
    BY <1>6
  <2>2. PICK u \in Tokens : tokenHolder[u] = e /\ token[u].session = token[t].session
    BY <1>3, <1>5, <2>1
  <2>3. t = u
    BY <1>2, <2>1, <2>2 DEF Holding
  <2> QED
    BY <2>1, <2>2, <2>3
<1>8. ~\E r \in W : request[r].at = "decide"
  BY <1>5, <1>7
<1>9. ~\E r \in W : request[r].at = "token"
  <2> SUFFICES ASSUME NEW r \in W, request[r].at = "token"
               PROVE  FALSE
    OBVIOUS
  <2>1. PICK q \in W \ {r} : q \in BlockedBy(r)
    OBVIOUS
  <2>2. q = tokenHolder[request[r].token]
    BY <2>1 DEF BlockedBy
  <2>3. request[r].token \in Tokens
    BY <1>2 DEF RequestInv, InSession, Issued
  <2> QED
    BY <1>4, <1>7, <1>8, <2>2, <2>3
<1>10. ~\E r \in W : request[r].at = "sessions"
  <2> SUFFICES ASSUME NEW r \in W, request[r].at = "sessions"
               PROVE  FALSE
    OBVIOUS
  <2>1. PICK q \in W \ {r} : q \in BlockedBy(r)
    OBVIOUS
  <2>2. PICK s \in request[r].left : q = sessionHolder[s]
    BY <2>1 DEF BlockedBy
  <2>3. s \in Sessions
    BY <1>2 DEF RequestInv, Present
  <2>4. request[q].at \in {"token", "decide", "sessions", "tokens"}
    BY <1>2, <2>2, <2>3 DEF Holding
  <2> QED
    BY <1>3, <1>7, <1>8, <1>9, <2>1, <2>4
<1>11. ~\E r \in W : request[r].at = "session"
  <2> SUFFICES ASSUME NEW r \in W, request[r].at = "session"
               PROVE  FALSE
    OBVIOUS
  <2>1. PICK q \in W \ {r} : q \in BlockedBy(r)
    OBVIOUS
  <2>2. q = sessionHolder[request[r].session]
    BY <2>1 DEF BlockedBy
  <2>3. request[r].session \in Sessions
    BY <1>2 DEF RequestInv, InSession, Present
  <2>4. request[q].at \in {"token", "decide", "sessions", "tokens"}
    BY <1>2, <2>1, <2>2, <2>3 DEF Holding
  <2> QED
    BY <1>7, <1>8, <1>9, <1>10, <2>1, <2>4
<1>12. ~\E r \in W : request[r].at = "user"
  <2> SUFFICES ASSUME NEW r \in W, request[r].at = "user"
               PROVE  FALSE
    OBVIOUS
  <2>1. PICK q \in W \ {r} : q \in BlockedBy(r)
    OBVIOUS
  <2>2. q = userHolder
    BY <2>1 DEF BlockedBy
  <2> QED
    BY <1>2, <1>7, <1>10, <2>1, <2>2 DEF Holding
\* Who is at none of these steps waits for nobody.
<1>13. PICK r \in W : TRUE
  OBVIOUS
<1>14. BlockedBy(r) = {}
  BY <1>7, <1>8, <1>9, <1>10, <1>11, <1>12 DEF BlockedBy
<1> QED
  BY <1>14

\* No set of transactions waits for itself, for any number of requests,
\* sessions and tokens: PostgreSQL never has to abort one of them (the order of
\* the locks in every method of auth.repository.ts).
THEOREM TransactionsDoNotDeadlock == Spec => []NoDeadlock
<1>1. Init => LockInv
  BY InitHolds
<1>2. Inv /\ LockInv /\ [Next]_vars => LockInv'
  BY NextHolds
<1>3. Inv /\ LockInv => NoDeadlock
  BY NobodyWaitsInACircle
<1> QED
  BY <1>1, <1>2, <1>3, RowsAndRequestsAgree, PTL DEF Spec

-----------------------------------------------------------------------------
(* The counters of what runs *)

\* What a request is doing says which of the operations it is.
StageOf(r) ==
    /\ request[r].at = "idle" => request[r].op = "none"
    /\ request[r].at = "verify" => request[r].op = "login"
    /\ request[r].at \in {"user", "sessions", "tokens"} => request[r].op = "endAll"

\* Logins that hold a slot are the logins that run, and the version leaves room
\* for every end of all sessions that runs.
CountInv ==
    /\ \A r \in Requests : StageOf(r)
    /\ IsFiniteSet(Running({"login"}))
    /\ activeLogins = Cardinality(Running({"login"}))
    /\ activeLogins <= LoginCapacity
    /\ IsFiniteSet(Running({"endAll"}))
    /\ version + Cardinality(Running({"endAll"})) <= MaxVersion

\* How a step of r changes the number of requests that run op.
Runs(r, op) == request[r].op = op /\ request[r].at # "done"
CountOf(op) == Cardinality(Running({op}))

\* A step of one request adds it to those that run, removes it, or neither.
LEMMA RunningOf ==
    ASSUME NEW r \in Requests, NEW op, IsFiniteSet(Running({op})),
           \A q \in Requests \ {r} : request'[q] = request[q]
    PROVE  /\ IsFiniteSet(Running({op}))' /\ CountOf(op) \in Nat /\ CountOf(op)' \in Nat
           /\ (Runs(r, op) <=> Runs(r, op)') => CountOf(op)' = CountOf(op)
           /\ ~Runs(r, op) /\ Runs(r, op)' => CountOf(op)' = CountOf(op) + 1
           /\ Runs(r, op) /\ ~Runs(r, op)' => CountOf(op)' = CountOf(op) - 1
<1> DEFINE S == Running({op})
<1>1. /\ \A q \in Requests : q \in S <=> Runs(q, op)
      /\ \A q \in Requests : q \in S' <=> Runs(q, op)'
      /\ S \subseteq Requests /\ S' \subseteq Requests
  BY DEF Running, Runs
<1>2. \A q \in Requests \ {r} : Runs(q, op)' <=> Runs(q, op)
  BY DEF Runs
<1>3. S' = IF Runs(r, op)' THEN S \cup {r} ELSE S \ {r}
  BY <1>1, <1>2
<1>4. /\ IsFiniteSet(S \cup {r}) /\ IsFiniteSet(S \ {r})
      /\ Cardinality(S \cup {r}) = IF r \in S THEN Cardinality(S) ELSE Cardinality(S) + 1
      /\ Cardinality(S \ {r}) = IF r \in S THEN Cardinality(S) - 1 ELSE Cardinality(S)
  BY FS_AddElement, FS_RemoveElement
<1>5. IsFiniteSet(S') /\ Cardinality(S) \in Nat /\ Cardinality(S') \in Nat
  BY <1>3, <1>4, FS_CardinalityType
<1>6. CountOf(op) = Cardinality(S) /\ CountOf(op)' = Cardinality(S')
  BY DEF CountOf
<1> HIDE DEF S
<1>7. r \in S <=> Runs(r, op)
  BY <1>1
<1>8. CASE Runs(r, op)'
  BY <1>3, <1>4, <1>5, <1>6, <1>7, <1>8 DEF S
<1>9. CASE ~Runs(r, op)'
  BY <1>3, <1>4, <1>5, <1>6, <1>7, <1>9 DEF S
<1> QED
  BY <1>8, <1>9

\* What a step may do to the counters: nothing, start or end a login, or start
\* or end the end of all sessions.
Counted(r) ==
    /\ (Runs(r, "login") <=> Runs(r, "login")') => activeLogins' = activeLogins
    /\ ~Runs(r, "login") /\ Runs(r, "login")' =>
          activeLogins < LoginCapacity /\ activeLogins' = activeLogins + 1
    /\ Runs(r, "login") /\ ~Runs(r, "login")' => activeLogins' = activeLogins - 1
    /\ (Runs(r, "endAll") <=> Runs(r, "endAll")') => version' = version
    /\ ~Runs(r, "endAll") /\ Runs(r, "endAll")' => VersionsLeft /\ version' = version
    /\ Runs(r, "endAll") /\ ~Runs(r, "endAll")' => version' \in {version, version + 1}

\* A step that changes the counters so keeps what they count.
LEMMA CountedKeeps ==
    ASSUME Inv, CountInv, NEW r \in Requests, Counted(r), StageOf(r)',
           \A q \in Requests \ {r} : request'[q] = request[q]
    PROVE  CountInv'
<1>1. /\ IsFiniteSet(Running({"login"})) /\ IsFiniteSet(Running({"endAll"}))
      /\ activeLogins = CountOf("login") /\ activeLogins <= LoginCapacity
      /\ version + CountOf("endAll") <= MaxVersion
      /\ version \in Nat /\ LoginCapacity \in Nat /\ MaxVersion \in Nat
  BY SessionAssumption DEF CountInv, CountOf, Inv, ServerType
<1>2. \A q \in Requests : StageOf(q)'
  BY DEF CountInv, StageOf
<1>3. /\ IsFiniteSet(Running({"login"}))'
      /\ CountOf("login") \in Nat /\ CountOf("login")' \in Nat
      /\ (Runs(r, "login") <=> Runs(r, "login")') => CountOf("login")' = CountOf("login")
      /\ ~Runs(r, "login") /\ Runs(r, "login")' => CountOf("login")' = CountOf("login") + 1
      /\ Runs(r, "login") /\ ~Runs(r, "login")' => CountOf("login")' = CountOf("login") - 1
  BY <1>1, RunningOf
<1>4. /\ IsFiniteSet(Running({"endAll"}))'
      /\ CountOf("endAll") \in Nat /\ CountOf("endAll")' \in Nat
      /\ (Runs(r, "endAll") <=> Runs(r, "endAll")') => CountOf("endAll")' = CountOf("endAll")
      /\ ~Runs(r, "endAll") /\ Runs(r, "endAll")' => CountOf("endAll")' = CountOf("endAll") + 1
      /\ Runs(r, "endAll") /\ ~Runs(r, "endAll")' => CountOf("endAll")' = CountOf("endAll") - 1
  BY <1>1, RunningOf
<1>5. activeLogins' = CountOf("login")' /\ activeLogins' <= LoginCapacity
  <2>1. CASE Runs(r, "login") <=> Runs(r, "login")'
    BY <1>1, <1>3, <2>1 DEF Counted
  <2>2. CASE ~Runs(r, "login") /\ Runs(r, "login")'
    BY <1>1, <1>3, <2>2 DEF Counted
  <2>3. CASE Runs(r, "login") /\ ~Runs(r, "login")'
    BY <1>1, <1>3, <2>3 DEF Counted
  <2> QED
    BY <2>1, <2>2, <2>3
<1>6. version' + CountOf("endAll")' <= MaxVersion
  <2>1. CASE Runs(r, "endAll") <=> Runs(r, "endAll")'
    BY <1>1, <1>4, <2>1 DEF Counted
  <2>2. CASE ~Runs(r, "endAll") /\ Runs(r, "endAll")'
    BY <1>1, <1>4, <2>2 DEF Counted, VersionsLeft, CountOf
  <2>3. CASE Runs(r, "endAll") /\ ~Runs(r, "endAll")'
    BY <1>1, <1>4, <2>3 DEF Counted
  <2> QED
    BY <2>1, <2>2, <2>3
<1> QED
  BY <1>2, <1>3, <1>4, <1>5, <1>6 DEF CountInv, CountOf

\* Every step of a request moves the counters with what runs: a login takes its
\* slot when it starts and gives it back when it ends, however it ends.
LEMMA StepsCount ==
    ASSUME Inv, CountInv, NEW r \in Requests,
           Start(r) \/ Step(r) \/ Fail(r) \/ CommitUnheard(r) \/ Respond(r)
    PROVE  CountInv'
<1>1. /\ request \in [Requests -> Request] /\ StageOf(r)
      /\ Idle.op = "none" /\ Idle.at = "idle"
  BY DEF Inv, ServerType, CountInv, Idle
<1>2. CASE Start(r)
  <2>1. /\ request[r].at = "idle" /\ \A q \in Requests \ {r} : request'[q] = request[q]
        /\ version' = version
    BY <1>1, <1>2 DEF Start, StartRotate, StartLogin, StartLogout, StartEndAll, rows
  <2>2. CASE StartLogin(r)
    <3>1. request'[r].op = "login" /\ request'[r].at = "verify"
      BY <1>1, <2>2 DEF StartLogin, Idle
    <3>2. activeLogins < LoginCapacity /\ activeLogins' = activeLogins + 1
      BY <2>2 DEF StartLogin
    <3>3. Counted(r) /\ StageOf(r)'
      BY <1>1, <2>1, <3>1, <3>2 DEF Counted, Runs, StageOf
    <3> QED
      BY <2>1, <3>3, CountedKeeps
  <2>3. CASE StartEndAll(r)
    <3>1. request'[r].op = "endAll" /\ request'[r].at = "user"
      BY <1>1, <2>3 DEF StartEndAll, Idle
    <3>2. VersionsLeft /\ activeLogins' = activeLogins
      BY <2>3 DEF StartEndAll
    <3>3. Counted(r) /\ StageOf(r)'
      BY <1>1, <2>1, <3>1, <3>2 DEF Counted, Runs, StageOf
    <3> QED
      BY <2>1, <3>3, CountedKeeps
  <2>4. CASE \/ \E t \in Tokens : StartRotate(r, t)
             \/ \E s \in Sessions : StartLogout(r, s)
    <3>1. /\ request'[r].op \in {"rotate", "logout"} /\ request'[r].at = "session"
          /\ activeLogins' = activeLogins
      BY <1>1, <2>4 DEF StartRotate, StartLogout, Idle
    <3>2. Counted(r) /\ StageOf(r)'
      BY <1>1, <2>1, <3>1 DEF Counted, Runs, StageOf
    <3> QED
      BY <2>1, <3>2, CountedKeeps
  <2> QED
    BY <1>2, <2>2, <2>3, <2>4 DEF Start
\* Steps within a transaction
<1>3. CASE \/ LockSession(r) \/ LockToken(r) \/ LockUser(r) \/ SelectTokens(r)
           \/ \E s \in Sessions : LockEachSession(r, s)
           \/ \E t \in Tokens : LockEachToken(r, t)
  <2>1. /\ \A q \in Requests \ {r} : request'[q] = request[q]
        /\ request'[r].op = request[r].op
        /\ request[r].at # "done" /\ request'[r].at # "done" /\ request'[r].at # "idle"
        /\ request'[r].at # "verify"
        /\ request'[r].at \in {"user", "sessions", "tokens"} =>
              request[r].at \in {"user", "sessions", "tokens"}
        /\ UNCHANGED <<version, activeLogins>>
    BY <1>1, <1>3 DEF LockSession, LockToken, LockUser, SelectTokens, LockEachSession,
       LockEachToken, rows, Request
  <2> QED
    BY <1>1, <2>1, CountedKeeps DEF Counted, Runs, StageOf
\* Steps that end the request
<1>4. ASSUME NEW result, NEW t, Answer(r, result, t)
      PROVE  /\ \A q \in Requests \ {r} : request'[q] = request[q]
             /\ request'[r].op = request[r].op /\ request'[r].at = "done"
             /\ StageOf(r)' /\ \A op : ~Runs(r, op)'
  BY <1>1, <1>4 DEF Answer, Idle, StageOf, Runs
<1>5. CASE \/ RotateReplay(r) \/ RotateRefused(r) \/ RevokeSession(r)
           \/ \E t \in Tokens : Rotate(r, t)
  <2>1. /\ \E result, t : Answer(r, result, t)
        /\ request[r].op \in {"rotate", "logout"}
        /\ UNCHANGED <<version, activeLogins>>
    BY <1>5 DEF RotateReplay, RotateRefused, RevokeSession, Rotate, rows
  <2> QED
    BY <1>4, <2>1, CountedKeeps DEF Counted, Runs
<1>6. CASE \E s \in Sessions, t \in Tokens : CreateSession(r, s, t)
  <2>1. /\ \E result, t : Answer(r, result, t)
        /\ request[r].op = "login" /\ request[r].at = "verify"
        /\ version' = version /\ activeLogins' = activeLogins - 1
    BY <1>1, <1>6 DEF CreateSession, StageOf
  <2> QED
    BY <1>4, <2>1, CountedKeeps DEF Counted, Runs
<1>7. CASE EndAll(r)
  <2>1. /\ \E result, t : Answer(r, result, t)
        /\ request[r].op = "endAll" /\ request[r].at = "tokens"
        /\ version' = version + 1 /\ activeLogins' = activeLogins
    BY <1>1, <1>7 DEF EndAll, StageOf
  <2> QED
    BY <1>4, <2>1, CountedKeeps DEF Counted, Runs
<1>8. CASE Fail(r)
  <2>1. /\ \E result, t : Answer(r, result, t)
        /\ request[r].at # "done" /\ version' = version
        /\ activeLogins' = IF request[r].op = "login" THEN activeLogins - 1 ELSE activeLogins
    BY <1>8 DEF Fail, rows
  <2> QED
    BY <1>4, <2>1, CountedKeeps DEF Counted, Runs
<1>9. CASE Respond(r)
  <2>1. /\ \A q \in Requests \ {r} : request'[q] = request[q]
        /\ request'[r].op = "none" /\ request'[r].at = "idle" /\ request[r].at = "done"
        /\ UNCHANGED <<version, activeLogins>>
    BY <1>1, <1>9 DEF Respond, rows
  <2> QED
    BY <2>1, CountedKeeps DEF Counted, Runs, StageOf
<1>10. CASE CommitUnheard(r)
  <2>1. /\ \A q \in Requests \ {r} : request'[q] = request[q]
        /\ request'[r].op = request[r].op /\ request'[r].at = "done"
        /\ request[r].at = "done"
        /\ UNCHANGED <<version, activeLogins>>
    BY <1>1, <1>10, UnheardFails DEF rows
  <2> QED
    BY <1>1, <2>1, CountedKeeps DEF Counted, Runs, StageOf
<1> QED
  BY <1>2, <1>3, <1>5, <1>6, <1>7, <1>8, <1>9, <1>10 DEF Step

\* The counters agree with what runs after every step.
LEMMA NextCounts == Inv /\ CountInv /\ [Next]_vars => CountInv'
<1> SUFFICES ASSUME Inv, CountInv, ServerNext \/ UNCHANGED serverVars
             PROVE  CountInv'
  BY ServerSteps DEF vars
<1>1. CASE UNCHANGED serverVars
  BY <1>1 DEF CountInv, StageOf, Running, serverVars
<1>2. CASE ServerNext
  BY <1>2, StepsCount DEF ServerNext
<1> QED
  BY <1>1, <1>2

\* Nothing runs before the first request.
LEMMA InitCounts == Init => CountInv
<1> SUFFICES ASSUME Init PROVE CountInv
  OBVIOUS
<1>1. /\ \A r \in Requests : request[r].at = "idle" /\ request[r].op = "none"
      /\ version = 0 /\ activeLogins = 0
  BY DEF Init, ServerInit, Idle
<1>2. Running({"login"}) = {} /\ Running({"endAll"}) = {}
  BY <1>1 DEF Running
<1> QED
  BY <1>1, <1>2, FS_EmptySet, SessionAssumption DEF CountInv, StageOf

-----------------------------------------------------------------------------
(* The tabs of the browser *)

\* A rotation that is presenting its token, and an answer that carries one.
Presenting(r) == InSession(r) /\ request[r].op = "rotate"
Carries(r) ==
    /\ request[r].at = "done" /\ request[r].op \in {"rotate", "login"}
    /\ request[r].result = "ok"
IsUsed(t) == token[t].status = "used"

BrowserType ==
    /\ userHolder \in Holders /\ replayed \subseteq Sessions
    /\ locker \in Holders /\ abandoned \subseteq Requests /\ disturbed \in BOOLEAN

\* What the browser has, or is about to receive, was issued.
KnownTokens ==
    /\ cookie = 0 \/ cookie \in Issued
    /\ \A r \in Requests : Carries(r) => request[r].token \in Issued

\* As long as nothing disturbed them: one refresh at a time, and nobody has a
\* used token but the tab that is about to receive the one that replaced it.
Undisturbed ==
    /\ replayed = {} /\ abandoned = {}
    /\ \A r \in Requests : request[r].op = "rotate" => locker = r
    /\ \A r \in Requests : Presenting(r) => ~IsUsed(request[r].token)
    /\ \A r \in Requests : Carries(r) =>
          /\ ~IsUsed(request[r].token) /\ request[r].token # cookie
          /\ \A q \in Requests \ {r} :
                Presenting(q) \/ Carries(q) => request[q].token # request[r].token
    /\ cookie # 0 /\ IsUsed(cookie) =>
          \E r \in Requests : request[r].op = "rotate" /\ Carries(r)

TabInv == BrowserType /\ KnownTokens /\ (disturbed \/ Undisturbed)

\* A step of r after which it carries no token, and by which none is used up.
Quiet(r) ==
    /\ \A q \in Requests \ {r} : request'[q] = request[q]
    /\ ~Carries(r) /\ ~Carries(r)'
    /\ request'[r].op = "rotate" => request[r].op = "rotate"
    /\ Presenting(r)' => Presenting(r) /\ request'[r].token = request[r].token
    /\ \A t \in Issued : t \in Issued' /\ (IsUsed(t)' => IsUsed(t))
    /\ replayed' = replayed

\* Such a step, unnoticed by the browser, keeps what the tabs rely on.
LEMMA QuietKeeps ==
    ASSUME Inv, TabInv, NEW r \in Requests, Quiet(r), userHolder' \in Holders,
           UNCHANGED browserVars
    PROVE  TabInv'
<1>1. /\ cookie' = cookie /\ locker' = locker /\ abandoned' = abandoned
      /\ disturbed' = disturbed /\ replayed' = replayed
  BY DEF browserVars, Quiet
<1>2. BrowserType'
  BY <1>1 DEF TabInv, BrowserType, Holders
<1>3. \A q \in Requests : Carries(q)' => Carries(q) /\ q # r /\ request'[q] = request[q]
  BY DEF Quiet, Carries
<1>4. \A q \in Requests : Presenting(q)' => Presenting(q) /\ request'[q].token = request[q].token
  BY DEF Quiet, Presenting, InSession
<1>5. \A t \in Issued : t \in Issued' /\ (IsUsed(t)' => IsUsed(t))
  BY DEF Quiet
<1>6. KnownTokens'
  BY <1>1, <1>3, <1>5 DEF TabInv, KnownTokens
<1>7. ASSUME ~disturbed
      PROVE  Undisturbed'
  <2>1. Undisturbed /\ KnownTokens
    BY <1>7 DEF TabInv
  <2>2. \A q \in Requests : Presenting(q) => request[q].token \in Issued
    BY DEF Inv, RequestInv, Presenting
  <2>3. replayed' = {} /\ abandoned' = {}
    BY <1>1, <2>1 DEF Undisturbed
  <2>4. \A q \in Requests : request'[q].op = "rotate" => locker' = q
    BY <1>1, <2>1 DEF Undisturbed, Quiet
  <2>5. \A q \in Requests : Presenting(q)' => token'[request'[q].token].status # "used"
    BY <1>4, <1>5, <2>1, <2>2 DEF Undisturbed, IsUsed
  <2>6. ASSUME NEW q \in Requests, Carries(q)'
        PROVE  /\ token'[request'[q].token].status # "used" /\ request'[q].token # cookie'
               /\ \A p \in Requests \ {q} :
                     Presenting(p)' \/ Carries(p)' => request'[p].token # request'[q].token
    <3>1. Carries(q) /\ request'[q].token = request[q].token /\ request[q].token \in Issued
      BY <1>3, <2>1, <2>6 DEF KnownTokens
    <3> QED
      BY <1>1, <1>3, <1>4, <1>5, <2>1, <3>1 DEF Undisturbed, IsUsed
  <2>7. ASSUME cookie' # 0, token'[cookie'].status = "used"
        PROVE  \E q \in Requests : request'[q].op = "rotate" /\ Carries(q)'
    <3>1. cookie # 0 /\ cookie \in Issued /\ IsUsed(cookie)
      BY <1>1, <1>5, <2>1, <2>7 DEF KnownTokens, IsUsed
    <3>2. PICK q \in Requests : request[q].op = "rotate" /\ Carries(q)
      BY <2>1, <3>1 DEF Undisturbed
    <3>3. q # r /\ request'[q] = request[q]
      BY <3>2 DEF Quiet
    <3> QED
      BY <3>2, <3>3 DEF Carries
  <2> QED
    BY <2>3, <2>4, <2>5, <2>6, <2>7 DEF Undisturbed, IsUsed
<1> QED
  BY <1>1, <1>2, <1>6, <1>7 DEF TabInv

\* A request that ends without a token for the browser, every row read or
\* revoked but none used up, is quiet.
LEMMA EndsQuietly ==
    ASSUME Inv, NEW r \in Requests, NEW result, NEW n, Answer(r, result, n),
           request[r].at # "done",
           result = "ok" => request[r].op \in {"logout", "endAll"},
           token' = token \/ \E ts : token' = TokensRevoked(ts),
           replayed' = replayed
    PROVE  Quiet(r)
<1>1. request \in [Requests -> Request] /\ token \in [Tokens -> TokenRow]
  BY DEF Inv, ServerType
<1>2. /\ \A q \in Requests \ {r} : request'[q] = request[q]
      /\ request'[r].op = request[r].op /\ request'[r].at = "done"
      /\ request'[r].result = result
  BY <1>1 DEF Answer, Idle
<1>3. \A t \in Issued : t \in Issued' /\ (IsUsed(t)' => IsUsed(t))
  <2>1. CASE token' = token
    BY <2>1 DEF Issued, IsUsed
  <2>2. ASSUME NEW ts, token' = TokensRevoked(ts)
        PROVE  \A t \in Issued : t \in Issued' /\ (IsUsed(t)' => IsUsed(t))
    BY <1>1, <2>2 DEF TokensRevoked, Issued, IsUsed, TokenRow
  <2> QED
    BY <2>1, <2>2
<1> QED
  BY <1>2, <1>3 DEF Quiet, Carries, Presenting, InSession

\* Steps the browser does not notice: everything a transaction does but to
\* insert a token or to meet a used one, and the requests that present none.
LEMMA QuietSteps ==
    ASSUME Inv, CountInv, NEW r \in Requests,
           \/ StartLogin(r) \/ StartEndAll(r) \/ \E s \in Sessions : StartLogout(r, s)
           \/ LockSession(r) \/ LockToken(r) \/ LockUser(r) \/ SelectTokens(r)
           \/ \E s \in Sessions : LockEachSession(r, s)
           \/ \E t \in Tokens : LockEachToken(r, t)
           \/ RotateRefused(r) \/ RevokeSession(r) \/ EndAll(r) \/ Fail(r)
           \/ request[r].op = "endAll" /\ Respond(r)
    PROVE  Quiet(r)
<1>1. /\ request \in [Requests -> Request] /\ StageOf(r)
      /\ Idle.op = "none" /\ Idle.at = "idle"
  BY DEF Inv, ServerType, CountInv, Idle
<1>2. CASE StartLogin(r) \/ StartEndAll(r) \/ \E s \in Sessions : StartLogout(r, s)
  <2>1. /\ \A q \in Requests \ {r} : request'[q] = request[q]
        /\ request[r].at = "idle" /\ request'[r].op \in {"login", "endAll", "logout"}
        /\ request'[r].at # "done" /\ token' = token /\ replayed' = replayed
    BY <1>1, <1>2 DEF StartLogin, StartEndAll, StartLogout, Idle, rows
  <2> QED
    BY <2>1 DEF Quiet, Carries, Presenting, InSession, Issued, IsUsed
<1>3. CASE \/ LockSession(r) \/ LockToken(r) \/ LockUser(r) \/ SelectTokens(r)
           \/ \E s \in Sessions : LockEachSession(r, s)
           \/ \E t \in Tokens : LockEachToken(r, t)
  <2>1. /\ \A q \in Requests \ {r} : request'[q] = request[q]
        /\ request'[r].op = request[r].op /\ request'[r].token = request[r].token
        /\ request[r].at # "done" /\ request'[r].at # "done"
        /\ InSession(r)' => InSession(r)
        /\ token' = token /\ replayed' = replayed
    BY <1>1, <1>3 DEF LockSession, LockToken, LockUser, SelectTokens, LockEachSession,
       LockEachToken, rows, Request, InSession
  <2> QED
    BY <2>1 DEF Quiet, Carries, Presenting, Issued, IsUsed
<1>4. CASE RotateRefused(r) \/ Fail(r)
  <2>1. /\ \E result \in {"invalid", "failed"} : Answer(r, result, 0)
        /\ request[r].at # "done" /\ token' = token /\ replayed' = replayed
    BY <1>4 DEF RotateRefused, Fail, rows
  <2> QED
    BY <2>1, EndsQuietly
<1>5. CASE RevokeSession(r)
  BY <1>5, EndsQuietly DEF RevokeSession
<1>6. CASE EndAll(r)
  <2>1. /\ Answer(r, "ok", 0) /\ request[r].at = "tokens" /\ replayed' = replayed
        /\ \E ts : token' = TokensRevoked(ts)
    BY <1>6 DEF EndAll
  <2> QED
    BY <1>1, <2>1, EndsQuietly DEF StageOf
<1>7. CASE request[r].op = "endAll" /\ Respond(r)
  <2>1. /\ \A q \in Requests \ {r} : request'[q] = request[q]
        /\ request'[r].op = "none" /\ request'[r].at = "idle"
        /\ token' = token /\ replayed' = replayed
    BY <1>1, <1>7 DEF Respond, rows
  <2> QED
    BY <1>7, <2>1 DEF Quiet, Carries, Presenting, InSession, Issued, IsUsed
<1> QED
  BY <1>2, <1>3, <1>4, <1>5, <1>6, <1>7

\* The holder of the account's row is a request or nobody.
LEMMA UserHeld ==
    ASSUME userHolder \in Holders, NEW r \in Requests,
           Start(r) \/ Step(r) \/ Fail(r) \/ Respond(r)
    PROVE  userHolder' \in Holders
<1>1. \/ userHolder' = userHolder \/ userHolder' = r \/ userHolder' = Nobody
  <2>1. CASE Start(r) \/ Respond(r)
    BY <2>1 DEF Start, StartRotate, StartLogin, StartLogout, StartEndAll, Respond, locks
  <2>2. CASE Release(r)
    BY <2>2 DEF Release
  <2>3. CASE \/ LockSession(r) \/ LockToken(r) \/ LockUser(r) \/ SelectTokens(r)
             \/ \E s \in Sessions : LockEachSession(r, s)
             \/ \E t \in Tokens : LockEachToken(r, t)
             \/ \E s \in Sessions, t \in Tokens : CreateSession(r, s, t)
    BY <2>3 DEF LockSession, LockToken, LockUser, SelectTokens, LockEachSession,
       LockEachToken, CreateSession, locks
  <2>4. CASE \/ RotateReplay(r) \/ RotateRefused(r) \/ RevokeSession(r) \/ EndAll(r)
             \/ Fail(r) \/ \E t \in Tokens : Rotate(r, t)
    BY <2>2, <2>4 DEF RotateReplay, RotateRefused, RevokeSession, EndAll, Fail, Rotate
  <2> QED
    BY <2>1, <2>3, <2>4 DEF Step
<1> QED
  BY <1>1 DEF Holders

\* A used token is presented only when something was disturbed before.
LEMMA ReplayTabs ==
    ASSUME Inv, TabInv, NEW r \in Requests, RotateReplay(r), UNCHANGED browserVars
    PROVE  TabInv'
<1>1. /\ request \in [Requests -> Request] /\ token \in [Tokens -> TokenRow]
      /\ RequestInv(r)
  BY DEF Inv, ServerType
<1>2. /\ request[r].at = "decide" /\ request[r].op = "rotate" /\ IsReplay(r)
      /\ token' = TokensRevoked(CurrentOf(request[r].session))
      /\ replayed' = replayed \cup {request[r].session}
      /\ Answer(r, "reused", 0) /\ Release(r)
  BY DEF RotateReplay
<1>3. disturbed
  <2>1. Presenting(r) /\ IsUsed(request[r].token)
    BY <1>2 DEF Presenting, InSession, IsReplay, IsUsed
  <2> QED
    BY <2>1 DEF TabInv, Undisturbed
<1>4. /\ \A q \in Requests : Carries(q)' => Carries(q) /\ request'[q] = request[q]
      /\ \A t \in Issued : t \in Issued'
  BY <1>1, <1>2 DEF Answer, Carries, TokensRevoked, Issued, TokenRow
<1>5. KnownTokens'
  BY <1>4 DEF TabInv, KnownTokens, browserVars
<1>6. BrowserType'
  <2>1. request[r].session \in Sessions
    BY <1>1, <1>2 DEF RequestInv, InSession, Present
  <2>2. userHolder' \in Holders
    BY <1>2 DEF TabInv, BrowserType, Release, Holders
  <2> QED
    BY <1>2, <2>1, <2>2 DEF TabInv, BrowserType, browserVars, Holders
<1> QED
  BY <1>3, <1>5, <1>6 DEF TabInv, browserVars

\* What the two ways to insert a token have in common: the token is new, and
\* one that was used up is the one the request presented.
Inserts(r, n) ==
    /\ \A q \in Requests \ {r} : request'[q] = request[q]
    /\ ~Carries(r) /\ Carries(r)' /\ request'[r].token = n
    /\ request'[r].op = request[r].op /\ ~Presenting(r)'
    /\ n \in Tokens \ Issued /\ n \in Issued' /\ ~IsUsed(n)'
    /\ \A t \in Issued :
          /\ t \in Issued'
          /\ IsUsed(t)' => IsUsed(t) \/ (Presenting(r) /\ request[r].token = t)
    /\ replayed' = replayed

\* A token reaches the answer of the request that inserted it, while every
\* other tab still knows only tokens that were issued before.
LEMMA InsertTabs ==
    ASSUME Inv, TabInv, NEW r \in Requests, NEW n \in Tokens, Inserts(r, n),
           userHolder' \in Holders, UNCHANGED browserVars
    PROVE  TabInv'
<1>1. /\ cookie' = cookie /\ locker' = locker /\ abandoned' = abandoned
      /\ disturbed' = disturbed /\ replayed' = replayed
  BY DEF browserVars, Inserts
<1>2. BrowserType'
  BY <1>1 DEF TabInv, BrowserType, Holders
<1>3. \A q \in Requests \ {r} :
          /\ request'[q] = request[q] /\ (Carries(q)' <=> Carries(q))
          /\ Presenting(q)' <=> Presenting(q)
  BY DEF Inserts, Carries, Presenting, InSession
<1>4. \A t \in Issued : t \in Issued' /\ t # n
  BY DEF Inserts
<1>5. /\ Carries(r)' /\ ~Carries(r) /\ ~Presenting(r)' /\ request'[r].token = n
      /\ n \in Issued' /\ token'[n].status # "used" /\ n # 0
  BY SessionAssumption DEF Inserts, IsUsed, Tokens
<1>6. KnownTokens'
  BY <1>1, <1>3, <1>4, <1>5 DEF TabInv, KnownTokens
<1>7. ASSUME ~disturbed
      PROVE  Undisturbed'
  <2>1. Undisturbed /\ KnownTokens
    BY <1>7 DEF TabInv
  <2>2. \A q \in Requests : Presenting(q) => request[q].token \in Issued
    BY DEF Inv, RequestInv, Presenting
  <2>3. replayed' = {} /\ abandoned' = {}
    BY <1>1, <2>1 DEF Undisturbed
  <2>4. \A q \in Requests : request'[q].op = "rotate" => locker' = q
    BY <1>1, <2>1 DEF Undisturbed, Inserts
  <2>5. \A t \in Issued : token'[t].status = "used" =>
            token[t].status = "used" \/ (Presenting(r) /\ request[r].token = t)
    BY DEF Inserts, IsUsed
  <2>6. ASSUME NEW q \in Requests, Presenting(q)'
        PROVE  token'[request'[q].token].status # "used"
    <3>1. q # r /\ Presenting(q) /\ request'[q].token = request[q].token
      BY <1>3, <1>5, <2>6
    <3>2. ~Presenting(r)
      BY <2>1, <3>1 DEF Undisturbed, Presenting
    <3> QED
      BY <2>1, <2>2, <2>5, <3>1, <3>2 DEF Undisturbed, IsUsed
  <2>7. ASSUME NEW q \in Requests, Carries(q)'
        PROVE  /\ token'[request'[q].token].status # "used" /\ request'[q].token # cookie'
               /\ \A p \in Requests \ {q} :
                     Presenting(p)' \/ Carries(p)' => request'[p].token # request'[q].token
    <3>1. CASE q = r
      BY <1>1, <1>3, <1>4, <1>5, <2>1, <2>2, <3>1 DEF KnownTokens
    <3>2. CASE q # r
      <4>1. /\ Carries(q) /\ request'[q].token = request[q].token
            /\ request[q].token \in Issued /\ request[q].token # n
        BY <1>3, <1>4, <2>1, <2>7, <3>2 DEF KnownTokens
      <4>2. /\ token[request[q].token].status # "used" /\ request[q].token # cookie
            /\ \A p \in Requests \ {q} :
                  Presenting(p) \/ Carries(p) => request[p].token # request[q].token
        BY <2>1, <4>1 DEF Undisturbed, IsUsed
      <4>3. token'[request[q].token].status # "used"
        BY <2>5, <3>2, <4>1, <4>2
      <4>4. ASSUME NEW p \in Requests \ {q}, Presenting(p)' \/ Carries(p)'
            PROVE  request'[p].token # request[q].token
        BY <1>3, <1>5, <4>1, <4>2, <4>4
      <4> QED
        BY <1>1, <4>1, <4>2, <4>3, <4>4
    <3> QED
      BY <3>1, <3>2
  <2>8. ASSUME cookie' # 0, token'[cookie'].status = "used"
        PROVE  \E q \in Requests : request'[q].op = "rotate" /\ Carries(q)'
    <3>1. cookie # 0 /\ cookie \in Issued
      BY <1>1, <2>1, <2>8 DEF KnownTokens
    <3>2. CASE token[cookie].status = "used"
      <4>1. PICK q \in Requests : request[q].op = "rotate" /\ Carries(q)
        BY <2>1, <3>1, <3>2 DEF Undisturbed, IsUsed
      <4> QED
        BY <1>3, <1>5, <4>1
    <3>3. CASE Presenting(r)
      BY <1>5, <3>3 DEF Inserts, Presenting
    <3> QED
      BY <1>1, <2>5, <2>8, <3>1, <3>2, <3>3
  <2> QED
    BY <2>3, <2>4, <2>6, <2>7, <2>8 DEF Undisturbed, IsUsed
<1> QED
  BY <1>1, <1>2, <1>6, <1>7 DEF TabInv

\* Rotate and CreateSession insert a token so.
LEMMA BothInsert ==
    ASSUME Inv, NEW r \in Requests, NEW n \in Tokens,
           Rotate(r, n) \/ (request[r].op = "login" /\ \E s \in Sessions : CreateSession(r, s, n))
    PROVE  Inserts(r, n)
<1>1. /\ request \in [Requests -> Request] /\ token \in [Tokens -> TokenRow]
      /\ RequestInv(r)
  BY DEF Inv, ServerType
<1>2. /\ Answer(r, "ok", n) /\ n \in Tokens \ Issued /\ replayed' = replayed
      /\ request[r].at # "done" /\ request[r].op \in {"rotate", "login"}
  BY DEF Rotate, CreateSession
<1>3. /\ \A q \in Requests \ {r} : request'[q] = request[q]
      /\ request'[r].op = request[r].op /\ request'[r].at = "done"
      /\ request'[r].result = "ok" /\ request'[r].token = n
  BY <1>1, <1>2 DEF Answer, Idle
<1>4. CASE Rotate(r, n)
  <2>1. /\ Presenting(r) /\ request[r].token \in Issued /\ request[r].token # n
        /\ request[r].token \in Tokens
    BY <1>1, <1>2, <1>4 DEF Rotate, RequestInv, Presenting, InSession, Issued
  <2> DEFINE t == request[r].token
             row == [session |-> request[r].session, status |-> "current", from |-> t]
  <2>2. token' = [token EXCEPT ![t].status = "used", ![n] = row]
    BY <1>4 DEF Rotate
  <2>3. /\ row.status = "current" /\ token'[n] = row
        /\ token'[t].status = "used"
        /\ \A u \in Tokens \ {n, t} : token'[u] = token[u]
    BY <1>1, <2>1, <2>2 DEF TokenRow
  <2> HIDE DEF row
  <2> QED
    BY <1>2, <1>3, <2>1, <2>3 DEF Inserts, Carries, Presenting, InSession, Issued, IsUsed
<1>5. CASE request[r].op = "login" /\ \E s \in Sessions : CreateSession(r, s, n)
  <2>1. PICK s \in Sessions : CreateSession(r, s, n)
    BY <1>5
  <2>2. /\ token'[n].status = "current" /\ \A u \in Tokens \ {n} : token'[u] = token[u]
    BY <1>1, <2>1 DEF CreateSession
  <2> QED
    BY <1>2, <1>3, <2>2 DEF Inserts, Carries, Presenting, InSession, Issued, IsUsed
<1> QED
  BY <1>4, <1>5

\* A tab sends the cookie it finds: under the lock nobody else is refreshing, so
\* the cookie is not used up; without the lock something is disturbed.
LEMMA RefreshSent ==
    ASSUME Inv, CountInv, TabInv, NEW r \in Requests, PostRefresh(r) \/ OverlappingRefresh(r)
    PROVE  TabInv'
<1>1. /\ request \in [Requests -> Request] /\ StageOf(r)
  BY DEF Inv, ServerType, CountInv
<1>2. /\ StartRotate(r, cookie) /\ locker' = r /\ UNCHANGED <<cookie, abandoned>>
      /\ disturbed' = disturbed \/ disturbed' = TRUE
      /\ request[r].at = "idle" /\ cookie \in Issued
      /\ UNCHANGED <<token, userHolder, replayed>>
  BY DEF PostRefresh, OverlappingRefresh, StartRotate, rows, locks
<1>3. /\ \A q \in Requests \ {r} : request'[q] = request[q]
      /\ request'[r].op = "rotate" /\ request'[r].at = "session" /\ request'[r].token = cookie
  BY <1>1, <1>2 DEF StartRotate, Idle
<1>4. BrowserType'
  BY <1>2 DEF TabInv, BrowserType, Holders
<1>5. KnownTokens'
  BY <1>2, <1>3 DEF TabInv, KnownTokens, Carries, Issued
<1>6. CASE OverlappingRefresh(r)
  BY <1>4, <1>5, <1>6 DEF TabInv, OverlappingRefresh
<1>7. CASE PostRefresh(r) /\ ~disturbed
  <2>1. locker = Nobody /\ Undisturbed /\ Nobody \notin Requests /\ cookie # 0
    BY <1>2, <1>7, SessionAssumption DEF PostRefresh, TabInv, Issued, Tokens
  <2>2. \A q \in Requests : request[q].op # "rotate"
    BY <2>1 DEF Undisturbed
  <2>3. ~IsUsed(cookie)
    BY <2>1, <2>2 DEF Undisturbed
  <2>4. \A q \in Requests : request'[q].op = "rotate" => q = r
    BY <1>3, <2>2
  <2>5. \A q \in Requests : Presenting(q)' => q = r
    BY <2>4 DEF Presenting
  <2>6. \A q \in Requests : Carries(q)' => q # r /\ Carries(q) /\ request'[q] = request[q]
    BY <1>3 DEF Carries
  <2> QED
    BY <1>2, <1>3, <1>4, <1>5, <2>1, <2>3, <2>4, <2>5, <2>6 DEF TabInv, Undisturbed, IsUsed
<1>8. CASE disturbed
  BY <1>2, <1>4, <1>5, <1>8 DEF TabInv
<1> QED
  BY <1>6, <1>7, <1>8

\* A tab takes the answer: the cookie is the token it carries, if any.
LEMMA AnswerTaken ==
    ASSUME Inv, CountInv, TabInv, NEW r \in Requests,
           RefreshAnswered(r) \/ LoginAnswered(r) \/ LogoutAnswered(r)
    PROVE  TabInv'
<1>1. request \in [Requests -> Request] /\ Idle.op = "none" /\ Idle.at = "idle"
  BY DEF Inv, ServerType, Idle
<1>2. /\ Respond(r) /\ request[r].at = "done" /\ request[r].op \in {"rotate", "login", "logout"}
      /\ UNCHANGED <<token, userHolder, replayed, abandoned, disturbed>>
      /\ locker' = locker \/ (request[r].op = "rotate" /\ locker' = Unlocked(r))
  BY DEF RefreshAnswered, LoginAnswered, LogoutAnswered, Answered, Respond, rows, locks
<1>3. \/ Carries(r) /\ cookie' = request[r].token
      \/ ~Carries(r) /\ cookie' = cookie
      \/ ~Carries(r) /\ cookie' = 0
  BY DEF RefreshAnswered, LoginAnswered, LogoutAnswered, Answered, Carries
<1>4. /\ \A q \in Requests \ {r} : request'[q] = request[q]
      /\ request'[r].op = "none" /\ request'[r].at = "idle"
  BY <1>1, <1>2 DEF Respond
<1>5. /\ \A q \in Requests : Carries(q)' => q # r /\ Carries(q)
      /\ \A q \in Requests : Presenting(q)' => q # r /\ Presenting(q)
      /\ \A q \in Requests : request'[q].op = "rotate" => q # r /\ request[q].op = "rotate"
  BY <1>4 DEF Carries, Presenting, InSession
<1>6. BrowserType'
  BY <1>2 DEF TabInv, BrowserType, Unlocked, Holders
<1>7. KnownTokens'
  BY <1>2, <1>3, <1>4, <1>5 DEF TabInv, KnownTokens, Issued
<1>8. ASSUME ~disturbed
      PROVE  Undisturbed'
  <2>1. Undisturbed
    BY <1>8 DEF TabInv
  <2>2. replayed' = {} /\ abandoned' = {}
    BY <1>2, <2>1 DEF Undisturbed
  <2>3. \A q \in Requests : request'[q].op = "rotate" => locker' = q
    <3>1. CASE request[r].op = "rotate"
      BY <1>5, <2>1, <3>1 DEF Undisturbed
    <3>2. CASE request[r].op # "rotate"
      BY <1>2, <1>5, <2>1, <3>2 DEF Undisturbed
    <3> QED
      BY <3>1, <3>2
  <2>4. \A q \in Requests : Presenting(q)' => token'[request'[q].token].status # "used"
    BY <1>2, <1>4, <1>5, <2>1 DEF Undisturbed, IsUsed
  <2>5. ASSUME NEW q \in Requests, Carries(q)'
        PROVE  /\ token'[request'[q].token].status # "used" /\ request'[q].token # cookie'
               /\ \A p \in Requests \ {q} :
                     Presenting(p)' \/ Carries(p)' => request'[p].token # request'[q].token
    <3>1. q # r /\ Carries(q) /\ request'[q].token = request[q].token
      BY <1>4, <1>5, <2>5
    <3>2. /\ token'[request[q].token].status # "used" /\ request[q].token # cookie
          /\ \A p \in Requests \ {q} :
                Presenting(p) \/ Carries(p) => request[p].token # request[q].token
      BY <1>2, <2>1, <3>1 DEF Undisturbed, IsUsed
    <3>3. request[q].token # 0
      BY <3>1, SessionAssumption DEF TabInv, KnownTokens, Issued, Tokens
    <3>4. request[q].token # cookie'
      BY <1>3, <3>1, <3>2, <3>3
    <3> QED
      BY <1>4, <1>5, <3>1, <3>2, <3>4
  <2>6. ASSUME cookie' # 0, token'[cookie'].status = "used"
        PROVE  \E q \in Requests : request'[q].op = "rotate" /\ Carries(q)'
    <3>1. CASE Carries(r) /\ cookie' = request[r].token
      BY <1>2, <2>1, <2>6, <3>1 DEF Undisturbed, IsUsed
    <3>2. CASE ~Carries(r) /\ cookie' = cookie
      <4>1. PICK q \in Requests : request[q].op = "rotate" /\ Carries(q)
        BY <1>2, <2>1, <2>6, <3>2 DEF Undisturbed, IsUsed
      <4>2. q # r /\ request'[q] = request[q]
        BY <1>4, <3>2, <4>1
      <4> QED
        BY <4>1, <4>2 DEF Carries
    <3> QED
      BY <1>3, <2>6, <3>1, <3>2
  <2> QED
    BY <2>2, <2>3, <2>4, <2>5, <2>6 DEF Undisturbed, IsUsed
<1> QED
  BY <1>2, <1>6, <1>7, <1>8 DEF TabInv

\* A tab that goes away disturbs the others from then on.
LEMMA RefreshLost ==
    ASSUME Inv, TabInv, NEW r \in Requests, RefreshAbandoned(r) \/ AbandonedEnds(r)
    PROVE  TabInv'
<1>1. request \in [Requests -> Request] /\ Idle.at = "idle"
  BY DEF Inv, ServerType, Idle
<1>2. /\ UNCHANGED <<token, userHolder, replayed, cookie>> /\ disturbed'
      /\ locker' \in {locker, Nobody} /\ abandoned' \subseteq abandoned \cup {r}
      /\ \A q \in Requests : Carries(q)' => Carries(q) /\ request'[q] = request[q]
      /\ disturbed' \in BOOLEAN
  <2>1. CASE RefreshAbandoned(r)
    BY <2>1 DEF RefreshAbandoned, serverVars, Unlocked, Carries
  <2>2. CASE AbandonedEnds(r)
    <3>1. disturbed /\ disturbed \in BOOLEAN
      BY <2>2 DEF AbandonedEnds, TabInv, Undisturbed, BrowserType
    <3> QED
      BY <1>1, <2>2, <3>1 DEF AbandonedEnds, Respond, rows, locks, Carries
  <2> QED
    BY <2>1, <2>2
<1>3. BrowserType'
  BY <1>2 DEF TabInv, BrowserType, Holders
<1>4. KnownTokens'
  BY <1>2 DEF TabInv, KnownTokens, Issued
<1> QED
  BY <1>2, <1>3, <1>4 DEF TabInv

\* What happens at the API, and the requests that present no token, keep what
\* the tabs rely on.
LEMMA ServerTabs ==
    ASSUME Inv, CountInv, TabInv, NEW r \in Requests, UNCHANGED browserVars,
           \/ StartLogin(r) \/ StartEndAll(r) \/ \E s \in Sessions : StartLogout(r, s)
           \/ Step(r) \/ Fail(r) \/ (request[r].op = "endAll" /\ Respond(r))
    PROVE  TabInv'
<1>1. userHolder' \in Holders
  BY UserHeld DEF TabInv, BrowserType, Start
<1>2. CASE RotateReplay(r)
  BY <1>2, ReplayTabs
<1>3. CASE \E t \in Tokens : Rotate(r, t)
  BY <1>1, <1>3, BothInsert, InsertTabs
<1>4. CASE \E s \in Sessions, t \in Tokens : CreateSession(r, s, t)
  <2>1. request[r].op = "login"
    BY <1>4 DEF CreateSession, CountInv, StageOf
  <2> QED
    BY <1>1, <1>4, <2>1, BothInsert, InsertTabs
<1>5. CASE Quiet(r)
  BY <1>1, <1>5, QuietKeeps
<1> QED
  BY <1>2, <1>3, <1>4, <1>5, QuietSteps DEF Step

\* A COMMIT nobody hears of: a refresh whose token is lost with it is counted as
\* disturbed; of any other request the browser only learns that it failed.
LEMMA UnheardTabs ==
    ASSUME Inv, TabInv, NEW r \in Requests, CommitIsUnheard(r)
    PROVE  TabInv'
<1>1. /\ \A q \in Requests \ {r} : request'[q] = request[q]
      /\ request[r].at = "done"
      /\ request'[r].at = "done" /\ request'[r].op = request[r].op
      /\ request'[r].result = "failed"
      /\ UNCHANGED <<token, userHolder, replayed>>
  BY UnheardFails DEF CommitIsUnheard, Inv, ServerType, rows, locks
<1>2. /\ UNCHANGED <<cookie, locker, abandoned>>
      /\ disturbed' = (disturbed \/ (request[r].op = "rotate" /\ request[r].result = "ok"))
  BY DEF CommitIsUnheard
<1>3. \A q \in Requests : Carries(q)' => q # r /\ Carries(q) /\ request'[q] = request[q]
  BY <1>1 DEF Carries
<1>4. \A q \in Requests : Presenting(q)' => q # r /\ Presenting(q) /\ request'[q] = request[q]
  BY <1>1 DEF Presenting, InSession
<1>5. BrowserType'
  BY <1>1, <1>2 DEF TabInv, BrowserType
<1>6. KnownTokens'
  BY <1>1, <1>2, <1>3 DEF TabInv, KnownTokens, Issued
<1>7. ASSUME ~disturbed'
      PROVE  Undisturbed'
  <2>1. Undisturbed /\ ~(request[r].op = "rotate" /\ Carries(r))
    BY <1>2, <1>7 DEF TabInv, Carries
  <2>2. replayed' = {} /\ abandoned' = {}
    BY <1>1, <1>2, <2>1 DEF Undisturbed
  <2>3. \A q \in Requests : request'[q].op = "rotate" => locker' = q
    BY <1>1, <1>2, <2>1 DEF Undisturbed
  <2>4. \A q \in Requests : Presenting(q)' => ~IsUsed(request[q].token)'
    BY <1>1, <1>4, <2>1 DEF Undisturbed, IsUsed
  <2>5. ASSUME NEW q \in Requests, Carries(q)'
        PROVE  /\ token'[request'[q].token].status # "used" /\ request'[q].token # cookie'
               /\ \A p \in Requests \ {q} :
                     Presenting(p)' \/ Carries(p)' => request'[p].token # request'[q].token
    BY <1>1, <1>2, <1>3, <1>4, <2>1, <2>5 DEF Undisturbed, IsUsed
  <2>6. ASSUME cookie' # 0, token'[cookie'].status = "used"
        PROVE  \E q \in Requests : request'[q].op = "rotate" /\ Carries(q)'
    <3>1. PICK q \in Requests : request[q].op = "rotate" /\ Carries(q)
      BY <1>1, <1>2, <2>1, <2>6 DEF Undisturbed, IsUsed
    <3>2. q # r /\ request'[q] = request[q]
      BY <1>1, <2>1, <3>1
    <3> QED
      BY <3>1, <3>2 DEF Carries
  <2> QED
    BY <2>2, <2>3, <2>4, <2>5, <2>6 DEF Undisturbed, IsUsed
<1> QED
  BY <1>5, <1>6, <1>7 DEF TabInv

\* Every step of the API and of the tabs keeps what the tabs rely on.
LEMMA NextTabs == Inv /\ CountInv /\ TabInv /\ [Next]_vars => TabInv'
<1> SUFFICES ASSUME Inv, CountInv, TabInv, [Next]_vars
             PROVE  TabInv'
  OBVIOUS
<1>1. CASE UNCHANGED vars
  BY <1>1 DEF TabInv, BrowserType, KnownTokens, Undisturbed, Presenting, InSession,
     Carries, IsUsed, Issued, vars, serverVars, browserVars
<1>2. ASSUME NEW r \in Requests, PostRefresh(r) \/ OverlappingRefresh(r)
      PROVE  TabInv'
  BY <1>2, RefreshSent
<1>3. ASSUME NEW r \in Requests, RefreshAnswered(r) \/ LoginAnswered(r) \/ LogoutAnswered(r)
      PROVE  TabInv'
  BY <1>3, AnswerTaken
<1>4. ASSUME NEW r \in Requests, RefreshAbandoned(r) \/ AbandonedEnds(r)
      PROVE  TabInv'
  BY <1>4, RefreshLost
<1>5. ASSUME NEW r \in Requests,
             PostLogin(r) \/ PostLogout(r) \/ EndedElsewhere(r) \/ AtTheApi(r)
      PROVE  TabInv'
  <2>1. UNCHANGED browserVars
    BY <1>5 DEF PostLogin, PostLogout, EndedElsewhere, AtTheApi
  <2>2. \/ StartLogin(r) \/ StartEndAll(r) \/ \E s \in Sessions : StartLogout(r, s)
        \/ Step(r) \/ Fail(r) \/ (request[r].op = "endAll" /\ Respond(r))
    BY <1>5 DEF PostLogin, PostLogout, EndedElsewhere, AtTheApi, Answered
  <2> QED
    BY <2>1, <2>2, ServerTabs
<1>6. ASSUME NEW r \in Requests, CommitIsUnheard(r)
      PROVE  TabInv'
  BY <1>6, UnheardTabs
<1> QED
  BY <1>1, <1>2, <1>3, <1>4, <1>5, <1>6 DEF Next

\* The tabs start without a cookie.
LEMMA InitTabs == Init => TabInv
<1> SUFFICES ASSUME Init PROVE TabInv
  OBVIOUS
<1>1. /\ cookie = 0 /\ locker = Nobody /\ abandoned = {} /\ disturbed = FALSE
      /\ replayed = {} /\ userHolder = Nobody
      /\ \A r \in Requests : request[r].op = "none" /\ request[r].at = "idle"
  BY DEF Init, ServerInit, Idle
<1> QED
  BY <1>1 DEF TabInv, BrowserType, KnownTokens, Undisturbed, Presenting, InSession,
     Carries, Holders

\* The counters and the tabs, for any number of requests, sessions and tokens:
\* the slots are exactly the logins under way (activeLoginRequests), and what
\* the tabs know of the tokens.
THEOREM TabsAndCountersAgree == Spec => [](CountInv /\ TabInv)
<1>1. Init => CountInv /\ TabInv
  BY InitCounts, InitTabs
<1>2. Inv /\ CountInv /\ TabInv /\ [Next]_vars => CountInv' /\ TabInv'
  BY NextCounts, NextTabs
<1> QED
  BY <1>1, <1>2, RowsAndRequestsAgree, PTL DEF Spec

\* Every variable has its type and every login that runs, and no other, holds
\* one of the slots (login in auth.service.ts gives it back however it ends).
THEOREM SessionsAreTyped == Spec => []TypeOK
<1>1. Inv /\ CountInv /\ TabInv => TypeOK
  <2> SUFFICES ASSUME Inv, CountInv, TabInv PROVE TypeOK
    OBVIOUS
  <2>1. version \in 0 .. MaxVersion
    <3>1. Cardinality(Running({"endAll"})) \in Nat
      BY FS_CardinalityType DEF CountInv
    <3> QED
      BY <3>1, SessionAssumption DEF CountInv, Inv, ServerType
  <2>2. cookie \in 0 .. MaxTokens
    BY SessionAssumption DEF TabInv, KnownTokens, Issued, Tokens
  <2> QED
    BY <2>1, <2>2 DEF Inv, ServerType, CountInv, TabInv, BrowserType, TypeOK
<1> QED
  BY <1>1, RowsAndRequestsAgree, TabsAndCountersAgree, PTL

\* No more logins compute a password hash at a time than the API allows,
\* however they interleave and fail (MAX_CONCURRENT_LOGIN_REQUESTS).
THEOREM LoginsAreBounded ==
    Spec => [](Cardinality(Running({"login"})) <= LoginCapacity)
<1>1. CountInv => Cardinality(Running({"login"})) <= LoginCapacity
  BY DEF CountInv
<1> QED
  BY <1>1, TabsAndCountersAgree, PTL

\* The refresh lock keeps the tabs from replaying each other's cookie, for any
\* number of tabs, logins and logouts: a used token is presented only after the
\* answer of a refresh was lost, on its way to the browser or with its COMMIT, or
\* two overlapped (withCrossTabLock).
THEOREM LockedTabsDoNotReplay == Spec => []TabsDoNotReplay
<1>1. TabInv => TabsDoNotReplay
  BY DEF TabInv, Undisturbed, TabsDoNotReplay
<1> QED
  BY <1>1, TabsAndCountersAgree, PTL
-----------------------------------------------------------------------------
(* The account *)

\* What else a commit relies on: the version that a login read is no newer
\* than the account's, a rotation holds the token it replaces, and the end of all
\* sessions holds tokens that are still current.
Relies(r) ==
    /\ request[r].at = "verify" => request[r].version <= version
    /\ request[r].at = "decide" /\ request[r].op = "rotate" =>
          tokenHolder[request[r].token] = r
    /\ request[r].at = "tokens" =>
          \A t \in Tokens : tokenHolder[t] = r => token[t].status = "current"

AccountInv ==
    /\ \A s \in Present : session[s].version <= version
    /\ \A r \in Requests : Relies(r)

\* A step that changes no token held by another keeps what the others rely on.
LEMMA OthersRely ==
    ASSUME Inv, AccountInv, NEW r \in Requests, KeepsOthers(r),
           ServerType', version' \in {version, version + 1},
           \A s \in Present' :
               \/ s \in Present /\ session'[s].version = session[s].version
               \/ session'[s].version <= version,
           \A t \in Issued : tokenHolder[t] \in {r, Nobody} \/ token'[t] = token[t],
           Relies(r)'
    PROVE  AccountInv'
<1>1. /\ session \in [Sessions -> SessionRow] /\ Present \subseteq Sessions
      /\ request \in [Requests -> Request]
      /\ \A t \in Tokens : tokenHolder[t] # Nobody => t \in Issued
  BY DEF Inv, ServerType, Present, HeldIsPresent
<1>2. ASSUME NEW s \in Present'
      PROVE  session'[s].version <= version'
  <2>1. session'[s].version \in Nat /\ version \in Nat
    BY DEF Inv, ServerType, SessionRow, Present
  <2>2. session'[s].version <= version
    BY DEF AccountInv
  <2> QED
    BY <2>1, <2>2
<1>3. ASSUME NEW q \in Requests \ {r}
      PROVE  Relies(q)'
  <2>1. /\ request'[q] = request[q] /\ q # Nobody
        /\ \A t \in Tokens : tokenHolder'[t] = q <=> tokenHolder[t] = q
    BY SessionAssumption DEF KeepsOthers
  <2>2. request[q].version \in Nat /\ version \in Nat
    BY <1>1 DEF Request, Inv, ServerType
  <2>3. request[q].at = "decide" /\ request[q].op = "rotate" => request[q].token \in Tokens
    BY DEF Inv, RequestInv, InSession, Issued
  <2>4. \A t \in Tokens : tokenHolder[t] = q => token'[t] = token[t]
    BY <1>1, <2>1
  <2>5. request[q].at = "verify" => request[q].version <= version'
    BY <2>2 DEF AccountInv, Relies
  <2> QED
    BY <2>1, <2>3, <2>4, <2>5 DEF AccountInv, Relies
<1> QED
  BY <1>2, <1>3 DEF AccountInv

\* The rows a rotation leaves: its token is used up, the next is current.
LEMMA RotatedRows ==
    ASSUME Inv, NEW r \in Requests, NEW n \in Tokens, Rotate(r, n)
    PROVE  LET s == request[r].session
               t == request[r].token
           IN /\ t \in Issued /\ t \in Tokens /\ n \notin Issued /\ t # n /\ s \in Present
              /\ token[t].session = s /\ token[t].status = "current"
              /\ token'[t].session = s /\ token'[t].status = "used"
              /\ token'[n].session = s /\ token'[n].status = "current"
              /\ \A u \in Tokens \ {t, n} : token'[u] = token[u]
              /\ Issued' = Issued \cup {n}
              /\ session' = session /\ Present' = Present /\ version' = version
<1> DEFINE s == request[r].session
           t == request[r].token
           row == [session |-> s, status |-> "current", from |-> t]
<1>1. /\ token \in [Tokens -> TokenRow] /\ Issued \subseteq Tokens
      /\ t \in Issued /\ token[t].session = s /\ s \in Present
  BY DEF Inv, ServerType, Issued, Rotate, RequestInv, InSession
<1>2. /\ n \notin Issued /\ token[t].status = "current"
      /\ token' = [token EXCEPT ![t].status = "used", ![n] = row]
      /\ session' = session /\ version' = version
  BY DEF Rotate, MayRotate
<1>3. row.session = s /\ row.status = "current"
  OBVIOUS
<1> HIDE DEF row, s, t
<1>4. /\ t # n /\ token'[n] = row /\ token'[t] = [token[t] EXCEPT !.status = "used"]
      /\ \A u \in Tokens \ {t, n} : token'[u] = token[u]
  BY <1>1, <1>2
<1>5. token'[t].session = s /\ token'[t].status = "used"
  BY <1>1, <1>4 DEF TokenRow
<1>6. Issued' = Issued \cup {n} /\ Present' = Present
  BY <1>1, <1>2, <1>3, <1>4, <1>5 DEF Issued, Present
<1>7. /\ t \in Issued /\ t \in Tokens /\ n \notin Issued /\ t # n /\ s \in Present
      /\ token[t].session = s /\ token[t].status = "current"
      /\ token'[t].session = s /\ token'[t].status = "used"
      /\ token'[n].session = s /\ token'[n].status = "current"
      /\ \A u \in Tokens \ {t, n} : token'[u] = token[u]
      /\ Issued' = Issued \cup {n}
      /\ session' = session /\ Present' = Present /\ version' = version
  BY <1>1, <1>2, <1>3, <1>4, <1>5, <1>6
<1> QED
  BY <1>7 DEF s, t

\* The rows a login leaves: a session opened with the version it read, and its
\* first token.
LEMMA CreatedRows ==
    ASSUME Inv, NEW r \in Requests, NEW s \in Sessions, NEW n \in Tokens,
           CreateSession(r, s, n)
    PROVE  /\ request[r].at = "verify" /\ s \notin Present /\ n \notin Issued
           /\ session'[s].version = request[r].version /\ session'[s].state = "open"
           /\ \A u \in Sessions \ {s} : session'[u] = session[u]
           /\ token'[n].session = s /\ token'[n].status = "current"
           /\ \A u \in Tokens \ {n} : token'[u] = token[u]
           /\ Present' = Present \cup {s} /\ Issued' = Issued \cup {n}
           /\ version' = version
<1>1. session \in [Sessions -> SessionRow] /\ token \in [Tokens -> TokenRow]
  BY DEF Inv, ServerType
<1>2. /\ request[r].at = "verify" /\ s \notin Present /\ n \notin Issued
      /\ session' = [session EXCEPT ![s] = [state |-> "open",
            version |-> request[r].version, opened |-> request[r].opened]]
      /\ token' = [token EXCEPT ![n] = [session |-> s, status |-> "current", from |-> 0]]
      /\ version' = version
  BY DEF CreateSession, VersionOfLogin
<1>3. /\ session'[s].version = request[r].version /\ session'[s].state = "open"
      /\ \A u \in Sessions \ {s} : session'[u] = session[u]
      /\ token'[n].session = s /\ token'[n].status = "current"
      /\ \A u \in Tokens \ {n} : token'[u] = token[u]
  BY <1>1, <1>2
<1>4. Present' = Present \cup {s} /\ Issued' = Issued \cup {n}
  BY <1>2, <1>3 DEF Present, Issued
<1> QED
  BY <1>2, <1>3, <1>4

\* The rows a revocation leaves: the tokens it revokes were current, and nobody
\* else holds them.
LEMMA RevokedRows ==
    ASSUME Inv, AccountInv, NEW r \in Requests,
           RotateReplay(r) \/ RevokeSession(r) \/ EndAll(r)
    PROVE  \E ts \in SUBSET Issued :
              /\ token' = TokensRevoked(ts)
              /\ \A t \in ts : token[t].status = "current" /\ tokenHolder[t] \in {r, Nobody}
              /\ Issued' = Issued /\ Present' = Present
              /\ \A s \in Present : session'[s].version = session[s].version
<1>1. /\ ServerType /\ session \in [Sessions -> SessionRow] /\ Relies(r)
      /\ \A t \in Tokens : tokenHolder[t] # Nobody => t \in Issued
      /\ r # Nobody /\ Present \subseteq Sessions /\ Issued \subseteq Tokens
  BY SessionAssumption DEF Inv, ServerType, HeldIsPresent, AccountInv, Present, Issued
<1>2. PICK ts \in SUBSET Issued :
          /\ token' = TokensRevoked(ts)
          /\ \A t \in ts : token[t].status = "current" /\ tokenHolder[t] \in {r, Nobody}
  <2>1. CASE RotateReplay(r) \/ RevokeSession(r)
    <3>1. /\ token' = TokensRevoked(CurrentOf(request[r].session))
          /\ MayRevokeTokens(r, request[r].session)
      BY <2>1 DEF RotateReplay, RevokeSession
    <3>2. /\ CurrentOf(request[r].session) \in SUBSET Issued
          /\ \A t \in CurrentOf(request[r].session) :
                token[t].status = "current" /\ tokenHolder[t] \in {r, Nobody}
      BY <3>1 DEF CurrentOf, MayRevokeTokens
    <3> QED
      BY <3>1, <3>2
  <2>2. CASE EndAll(r)
    <3> DEFINE held == {t \in Tokens : tokenHolder[t] = r}
    <3>1. token' = TokensRevoked(held) /\ request[r].at = "tokens"
      BY <2>2 DEF EndAll
    <3>2. held \in SUBSET Issued /\ \A t \in held : token[t].status = "current"
      BY <1>1, <3>1 DEF Relies
    <3> QED
      BY <3>1, <3>2
  <2> QED
    BY <2>1, <2>2
<1>3. Issued' = Issued
  BY <1>1, <1>2, Revoking
<1>4. \A s \in Sessions :
          /\ session'[s].version = session[s].version
          /\ s \in Present' <=> s \in Present
  <2>1. CASE RotateReplay(r) \/ RevokeSession(r)
    <3>1. /\ session' = [session EXCEPT ![request[r].session].state = "revoked"]
          /\ request[r].session \in Present
      BY <2>1 DEF RotateReplay, RevokeSession, Inv, RequestInv, InSession
    <3> QED
      BY <1>1, <3>1 DEF SessionRow, Present
  <2>2. CASE EndAll(r)
    <3>1. /\ session' = [s \in Sessions |->
               IF sessionHolder[s] = r THEN [session[s] EXCEPT !.state = "revoked"]
                                       ELSE session[s]]
          /\ \A s \in Sessions : sessionHolder[s] = r => s \in Present
      BY <1>1, <2>2 DEF EndAll, Inv, HeldIsPresent
    <3> QED
      BY <1>1, <3>1 DEF SessionRow, Present
  <2> QED
    BY <2>1, <2>2
<1>5. Present' = Present
  <2>1. Present' \subseteq Sessions
    BY DEF Present
  <2> QED
    BY <1>1, <1>4, <2>1
<1>6. \A s \in Present : session'[s].version = session[s].version
  BY <1>1, <1>4
<1> QED
  BY <1>2, <1>3, <1>5, <1>6

\* Every step of a request leaves the others and their locks alone.
LEMMA StepsAreOwn ==
    ASSUME Inv, NEW r \in Requests,
           Start(r) \/ Step(r) \/ Fail(r) \/ CommitUnheard(r) \/ Respond(r)
    PROVE  KeepsOthers(r)
<1>1. /\ request \in [Requests -> Request]
      /\ sessionHolder \in [Sessions -> Holders]
      /\ tokenHolder \in [Tokens -> Holders]
      /\ RequestInv(r) /\ Tokens \subseteq Nat
      /\ \A q \in Requests : q # Nobody
  BY SessionAssumption DEF Inv, ServerType, Tokens
<1>2. CASE Start(r) \/ Respond(r) \/ SelectTokens(r) \/ LockUser(r)
  <2>1. UNCHANGED <<sessionHolder, tokenHolder>>
    BY <1>2 DEF Start, StartRotate, StartLogin, StartLogout, StartEndAll, Respond,
       SelectTokens, LockUser, locks
  <2>2. \A q \in Requests \ {r} : request'[q] = request[q]
    BY <1>1, <1>2 DEF Start, StartRotate, StartLogin, StartLogout, StartEndAll, Respond,
       SelectTokens, LockUser
  <2> QED
    BY <2>1, <2>2 DEF KeepsOthers
<1>3. CASE \/ RotateReplay(r) \/ RotateRefused(r) \/ RevokeSession(r) \/ EndAll(r) \/ Fail(r)
           \/ \E t \in Tokens : Rotate(r, t)
  <2>1. PICK result \in {"ok", "invalid", "reused", "failed"}, t \in Nat :
            Answer(r, result, t) /\ Release(r)
    BY <1>1, <1>3 DEF RotateReplay, RotateRefused, RevokeSession, EndAll, Fail, Rotate
  <2> QED
    BY <2>1, Finished
<1>4. CASE \E s \in Sessions, t \in Tokens : CreateSession(r, s, t)
  <2>1. UNCHANGED locks /\ \A q \in Requests \ {r} : request'[q] = request[q]
    BY <1>1, <1>4 DEF CreateSession, Answer
  <2> QED
    BY <2>1 DEF KeepsOthers, locks
<1>5. CASE \/ LockSession(r) \/ LockToken(r)
           \/ \E s \in Sessions : LockEachSession(r, s)
           \/ \E t \in Tokens : LockEachToken(r, t)
  <2>1. \A q \in Requests \ {r} : request'[q] = request[q]
    BY <1>1, <1>5 DEF LockSession, LockToken, LockEachSession, LockEachToken
  <2>2. \A s \in Sessions :
            sessionHolder'[s] # sessionHolder[s] =>
                sessionHolder[s] = Nobody /\ sessionHolder'[s] = r
    BY <1>1, <1>5 DEF LockSession, LockToken, LockEachSession, LockEachToken
  <2>3. \A t \in Tokens :
            tokenHolder'[t] # tokenHolder[t] =>
                tokenHolder[t] = Nobody /\ tokenHolder'[t] = r
    BY <1>1, <1>5 DEF LockSession, LockToken, LockEachSession, LockEachToken
  <2> QED
    BY <1>1, <2>1, <2>2, <2>3 DEF KeepsOthers
<1>6. CASE CommitUnheard(r)
  BY <1>1, <1>6, UnheardFails DEF KeepsOthers, locks
<1> QED
  BY <1>2, <1>3, <1>4, <1>5, <1>6 DEF Step

\* A request that was answered is done.
LEMMA AnswersAreDone ==
    ASSUME request \in [Requests -> Request], NEW r \in Requests, NEW result, NEW t,
           Answer(r, result, t)
    PROVE  request'[r].at = "done"
<1>1. request'[r] = [Idle EXCEPT !.op = request[r].op, !.at = "done",
                                 !.result = result, !.token = t]
  BY DEF Answer
<1> QED
  BY <1>1 DEF Idle

\* Steps that change no table keep what commits rely on.
LEMMA WaitsRely ==
    ASSUME Inv, LockInv, AccountInv, ServerType', NEW r \in Requests, KeepsOthers(r),
           \/ Start(r) \/ Fail(r) \/ RotateRefused(r) \/ CommitUnheard(r) \/ Respond(r)
           \/ LockSession(r) \/ LockToken(r) \/ LockUser(r)
           \/ \E s \in Sessions : LockEachSession(r, s)
           \/ SelectTokens(r)
           \/ \E t \in Tokens : LockEachToken(r, t)
    PROVE  AccountInv'
<1>1. /\ UNCHANGED rows
      /\ request \in [Requests -> Request] /\ tokenHolder \in [Tokens -> Holders]
      /\ version \in Nat /\ RequestInv(r) /\ Holding(r) /\ Relies(r)
  BY DEF Start, StartRotate, StartLogin, StartLogout, StartEndAll, Fail, RotateRefused,
     CommitUnheard, Respond, LockSession, LockToken, LockUser, LockEachSession, SelectTokens,
     LockEachToken, Inv, ServerType, LockInv, AccountInv
<1>2. /\ version' = version /\ session' = session /\ token' = token
      /\ Present' = Present
  BY <1>1 DEF rows, Present
<1>3. CASE Start(r)
  <2>1. \/ request'[r].at \in {"session", "user"}
        \/ request'[r].at = "verify" /\ request'[r].version = version
    BY <1>1, <1>3 DEF Start, StartRotate, StartLogin, StartLogout, StartEndAll, Idle
  <2>2. Relies(r)'
    BY <1>1, <1>2, <2>1 DEF Relies
  <2> QED
    BY <1>2, <2>2, OthersRely DEF AccountInv
<1>4. CASE Fail(r) \/ RotateRefused(r) \/ CommitUnheard(r) \/ Respond(r) \/ LockUser(r)
  <2>1. request'[r].at \in {"done", "idle", "sessions"}
    <3>1. CASE Fail(r) \/ RotateRefused(r)
      BY <1>1, <3>1, AnswersAreDone DEF Fail, RotateRefused
    <3>2. CASE Respond(r)
      BY <1>1, <3>2 DEF Respond, Idle
    <3>3. CASE LockUser(r)
      BY <1>1, <3>3 DEF LockUser, Request
    <3>4. CASE CommitUnheard(r)
      BY <1>1, <3>4, UnheardFails
    <3> QED
      BY <1>4, <3>1, <3>2, <3>3, <3>4
  <2>2. Relies(r)'
    BY <2>1 DEF Relies
  <2> QED
    BY <1>2, <2>2, OthersRely DEF AccountInv
<1>5. CASE LockSession(r) \/ \E s \in Sessions : LockEachSession(r, s)
  <2>1. \/ request'[r].at \in {"token", "sessions"}
        \/ request'[r].at = "decide" /\ request'[r].op # "rotate"
    BY <1>1, <1>5 DEF LockSession, LockEachSession, Request
  <2>2. Relies(r)'
    BY <2>1 DEF Relies
  <2> QED
    BY <1>2, <2>2, OthersRely DEF AccountInv
<1>6. CASE LockToken(r)
  <2>1. /\ request'[r].at = "decide" /\ request'[r].token = request[r].token
        /\ tokenHolder' = [tokenHolder EXCEPT ![request[r].token] = r]
        /\ request[r].token \in Tokens
    BY <1>1, <1>6 DEF LockToken, Request, RequestInv, InSession, Issued
  <2>2. Relies(r)'
    BY <1>1, <2>1 DEF Relies
  <2> QED
    BY <1>2, <2>2, OthersRely DEF AccountInv
<1>7. CASE SelectTokens(r)
  <2>1. /\ request'[r].at = "tokens" /\ tokenHolder' = tokenHolder
        /\ request[r].at = "sessions"
    BY <1>1, <1>7 DEF SelectTokens, Request, locks
  <2>2. \A t \in Tokens : tokenHolder[t] # r
    BY <1>1, <2>1 DEF Holding
  <2>3. Relies(r)'
    BY <2>1, <2>2 DEF Relies
  <2> QED
    BY <1>2, <2>3, OthersRely DEF AccountInv
<1>8. ASSUME NEW t \in Tokens, LockEachToken(r, t)
      PROVE  AccountInv'
  <2>1. /\ request'[r].at = "tokens" /\ request[r].at = "tokens"
        /\ \A u \in Tokens : tokenHolder'[u] # tokenHolder[u] => token[u].status = "current"
    BY <1>1, <1>8 DEF LockEachToken, Request
  <2>2. Relies(r)'
    BY <1>1, <1>2, <2>1 DEF Relies
  <2> QED
    BY <1>2, <2>2, OthersRely DEF AccountInv
<1> QED
  BY <1>3, <1>4, <1>5, <1>6, <1>7, <1>8

\* So do the commits.
LEMMA CommitsRely ==
    ASSUME Inv, AccountInv, ServerType', NEW r \in Requests, KeepsOthers(r),
           \/ RotateReplay(r) \/ RevokeSession(r) \/ EndAll(r)
           \/ \E t \in Tokens : Rotate(r, t)
           \/ \E s \in Sessions, t \in Tokens : CreateSession(r, s, t)
    PROVE  AccountInv'
<1>1. /\ session \in [Sessions -> SessionRow] /\ token \in [Tokens -> TokenRow]
      /\ request \in [Requests -> Request] /\ version \in Nat /\ Relies(r)
      /\ \A t \in Tokens : tokenHolder[t] # Nobody => t \in Issued
      /\ Present \subseteq Sessions /\ Issued \subseteq Tokens
  BY DEF Inv, ServerType, Present, Issued, HeldIsPresent, AccountInv
<1>2. Relies(r)'
  <2>1. \E result, t : Answer(r, result, t)
    BY DEF RotateReplay, RevokeSession, EndAll, Rotate, CreateSession
  <2>2. request'[r].at = "done"
    BY <1>1, <2>1, AnswersAreDone
  <2> QED
    BY <2>2 DEF Relies
<1>3. CASE RotateReplay(r) \/ RevokeSession(r) \/ EndAll(r)
  <2>1. PICK ts \in SUBSET Issued :
            /\ token' = TokensRevoked(ts)
            /\ \A t \in ts : token[t].status = "current" /\ tokenHolder[t] \in {r, Nobody}
            /\ Issued' = Issued /\ Present' = Present
            /\ \A s \in Present : session'[s].version = session[s].version
    BY <1>3, RevokedRows
  <2>2. \A t \in Issued : tokenHolder[t] \in {r, Nobody} \/ token'[t] = token[t]
    BY <1>1, <2>1 DEF TokensRevoked
  <2>3. version' \in {version, version + 1}
    BY <1>3 DEF RotateReplay, RevokeSession, EndAll
  <2> QED
    BY <1>2, <2>1, <2>2, <2>3, OthersRely
<1>4. ASSUME NEW n \in Tokens, Rotate(r, n)
      PROVE  AccountInv'
  <2> DEFINE t == request[r].token
  <2>1. /\ request[r].at = "decide" /\ request[r].op = "rotate"
        /\ version' = version /\ session' = session /\ Present' = Present
        /\ n \notin Issued /\ \A u \in Tokens \ {t, n} : token'[u] = token[u]
    BY <1>4, RotatedRows DEF Rotate
  <2>2. tokenHolder[t] = r
    BY <1>1, <2>1 DEF Relies
  <2> HIDE DEF t
  <2>3. \A u \in Issued : tokenHolder[u] \in {r, Nobody} \/ token'[u] = token[u]
    BY <1>1, <2>1, <2>2
  <2> QED
    BY <1>2, <2>1, <2>3, OthersRely DEF AccountInv
<1>5. ASSUME NEW s \in Sessions, NEW n \in Tokens, CreateSession(r, s, n)
      PROVE  AccountInv'
  <2>1. /\ request[r].at = "verify" /\ n \notin Issued
        /\ session'[s].version = request[r].version
        /\ \A u \in Sessions \ {s} : session'[u] = session[u]
        /\ \A u \in Tokens \ {n} : token'[u] = token[u]
        /\ Present' = Present \cup {s} /\ version' = version
    BY <1>5, CreatedRows
  <2>2. session'[s].version <= version
    BY <1>1, <2>1 DEF Relies
  <2>3. \A u \in Issued : tokenHolder[u] \in {r, Nobody} \/ token'[u] = token[u]
    BY <1>1, <2>1
  <2>4. \A u \in Present' :
            \/ u \in Present /\ session'[u].version = session[u].version
            \/ session'[u].version <= version
    BY <1>1, <2>1, <2>2
  <2> QED
    BY <1>2, <2>1, <2>3, <2>4, OthersRely
<1> QED
  BY <1>3, <1>4, <1>5

\* Every step keeps what the commits rely on.
LEMMA NextRelies == Inv /\ LockInv /\ AccountInv /\ [Next]_vars => AccountInv'
<1> SUFFICES ASSUME Inv, LockInv, AccountInv, [Next]_vars
             PROVE  AccountInv'
  OBVIOUS
<1>1. Inv' /\ ServerType'
  BY StepKeeps DEF Inv
<1>2. ServerNext \/ UNCHANGED serverVars
  BY ServerSteps DEF vars
<1>3. CASE UNCHANGED serverVars
  BY <1>3 DEF serverVars, AccountInv, Relies, Present
<1>4. ASSUME NEW r \in Requests,
             Start(r) \/ Step(r) \/ Fail(r) \/ CommitUnheard(r) \/ Respond(r)
      PROVE  AccountInv'
  <2>1. KeepsOthers(r)
    BY <1>4, StepsAreOwn
  <2>2. CASE \/ RotateReplay(r) \/ RevokeSession(r) \/ EndAll(r)
             \/ \E t \in Tokens : Rotate(r, t)
             \/ \E s \in Sessions, t \in Tokens : CreateSession(r, s, t)
    BY <1>1, <2>1, <2>2, CommitsRely
  <2>3. CASE \/ Start(r) \/ Fail(r) \/ RotateRefused(r) \/ CommitUnheard(r) \/ Respond(r)
             \/ LockSession(r) \/ LockToken(r) \/ LockUser(r)
             \/ \E s \in Sessions : LockEachSession(r, s)
             \/ SelectTokens(r)
             \/ \E t \in Tokens : LockEachToken(r, t)
    BY <1>1, <2>1, <2>3, WaitsRely
  <2> QED
    BY <1>4, <2>2, <2>3 DEF Step
<1> QED
  BY <1>2, <1>3, <1>4 DEF ServerNext

\* Nothing is opened, presented or locked at first.
LEMMA InitRelies == Init => AccountInv
  BY DEF Init, ServerInit, AccountInv, Relies, Idle, Present

\* A session with a current token has it as its token to exchange.
CurrentAgrees ==
    /\ DOMAIN Current = Renewable /\ Renewable \subseteq Present
    /\ \A s \in Present : \A t \in CurrentOf(s) : s \in Renewable /\ Current[s] = t
    /\ \A s \in Renewable : Current[s] \in CurrentOf(s)

\* The tables can be read as an account.
LEMMA CurrentIsRead == Inv => CurrentAgrees
<1> SUFFICES ASSUME Inv
             PROVE  CurrentAgrees
  OBVIOUS
<1>1. DOMAIN Current = Renewable /\ Renewable \subseteq Present
  BY DEF Current, Renewable
<1>2. ASSUME NEW s \in Present, NEW t \in CurrentOf(s)
      PROVE  s \in Renewable /\ Current[s] = t
  <2>1. s \in Renewable
    BY <1>2 DEF Renewable
  <2>2. TokenOf(s) \in CurrentOf(s)
    BY <1>2 DEF TokenOf
  <2>3. TokenOf(s) = t
    BY <1>2, <2>2 DEF Inv, RowInv, TokenIsRotatedOnce, CurrentOf
  <2> QED
    BY <2>1, <2>3 DEF Current
<1>3. ASSUME NEW s \in Renewable
      PROVE  Current[s] \in CurrentOf(s)
  BY <1>1, <1>2 DEF Renewable
<1> QED
  BY <1>1, <1>2, <1>3 DEF CurrentAgrees

\* The tokens to exchange after a step, session by session.
LEMMA CurrentBecomes ==
    ASSUME Inv', NEW f, f = [s \in DOMAIN f |-> f[s]],
           \A s \in DOMAIN f : s \in Present' /\ f[s] \in CurrentOf(s)',
           \A s \in Present' \ DOMAIN f : CurrentOf(s)' = {}
    PROVE  Current' = f
<1>1. CurrentAgrees'
  BY CurrentIsRead, PTL
<1>2. Renewable' = DOMAIN f
  BY DEF Renewable
<1>3. \A s \in DOMAIN f : Current'[s] = f[s]
  BY <1>1 DEF CurrentAgrees
<1>4. Current' = [s \in Renewable' |-> Current'[s]]
  BY DEF Current
<1> QED
  BY <1>2, <1>3, <1>4
\* The commit of a rotation is the exchange of the token it was sent.
LEMMA RotationRefreshes ==
    ASSUME Inv, Inv', NEW r \in Requests, NEW n \in Tokens, Rotate(r, n)
    PROVE  Account!Refresh(request[r].session, n)
<1> SUFFICES ASSUME NEW s, s = request[r].session, NEW t, t = request[r].token
             PROVE  Account!Refresh(s, n)
  OBVIOUS
<1> DEFINE after == Account!With(Current, s, n)
<1>1. /\ t \in Issued /\ t \in Tokens /\ n \notin Issued /\ t # n /\ s \in Present
      /\ token[t].session = s /\ token[t].status = "current"
      /\ token'[t].session = s /\ token'[t].status = "used"
      /\ token'[n].session = s /\ token'[n].status = "current"
      /\ \A u \in Tokens \ {t, n} : token'[u] = token[u]
      /\ Issued' = Issued \cup {n}
      /\ session' = session /\ Present' = Present /\ version' = version
  BY RotatedRows
<1>2. CurrentAgrees /\ Issued \subseteq Tokens
  BY CurrentIsRead DEF Issued
<1>3. t \in CurrentOf(s) /\ s \in Renewable /\ Current[s] = t
  BY <1>1, <1>2 DEF CurrentOf, CurrentAgrees
<1>4. n \in CurrentOf(s)'
  BY <1>1 DEF CurrentOf
<1>5. ASSUME NEW u \in Present, u # s
      PROVE  CurrentOf(u)' = CurrentOf(u)
  BY <1>1, <1>2, <1>5 DEF CurrentOf
<1>6. /\ DOMAIN after = Renewable \cup {s} /\ after = [z \in DOMAIN after |-> after[z]]
      /\ after[s] = n /\ \A u \in Renewable \ {s} : after[u] = Current[u]
  BY <1>2 DEF CurrentAgrees, Account!With
<1> HIDE DEF after
<1>7. Current' = after
  <2>1. \A u \in DOMAIN after : u \in Present' /\ after[u] \in CurrentOf(u)'
    BY <1>1, <1>2, <1>3, <1>4, <1>5, <1>6 DEF CurrentAgrees
  <2>2. \A u \in Present' \ DOMAIN after : CurrentOf(u)' = {}
    BY <1>1, <1>5, <1>6 DEF Renewable
  <2> QED
    BY <1>6, <2>1, <2>2, CurrentBecomes
<1>8. Owner' = Account!With(Owner, n, s)
  BY <1>1, <1>2 DEF Owner, Account!With
<1>9. Exchanged' = Exchanged \cup {t}
  BY <1>1, <1>2 DEF Exchanged
<1>10. Opened' = Opened /\ Ended' = Ended
  BY <1>1 DEF Opened, Ended
<1>11. s \in DOMAIN Current /\ n \in Tokens \ DOMAIN Owner
  BY <1>1, <1>2, <1>3 DEF Owner, CurrentAgrees
<1> QED
  BY <1>1, <1>3, <1>7, <1>8, <1>9, <1>10, <1>11 DEF Account!Refresh, after

\* The commit of a login is a login, with the version the request had read.
LEMMA CreationLogsIn ==
    ASSUME Inv, Inv', AccountInv, NEW r \in Requests, NEW s \in Sessions, NEW n \in Tokens,
           CreateSession(r, s, n)
    PROVE  request[r].version \in 0 .. version /\ Account!Login(s, n, request[r].version)
<1> DEFINE after == Account!With(Current, s, n)
<1>1. /\ request[r].at = "verify" /\ s \notin Present /\ n \notin Issued
      /\ session'[s].version = request[r].version /\ session'[s].state = "open"
      /\ \A u \in Sessions \ {s} : session'[u] = session[u]
      /\ token'[n].session = s /\ token'[n].status = "current"
      /\ \A u \in Tokens \ {n} : token'[u] = token[u]
      /\ Present' = Present \cup {s} /\ Issued' = Issued \cup {n}
      /\ version' = version
  BY CreatedRows
<1>2. /\ CurrentAgrees /\ Issued \subseteq Tokens /\ Present \subseteq Sessions
      /\ TokensInSessions
  BY CurrentIsRead DEF Issued, Present, Inv, RowInv
<1>3. request[r].version \in 0 .. version
  <2>1. request[r].version \in Nat /\ version \in Nat
    BY DEF Inv, ServerType, Request
  <2>2. request[r].version <= version
    BY <1>1 DEF AccountInv, Relies
  <2> QED
    BY <2>1, <2>2
<1>4. n \in CurrentOf(s)'
  BY <1>1 DEF CurrentOf
<1>5. ASSUME NEW u \in Present
      PROVE  CurrentOf(u)' = CurrentOf(u)
  BY <1>1, <1>2 DEF CurrentOf
<1>6. /\ DOMAIN after = Renewable \cup {s} /\ after = [z \in DOMAIN after |-> after[z]]
      /\ after[s] = n /\ \A u \in Renewable \ {s} : after[u] = Current[u]
  BY <1>2 DEF CurrentAgrees, Account!With
<1> HIDE DEF after
<1>7. Current' = after
  <2>1. \A u \in DOMAIN after : u \in Present' /\ after[u] \in CurrentOf(u)'
    BY <1>1, <1>2, <1>4, <1>5, <1>6 DEF CurrentAgrees
  <2>2. \A u \in Present' \ DOMAIN after : CurrentOf(u)' = {}
    BY <1>1, <1>5, <1>6 DEF Renewable
  <2> QED
    BY <1>6, <2>1, <2>2, CurrentBecomes
<1>8. Owner' = Account!With(Owner, n, s)
  BY <1>1, <1>2 DEF Owner, Account!With
<1>9. Exchanged' = Exchanged
  BY <1>1, <1>2 DEF Exchanged
<1>10. Opened' = Account!With(Opened, s, request[r].version) /\ Ended' = Ended
  BY <1>1, <1>2 DEF Opened, Ended, Account!With
<1>11. s \in Sessions \ DOMAIN Opened /\ n \in Tokens \ DOMAIN Owner
  BY <1>1 DEF Owner, Opened
<1> QED
  BY <1>1, <1>3, <1>7, <1>8, <1>9, <1>10, <1>11 DEF Account!Login, after

\* What revoking current tokens takes from the sessions.
LEMMA TokensTaken ==
    ASSUME Inv, Inv', NEW ts \in SUBSET Issued, token' = TokensRevoked(ts),
           \A t \in ts : token[t].status = "current",
           Present' = Present,
           \A s \in Present : session'[s].version = session[s].version
    PROVE  /\ Owner' = Owner /\ Exchanged' = Exchanged /\ Opened' = Opened
           /\ Current' = Account!Without(Current, {s \in Renewable : Current[s] \in ts})
<1> DEFINE lost == {s \in Renewable : Current[s] \in ts}
           after == Account!Without(Current, lost)
<1>1. /\ ServerType /\ Issued' = Issued /\ Issued \subseteq Tokens /\ CurrentAgrees
      /\ \A t \in Tokens : token'[t].session = token[t].session
      /\ \A t \in Issued :
            token'[t].status = IF t \in ts THEN "revoked" ELSE token[t].status
  <2>1. ServerType /\ Issued \subseteq Tokens /\ CurrentAgrees
    BY CurrentIsRead DEF Inv, Issued
  <2> QED
    BY <2>1, Revoking
<1>2. Owner' = Owner
  BY <1>1 DEF Owner
<1>3. Exchanged' = Exchanged
  BY <1>1 DEF Exchanged
<1>4. Opened' = Opened
  BY DEF Opened
<1>5. \A s \in Present : CurrentOf(s)' = CurrentOf(s) \ ts
  BY <1>1 DEF CurrentOf
<1>6. /\ DOMAIN after = Renewable \ lost /\ after = [z \in DOMAIN after |-> after[z]]
      /\ \A u \in Renewable \ lost : after[u] = Current[u]
  BY <1>1 DEF CurrentAgrees, Account!Without
<1> HIDE DEF after
<1>7. Current' = after
  <2>1. ASSUME NEW u \in DOMAIN after
        PROVE  u \in Present' /\ after[u] \in CurrentOf(u)'
    BY <1>1, <1>5, <1>6 DEF CurrentAgrees
  <2>2. ASSUME NEW u \in Present' \ DOMAIN after
        PROVE  CurrentOf(u)' = {}
    <3>1. u \in Present /\ CurrentOf(u)' = CurrentOf(u) \ ts /\ (u \notin Renewable \/ u \in lost)
      BY <1>5, <1>6
    <3>2. \A t \in CurrentOf(u) : u \in Renewable /\ Current[u] = t
      BY <1>1, <3>1 DEF CurrentAgrees
    <3>3. \A t \in CurrentOf(u) : t \in ts
      BY <3>1, <3>2
    <3> QED
      BY <3>1, <3>3
  <2> QED
    BY <1>6, <2>1, <2>2, CurrentBecomes
<1> QED
  BY <1>2, <1>3, <1>4, <1>7 DEF after

\* The commit of a logout, or of a rotation that meets a used token, ends that
\* session.
LEMMA RevocationEnds ==
    ASSUME Inv, Inv', NEW r \in Requests, RotateReplay(r) \/ RevokeSession(r)
    PROVE  Account!End(request[r].session)
<1> SUFFICES ASSUME NEW s, s = request[r].session
             PROVE  Account!End(s)
  OBVIOUS
<1>1. /\ s \in Present /\ Present \subseteq Sessions /\ CurrentAgrees
      /\ session \in [Sessions -> SessionRow]
  BY CurrentIsRead DEF RotateReplay, RevokeSession, Inv, ServerType, RequestInv, InSession,
     Present
<1>2. /\ session' = [session EXCEPT ![s].state = "revoked"]
      /\ token' = TokensRevoked(CurrentOf(s)) /\ version' = version
  BY DEF RotateReplay, RevokeSession
<1>3. /\ session'[s].state = "revoked" /\ session'[s].version = session[s].version
      /\ \A u \in Sessions \ {s} : session'[u] = session[u]
  BY <1>1, <1>2 DEF SessionRow
<1>4. Present' = Present
  BY <1>1, <1>3 DEF Present
<1>5. Ended' = Ended \cup {s}
  BY <1>1, <1>3, <1>4 DEF Ended
<1>6. /\ CurrentOf(s) \in SUBSET Issued
      /\ \A t \in CurrentOf(s) : token[t].status = "current"
  BY DEF CurrentOf
<1>7. \A u \in Present : session'[u].version = session[u].version
  BY <1>1, <1>3
<1>8. /\ Owner' = Owner /\ Exchanged' = Exchanged /\ Opened' = Opened
      /\ Current' = Account!Without(Current, {u \in Renewable : Current[u] \in CurrentOf(s)})
  BY <1>2, <1>4, <1>6, <1>7, TokensTaken
<1>9. {u \in Renewable : Current[u] \in CurrentOf(s)} = {s} \cap Renewable
  <2>1. \A u \in Renewable : Current[u] \in CurrentOf(u)
    BY <1>1 DEF CurrentAgrees
  <2>2. \A u \in Renewable : Current[u] \in CurrentOf(s) => u = s
    BY <2>1 DEF CurrentOf
  <2> QED
    BY <2>1, <2>2
<1>10. Current' = Account!Without(Current, {s})
  BY <1>1, <1>8, <1>9 DEF CurrentAgrees, Account!Without
<1> QED
  BY <1>1, <1>2, <1>5, <1>8, <1>10 DEF Account!End, Opened

\* The commit of revokeAll or recoverPassword ends every session: those it holds
\* are marked, and those whose token it holds lose it.
LEMMA EndAllEndsEvery ==
    ASSUME Inv, Inv', AccountInv, NEW r \in Requests, EndAll(r)
    PROVE  \E S, C \in SUBSET Sessions : Account!EndEvery(S, C)
<1> DEFINE ts == {t \in Tokens : tokenHolder[t] = r}
           ss == {s \in Sessions : sessionHolder[s] = r}
           cs == {s \in Renewable : Current[s] \in ts}
<1>1. /\ session \in [Sessions -> SessionRow] /\ token \in [Tokens -> TokenRow]
      /\ version \in Nat /\ Present \subseteq Sessions /\ Issued \subseteq Tokens
      /\ CurrentAgrees /\ Relies(r) /\ RequestInv(r) /\ HeldIsPresent /\ r # Nobody
  BY SessionAssumption, CurrentIsRead
     DEF Inv, ServerType, Present, Issued, AccountInv
<1>2. /\ request[r].at = "tokens" /\ request[r].left = {} /\ version' = version + 1
      /\ token' = TokensRevoked(ts)
      /\ session' = [s \in Sessions |->
            IF sessionHolder[s] = r THEN [session[s] EXCEPT !.state = "revoked"]
                                    ELSE session[s]]
  BY DEF EndAll
<1>3. /\ \A s \in Sessions : /\ session'[s].version = session[s].version
                             /\ session'[s].state = IF s \in ss THEN "revoked"
                                                                ELSE session[s].state
      /\ ss \subseteq Present
  BY <1>1, <1>2 DEF SessionRow, HeldIsPresent
<1>4. ts \in SUBSET Issued /\ \A t \in ts : token[t].status = "current"
  BY <1>1, <1>2 DEF HeldIsPresent, Relies
<1> HIDE DEF ts, ss
<1>5. Present' = Present
  BY <1>1, <1>3 DEF Present
<1>6. Ended' = Ended \cup ss
  BY <1>1, <1>3, <1>5 DEF Ended
<1>7. \A s \in Present : session'[s].version = session[s].version
  BY <1>1, <1>3
<1>8. /\ Owner' = Owner /\ Exchanged' = Exchanged /\ Opened' = Opened
      /\ Current' = Account!Without(Current, cs)
  BY <1>2, <1>4, <1>5, <1>7, TokensTaken
<1>9. ss \cap DOMAIN Current \subseteq cs
  <2> SUFFICES ASSUME NEW s \in ss, s \in Renewable
               PROVE  Current[s] \in ts
    BY <1>1 DEF CurrentAgrees
  <2>1. Current[s] \in CurrentOf(s)
    BY <1>1 DEF CurrentAgrees
  <2>2. Current[s] \in Issued /\ token[Current[s]].session = s
        /\ token[Current[s]].status = "current"
    BY <2>1 DEF CurrentOf
  <2>3. sessionHolder[s] = r
    BY DEF ss
  <2>4. tokenHolder[Current[s]] = r
    BY <1>1, <1>2, <2>2, <2>3 DEF RequestInv
  <2> QED
    BY <1>1, <2>2, <2>4 DEF ts
<1>10. Account!Accepted' = {}
  <2>1. \A s \in Present : session[s].version <= version /\ session[s].version \in Nat
    BY <1>1 DEF AccountInv, SessionRow
  <2>2. \A s \in DOMAIN Opened' : Opened'[s] # version'
    BY <1>1, <1>2, <1>8, <2>1 DEF Opened
  <2> QED
    BY <2>2 DEF Account!Accepted
<1>11. ss \subseteq DOMAIN Opened /\ ss \in SUBSET Sessions /\ cs \in SUBSET Sessions
  BY <1>1, <1>3 DEF Opened, CurrentAgrees
<1>12. Account!EndEvery(ss, cs)
  BY <1>2, <1>6, <1>8, <1>9, <1>10, <1>11 DEF Account!EndEvery
<1> HIDE DEF cs
<1> QED
  BY <1>11, <1>12

\* Every step is one of the account, or changes nothing it shows.
LEMMA StepImplements ==
    Inv /\ Inv' /\ AccountInv /\ [Next]_vars => [Account!Next]_(Account!vars)
<1> SUFFICES ASSUME Inv, Inv', AccountInv, [Next]_vars
             PROVE  Account!Next \/ UNCHANGED Account!vars
  OBVIOUS
<1>1. ServerNext \/ UNCHANGED serverVars
  BY ServerSteps DEF vars
<1>2. UNCHANGED rows => UNCHANGED Account!vars
  <2> SUFFICES ASSUME UNCHANGED rows
               PROVE  UNCHANGED Account!vars
    OBVIOUS
  <2>1. version' = version /\ session' = session /\ token' = token
    BY DEF rows
  <2>2. /\ Present' = Present /\ Issued' = Issued
    BY <2>1 DEF Present, Issued
  <2>3. Opened' = Opened /\ Ended' = Ended /\ Owner' = Owner /\ Exchanged' = Exchanged
    BY <2>1, <2>2 DEF Opened, Ended, Owner, Exchanged
  <2>4. \A s \in Present : CurrentOf(s)' = CurrentOf(s)
    BY <2>1, <2>2 DEF CurrentOf
  <2>5. CurrentAgrees /\ Current = [s \in DOMAIN Current |-> Current[s]]
    BY CurrentIsRead DEF Current
  <2>6. Current' = Current
    <3>1. \A s \in DOMAIN Current : s \in Present' /\ Current[s] \in CurrentOf(s)'
      BY <2>2, <2>4, <2>5 DEF CurrentAgrees
    <3>2. \A s \in Present' \ DOMAIN Current : CurrentOf(s)' = {}
      BY <2>2, <2>4, <2>5 DEF CurrentAgrees, Renewable
    <3> QED
      BY <2>5, <3>1, <3>2, CurrentBecomes
  <2> QED
    BY <2>1, <2>3, <2>6 DEF Account!vars
<1>3. CASE UNCHANGED serverVars
  BY <1>2, <1>3 DEF serverVars, rows
<1>4. ASSUME NEW r \in Requests,
             Start(r) \/ Step(r) \/ Fail(r) \/ CommitUnheard(r) \/ Respond(r)
      PROVE  Account!Next \/ UNCHANGED Account!vars
  <2>1. \/ UNCHANGED rows
        \/ RotateReplay(r) \/ RevokeSession(r) \/ EndAll(r)
        \/ \E t \in Tokens : Rotate(r, t)
        \/ \E s \in Sessions, t \in Tokens : CreateSession(r, s, t)
    BY <1>4 DEF Start, StartRotate, StartLogin, StartLogout, StartEndAll, Fail, RotateRefused,
       CommitUnheard, Respond, LockSession, LockToken, LockUser, LockEachSession, SelectTokens,
       LockEachToken, Step
  <2>2. request[r].at = "decide" => request[r].session \in Sessions
    BY DEF Inv, RequestInv, InSession, Present
  <2>3. CASE RotateReplay(r) \/ RevokeSession(r)
    <3>1. request[r].session \in Sessions
      BY <2>2, <2>3 DEF RotateReplay, RevokeSession
    <3> QED
      BY <2>3, <3>1, RevocationEnds DEF Account!Next
  <2>4. CASE EndAll(r)
    BY <2>4, EndAllEndsEvery DEF Account!Next
  <2>5. ASSUME NEW n \in Tokens, Rotate(r, n)
        PROVE  Account!Next
    <3>1. request[r].session \in Sessions
      BY <2>2, <2>5 DEF Rotate
    <3> QED
      BY <2>5, <3>1, RotationRefreshes DEF Account!Next
  <2>6. ASSUME NEW s \in Sessions, NEW n \in Tokens, CreateSession(r, s, n)
        PROVE  Account!Next
    BY <2>6, CreationLogsIn DEF Account!Next
  <2> QED
    BY <1>2, <2>1, <2>3, <2>4, <2>5, <2>6
<1> QED
  BY <1>1, <1>3, <1>4 DEF ServerNext

\* The empty tables are an account without sessions.
LEMMA InitImplements == Init => Account!Init
<1> SUFFICES ASSUME Init
             PROVE  Account!Init
  OBVIOUS
<1>1. Present = {} /\ Issued = {} /\ version = 0
  BY DEF Init, ServerInit, Present, Issued
<1>2. Renewable = {}
  BY <1>1 DEF Renewable
<1>3. /\ Opened = [s \in {} |-> 0] /\ Owner = [t \in {} |-> 0] /\ Current = [s \in {} |-> 0]
      /\ Ended = {} /\ Exchanged = {}
  BY <1>1, <1>2 DEF Opened, Owner, Current, Ended, Exchanged
<1> QED
  BY <1>1, <1>3 DEF Account!Init

\* The transactions of the API implement the account of AccountSessions: every
\* token is exchanged once and for a token of the same session, an ended
\* session stays ended, and ending every session leaves none that is accepted
\* (every method of auth.repository.ts).
THEOREM SessionsImplementAccount == Spec => ImplementsAccount
<1>1. Init => Inv /\ LockInv /\ AccountInv /\ Account!Init
  BY InitEstablishes, InitHolds, InitRelies, InitImplements
<1>2. Inv /\ LockInv /\ AccountInv /\ [Next]_vars => Inv' /\ LockInv' /\ AccountInv'
  BY StepKeeps, NextHolds, NextRelies
<1>3. Inv /\ Inv' /\ AccountInv /\ [Next]_vars => [Account!Next]_(Account!vars)
  BY StepImplements
<1> QED
  BY <1>1, <1>2, <1>3, PTL DEF Spec, ImplementsAccount, Account!Spec

-----------------------------------------------------------------------------
(* What is over stays over *)

\* A token that was exchanged or revoked never becomes current again, and a
\* session that is not accepted is never accepted again, whatever rotations and
\* logins were under way when it ended (rotateRefreshToken, userForAccess).
THEOREM WhatEndedStaysEnded ==
    Spec => [][/\ \A t \in Issued :
                     token[t].status # "current" => token'[t].status # "current"
               /\ \A s \in Present :
                     s \notin Account!Accepted => s \notin Account!Accepted']_vars
<1> DEFINE Over == /\ \A t \in Issued :
                         token[t].status # "current" => token'[t].status # "current"
                   /\ \A s \in Present :
                         s \notin Account!Accepted => s \notin Account!Accepted'
<1>1. Init => Inv /\ LockInv /\ AccountInv
  BY InitEstablishes, InitHolds, InitRelies
<1>2. Inv /\ LockInv /\ AccountInv /\ [Next]_vars => Inv' /\ LockInv' /\ AccountInv'
  BY StepKeeps, NextHolds, NextRelies
<1>3. Inv /\ Inv' /\ AccountInv /\ [Next]_vars => [Over]_vars
  <2> SUFFICES ASSUME Inv, Inv', AccountInv, [Next]_vars
               PROVE  Over
    OBVIOUS
  <2>1. ServerNext \/ UNCHANGED serverVars
    BY ServerSteps DEF vars
  <2>2. [Account!Next]_(Account!vars)
    BY StepImplements
  <2>3. /\ token \in [Tokens -> TokenRow] /\ Issued \subseteq Tokens
        /\ session \in [Sessions -> SessionRow] /\ Present \subseteq Sessions
        /\ version \in Nat
    BY DEF Inv, ServerType, Issued, Present
  <2>4. UNCHANGED rows \/ \E r \in Requests :
            \/ RotateReplay(r) \/ RevokeSession(r) \/ EndAll(r)
            \/ \E n \in Tokens : Rotate(r, n)
            \/ \E s \in Sessions, n \in Tokens : CreateSession(r, s, n)
    BY <2>1 DEF ServerNext, Start, StartRotate, StartLogin, StartLogout, StartEndAll, Fail,
       RotateRefused, CommitUnheard, Respond, LockSession, LockToken, LockUser,
       LockEachSession, SelectTokens, LockEachToken, Step, serverVars, rows
  <2>5. ASSUME NEW t \in Issued, token[t].status # "current"
        PROVE  token'[t].status # "current"
    <3>1. CASE UNCHANGED rows
      BY <2>5, <3>1 DEF rows
    <3>2. ASSUME NEW r \in Requests, RotateReplay(r) \/ RevokeSession(r) \/ EndAll(r)
          PROVE  token'[t].status # "current"
      <4>1. PICK ts \in SUBSET Issued : token' = TokensRevoked(ts)
        BY <3>2, RevokedRows
      <4> QED
        BY <2>5, <4>1, Revoking DEF Inv
    <3>3. ASSUME NEW r \in Requests, NEW n \in Tokens, Rotate(r, n)
          PROVE  token'[t].status # "current"
      <4>1. /\ n \notin Issued /\ token'[request[r].token].status = "used"
            /\ \A u \in Tokens \ {request[r].token, n} : token'[u] = token[u]
        BY <3>3, RotatedRows
      <4> QED
        BY <2>3, <2>5, <4>1
    <3>4. ASSUME NEW r \in Requests, NEW s \in Sessions, NEW n \in Tokens,
                 CreateSession(r, s, n)
          PROVE  token'[t].status # "current"
      <4>1. n \notin Issued /\ \A u \in Tokens \ {n} : token'[u] = token[u]
        BY <3>4, CreatedRows
      <4> QED
        BY <2>3, <2>5, <4>1
    <3> QED
      BY <2>4, <3>1, <3>2, <3>3, <3>4
  <2>6. ASSUME NEW s \in Present, s \notin Account!Accepted
        PROVE  s \notin Account!Accepted'
    <3>1. s \in DOMAIN Opened /\ (s \in Ended \/ Opened[s] # version)
      BY <2>6 DEF Account!Accepted, Opened
    <3>2. CASE UNCHANGED Account!vars
      BY <2>6, <3>2 DEF Account!vars, Account!Accepted
    <3>3. ASSUME NEW u \in Sessions, NEW t \in Tokens,
                 Account!Refresh(u, t) \/ \E v \in 0 .. version : Account!Login(u, t, v)
          PROVE  s \notin Account!Accepted'
      <4>1. version' = version /\ Ended' = Ended /\ Opened'[s] = Opened[s]
        BY <3>1, <3>3 DEF Account!Refresh, Account!Login, Account!With
      <4> QED
        BY <3>1, <4>1 DEF Account!Accepted
    <3>4. ASSUME NEW u \in Sessions, Account!End(u)
          PROVE  s \notin Account!Accepted'
      BY <3>1, <3>4 DEF Account!End, Account!Accepted
    <3>5. ASSUME NEW S \in SUBSET Sessions, NEW C \in SUBSET Sessions, Account!EndEvery(S, C)
          PROVE  s \notin Account!Accepted'
      BY <3>5 DEF Account!EndEvery
    <3> QED
      BY <2>2, <3>2, <3>3, <3>4, <3>5 DEF Account!Next
  <2> QED
    BY <2>5, <2>6
<1> QED
  BY <1>1, <1>2, <1>3, PTL DEF Spec
=============================================================================
