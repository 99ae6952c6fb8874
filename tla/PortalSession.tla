---------------------------- MODULE PortalSession ----------------------------
(***************************************************************************)
(* The tabs of one browser on the sessions of SessionStore: they share the *)
(* refresh cookie, and one of them refreshes at a time                     *)
(* (apps/portal/src/auth/auth-client.ts).  A request is what some tab, or  *)
(* somebody elsewhere ending every session, has at the API.                *)
(*                                                                         *)
(* The lock is navigator.locks or, where that is missing, a lease in       *)
(* localStorage.  A lease ends after ten seconds while its owner may still *)
(* refresh, and two tabs can both read it as free before either writes it: *)
(* OverlappingRefresh is both.  The access tokens of the tabs and their    *)
(* broadcasts only ever save a refresh, so a refresh may happen whenever   *)
(* there is a cookie.                                                      *)
(***************************************************************************)
EXTENDS SessionStore

VARIABLES
    cookie,         \* the refresh cookie, 0 when there is none
    locker,         \* the request sent under the refresh lock
    abandoned,      \* requests whose response will not reach the browser
    disturbed       \* history: the answer of a refresh was lost, or two overlapped

browserVars == <<cookie, locker, abandoned, disturbed>>
vars == <<serverVars, browserVars>>

TypeOK ==
    /\ version \in 0 .. MaxVersion
    /\ session \in [Sessions -> SessionRow]
    /\ token \in [Tokens -> TokenRow]
    /\ request \in [Requests -> Request]
    /\ userHolder \in Holders
    /\ sessionHolder \in [Sessions -> Holders]
    /\ tokenHolder \in [Tokens -> Holders]
    /\ activeLogins = Cardinality(Running({"login"}))
    /\ replayed \subseteq Sessions
    /\ cookie \in 0 .. MaxTokens
    /\ locker \in Holders
    /\ abandoned \subseteq Requests
    /\ disturbed \in BOOLEAN

Init ==
    /\ ServerInit
    /\ cookie = 0
    /\ locker = Nobody
    /\ abandoned = {}
    /\ disturbed = FALSE
-----------------------------------------------------------------------------
Answered(r, op) ==
    /\ request[r].at = "done" /\ request[r].op = op
    /\ r \notin abandoned

Unlocked(r) == IF locker = r THEN Nobody ELSE locker
\* Mutant of PostRefresh: a refresh is sent whoever is refreshing.
PostRefreshUnlocked(r) ==
    /\ StartRotate(r, cookie)
    /\ locker' = r
    /\ UNCHANGED <<cookie, abandoned, disturbed>>

\* refresh() inside withCrossTabLock: the cookie is the one the browser has
\* when it sends the request.
PostRefresh(r) ==
    /\ locker = Nobody
    /\ StartRotate(r, cookie)
    /\ locker' = r
    /\ UNCHANGED <<cookie, abandoned, disturbed>>

OverlappingRefresh(r) ==
    /\ locker # Nobody
    /\ StartRotate(r, cookie)
    /\ locker' = r
    /\ disturbed' = TRUE
    /\ UNCHANGED <<cookie, abandoned>>

RefreshAnswered(r) ==
    /\ Answered(r, "rotate")
    /\ cookie' = IF request[r].result = "ok" THEN request[r].token ELSE cookie
    /\ locker' = Unlocked(r)
    /\ Respond(r)
    /\ UNCHANGED <<abandoned, disturbed>>

\* The connection breaks or the tab closes: the lock is released, and the
\* API carries on with a request nobody waits for.
RefreshAbandoned(r) ==
    /\ request[r].op = "rotate"
    /\ r \notin abandoned
    /\ abandoned' = abandoned \cup {r}
    /\ locker' = Unlocked(r)
    /\ disturbed' = TRUE
    /\ UNCHANGED <<serverVars, cookie>>

AbandonedEnds(r) ==
    /\ r \in abandoned
    /\ Respond(r)
    /\ abandoned' = abandoned \ {r}
    /\ UNCHANGED <<cookie, locker, disturbed>>

PostLogin(r) == StartLogin(r) /\ UNCHANGED browserVars

LoginAnswered(r) ==
    /\ Answered(r, "login")
    /\ cookie' = IF request[r].result = "ok" THEN request[r].token ELSE cookie
    /\ Respond(r)
    /\ UNCHANGED <<locker, abandoned, disturbed>>

PostLogout(r) ==
    /\ \E s \in Sessions : StartLogout(r, s)
    /\ UNCHANGED browserVars

LogoutAnswered(r) ==
    /\ Answered(r, "logout")
    /\ cookie' = IF request[r].result = "ok" THEN 0 ELSE cookie
    /\ Respond(r)
    /\ UNCHANGED <<locker, abandoned, disturbed>>

\* Logout-all from another device, or password recovery
EndedElsewhere(r) ==
    /\ StartEndAll(r) \/ (Answered(r, "endAll") /\ Respond(r))
    /\ UNCHANGED browserVars

AtTheApi(r) == (Step(r) \/ Fail(r)) /\ UNCHANGED browserVars

\* The next token of a refresh is in the tables, and the browser is told of a
\* failure: it keeps the cookie that was used up.
CommitIsUnheard(r) ==
    /\ CommitUnheard(r)
    /\ disturbed' = (disturbed \/ (request[r].op = "rotate" /\ request[r].result = "ok"))
    /\ UNCHANGED <<cookie, locker, abandoned>>

Next == \E r \in Requests :
    \/ PostRefresh(r) \/ OverlappingRefresh(r) \/ RefreshAnswered(r)
    \/ RefreshAbandoned(r) \/ AbandonedEnds(r)
    \/ PostLogin(r) \/ LoginAnswered(r)
    \/ PostLogout(r) \/ LogoutAnswered(r)
    \/ EndedElsewhere(r) \/ AtTheApi(r) \/ CommitIsUnheard(r)

Spec == Init /\ [][Next]_vars
-----------------------------------------------------------------------------
\* The refresh lock keeps the tabs from replaying each other's cookie: a used
\* token is presented only after the answer of a refresh was lost, on its way to
\* the browser or with its COMMIT, or two overlapped (refresh and
\* withCrossTabLock; the reuse branch of rotateRefreshToken).
TabsDoNotReplay == replayed # {} => disturbed
=============================================================================
