-------------------------- MODULE AccountSessions --------------------------
(***************************************************************************)
(* What the session tables of an account promise, whatever transactions    *)
(* they are made of (docs/portal-authentication.md): a session has at most *)
(* one token that may be exchanged, a token is exchanged once, an ended    *)
(* session has none and stays ended, and ending every session leaves none  *)
(* of them accepted.                                                       *)
(***************************************************************************)
EXTENDS Naturals

CONSTANTS Sessions, Tokens

VARIABLES
    version,    \* how often every session of the account was ended
    opened,     \* the version with which each session was opened
    ended,      \* sessions that were ended one by one
    owner,      \* the session of each token
    current,    \* the token that each session may still exchange
    exchanged   \* tokens that were exchanged for another

vars == <<version, opened, ended, owner, current, exchanged>>

\* The sessions that authenticate a request
Accepted == {s \in DOMAIN opened \ ended : opened[s] = version}

With(f, x, y) == [z \in DOMAIN f \cup {x} |-> IF z = x THEN y ELSE f[z]]
Without(f, S) == [z \in DOMAIN f \ S |-> f[z]]

Init ==
    /\ version = 0
    /\ opened = [s \in {} |-> 0]
    /\ ended = {}
    /\ owner = [t \in {} |-> 0]
    /\ current = [s \in {} |-> 0]
    /\ exchanged = {}

\* A login, opened with the version that it read.
Login(s, t, v) ==
    /\ s \in Sessions \ DOMAIN opened
    /\ t \in Tokens \ DOMAIN owner
    /\ v \in 0 .. version
    /\ opened' = With(opened, s, v)
    /\ owner' = With(owner, t, s)
    /\ current' = With(current, s, t)
    /\ UNCHANGED <<version, ended, exchanged>>

\* The current token of a session is exchanged for the next.
Refresh(s, t) ==
    /\ s \in DOMAIN current
    /\ t \in Tokens \ DOMAIN owner
    /\ owner' = With(owner, t, s)
    /\ current' = With(current, s, t)
    /\ exchanged' = exchanged \cup {current[s]}
    /\ UNCHANGED <<version, opened, ended>>

End(s) ==
    /\ s \in DOMAIN opened
    /\ ended' = ended \cup {s}
    /\ current' = Without(current, {s})
    /\ UNCHANGED <<version, opened, owner, exchanged>>

\* No session opened so far is accepted any more, although one that a login
\* opened meanwhile may be missing from S, the sessions marked as ended, and
\* from C, those that lose their token.
EndEvery(S, C) ==
    /\ S \subseteq DOMAIN opened
    /\ S \cap DOMAIN current \subseteq C
    /\ version' = version + 1
    /\ ended' = ended \cup S
    /\ current' = Without(current, C)
    /\ Accepted' = {}
    /\ UNCHANGED <<opened, owner, exchanged>>

Next ==
    \/ \E s \in Sessions, t \in Tokens :
          Refresh(s, t) \/ \E v \in 0 .. version : Login(s, t, v)
    \/ \E s \in Sessions : End(s)
    \/ \E S, C \in SUBSET Sessions : EndEvery(S, C)

Spec == Init /\ [][Next]_vars
=============================================================================
