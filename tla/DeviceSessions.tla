---------------------------- MODULE DeviceSessions ---------------------------
(***************************************************************************)
(* What the refresh tokens promise a user of the mobile API: a login opens *)
(* a session on a device; the session is held by exactly one token, which  *)
(* a refresh exchanges for the next one; presenting a token the session    *)
(* has already exchanged closes the session; a logout closes sessions for  *)
(* good.  The promise is the docstring of ApiRefreshTokens                 *)
(* (backend/models/api_refresh_tokens.py:31-36) and of                     *)
(* rotate_refresh_token (api_v1/services/tokens.py:108-117).               *)
(*                                                                         *)
(* A session is named by the token its login minted.                       *)
(***************************************************************************)
CONSTANTS Tokens, Users

VARIABLES
    open,     \* the sessions that still accept tokens
    holder,   \* the user of each session ever opened (a function on them)
    minted,   \* the tokens each session has handed out
    spent,    \* tokens that were exchanged
    barred    \* users who may not open a session

vars == <<open, holder, minted, spent, barred>>

Sessions == DOMAIN holder
Used     == UNION {minted[d] : d \in Sessions}

Init == /\ open = {} /\ spent = {} /\ barred = {}
        /\ holder = [d \in {} |-> d]
        /\ minted = [d \in {} |-> {}]

Open(t, u) ==
    /\ t \notin Used
    /\ u \notin barred
    /\ open' = open \union {t}
    /\ holder' = [d \in Sessions \union {t} |-> IF d = t THEN u ELSE holder[d]]
    /\ minted' = [d \in Sessions \union {t} |-> IF d = t THEN {t} ELSE minted[d]]
    /\ UNCHANGED <<spent, barred>>

\* The session's only unspent token is exchanged for a fresh one.
Refresh(d, old, new) ==
    /\ d \in open
    /\ minted[d] \ spent = {old}
    /\ new \notin Used
    /\ minted' = [minted EXCEPT ![d] = @ \union {new}]
    /\ spent' = spent \union {old}
    /\ UNCHANGED <<open, holder, barred>>

Replay(d, old) ==
    /\ d \in open
    /\ old \in minted[d] \intersect spent
    /\ open' = open \ {d}
    /\ UNCHANGED <<holder, minted, spent, barred>>

CloseSession(d) ==
    /\ open' = open \ {d}
    /\ UNCHANGED <<holder, minted, spent, barred>>

CloseAll(u) ==
    /\ open' = {d \in open : holder[d] # u}
    /\ UNCHANGED <<holder, minted, spent, barred>>

\* A user who is barred has no session left open.
Bar(u) ==
    /\ barred' = barred \union {u}
    /\ open' = {d \in open : holder[d] # u}
    /\ UNCHANGED <<holder, minted, spent>>

Unbar(u) ==
    /\ barred' = barred \ {u}
    /\ UNCHANGED <<open, holder, minted, spent>>

Next ==
    \/ \E t \in Tokens, u \in Users : Open(t, u)
    \/ \E d, old, new \in Tokens : Refresh(d, old, new)
    \/ \E d, old \in Tokens : Replay(d, old)
    \/ \E d \in Sessions : CloseSession(d)
    \/ \E u \in Users : CloseAll(u) \/ Bar(u) \/ Unbar(u)

Spec == Init /\ [][Next]_vars
=============================================================================
