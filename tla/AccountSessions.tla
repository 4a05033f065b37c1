-------------------------- MODULE AccountSessions --------------------------
(***************************************************************************)
(* Accounts and the web sessions in them: who a browser is for             *)
(* (load_user, users/routes.py), the stamp every login leaves              *)
(* (backend/__init__.py), and the admin portal's buttons that suspend,     *)
(* release, sign out, reset, verify and erase an account                   *)
(* (admin/account_service.py, admin/account_data_service.py).              *)
(*                                                                         *)
(* A login and a button's request are two steps: what they read and check, *)
(* and what they write. A browser sends one request at a time; browsers    *)
(* overlap, and overlapped (history) says that two of them ever did.       *)
(*                                                                         *)
(* The clock, microseconds in the code, moves by one with every stamp:     *)
(* MaxTime bounds the logins and kills of a behaviour. Role is constant    *)
(* (only the command line changes it). Links from e-mails are EmailLinks': *)
(* here a link works whenever the account still has an unopened one.       *)
(***************************************************************************)
EXTENDS Naturals, FiniteSets

CONSTANTS
    Users,      \* primary keys of Users
    Admins,     \* the users with Users.role = ADMIN
    Browsers,   \* cookie jars, each with one session in Redis
    NoUser,     \* no "_user_id" in a session
    MaxTime     \* bound on the clock

ASSUME AdminsAssumption == Admins \subseteq Users /\ NoUser \notin Users
ASSUME MaxTimeAssumption == MaxTime \in Nat

VARIABLES
    account,    \* rows of Users
    session,    \* the session of each browser
    request,    \* what each browser's request has read and not yet written
    now,        \* the clock
    overlapped  \* history: two requests were in flight at once

sessionsVars == <<account, session, request, now, overlapped>>

-----------------------------------------------------------------------------
Never   == 0
Buttons == {"suspend", "unsuspend", "kill", "force_reset", "erase", "verify"}
Idle    == [op |-> "idle", target |-> NoUser]

Account == [status : {"absent", "live", "erased"}, validated : BOOLEAN,
            suspended : BOOLEAN, password : BOOLEAN, killedAt : 0 .. MaxTime]

\* issued is the stamp of the last login; checked (history) is when that login
\* looked at is_suspended, Never if it did not.
Session == [user : Users \union {NoUser}, issued : 0 .. MaxTime, checked : 0 .. MaxTime]

Request == {Idle} \union [op : Buttons \union {"login"}, target : Users, at : 0 .. MaxTime]

SignedOut == [user |-> NoUser, issued |-> Never, checked |-> Never]

SessionsTypeOK ==
    /\ account \in [Users -> Account]
    /\ session \in [Browsers -> Session]
    /\ request \in [Browsers -> Request]
    /\ now \in 0 .. MaxTime
    /\ overlapped \in BOOLEAN

\* The admins exist and are validated; the others have yet to register.
SessionsInit ==
    /\ account = [u \in Users |->
            [status |-> IF u \in Admins THEN "live" ELSE "absent",
             validated |-> u \in Admins, suspended |-> FALSE,
             password |-> u \in Admins, killedAt |-> Never]]
    /\ session = [b \in Browsers |-> SignedOut]
    /\ request = [b \in Browsers |-> Idle]
    /\ now = 0
    /\ overlapped = FALSE

-----------------------------------------------------------------------------
(* Who a request is from.                                                  *)

Resolves(s) ==                        \* load_user does not return None
    /\ s.user # NoUser
    /\ account[s.user].status # "absent"
    /\ ~account[s.user].suspended
    /\ account[s.user].killedAt = Never \/ s.issued >= account[s.user].killedAt

Anonymous(b) == request[b] = Idle /\ ~Resolves(session[b])
SignedIn(b)  == request[b] = Idle /\ Resolves(session[b])

Begins(b, r) ==
    /\ request' = [request EXCEPT ![b] = r]
    /\ overlapped' = (overlapped \/ \E c \in Browsers \ {b} : request[c] # Idle)

Ends(b) == request' = [request EXCEPT ![b] = Idle]

\* login_user, and the stamp of the signal user_logged_in; checked is when
\* is_suspended was looked at. What else the session holds stays.
Stamp(b, u, checked) ==
    session' = [session EXCEPT ![b].user = u, ![b].issued = now + 1, ![b].checked = checked]

LogsIn(b, u, checked) ==
    /\ now < MaxTime /\ now' = now + 1
    /\ Stamp(b, u, checked)

-----------------------------------------------------------------------------
(* Signing in and out.                                                     *)

\* A new account, or one whose address is taken by an account that never
\* validated it: that one is signed in, without a look at its password or at
\* is_suspended.
Register(b, u) ==
    /\ Anonymous(b)
    /\ \/ /\ account[u].status = "absent"
          /\ account' = [account EXCEPT ![u].status = "live", ![u].password = TRUE]
       \/ account[u].status = "live" /\ ~account[u].validated /\ UNCHANGED account
    /\ LogsIn(b, u, Never)
    /\ UNCHANGED <<request, overlapped>>

\* The password (or the provider's identity) is right and is_suspended false.
\* (An erased account has neither; one that a link under way gave back to it, as
\* RefreshTokens has it, takes two requests that overlap.)
LoginRead(b, u) ==
    /\ Anonymous(b)
    /\ account[u].status = "live" /\ account[u].password /\ ~account[u].suspended
    /\ Begins(b, [op |-> "login", target |-> u, at |-> now])
    /\ UNCHANGED <<account, session, now>>

LoginCommit(b) ==
    /\ request[b].op = "login"
    /\ LogsIn(b, request[b].target, request[b].at)
    /\ Ends(b)
    /\ UNCHANGED <<account, overlapped>>

\* The link of the validation e-mail; the browser may be anybody's.
ValidateEmail(b, u) ==
    /\ request[b] = Idle
    /\ account[u].status = "live" /\ ~account[u].validated
    /\ account' = [account EXCEPT ![u].validated = TRUE]
    /\ LogsIn(b, u, Never)
    /\ UNCHANGED <<request, overlapped>>

\* The same link after it expired: a fresh link is made, and u signed in.
OpenExpiredLink(b, u) ==
    /\ request[b] = Idle
    /\ account[u].status = "live" /\ ~account[u].validated
    /\ LogsIn(b, u, Never)
    /\ UNCHANGED <<account, request, overlapped>>

Logout(b) ==
    /\ request[b] = Idle
    /\ session' = [session EXCEPT ![b] = [SignedOut EXCEPT !.issued = session[b].issued]]
    /\ UNCHANGED <<account, request, now, overlapped>>

-----------------------------------------------------------------------------
(* The admin portal: what the request reads and refuses.                   *)

SelfActionAllowed(actor, target) == TRUE     \* mutant: an admin may act on itself

NotSelf(actor, target) == actor # target

\* An erased admin still has its role and is not suspended: it counts.
OtherAdmins(u) == {a \in Admins \ {u} : ~account[a].suspended}
KeepsAnAdmin(u) == u \in Admins => OtherAdmins(u) # {}

Admits(op, u) ==                             \* past the no-ops
    /\ account[u].status # "absent"
    /\ CASE op = "suspend"     -> KeepsAnAdmin(u) /\ ~account[u].suspended
         [] op = "unsuspend"   -> account[u].suspended
         [] op = "kill"        -> TRUE
         [] op = "force_reset" -> account[u].password
         [] op = "erase"       -> KeepsAnAdmin(u) /\ account[u].status = "live"
         [] op = "verify"      -> account[u].status = "live" /\ ~account[u].validated

AdminRead(b, op, u) ==
    /\ SignedIn(b) /\ session[b].user \in Admins
    /\ NotSelf(session[b].user, u)
    /\ Admits(op, u)
    /\ Begins(b, [op |-> op, target |-> u, at |-> now])
    /\ UNCHANGED <<account, session, now>>

-----------------------------------------------------------------------------
(* ... and what it writes: the columns it sets, whatever the rest is now.  *)

SuspendQuietly(a, t) == [a EXCEPT !.suspended = TRUE]      \* mutant: no stamp
SuspendUser(a, t)    == [a EXCEPT !.suspended = TRUE, !.killedAt = t]

UnsuspendUser(a, t)  == [a EXCEPT !.suspended = FALSE]

KillSessions(a, t)   == [a EXCEPT !.killedAt = t]
ForceReset(a, t)     == [a EXCEPT !.killedAt = t]

EraseUser(a, t)      == [a EXCEPT !.status = "erased", !.validated = FALSE,
                                  !.password = FALSE, !.killedAt = t]

MarkVerified(a, t)   == [a EXCEPT !.validated = TRUE]

Written(op, a, t) ==
    CASE op = "suspend"     -> SuspendUser(a, t)
      [] op = "unsuspend"   -> UnsuspendUser(a, t)
      [] op = "kill"        -> KillSessions(a, t)
      [] op = "force_reset" -> ForceReset(a, t)
      [] op = "erase"       -> EraseUser(a, t)
      [] op = "verify"      -> MarkVerified(a, t)

AdminCommit(b) ==
    LET op == request[b].op  u == request[b].target IN
    /\ op \in Buttons
    /\ IF op \in {"unsuspend", "verify"} THEN UNCHANGED now ELSE now < MaxTime /\ now' = now + 1
    /\ account' = [account EXCEPT ![u] = Written(op, @, now + 1)]
    /\ Ends(b)
    /\ UNCHANGED <<session, overlapped>>

\* The reset e-mail cannot be sent, or the worker dies: nothing is written.
Rollback(b) ==
    /\ request[b] # Idle
    /\ Ends(b)
    /\ UNCHANGED <<account, session, now, overlapped>>

SessionsNext == \E b \in Browsers :
    \/ LoginCommit(b) \/ Logout(b) \/ AdminCommit(b) \/ Rollback(b)
    \/ \E u \in Users : \/ Register(b, u) \/ LoginRead(b, u)
                        \/ ValidateEmail(b, u) \/ OpenExpiredLink(b, u)
                        \/ \E op \in Buttons : AdminRead(b, op, u)

SessionsSpec == SessionsInit /\ [][SessionsNext]_sessionsVars

-----------------------------------------------------------------------------
(* An admin who can use the portal is left, unless two requests overlapped *)
(* (two admins may suspend each other: each counts the other). guards.py   *)
(* counts an erased admin, so that it is reject_self_action that keeps the *)
(* last one, not reject_leaving_zero_active_admins.                        *)
AnAdminRemains ==
    overlapped \/ \E a \in Admins : account[a].status = "live" /\ ~account[a].suspended

(* A session that load_user refused comes back without a new login only    *)
(* when its user is unsuspended, and only if the login that made it did    *)
(* not look at is_suspended after the suspension: it was under way then,   *)
(* or came by a link or by registering again, which do not look.           *)
RevivedOnlyIfUnchecked == [][
    \A b \in Browsers :
        LET s == session[b]  u == s.user IN
        (u # NoUser /\ ~Resolves(s) /\ session'[b].issued = s.issued /\ Resolves(s)')
          => /\ account[u].suspended /\ ~account'[u].suspended
             /\ s.checked < account[u].killedAt /\ account[u].killedAt <= s.issued]_sessionsVars

=============================================================================
