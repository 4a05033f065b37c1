---------------------------- MODULE RefreshTokens ----------------------------
(***************************************************************************)
(* The refresh tokens of the mobile API (backend/api_v1/services/tokens.py *)
(* over the table ApiRefreshTokens), driven by the requests of             *)
(* api_v1/services/auth.py and by the admin actions that revoke tokens.    *)
(*                                                                         *)
(* A request is served by one of several worker processes.  It reads the   *)
(* database, decides, and writes in one commit; PostgreSQL runs at READ    *)
(* COMMITTED and the code takes no row lock at its read, so the commits of *)
(* other workers fall between the two.  Each such request is therefore two *)
(* actions, a Read and a Commit.  A request whose read only fetches        *)
(* columns that never change is one action.  A worker may fail at any      *)
(* moment before its commit (Abort): the transaction is rolled back.       *)
(*                                                                         *)
(* A family identifier is a fresh uuid; it is modelled by the token that   *)
(* opened the family, which is as fresh.  Timestamp columns are kept as    *)
(* the sets of the rows on which they are not NULL, the only thing the     *)
(* code asks of them; "now is past expiresAt" is the step Expire.          *)
(*                                                                         *)
(* Every account begins with a credential, a password or an identity of a  *)
(* provider; only an erasure takes the last one here (unlinking keeps one, *)
(* see SignInMethods).  No sign-in asks whether an account was erased: it  *)
(* is refused because no credential is left, and let in again when a link  *)
(* or a password reset that was under way commits after the erasure.       *)
(***************************************************************************)
EXTENDS FiniteSets

CONSTANTS
    Tokens,    \* the rows that may ever be inserted
    Users,     \* accounts
    Workers,   \* gunicorn worker processes (docker/startup-flask.sh)
    Null       \* a column that has no value (yet)

ASSUME NullAssumption == Null \notin Tokens \union Users

VARIABLES
    issued,      \* rows of ApiRefreshTokens
    owner,       \* userID
    family,      \* familyId
    replacedBy,  \* replacedBy
    rotated,     \* rows with rotatedAt
    revoked,     \* rows with revokedAt
    expired,     \* rows whose expiresAt has passed
    suspended,   \* Users.isSuspended
    erased,      \* users whose name and e-mail are tombstones
    keyless,     \* users with neither password nor identity
    request      \* what each worker has read and not yet committed

table   == <<issued, owner, family, replacedBy, rotated, revoked, expired>>
account == <<suspended, erased, keyless>>
vars    == <<table, account, request>>

-----------------------------------------------------------------------------
Idle == [op |-> "idle"]

Request == {Idle}
           \union [op : {"rotate", "reuse"}, token : Tokens]
           \union [op : {"login", "credential", "suspend", "erase"}, user : Users]

TypeOK ==
    /\ issued \subseteq Tokens
    /\ owner \in [Tokens -> Users \union {Null}]
    /\ family \in [Tokens -> Tokens]
    /\ replacedBy \in [Tokens -> Tokens \union {Null}]
    /\ rotated \subseteq issued
    /\ revoked \subseteq issued
    /\ expired \subseteq issued
    /\ suspended \subseteq Users
    /\ erased \subseteq Users
    /\ keyless \subseteq erased
    /\ request \in [Workers -> Request]

Members(f)  == {t \in issued : family[t] = f}
TokensOf(u) == {t \in issued : owner[t] = u}

\* A row that a refresh would still exchange, were it not for its expiry.
Live == issued \ (rotated \union revoked)

-----------------------------------------------------------------------------
Init ==
    /\ issued = {}
    /\ owner = [t \in Tokens |-> Null]
    /\ family = [t \in Tokens |-> t]
    /\ replacedBy = [t \in Tokens |-> Null]
    /\ rotated = {} /\ revoked = {} /\ expired = {}
    /\ suspended = {} /\ erased = {} /\ keyless = {}
    /\ request = [w \in Workers |-> Idle]

Begin(w, r) == request[w] = Idle /\ request' = [request EXCEPT ![w] = r]
Finish(w)   == request' = [request EXCEPT ![w] = Idle]

\* The INSERT of a new row t for user u in family f.
Insert(t, u, f) ==
    /\ t \in Tokens \ issued
    /\ issued' = issued \union {t}
    /\ owner' = [owner EXCEPT ![t] = u]
    /\ family' = [family EXCEPT ![t] = f]
    /\ UNCHANGED <<revoked, expired>>

\* The bulk UPDATE that stamps revokedAt on the rows of S it can see.
Revoke(S) ==
    /\ revoked' = revoked \union S
    /\ UNCHANGED <<issued, owner, family, replacedBy, rotated, expired>>

-----------------------------------------------------------------------------
(* Login with a password or with a Google id_token: it takes a credential, *)
(* and a suspended account is turned away.                                 *)
LoginReadOfSuspended(w, u) ==       \* mutant: the is_suspended gate is missing
    /\ u \notin keyless
    /\ Begin(w, [op |-> "login", user |-> u])
    /\ UNCHANGED <<table, account>>

LoginRead(w, u) ==
    /\ u \notin keyless
    /\ u \notin suspended
    /\ Begin(w, [op |-> "login", user |-> u])
    /\ UNCHANGED <<table, account>>

LoginCommit(w) ==
    /\ request[w].op = "login"
    /\ \E t \in Tokens : Insert(t, request[w].user, t)
    /\ UNCHANGED <<replacedBy, rotated, account>>
    /\ Finish(w)

(* rotate_refresh_token: the presented row decides.  A revoked row, and an *)
(* expired one that was not rotated, are INVALID and change nothing.       *)
RefreshReadOfRevoked(w, t) ==       \* mutant: is_revoked is not consulted
    /\ t \in issued
    /\ \/ /\ t \in rotated
          /\ Begin(w, [op |-> "reuse", token |-> t])
       \/ /\ t \notin rotated \union expired
          /\ Begin(w, [op |-> "rotate", token |-> t])
    /\ UNCHANGED <<table, account>>

RefreshReadOfRotated(w, t) ==       \* mutant: is_rotated is not consulted
    /\ t \in issued \ (revoked \union expired)
    /\ Begin(w, [op |-> "rotate", token |-> t])
    /\ UNCHANGED <<table, account>>

RefreshRead(w, t) ==
    /\ t \in issued \ revoked
    /\ \/ /\ t \in rotated
          /\ Begin(w, [op |-> "reuse", token |-> t])
       \/ /\ t \notin rotated \union expired
          /\ Begin(w, [op |-> "rotate", token |-> t])
    /\ UNCHANGED <<table, account>>

RotateCommitToNewFamily(w) ==       \* mutant: the replacement opens a family
    /\ request[w].op = "rotate"
    /\ LET old == request[w].token IN
         \E new \in Tokens :
            /\ Insert(new, owner[old], new)
            /\ rotated' = rotated \union {old}
            /\ replacedBy' = [replacedBy EXCEPT ![old] = new]
    /\ UNCHANGED account
    /\ Finish(w)

RotateCommit(w) ==
    /\ request[w].op = "rotate"
    /\ LET old == request[w].token IN
         \E new \in Tokens :
            /\ Insert(new, owner[old], family[old])
            /\ rotated' = rotated \union {old}
            /\ replacedBy' = [replacedBy EXCEPT ![old] = new]
    /\ UNCHANGED account
    /\ Finish(w)

ReuseCommitOfOneRow(w) ==           \* mutant: only the presented row dies
    /\ request[w].op = "reuse"
    /\ Revoke({request[w].token})
    /\ UNCHANGED account
    /\ Finish(w)

ReuseCommit(w) ==
    /\ request[w].op = "reuse"
    /\ Revoke(Members(family[request[w].token]))
    /\ UNCHANGED account
    /\ Finish(w)

(* A worker dies, or an exception ends the request, before the commit.     *)
Abort(w) ==
    /\ request[w] # Idle
    /\ Finish(w)
    /\ UNCHANGED <<table, account>>

(* revoke_refresh_token_family: any issued token names its family.         *)
LogoutDeviceUnchecked(t) ==         \* mutant: the token is not looked up
    /\ Revoke({t})
    /\ UNCHANGED <<account, request>>

LogoutDevice(t) ==
    /\ t \in issued
    /\ Revoke(Members(family[t]))
    /\ UNCHANGED <<account, request>>

(* revoke_all_refresh_tokens_for_user, behind the bearer request loader    *)
(* that refuses a suspended user.                                          *)
LogoutEverywhere(u) ==
    /\ u \notin suspended
    /\ Revoke(TokensOf(u))
    /\ UNCHANGED <<account, request>>

-----------------------------------------------------------------------------
(* Admin actions.                                                          *)
SuspendRead(w, u) ==
    /\ u \notin suspended
    /\ Begin(w, [op |-> "suspend", user |-> u])
    /\ UNCHANGED <<table, account>>

SuspendCommitKeepingTokens(w) ==    \* mutant: no bulk revocation
    /\ request[w].op = "suspend"
    /\ suspended' = suspended \union {request[w].user}
    /\ UNCHANGED <<table, erased, keyless>>
    /\ Finish(w)

SuspendCommit(w) ==
    /\ request[w].op = "suspend"
    /\ suspended' = suspended \union {request[w].user}
    /\ Revoke(TokensOf(request[w].user))
    /\ UNCHANGED <<erased, keyless>>
    /\ Finish(w)

Unsuspend(u) ==
    /\ u \in suspended
    /\ suspended' = suspended \ {u}
    /\ UNCHANGED <<table, erased, keyless, request>>

(* kill_user_sessions, and force_password_reset once its mail is accepted. *)
KillSessions(u) ==
    /\ Revoke(TokensOf(u))
    /\ UNCHANGED <<account, request>>

EraseRead(w, u) ==
    /\ u \notin erased
    /\ Begin(w, [op |-> "erase", user |-> u])
    /\ UNCHANGED <<table, account>>

EraseCommit(w) ==
    /\ request[w].op = "erase"
    /\ erased' = erased \union {request[w].user}
    /\ keyless' = keyless \union {request[w].user}
    /\ Revoke(TokensOf(request[w].user))
    /\ UNCHANGED suspended
    /\ Finish(w)

-----------------------------------------------------------------------------
(* A provider is linked to an account, or its password is reset: by whoever *)
(* is signed in to it, or has the link of a mail, and neither outlives the *)
(* erasure. The commit looks at the account no more.                       *)
CredentialRead(w, u) ==
    /\ u \notin keyless
    /\ Begin(w, [op |-> "credential", user |-> u])
    /\ UNCHANGED <<table, account>>

CredentialCommit(w) ==
    /\ request[w].op = "credential"
    /\ keyless' = keyless \ {request[w].user}
    /\ UNCHANGED <<table, suspended, erased>>
    /\ Finish(w)

(* The clock passes expiresAt of a row.                                    *)
Expire(t) ==
    /\ t \in issued \ expired
    /\ expired' = expired \union {t}
    /\ UNCHANGED <<issued, owner, family, replacedBy, rotated, revoked,
                   account, request>>

-----------------------------------------------------------------------------
Arrive(w) == \/ \E u \in Users : \/ LoginRead(w, u) \/ CredentialRead(w, u)
                                \/ SuspendRead(w, u) \/ EraseRead(w, u)
             \/ \E t \in Tokens : RefreshRead(w, t)

Complete(w) == \/ LoginCommit(w)
               \/ CredentialCommit(w)
               \/ RotateCommit(w)
               \/ ReuseCommit(w)
               \/ SuspendCommit(w)
               \/ EraseCommit(w)
               \/ Abort(w)

AtOnce == \/ \E t \in Tokens : LogoutDevice(t)
          \/ \E u \in Users : LogoutEverywhere(u) \/ Unsuspend(u) \/ KillSessions(u)

Clock == \E t \in Tokens : Expire(t)

Next == \/ \E w \in Workers : Arrive(w) \/ Complete(w)
        \/ AtOnce
        \/ Clock

Spec == Init /\ [][Next]_vars

\* The same requests, one at a time: no request arrives, and none that is a
\* single step runs, while another is between its read and its commit.
Quiet == \A w \in Workers : request[w] = Idle

SerialNext == \/ Quiet /\ (AtOnce \/ \E w \in Workers : Arrive(w))
              \/ \E w \in Workers : Complete(w)
              \/ Clock

SerialSpec == Init /\ [][SerialNext]_vars

-----------------------------------------------------------------------------
(* Properties                                                              *)

\* A rotation never leaves its family nor its user: the family names an
\* issued row of the same owner, and a replacement is a later row of the
\* same family (tokens.py:133-144).
FamilySound ==
    \A t \in issued :
        /\ family[t] \in issued
        /\ family[family[t]] = family[t]
        /\ owner[family[t]] = owner[t]
        /\ t \in rotated => /\ replacedBy[t] \in issued \ {t, family[t]}
                            /\ family[replacedBy[t]] = family[t]

Rotating(f)  == \E w \in Workers : /\ request[w].op = "rotate"
                                   /\ family[request[w].token] = f
LoggingIn(u) == \E w \in Workers : request[w].op = "login" /\ request[w].user = u

\* A family is closed when all its rows are revoked and no rotation of one
\* of them is between its read and its commit.
Closed(f) == f \in issued /\ Members(f) \subseteq revoked /\ ~Rotating(f)

\* Once closed, a family never again holds a usable row: logout and reuse
\* detection are final, whatever tokens of the family are presented later
\* (tokens.py:122-128, 154-167).
ClosedFamilyStaysClosed ==
    [][\A f \in Tokens : Closed(f) => Closed(f)']_vars

Adding(u)    == \E w \in Workers : request[w].op = "credential" /\ request[w].user = u

\* A user is locked out when suspended, or without a credential and with no
\* request under way that adds one; without a usable token; and with no login
\* or rotation under way.
LockedOut(u) == /\ \/ u \in suspended
                   \/ u \in keyless /\ ~Adding(u)
                /\ TokensOf(u) \subseteq revoked
                /\ ~LoggingIn(u)
                /\ \A f \in TokensOf(u) : ~Rotating(f)

\* A locked-out user stays locked out, and only an admin who lifts a
\* suspension changes that (auth.py:134-145, 315-327; account_service.py:80-92):
\* an erased account whose requests have all ended stays so for ever, whatever
\* tokens and sign-ins are tried on it (account_data_service.py:181-191). One
\* that a link or a reset gave a credential after its erasure can sign in again.
LockedOutUntilUnsuspended ==
    [][\A u \in Users :
          LockedOut(u) => LockedOut(u)' \/ u \in suspended \ suspended']_vars

\* A family has at most one live row: each refresh hands the family over to
\* its replacement ("one link in a per-device rotation chain",
\* api_refresh_tokens.py:33-36).
OneLiveTokenPerFamily ==
    \A s, t \in Live : family[s] = family[t] => s = t

\* A suspended user holds no live row: "suspended accounts never receive
\* tokens" (auth.py:135) and the suspension revokes those they hold
\* (users/routes.py:95-96); lifting it therefore leaves the revocation alone
\* (account_service.py:104-105).
SuspendedHasNoLiveToken ==
    \A u \in suspended : TokensOf(u) \intersect Live = {}

\* A session of DeviceSessions is a family, named by its first row; it is
\* open while that row is not revoked, and has minted the rows of the family.
Roots == {t \in issued : family[t] = t}

Promise == INSTANCE DeviceSessions WITH
    open   <- Roots \ revoked,
    holder <- [d \in Roots |-> owner[d]],
    minted <- [d \in Roots |-> Members(d)],
    spent  <- rotated,
    barred <- suspended \union keyless

\* Served one at a time, the requests keep every promise of DeviceSessions.
KeepsPromise == Promise!Spec

=============================================================================
