-------------------------- MODULE OperationsProofs --------------------------
(***************************************************************************)
(* Theorems about the operations, for any numbers of runs, days, pollers,  *)
(* cron processes, requests, users, admins and browsers.                   *)
(*                                                                         *)
(* SessionsInv, which holds whatever overlaps, says that no stamp is of    *)
(* the future and that a suspension is younger than every look a session's *)
(* login took at it; Calm adds what holds until two requests overlap.      *)
(* TriggerInv: the lock is there while a run on request holds it.  OpsInv: *)
(* what the flag of a job and its last message say of each other where a   *)
(* run stands, and where a request is with its audit row.  BackupInv: what *)
(* lies on disk under a name that is one run's own, which runs have met    *)
(* while they dump, and whose turn at a day's log it was.                  *)
(***************************************************************************)
EXTENDS MCOperations, FiniteSetTheorems, TLAPS

-----------------------------------------------------------------------------
(* Sessions of accounts                                                    *)

\* No stamp is of the future.
StampsPast ==
    /\ \A u \in Users : account[u].killedAt <= now
    /\ \A b \in Browsers : session[b].issued <= now /\ session[b].checked <= now
    /\ \A b \in Browsers : request[b].op = "login" => request[b].at <= now

\* Sessions, and logins under way, are of accounts that are there.
OfAccounts ==
    /\ \A b \in Browsers :
          session[b].user # NoUser => account[session[b].user].status # "absent"
    /\ \A b \in Browsers :
          request[b].op = "login" => account[request[b].target].status # "absent"

\* While an account is suspended its kill switch is newer than the look that
\* any of its logins, finished or not, took at the suspension.
SuspendedSince ==
    \A u \in Users : account[u].suspended =>
        /\ account[u].killedAt > Never
        /\ \A b \in Browsers : session[b].user = u => session[b].checked < account[u].killedAt
        /\ \A b \in Browsers : request[b].op = "login" /\ request[b].target = u
                                   => request[b].at < account[u].killedAt

SessionsInv == SessionsTypeOK /\ StampsPast /\ OfAccounts /\ SuspendedSince

-----------------------------------------------------------------------------
LEMMA InitSessions == SessionsInit => SessionsInv
<1> SUFFICES ASSUME SessionsInit PROVE SessionsInv
  OBVIOUS
<1> USE AdminsAssumption, MaxTimeAssumption
<1>1. SessionsTypeOK
  <2>1. 0 \in 0 .. MaxTime
    OBVIOUS
  <2>2. account \in [Users -> Account]
    BY <2>1 DEF SessionsInit, Account, Never
  <2>3. session \in [Browsers -> Session]
    BY <2>1 DEF SessionsInit, Session, SignedOut, Never
  <2>4. request \in [Browsers -> Request]
    BY DEF SessionsInit, Request
  <2>5. QED BY <2>1, <2>2, <2>3, <2>4 DEF SessionsInit, SessionsTypeOK
<1>2. StampsPast
  BY DEF SessionsInit, StampsPast, SignedOut, Never, Idle
<1>3. OfAccounts
  BY DEF SessionsInit, OfAccounts, SignedOut, Idle
<1>4. SuspendedSince
  BY DEF SessionsInit, SuspendedSince
<1>5. QED BY <1>1, <1>2, <1>3, <1>4 DEF SessionsInv

\* What a request carries is of the shape its operation says.
LEMMA CarriedShape ==
  ASSUME SessionsTypeOK, NEW b \in Browsers, request[b] # Idle
  PROVE  /\ request[b].op \in Buttons \union {"login"}
         /\ request[b].target \in Users /\ request[b].at \in 0 .. MaxTime
BY DEF SessionsTypeOK, Request

LEMMA IdleOp == Idle.op = "idle" /\ "idle" \notin Buttons \union {"login"} /\ "login" \notin Buttons
BY DEF Idle, Buttons

\* A login, by whatever way, of u whose account is there and who may have
\* been looked at at time t.
LEMMA LoginKeeps ==
  ASSUME SessionsInv, NEW b \in Browsers, NEW u \in Users, NEW t \in 0 .. MaxTime,
         LogsIn(b, u, t), t <= now,
         account[u].status # "absent" \/ account'[u].status # "absent",
         account[u].suspended => t < account[u].killedAt,
         account' \in [Users -> Account],
         \A v \in Users : /\ account'[v].killedAt = account[v].killedAt
                          /\ account'[v].suspended = account[v].suspended
                          /\ account[v].status # "absent" => account'[v].status # "absent",
         request' \in [Browsers -> Request],
         \A c \in Browsers : request'[c] = request[c] \/ request'[c] = Idle,
         overlapped' \in BOOLEAN
  PROVE  SessionsInv'
<1> USE MaxTimeAssumption, AdminsAssumption, IdleOp
<1>0. SessionsTypeOK
  BY DEF SessionsInv
<1>1. /\ now' \in 0 .. MaxTime /\ now' = now + 1 /\ now \in Nat
      /\ session' \in [Browsers -> Session]
      /\ session'[b].user = u /\ session'[b].issued = now + 1 /\ session'[b].checked = t
      /\ \A c \in Browsers \ {b} : session'[c] = session[c]
  <2>1. now' \in 0 .. MaxTime /\ now' = now + 1 /\ now \in Nat
    BY <1>0 DEF SessionsTypeOK, LogsIn
  <2>2. session' = [session EXCEPT ![b].user = u, ![b].issued = now + 1, ![b].checked = t]
    BY DEF LogsIn, Stamp
  <2>3. session \in [Browsers -> Session]
    BY <1>0 DEF SessionsTypeOK
  <2>4. session' \in [Browsers -> Session]
    BY <2>1, <2>2, <2>3 DEF Session
  <2>5. QED BY <2>1, <2>2, <2>3, <2>4 DEF Session
<1>2. SessionsTypeOK'
  BY <1>1 DEF SessionsInv, SessionsTypeOK, Session
<1>3. StampsPast'
  <2>1. StampsPast
    BY DEF SessionsInv
  <2>2. \A v \in Users : account[v].killedAt \in Nat
    BY <1>0 DEF SessionsTypeOK, Account
  <2>3. \A c \in Browsers : session[c].issued \in Nat /\ session[c].checked \in Nat
    BY <1>0 DEF SessionsTypeOK, Session
  <2>4. \A c \in Browsers : request[c].op = "login" => request[c].at \in Nat
    BY <1>0, CarriedShape
  <2>5. \A v \in Users : account'[v].killedAt <= now'
    BY <1>1, <2>1, <2>2 DEF StampsPast
  <2>6. \A c \in Browsers : session'[c].issued <= now' /\ session'[c].checked <= now'
    BY <1>0, <1>1, <2>1, <2>3 DEF StampsPast, SessionsTypeOK
  <2>7. \A c \in Browsers : request'[c].op = "login" => request'[c].at <= now'
    BY <1>1, <2>1, <2>4 DEF StampsPast
  <2>8. QED BY <2>5, <2>6, <2>7 DEF StampsPast
<1>4. OfAccounts'
  <2>1. \A c \in Browsers : session'[c].user # NoUser => account'[session'[c].user].status # "absent"
    BY <1>1 DEF SessionsInv, OfAccounts, SessionsTypeOK, Session
  <2>2. \A c \in Browsers : request'[c].op = "login" => account'[request'[c].target].status # "absent"
    BY CarriedShape DEF SessionsInv, OfAccounts
  <2>3. QED BY <2>1, <2>2 DEF OfAccounts
<1>5. SuspendedSince'
  <2> SUFFICES ASSUME NEW v \in Users, account[v].suspended
               PROVE  /\ account[v].killedAt > Never
                      /\ \A c \in Browsers : session'[c].user = v => session'[c].checked < account[v].killedAt
                      /\ \A c \in Browsers : request'[c].op = "login" /\ request'[c].target = v
                                                 => request'[c].at < account[v].killedAt
    BY DEF SuspendedSince
  <2>1. \A c \in Browsers : session'[c].user = v => session'[c].checked < account[v].killedAt
    BY <1>1 DEF SessionsInv, SuspendedSince, SessionsTypeOK
  <2>2. QED BY <2>1 DEF SessionsInv, SuspendedSince
<1>6. QED BY <1>2, <1>3, <1>4, <1>5 DEF SessionsInv

-----------------------------------------------------------------------------
\* What a button writes.
Stamping(op) == op \notin {"unsuspend", "verify"}

LEMMA WrittenIs ==
  ASSUME NEW op \in Buttons, NEW a \in Account, NEW t, Stamping(op) => t \in 0 .. MaxTime
  PROVE  LET w == Written(op, a, t) IN
         /\ w \in Account
         /\ w.status = IF op = "erase" THEN "erased" ELSE a.status
         /\ w.suspended <=> op = "suspend" \/ (op # "unsuspend" /\ a.suspended)
         /\ w.killedAt = IF Stamping(op) THEN t ELSE a.killedAt
<1>1. CASE op = "suspend"
  BY <1>1 DEF Written, SuspendUser, Account, Stamping
<1>2. CASE op = "unsuspend"
  BY <1>2 DEF Written, UnsuspendUser, Account, Stamping
<1>3. CASE op = "kill"
  BY <1>3 DEF Written, KillSessions, Account, Stamping
<1>4. CASE op = "force_reset"
  BY <1>4 DEF Written, ForceReset, Account, Stamping
<1>5. CASE op = "erase"
  BY <1>5 DEF Written, EraseUser, Account, Stamping
<1>6. CASE op = "verify"
  BY <1>6 DEF Written, MarkVerified, Account, Stamping
<1>7. QED BY <1>1, <1>2, <1>3, <1>4, <1>5, <1>6 DEF Buttons

\* What a button's request does to the account it is about.
LEMMA CommitIs ==
  ASSUME SessionsTypeOK, NEW b \in Browsers, AdminCommit(b)
  PROVE  LET op == request[b].op  u == request[b].target IN
         /\ op \in Buttons /\ u \in Users
         /\ account' \in [Users -> Account]
         /\ \A v \in Users \ {u} : account'[v] = account[v]
         /\ account'[u].status = IF op = "erase" THEN "erased" ELSE account[u].status
         /\ account'[u].suspended <=> op = "suspend" \/ (op # "unsuspend" /\ account[u].suspended)
         /\ account'[u].killedAt = IF Stamping(op) THEN now + 1 ELSE account[u].killedAt
         /\ now' = IF Stamping(op) THEN now + 1 ELSE now
         /\ now \in Nat /\ now' \in 0 .. MaxTime
         /\ request' = [request EXCEPT ![b] = Idle]
         /\ UNCHANGED <<session, overlapped>>
<1> DEFINE op == request[b].op
           u == request[b].target
<1> USE MaxTimeAssumption
<1>1. op \in Buttons /\ u \in Users /\ account[u] \in Account
  BY CarriedShape, IdleOp DEF AdminCommit, SessionsTypeOK
<1>2. /\ now' = IF Stamping(op) THEN now + 1 ELSE now
      /\ now \in Nat /\ now' \in 0 .. MaxTime
      /\ Stamping(op) => now + 1 \in 0 .. MaxTime
  BY <1>1 DEF AdminCommit, Stamping, SessionsTypeOK
<1>3. account' = [account EXCEPT ![u] = Written(op, account[u], now + 1)]
  BY DEF AdminCommit
<1>4. /\ account'[u] = Written(op, account[u], now + 1)
      /\ \A v \in Users \ {u} : account'[v] = account[v]
      /\ DOMAIN account' = Users
      /\ account' = [v \in Users |-> account'[v]]
  BY <1>1, <1>3 DEF SessionsTypeOK
<1> HIDE DEF op, u
<1>5. LET w == Written(op, account[u], now + 1) IN
         /\ w \in Account
         /\ w.status = IF op = "erase" THEN "erased" ELSE account[u].status
         /\ w.suspended <=> op = "suspend" \/ (op # "unsuspend" /\ account[u].suspended)
         /\ w.killedAt = IF Stamping(op) THEN now + 1 ELSE account[u].killedAt
  BY <1>1, <1>2, WrittenIs
<1>6. account' \in [Users -> Account]
  BY <1>4, <1>5 DEF SessionsTypeOK
<1>7. request' = [request EXCEPT ![b] = Idle] /\ UNCHANGED <<session, overlapped>>
  BY DEF AdminCommit, Ends
<1>8. /\ account'[u].status = IF op = "erase" THEN "erased" ELSE account[u].status
      /\ account'[u].suspended <=> op = "suspend" \/ (op # "unsuspend" /\ account[u].suspended)
      /\ account'[u].killedAt = IF Stamping(op) THEN now + 1 ELSE account[u].killedAt
  BY <1>4, <1>5
<1>9. QED BY <1>1, <1>2, <1>4, <1>6, <1>7, <1>8 DEF op, u

LEMMA CommitKeeps ==
  ASSUME SessionsInv, NEW b \in Browsers, AdminCommit(b)
  PROVE  SessionsInv'
<1> DEFINE op == request[b].op
           u == request[b].target
<1>0. SessionsTypeOK
  BY DEF SessionsInv
<1>1. /\ op \in Buttons /\ u \in Users
      /\ account' \in [Users -> Account]
      /\ \A v \in Users \ {u} : account'[v] = account[v]
      /\ account'[u].status = IF op = "erase" THEN "erased" ELSE account[u].status
      /\ account'[u].suspended <=> op = "suspend" \/ (op # "unsuspend" /\ account[u].suspended)
      /\ account'[u].killedAt = IF Stamping(op) THEN now + 1 ELSE account[u].killedAt
      /\ now' = IF Stamping(op) THEN now + 1 ELSE now
      /\ now \in Nat /\ now' \in 0 .. MaxTime
      /\ request' = [request EXCEPT ![b] = Idle]
      /\ UNCHANGED <<session, overlapped>>
  BY <1>0, CommitIs
<1> HIDE DEF op, u
<1>2. /\ \A v \in Users : account[v].killedAt \in Nat /\ account[v].killedAt <= now
      /\ \A c \in Browsers : /\ session[c].issued \in Nat /\ session[c].checked \in Nat
                             /\ session[c].issued <= now /\ session[c].checked <= now
      /\ \A c \in Browsers : request[c].op = "login" => request[c].at \in Nat /\ request[c].at <= now
  <2>1. \A v \in Users : account[v].killedAt \in Nat
    BY <1>0 DEF SessionsTypeOK, Account
  <2>2. \A c \in Browsers : session[c].issued \in Nat /\ session[c].checked \in Nat
    BY <1>0 DEF SessionsTypeOK, Session
  <2>3. \A c \in Browsers : request[c].op = "login" => request[c].at \in Nat
    BY <1>0, CarriedShape, IdleOp, MaxTimeAssumption
  <2>4. QED BY <2>1, <2>2, <2>3 DEF SessionsInv, StampsPast
<1>3. \A c \in Browsers : /\ request'[c] = request[c] \/ request'[c] = Idle
                          /\ request'[c].op = "login" => request'[c] = request[c]
  BY <1>0, <1>1, IdleOp DEF SessionsTypeOK
<1>4. SessionsTypeOK'
  <2>1. request' \in [Browsers -> Request]
    BY <1>0, <1>1 DEF SessionsTypeOK, Request
  <2>2. QED BY <1>0, <1>1, <2>1 DEF SessionsTypeOK
<1>5. StampsPast'
  <2>1. \A v \in Users : account'[v].killedAt <= now'
    BY <1>1, <1>2
  <2>2. \A c \in Browsers : session'[c].issued <= now' /\ session'[c].checked <= now'
    BY <1>1, <1>2
  <2>3. \A c \in Browsers : request'[c].op = "login" => request'[c].at <= now'
    BY <1>1, <1>2, <1>3
  <2>4. QED BY <2>1, <2>2, <2>3 DEF StampsPast
<1>6. OfAccounts'
  <2>1. \A v \in Users : account[v].status # "absent" => account'[v].status # "absent"
    BY <1>1
  <2>2. \A c \in Browsers : /\ session[c].user \in Users \union {NoUser}
                            /\ request[c].op = "login" => request[c].target \in Users
    BY <1>0, CarriedShape, IdleOp DEF SessionsTypeOK, Session
  <2>3. QED BY <1>1, <1>3, <2>1, <2>2 DEF SessionsInv, OfAccounts
<1>7. SuspendedSince'
  <2> SUFFICES ASSUME NEW v \in Users, account'[v].suspended
               PROVE  /\ account'[v].killedAt > Never
                      /\ \A c \in Browsers : session[c].user = v => session[c].checked < account'[v].killedAt
                      /\ \A c \in Browsers : request'[c].op = "login" /\ request'[c].target = v
                                                 => request'[c].at < account'[v].killedAt
    BY <1>1 DEF SuspendedSince
  <2>1. CASE v = u /\ Stamping(op)
    BY <1>1, <1>2, <1>3, <2>1 DEF Never
  <2>2. CASE v # u \/ ~Stamping(op)
    <3>1. account[v].suspended /\ account'[v].killedAt = account[v].killedAt
      BY <1>1, <2>2 DEF Stamping
    <3>2. QED BY <1>3, <3>1 DEF SessionsInv, SuspendedSince
  <2>3. QED BY <2>1, <2>2
<1>8. QED BY <1>4, <1>5, <1>6, <1>7 DEF SessionsInv

\* A request that begins writes nothing.
LEMMA BeginKeeps ==
  ASSUME SessionsInv, NEW b \in Browsers, NEW op \in Buttons \union {"login"}, NEW u \in Users,
         Begins(b, [op |-> op, target |-> u, at |-> now]),
         op = "login" => account[u].status # "absent" /\ ~account[u].suspended,
         UNCHANGED <<account, session, now>>
  PROVE  SessionsInv'
<1> DEFINE r == [op |-> op, target |-> u, at |-> now]
<1>0. SessionsTypeOK
  BY DEF SessionsInv
<1>1. request' = [request EXCEPT ![b] = r]
  BY DEF Begins
<1>2. r \in Request /\ r.op = op /\ r.target = u /\ r.at = now /\ now <= now
  BY <1>0, MaxTimeAssumption DEF Request, SessionsTypeOK
<1> HIDE DEF r
<1>3. \A c \in Browsers : request'[c] = IF c = b THEN r ELSE request[c]
  BY <1>0, <1>1 DEF SessionsTypeOK
<1>4. SessionsTypeOK'
  <2>1. request' \in [Browsers -> Request]
    BY <1>0, <1>1, <1>2 DEF SessionsTypeOK
  <2>2. overlapped' \in BOOLEAN
    BY <1>0 DEF Begins, SessionsTypeOK
  <2>3. QED BY <1>0, <2>1, <2>2 DEF SessionsTypeOK
<1>5. StampsPast'
  BY <1>2, <1>3 DEF SessionsInv, StampsPast
<1>6. OfAccounts'
  BY <1>2, <1>3 DEF SessionsInv, OfAccounts
<1>7. SuspendedSince'
  BY <1>2, <1>3 DEF SessionsInv, SuspendedSince
<1>8. QED BY <1>4, <1>5, <1>6, <1>7 DEF SessionsInv

\* A request that is given up writes nothing either.
LEMMA RollbackKeeps ==
  ASSUME SessionsInv, NEW b \in Browsers, Rollback(b)
  PROVE  SessionsInv'
<1>0. SessionsTypeOK
  BY DEF SessionsInv
<1>1. /\ \A c \in Browsers : request'[c] = request[c] \/ request'[c] = Idle
      /\ request' \in [Browsers -> Request]
      /\ UNCHANGED <<account, session, now, overlapped>>
  BY <1>0 DEF Rollback, Ends, SessionsTypeOK, Request
<1>2. \A c \in Browsers : request'[c].op = "login" => request'[c] = request[c]
  BY <1>1, IdleOp
<1>3. SessionsTypeOK'
  BY <1>0, <1>1 DEF SessionsTypeOK
<1>4. StampsPast'
  BY <1>1, <1>2 DEF SessionsInv, StampsPast
<1>5. OfAccounts'
  BY <1>1, <1>2 DEF SessionsInv, OfAccounts
<1>6. SuspendedSince'
  BY <1>1, <1>2 DEF SessionsInv, SuspendedSince
<1>7. QED BY <1>3, <1>4, <1>5, <1>6 DEF SessionsInv

LEMMA LogoutKeeps ==
  ASSUME SessionsInv, NEW b \in Browsers, Logout(b)
  PROVE  SessionsInv'
<1>0. SessionsTypeOK
  BY DEF SessionsInv
<1>1. /\ session' \in [Browsers -> Session]
      /\ session'[b].user = NoUser /\ session'[b].issued = session[b].issued
      /\ session'[b].checked = 0
      /\ \A c \in Browsers \ {b} : session'[c] = session[c]
      /\ UNCHANGED <<account, request, now, overlapped>>
  BY <1>0, MaxTimeAssumption DEF Logout, SignedOut, Never, SessionsTypeOK, Session
<1>2. SessionsTypeOK'
  BY <1>0, <1>1 DEF SessionsTypeOK
<1>3. StampsPast'
  BY <1>0, <1>1, MaxTimeAssumption DEF SessionsInv, StampsPast, SessionsTypeOK
<1>4. OfAccounts'
  BY <1>1 DEF SessionsInv, OfAccounts
<1>5. SuspendedSince'
  BY <1>1, AdminsAssumption DEF SessionsInv, SuspendedSince
<1>6. QED BY <1>2, <1>3, <1>4, <1>5 DEF SessionsInv

\* The ways in that change at most the account's columns of registration.
LEMMA SignInKeeps ==
  ASSUME SessionsInv, NEW b \in Browsers, NEW u \in Users,
         Register(b, u) \/ ValidateEmail(b, u) \/ OpenExpiredLink(b, u)
  PROVE  SessionsInv'
<1> USE MaxTimeAssumption
<1>0. SessionsTypeOK /\ account[u] \in Account /\ 0 \in 0 .. MaxTime /\ 0 <= now
  BY DEF SessionsInv, SessionsTypeOK
<1>1. /\ LogsIn(b, u, 0)
      /\ UNCHANGED <<request, overlapped>>
  BY DEF Register, ValidateEmail, OpenExpiredLink, Never
<1>2. account[u].suspended => 0 < account[u].killedAt
  BY DEF SessionsInv, SuspendedSince, Never
<1>3. /\ account' \in [Users -> Account]
      /\ account'[u].status = "live"
      /\ \A v \in Users : /\ account'[v].killedAt = account[v].killedAt
                          /\ account'[v].suspended = account[v].suspended
                          /\ account[v].status # "absent" => account'[v].status # "absent"
  <2>1. CASE account' = [account EXCEPT ![u].status = "live", ![u].password = TRUE]
    BY <1>0, <2>1 DEF SessionsTypeOK, Account
  <2>2. CASE account[u].status = "live" /\ account' = [account EXCEPT ![u].validated = TRUE]
    BY <1>0, <2>2 DEF SessionsTypeOK, Account
  <2>3. CASE account[u].status = "live" /\ UNCHANGED account
    BY <1>0, <2>3 DEF SessionsTypeOK
  <2>4. QED BY <2>1, <2>2, <2>3 DEF Register, ValidateEmail, OpenExpiredLink
<1>4. request' \in [Browsers -> Request] /\ overlapped' \in BOOLEAN
      /\ \A c \in Browsers : request'[c] = request[c] \/ request'[c] = Idle
  BY <1>0, <1>1 DEF SessionsTypeOK
<1>5. QED BY <1>0, <1>1, <1>2, <1>3, <1>4, LoginKeeps

LEMMA LoginCommitKeeps ==
  ASSUME SessionsInv, NEW b \in Browsers, LoginCommit(b)
  PROVE  SessionsInv'
<1> DEFINE u == request[b].target
           t == request[b].at
<1>0. SessionsTypeOK
  BY DEF SessionsInv
<1>1. request[b].op = "login" /\ u \in Users /\ t \in 0 .. MaxTime
  BY <1>0, CarriedShape, IdleOp DEF LoginCommit
<1>2. t <= now /\ account[u].status # "absent"
      /\ (account[u].suspended => t < account[u].killedAt)
  BY <1>1 DEF SessionsInv, StampsPast, OfAccounts, SuspendedSince
<1>3. /\ LogsIn(b, u, t) /\ UNCHANGED <<account, overlapped>>
      /\ request' \in [Browsers -> Request]
      /\ \A c \in Browsers : request'[c] = request[c] \/ request'[c] = Idle
  BY <1>0 DEF LoginCommit, Ends, SessionsTypeOK, Request
<1>4. account' \in [Users -> Account] /\ overlapped' \in BOOLEAN
  BY <1>0, <1>3 DEF SessionsTypeOK
<1> HIDE DEF u, t
<1>5. QED BY <1>1, <1>2, <1>3, <1>4, LoginKeeps

LEMMA SessionsStep == SessionsInv /\ [SessionsNext]_sessionsVars => SessionsInv'
<1> SUFFICES ASSUME SessionsInv, [SessionsNext]_sessionsVars PROVE SessionsInv'
  OBVIOUS
<1>1. ASSUME NEW b \in Browsers, NEW u \in Users, LoginRead(b, u) PROVE SessionsInv'
  BY <1>1, BeginKeeps DEF LoginRead
<1>2. ASSUME NEW b \in Browsers, NEW u \in Users, NEW op \in Buttons, AdminRead(b, op, u) PROVE SessionsInv'
  BY <1>2, BeginKeeps, IdleOp DEF AdminRead
<1>3. CASE UNCHANGED sessionsVars
  BY <1>3 DEF sessionsVars, SessionsInv, SessionsTypeOK, StampsPast, OfAccounts, SuspendedSince
<1>4. QED BY <1>1, <1>2, <1>3, SignInKeeps, LoginCommitKeeps, LogoutKeeps, CommitKeeps,
             RollbackKeeps DEF SessionsNext

LEMMA SessionsInvariance == SessionsSpec => []SessionsInv
BY InitSessions, SessionsStep, PTL DEF SessionsSpec

-----------------------------------------------------------------------------
\* What takes a session's refusal back, in one step.
LEMMA RevivalStep ==
  ASSUME SessionsInv, [SessionsNext]_sessionsVars, NEW b \in Browsers,
         session[b].user # NoUser, ~Resolves(session[b]),
         session'[b].issued = session[b].issued, Resolves(session[b])'
  PROVE  LET u == session[b].user IN
         /\ account[u].suspended /\ ~account'[u].suspended
         /\ session[b].checked < account[u].killedAt
         /\ account[u].killedAt <= session[b].issued
<1> DEFINE u == session[b].user
<1>0. /\ SessionsTypeOK /\ u \in Users /\ account[u].status # "absent"
      /\ session[b].issued \in Nat /\ account[u].killedAt \in Nat /\ now \in Nat
      /\ session[b].issued <= now /\ account[u].killedAt <= now
  BY DEF SessionsInv, SessionsTypeOK, OfAccounts, StampsPast, Session, Account
<1>1. session'[b].user # NoUser
  BY DEF Resolves
<1>2. ASSUME NEW c \in Browsers, NEW v \in Users, NEW t, LogsIn(c, v, t)
      PROVE  session'[b] = session[b]
  <2>1. c # b
    BY <1>0, <1>2 DEF LogsIn, Stamp, SessionsTypeOK, Session
  <2>2. QED BY <1>0, <1>2, <2>1 DEF LogsIn, Stamp, SessionsTypeOK
<1>3. CASE \E c \in Browsers : AdminCommit(c)
  <2>1. PICK c \in Browsers : AdminCommit(c)
    BY <1>3
  <2> DEFINE op == request[c].op
             v == request[c].target
  <2>2. /\ op \in Buttons /\ v \in Users
        /\ \A x \in Users \ {v} : account'[x] = account[x]
        /\ account'[v].status = IF op = "erase" THEN "erased" ELSE account[v].status
        /\ account'[v].suspended <=> op = "suspend" \/ (op # "unsuspend" /\ account[v].suspended)
        /\ account'[v].killedAt = IF Stamping(op) THEN now + 1 ELSE account[v].killedAt
        /\ UNCHANGED session
    BY <1>0, <2>1, CommitIs
  <2> HIDE DEF op, v
  <2>3. u = v
    BY <1>0, <2>2 DEF Resolves
  <2>4. ~account'[u].suspended
    BY <2>2 DEF Resolves
  <2>5. ~Stamping(op)
    BY <1>0, <2>2, <2>3 DEF Resolves, Never
  <2>6. account'[u].killedAt = account[u].killedAt /\ account[u].suspended
    BY <1>0, <2>2, <2>3, <2>5 DEF Resolves
  <2>7. account[u].killedAt > Never /\ session[b].checked < account[u].killedAt
    BY <1>0, <2>6 DEF SessionsInv, SuspendedSince
  <2>8. account[u].killedAt <= session[b].issued
    BY <1>0, <2>2, <2>6, <2>7 DEF Resolves, Never
  <2>9. QED BY <2>4, <2>6, <2>7, <2>8
<1>4. CASE ~\E c \in Browsers : AdminCommit(c)
  <2>1. session'[b] = session[b]
    <3>1. ASSUME NEW c \in Browsers, Logout(c) PROVE session'[b] = session[b]
      BY <1>0, <1>1, <3>1, AdminsAssumption DEF Logout, SignedOut, SessionsTypeOK, Session
    <3>2. ASSUME NEW c \in Browsers, LoginCommit(c) PROVE session'[b] = session[b]
      BY <1>0, <1>2, <3>2, CarriedShape, IdleOp DEF LoginCommit
    <3>3. QED BY <1>2, <1>4, <3>1, <3>2 DEF SessionsNext, sessionsVars, Register, LoginRead,
                 ValidateEmail, OpenExpiredLink, AdminRead, Rollback
  <2>2. /\ account'[u].suspended = account[u].suspended
        /\ account'[u].killedAt = account[u].killedAt
    <3>1. ASSUME NEW c \in Browsers, NEW v \in Users, Register(c, v) \/ ValidateEmail(c, v)
          PROVE  /\ account'[u].suspended = account[u].suspended
                 /\ account'[u].killedAt = account[u].killedAt
      BY <1>0, <3>1 DEF Register, ValidateEmail, SessionsTypeOK, Account
    <3>2. QED BY <1>4, <3>1 DEF SessionsNext, sessionsVars, LoginRead, LoginCommit,
                 OpenExpiredLink, Logout, AdminRead, Rollback
  <2>3. QED BY <1>0, <2>1, <2>2 DEF Resolves
<1>5. QED BY <1>3, <1>4

\* RevivedOnlyIfUnchecked is a property of every behaviour: what load_user
\* has refused it accepts again only after an admin's unsuspend, and only for
\* a login that took no look at the suspension (users/routes.py:56-93).
THEOREM KilledStaysDead == SessionsSpec => RevivedOnlyIfUnchecked
<1>1. SessionsInv /\ [SessionsNext]_sessionsVars =>
        [\A b \in Browsers :
            LET s == session[b]  u == s.user IN
            (u # NoUser /\ ~Resolves(s) /\ session'[b].issued = s.issued /\ Resolves(s)')
              => /\ account[u].suspended /\ ~account'[u].suspended
                 /\ s.checked < account[u].killedAt /\ account[u].killedAt <= s.issued]_sessionsVars
  BY RevivalStep
<1>2. QED BY SessionsInvariance, <1>1, PTL DEF SessionsSpec, RevivedOnlyIfUnchecked

-----------------------------------------------------------------------------
(* Until two requests overlap.                                             *)

Usable(a) == account[a].status = "live" /\ ~account[a].suspended

Calm ==
    overlapped \/
      /\ \A b, c \in Browsers : request[b] # Idle /\ request[c] # Idle => b = c
      /\ \E a \in Admins : Usable(a)
      \* The sessions of an erased account are refused.
      /\ \A b \in Browsers : session[b].user # NoUser /\ account[session[b].user].status = "erased"
                                 => session[b].issued < account[session[b].user].killedAt
      /\ \A b \in Browsers : request[b].op = "login" => account[request[b].target].status = "live"
      \* Whoever suspends or erases an account leaves another admin.
      /\ \A b \in Browsers : request[b].op \in {"suspend", "erase"}
                                 => \E a \in Admins \ {request[b].target} : Usable(a)

LEMMA InitCalm == ASSUME Admins # {}, SessionsInit PROVE Calm
<1>1. PICK a \in Admins : TRUE
  OBVIOUS
<1>2. Usable(a)
  BY <1>1, AdminsAssumption DEF SessionsInit, Usable
<1>3. QED BY <1>1, <1>2 DEF SessionsInit, Calm, SignedOut, Idle

\* Signing in, by any way, to a live account.
LEMMA LoginCalm ==
  ASSUME SessionsInv, SessionsInv', Calm, UNCHANGED overlapped, NEW b \in Browsers, NEW u \in Users, NEW t,
         LogsIn(b, u, t), account'[u].status = "live",
         \A v \in Users : /\ account'[v].killedAt = account[v].killedAt
                          /\ account'[v].suspended = account[v].suspended
                          /\ account'[v].status = account[v].status
                               \/ account[v].status = "absent",
         \A c \in Browsers : request'[c] = request[c] \/ request'[c] = Idle
  PROVE  Calm'
<1> SUFFICES ASSUME ~overlapped PROVE Calm'
  BY DEF Calm
<1>0. SessionsTypeOK
  BY DEF SessionsInv
<1>1. \A a \in Users : Usable(a) => Usable(a)'
  BY DEF Usable
<1>2. \A c \in Browsers : \/ request'[c] = Idle
                          \/ request'[c] = request[c] /\ request[c] # Idle
  OBVIOUS
<1>3. \A c \in Browsers : request[c] # Idle =>
         /\ request[c].op \in Buttons \union {"login"} /\ request[c].target \in Users
  BY <1>0, CarriedShape
<1>4. \A c, d \in Browsers : request'[c] # Idle /\ request'[d] # Idle => c = d
  BY <1>2 DEF Calm
<1>5. \E a \in Admins : Usable(a)'
  BY <1>1, AdminsAssumption DEF Calm
<1>6. ASSUME NEW c \in Browsers, session'[c].user # NoUser,
             account'[session'[c].user].status = "erased"
      PROVE  session'[c].issued < account'[session'[c].user].killedAt
  <2>1. session'[b].user = u
    BY <1>0 DEF LogsIn, Stamp, SessionsTypeOK, Session
  <2>2. c # b
    BY <1>6, <2>1
  <2>3. session'[c] = session[c] /\ session[c].user \in Users
    BY <1>0, <1>6, <2>2 DEF LogsIn, Stamp, SessionsTypeOK, Session
  <2>4. account[session[c].user].status # "absent"
    BY <1>6, <2>3 DEF SessionsInv, OfAccounts
  <2>5. QED BY <1>6, <2>3, <2>4 DEF Calm
<1>7. ASSUME NEW c \in Browsers, request'[c].op = "login"
      PROVE  account'[request'[c].target].status = "live"
  <2>1. request'[c] = request[c] /\ request[c].target \in Users
    BY <1>2, <1>3, <1>7, IdleOp
  <2>2. account[request[c].target].status = "live"
    BY <1>7, <2>1 DEF Calm
  <2>3. QED BY <2>1, <2>2
<1>8. ASSUME NEW c \in Browsers, request'[c].op \in {"suspend", "erase"}
      PROVE  \E a \in Admins \ {request'[c].target} : Usable(a)'
  <2>1. request'[c] = request[c]
    BY <1>2, <1>8, IdleOp DEF Buttons
  <2>2. QED BY <1>1, <1>8, <2>1, AdminsAssumption DEF Calm
<1>9. QED BY <1>4, <1>5, <1>6, <1>7, <1>8 DEF Calm

\* A request that begins, alone.
LEMMA BeginCalm ==
  ASSUME SessionsInv, Calm, NEW b \in Browsers, NEW op \in Buttons \union {"login"}, NEW u \in Users,
         Begins(b, [op |-> op, target |-> u, at |-> now]),
         op = "login" => account[u].status = "live",
         op \in {"suspend", "erase"} /\ ~overlapped => \E a \in Admins \ {u} : Usable(a),
         UNCHANGED <<account, session, now>>
  PROVE  Calm'
<1> DEFINE r == [op |-> op, target |-> u, at |-> now]
<1> SUFFICES ASSUME ~overlapped' PROVE Calm'
  BY DEF Calm
<1>1. ~overlapped /\ \A c \in Browsers \ {b} : request[c] = Idle
  BY DEF Begins
<1>2. r.op = op /\ r.target = u
  OBVIOUS
<1>3. request' = [request EXCEPT ![b] = r]
  BY DEF Begins
<1> HIDE DEF r
<1>4. \A c \in Browsers : request'[c] = IF c = b THEN r ELSE Idle
  BY <1>1, <1>3 DEF SessionsInv, SessionsTypeOK
<1>5. \A a \in Users : Usable(a) => Usable(a)'
  BY DEF Usable
<1>6. \A c \in Browsers : request'[c].op \in {"login", "suspend", "erase"} => request'[c] = r
  BY <1>4, IdleOp DEF Buttons
<1>7. \A c, d \in Browsers : request'[c] # Idle /\ request'[d] # Idle => c = d
  BY <1>4
<1>8. \E a \in Admins : Usable(a)'
  BY <1>1, <1>5, AdminsAssumption DEF Calm
<1>9. \A c \in Browsers : request'[c].op = "login" => account'[request'[c].target].status = "live"
  BY <1>2, <1>6
<1>10. \A c \in Browsers : request'[c].op \in {"suspend", "erase"}
                               => \E a \in Admins \ {request'[c].target} : Usable(a)'
  BY <1>1, <1>2, <1>5, <1>6, AdminsAssumption
<1>11. QED BY <1>1, <1>7, <1>8, <1>9, <1>10 DEF Calm

\* An admin who may use the portal is another one than the target.
LEMMA AdminReadCalm ==
  ASSUME SessionsInv, Calm, NEW b \in Browsers, NEW op \in Buttons, NEW u \in Users, AdminRead(b, op, u)
  PROVE  Calm'
<1> DEFINE a == session[b].user
<1>1. a \in Admins /\ a \in Users /\ a # u /\ Resolves(session[b])
  BY AdminsAssumption DEF AdminRead, SignedIn, NotSelf
<1>2. /\ account[a].status \in {"absent", "live", "erased"}
      /\ account[a].killedAt \in Nat /\ session[b].issued \in Nat
  BY <1>1 DEF SessionsInv, SessionsTypeOK, Account, Session
<1>3. a # NoUser /\ account[a].status # "absent" /\ ~account[a].suspended
      /\ (account[a].killedAt = 0 \/ session[b].issued >= account[a].killedAt)
  BY <1>1 DEF Resolves, Never
<1>4. ASSUME ~overlapped PROVE Usable(a)
  <2>1. account[a].status # "erased"
    BY <1>2, <1>3, <1>4 DEF Calm
  <2>2. QED BY <1>2, <1>3, <2>1 DEF Usable
<1>5. op # "login"
  BY IdleOp
<1>6. ~overlapped => \E x \in Admins \ {u} : Usable(x)
  BY <1>1, <1>4
<1> HIDE DEF a
<1>7. /\ Begins(b, [op |-> op, target |-> u, at |-> now])
      /\ UNCHANGED <<account, session, now>>
  BY DEF AdminRead
<1>8. QED BY <1>5, <1>6, <1>7, BeginCalm

\* A button's request that ends leaves another admin, and no session that an
\* erased account could be used by.
LEMMA CommitCalm ==
  ASSUME SessionsInv, Calm, NEW b \in Browsers, AdminCommit(b)
  PROVE  Calm'
<1> DEFINE op == request[b].op
           u == request[b].target
<1>0. SessionsTypeOK
  BY DEF SessionsInv
<1>1. /\ op \in Buttons /\ u \in Users
      /\ \A v \in Users \ {u} : account'[v] = account[v]
      /\ account'[u].status = IF op = "erase" THEN "erased" ELSE account[u].status
      /\ account'[u].suspended <=> op = "suspend" \/ (op # "unsuspend" /\ account[u].suspended)
      /\ account'[u].killedAt = IF Stamping(op) THEN now + 1 ELSE account[u].killedAt
      /\ now \in Nat
      /\ request' = [request EXCEPT ![b] = Idle]
      /\ UNCHANGED <<session, overlapped>>
  BY <1>0, CommitIs
<1> SUFFICES ASSUME ~overlapped PROVE Calm'
  BY <1>1 DEF Calm
<1>2. op \in {"suspend", "erase"} => \E a \in Admins \ {u} : Usable(a)
  BY DEF Calm
<1>3. \A c \in Browsers : request'[c] = Idle
  <2>1. request[b] # Idle
    BY <1>1, IdleOp
  <2>2. QED BY <1>0, <1>1, <2>1 DEF Calm, SessionsTypeOK
<1> HIDE DEF op, u
<1>4. \E a \in Admins : Usable(a)'
  <2>1. CASE op \in {"suspend", "erase"}
    BY <1>1, <1>2, <2>1, AdminsAssumption DEF Usable
  <2>2. CASE op \notin {"suspend", "erase"}
    <3>1. \A a \in Users : Usable(a) => Usable(a)'
      BY <1>1, <2>2 DEF Usable
    <3>2. QED BY <3>1, AdminsAssumption DEF Calm
  <2>3. QED BY <2>1, <2>2
<1>5. ASSUME NEW c \in Browsers, session[c].user # NoUser,
             account'[session[c].user].status = "erased"
      PROVE  session[c].issued < account'[session[c].user].killedAt
  <2>1. /\ session[c].user \in Users /\ session[c].issued \in Nat /\ session[c].issued <= now
    BY <1>0, <1>5 DEF SessionsInv, SessionsTypeOK, Session, StampsPast
  <2>2. CASE session[c].user = u /\ Stamping(op)
    BY <1>1, <2>1, <2>2
  <2>3. CASE session[c].user # u \/ ~Stamping(op)
    <3>1. /\ account[session[c].user].status = "erased"
          /\ account'[session[c].user].killedAt = account[session[c].user].killedAt
      BY <1>1, <1>5, <2>1, <2>3 DEF Stamping
    <3>2. QED BY <1>5, <3>1 DEF Calm
  <2>4. QED BY <2>2, <2>3
<1>6. QED BY <1>1, <1>3, <1>4, <1>5, IdleOp DEF Calm, Buttons

\* Signing out, or giving a request up.
LEMMA LeavingCalm ==
  ASSUME SessionsInv, Calm, NEW b \in Browsers, Logout(b) \/ Rollback(b)
  PROVE  Calm'
<1> SUFFICES ASSUME ~overlapped PROVE Calm'
  BY DEF Calm, Logout, Rollback
<1>0. SessionsTypeOK
  BY DEF SessionsInv
<1>1. UNCHANGED <<account, overlapped>>
  BY DEF Logout, Rollback
<1>2. \A c \in Browsers : request'[c] = request[c] \/ request'[c] = Idle
  BY <1>0 DEF Logout, Rollback, Ends, SessionsTypeOK
<1>3. \A c \in Browsers : session'[c] = session[c] \/ session'[c].user = NoUser
  BY <1>0 DEF Logout, Rollback, SignedOut, SessionsTypeOK
<1>4. \A a : Usable(a) => Usable(a)'
  BY <1>1 DEF Usable
<1>5. \A c \in Browsers : request'[c].op \in {"login", "suspend", "erase"} => request'[c] = request[c]
  BY <1>2, IdleOp DEF Buttons
<1>6. \A c, d \in Browsers : request'[c] # Idle /\ request'[d] # Idle => c = d
  BY <1>2 DEF Calm
<1>7. \E a \in Admins : Usable(a)'
  BY <1>4 DEF Calm
<1>8. \A c \in Browsers : session'[c].user # NoUser /\ account'[session'[c].user].status = "erased"
                             => session'[c].issued < account'[session'[c].user].killedAt
  BY <1>1, <1>3 DEF Calm
<1>9. \A c \in Browsers : request'[c].op = "login" => account'[request'[c].target].status = "live"
  BY <1>1, <1>5 DEF Calm
<1>10. \A c \in Browsers : request'[c].op \in {"suspend", "erase"}
                               => \E a \in Admins \ {request'[c].target} : Usable(a)'
  BY <1>4, <1>5 DEF Calm
<1>11. QED BY <1>6, <1>7, <1>8, <1>9, <1>10 DEF Calm

LEMMA CalmStep == SessionsInv /\ SessionsInv' /\ Calm /\ [SessionsNext]_sessionsVars => Calm'
<1> SUFFICES ASSUME SessionsInv, SessionsInv', Calm, [SessionsNext]_sessionsVars PROVE Calm'
  OBVIOUS
<1>0. SessionsTypeOK
  BY DEF SessionsInv
<1>1. ASSUME NEW b \in Browsers, NEW u \in Users,
             Register(b, u) \/ ValidateEmail(b, u) \/ OpenExpiredLink(b, u)
      PROVE  Calm'
  <2>1. /\ LogsIn(b, u, Never) /\ UNCHANGED <<request, overlapped>>
        /\ account'[u].status = "live"
        /\ \A v \in Users : /\ account'[v].killedAt = account[v].killedAt
                            /\ account'[v].suspended = account[v].suspended
                            /\ account'[v].status = account[v].status
                                 \/ account[v].status = "absent"
    BY <1>0, <1>1 DEF Register, ValidateEmail, OpenExpiredLink, SessionsTypeOK, Account
  <2>2. QED BY <2>1, LoginCalm
<1>2. ASSUME NEW b \in Browsers, LoginCommit(b) PROVE Calm'
  <2>1. CASE overlapped
    BY <1>2, <2>1 DEF LoginCommit, Calm
  <2>2. CASE ~overlapped
    <3>1. request[b].target \in Users /\ account[request[b].target].status = "live"
      BY <1>0, <1>2, <2>2, CarriedShape, IdleOp DEF LoginCommit, Calm
    <3>2. /\ LogsIn(b, request[b].target, request[b].at) /\ UNCHANGED <<account, overlapped>>
          /\ \A c \in Browsers : request'[c] = request[c] \/ request'[c] = Idle
      BY <1>0, <1>2 DEF LoginCommit, Ends, SessionsTypeOK
    <3>3. QED BY <3>1, <3>2, LoginCalm
  <2>3. QED BY <2>1, <2>2
<1>3. ASSUME NEW b \in Browsers, NEW u \in Users, LoginRead(b, u) PROVE Calm'
  BY <1>3, BeginCalm DEF LoginRead
<1>4. CASE UNCHANGED sessionsVars
  BY <1>4 DEF sessionsVars, Calm, Usable
<1>5. QED BY <1>1, <1>2, <1>3, <1>4, AdminReadCalm, CommitCalm, LeavingCalm DEF SessionsNext

\* AnAdminRemains is an invariant: as long as no two requests overlapped, an
\* admin who can use the portal is left, whoever suspends and erases whom
\* (guards.py: reject_self_action, with load_user refusing the sessions of
\* erased accounts).
THEOREM AdminsRemain == ASSUME Admins # {} PROVE SessionsSpec => []AnAdminRemains
<1>1. SessionsInit => Calm
  BY InitCalm
<1>2. Calm => AnAdminRemains
  BY DEF Calm, Usable, AnAdminRemains
<1>3. QED BY SessionsInvariance, <1>1, <1>2, CalmStep, PTL DEF SessionsSpec

-----------------------------------------------------------------------------
(* The request for a backup                                                *)

\* Until a lock is outlived, one process holds it at most, and it is there.
LockHeld == ~overran =>
    /\ \A p, q \in Pollers : Holding(p) /\ Holding(q) => p = q
    /\ (\E p \in Pollers : Holding(p)) => lock > 0

\* A flag that a poll of this minute has seen to has all its time ahead.
FreshAfterPoll == polled /\ ~unread => flag \in {0, FLAG_TTL}

\* A lock that no living poller will release is no younger than the mishap.
Keepers == {p \in Pollers : poller[p] \in {"running", "finished"}}
LockKept == lock # 0 => lock =< mishap \/ Keepers # {}

TriggerInv == TriggerTypeOK /\ LockHeld /\ LockKept /\ FreshAfterPoll /\ AgesOnlyUnread

PollerStates == {"idle", "consumed", "running", "finished", "abandoned"}

LEMMA InitTrigger == TriggerInit => TriggerInv
<1> USE TTLAssumption
<1> SUFFICES ASSUME TriggerInit PROVE TriggerInv
  OBVIOUS
<1>1. flag \in 0 .. FLAG_TTL /\ lock \in 0 .. LOCK_TTL /\ mishap \in 0 .. LOCK_TTL
  BY DEF TriggerInit
<1>2. polled \in BOOLEAN /\ down \in BOOLEAN /\ overran \in BOOLEAN /\ unread \in BOOLEAN /\ fate \in Fates
  BY Zenon DEF TriggerInit, Fates
<1>3. poller \in [Pollers -> {"idle", "consumed", "running", "finished", "abandoned"}]
  BY DEF TriggerInit
<1>4. \A p \in Pollers : ~Holding(p)
  BY DEF TriggerInit, Holding, Running
<1>5. FreshAfterPoll /\ AgesOnlyUnread
  BY Zenon DEF TriggerInit, FreshAfterPoll, AgesOnlyUnread
<1>6. LockKept
  BY DEF TriggerInit, LockKept
<1>7. QED BY <1>1, <1>2, <1>3, <1>4, <1>5, <1>6 DEF TriggerInv, TriggerTypeOK, LockHeld

LEMMA MinuteKeeps == ASSUME FLAG_TTL > 1, TriggerInv, Minute PROVE TriggerInv'
<1> USE TTLAssumption
<1>0. /\ flag \in 0 .. FLAG_TTL /\ lock \in 0 .. LOCK_TTL /\ mishap \in 0 .. LOCK_TTL
      /\ flag' = Less(flag) /\ lock' = Less(lock) /\ mishap' = Less(mishap) /\ poller' = poller
  BY Zenon DEF TriggerInv, TriggerTypeOK, Minute
<1>1. flag' \in 0 .. FLAG_TTL /\ lock' \in 0 .. LOCK_TTL /\ mishap' \in 0 .. LOCK_TTL
  BY <1>0 DEF Less
<1>2. polled' \in BOOLEAN /\ down' \in BOOLEAN /\ overran' \in BOOLEAN /\ unread' \in BOOLEAN
  BY Zenon DEF TriggerInv, TriggerTypeOK, Minute
<1>3. fate' \in {fate, "aged while down", "aged unread", "aged while up"}
  BY DEF Minute
<1>4. fate' \in Fates
  BY <1>3 DEF TriggerInv, TriggerTypeOK, Fates
<1>5. LockHeld'
  <2> SUFFICES ASSUME ~overran' PROVE LockHeld'
    BY DEF LockHeld
  <2>1. ~overran /\ ~(lock = 1 /\ \E p \in Pollers : Holding(p))
    BY Zenon DEF Minute
  <2>2. \A p \in Pollers : Holding(p)' <=> Holding(p)
    BY <1>0 DEF Holding, Running
  <2>3. lock > 1 => lock' > 0
    BY <1>0 DEF Less
  <2>4. (\E p \in Pollers : Holding(p)) => lock > 1
    BY <1>0, <2>1 DEF TriggerInv, LockHeld
  <2>5. QED BY <2>1, <2>2, <2>3, <2>4 DEF TriggerInv, LockHeld
<1>6. LockKept'
  <2>1. lock' # 0 => lock # 0 /\ (lock =< mishap => lock' =< mishap')
    BY <1>0 DEF Less
  <2>2. QED BY <1>0, <2>1 DEF TriggerInv, LockKept, Keepers
<1>7. FreshAfterPoll'
  BY Zenon DEF Minute, FreshAfterPoll
<1>8. AgesOnlyUnread'
  <2>1. CASE flag = 1 /\ ~down /\ ~unread
    <3>1. flag \in {0, FLAG_TTL}
      BY <2>1, Zenon DEF Minute, TriggerInv, FreshAfterPoll
    <3>2. QED BY <2>1, <3>1
  <2>2. CASE flag # 1 \/ down \/ unread
    BY <2>2 DEF Minute, TriggerInv, AgesOnlyUnread
  <2>3. QED BY <2>1, <2>2
<1>9. QED BY <1>0, <1>1, <1>2, <1>4, <1>5, <1>6, <1>7, <1>8 DEF TriggerInv, TriggerTypeOK

\* What the container's stop and start, and an admin's request, leave true.
LEMMA OutsideKeeps ==
  ASSUME TriggerInv, trigger_backup \/ ContainerStops \/ ContainerStarts PROVE TriggerInv'
<1> USE TTLAssumption
<1>1. flag' \in 0 .. FLAG_TTL /\ lock' = lock /\ mishap' \in 0 .. LOCK_TTL
  BY DEF TriggerInv, TriggerTypeOK, trigger_backup, ContainerStops, ContainerStarts
<1>2. polled' \in BOOLEAN /\ down' \in BOOLEAN /\ overran' = overran /\ unread' \in BOOLEAN
  BY Zenon DEF TriggerInv, TriggerTypeOK, trigger_backup, ContainerStops, ContainerStarts
<1>3. poller' \in [Pollers -> {"idle", "consumed", "running", "finished", "abandoned"}]
  BY DEF TriggerInv, TriggerTypeOK, trigger_backup, ContainerStops, ContainerStarts
<1>4. fate' \in {fate, "lost"}
  BY DEF trigger_backup, ContainerStops, ContainerStarts
<1>5. fate' \in Fates /\ AgesOnlyUnread'
  BY <1>4 DEF TriggerInv, TriggerTypeOK, AgesOnlyUnread, Fates
<1>6. LockHeld' /\ LockKept'
  <2>1. CASE ContainerStops
    <3>1. \A p \in Pollers : ~Holding(p)'
      BY <2>1 DEF Holding, Running, ContainerStops
    <3>2. CASE \E p \in Pollers : Holding(p)
      <4>1. lock' =< mishap'
        BY <1>1, <2>1, <3>2 DEF ContainerStops, TriggerInv, TriggerTypeOK
      <4>2. QED BY <3>1, <4>1 DEF LockHeld, LockKept
    <3>3. CASE ~ \E p \in Pollers : Holding(p)
      <4>1. Keepers = {}
        BY <3>3 DEF Keepers, Holding, Running
      <4>2. mishap' = mishap
        BY <2>1, <3>3 DEF ContainerStops
      <4>3. QED BY <1>1, <3>1, <4>1, <4>2 DEF TriggerInv, LockHeld, LockKept
    <3>4. QED BY <3>2, <3>3
  <2>2. CASE trigger_backup \/ ContainerStarts
    BY <2>2 DEF TriggerInv, LockHeld, LockKept, Keepers, Holding, Running, trigger_backup, ContainerStarts
  <2>3. QED BY <2>1, <2>2
<1>7. FreshAfterPoll'
  BY Zenon DEF TriggerInv, FreshAfterPoll, trigger_backup, ContainerStops, ContainerStarts
<1>8. QED BY <1>1, <1>2, <1>3, <1>5, <1>6, <1>7 DEF TriggerInv, TriggerTypeOK

\* A step of a poller: what it may do to the rest of the state.
Step(p) == \/ consume_trigger_request(p) \/ acquire_trigger_lock(p)
           \/ run_backup_pipeline(p) \/ release_trigger_lock(p)
           \/ PollFails(p) \/ AcquireFails(p) \/ PollerDies(p)

LEMMA StepIs ==
  ASSUME TriggerTypeOK, NEW p \in Pollers, Step(p)
  PROVE  /\ flag' \in {flag, 0} /\ lock' \in {lock, 0, LOCK_TTL} /\ mishap' \in {mishap, LOCK_TTL}
         /\ polled' \in {polled, TRUE} /\ unread' \in BOOLEAN /\ UNCHANGED <<down, overran>>
         /\ \E s \in PollerStates : poller' = [poller EXCEPT ![p] = s]
         /\ fate' \in {fate, "run", "in flight", "orphaned", "lost"}
<1>1. CASE consume_trigger_request(p)
  BY <1>1 DEF consume_trigger_request, Polls, Becomes, TriggerTypeOK, PollerStates
<1>2. CASE acquire_trigger_lock(p)
  <2>1. \E s \in PollerStates : poller' = [poller EXCEPT ![p] = s]
    BY <1>2, Zenon DEF acquire_trigger_lock, Becomes, PollerStates
  <2>2. QED BY <1>2, <2>1 DEF acquire_trigger_lock, TriggerTypeOK
<1>3. CASE run_backup_pipeline(p)
  BY <1>3 DEF run_backup_pipeline, Becomes, TriggerTypeOK, PollerStates
<1>4. CASE release_trigger_lock(p)
  <2>1. \E s \in PollerStates : poller' = [poller EXCEPT ![p] = s]
    BY <1>4, Zenon DEF release_trigger_lock, Becomes, PollerStates
  <2>2. QED BY <1>4, <2>1 DEF release_trigger_lock, TriggerTypeOK
<1>5. CASE PollFails(p)
  <2>1. poller' = [poller EXCEPT ![p] = poller[p]] /\ poller[p] \in PollerStates
    BY <1>5 DEF PollFails, TriggerTypeOK, PollerStates
  <2>2. unread' \in BOOLEAN /\ fate' \in {fate, "lost"} /\ polled' = TRUE
    BY <1>5, Zenon DEF PollFails, Polls, TriggerTypeOK
  <2>3. QED BY <1>5, <2>1, <2>2 DEF PollFails
<1>6. CASE AcquireFails(p)
  <2>1. \E s \in PollerStates : poller' = [poller EXCEPT ![p] = s]
    BY <1>6, Zenon DEF AcquireFails, Becomes, PollerStates
  <2>2. QED BY <1>6, <2>1 DEF AcquireFails, TriggerTypeOK
<1>7. CASE PollerDies(p)
  <2>1. \E s \in PollerStates : poller' = [poller EXCEPT ![p] = s]
    BY <1>7, Zenon DEF PollerDies, Becomes, PollerStates
  <2>2. QED BY <1>7, <2>1 DEF PollerDies, TriggerTypeOK
<1>8. QED BY <1>1, <1>2, <1>3, <1>4, <1>5, <1>6, <1>7 DEF Step

\* ... and to the state of the pollers, its own and the others'.
LEMMA StepPoller ==
  ASSUME TriggerTypeOK, NEW p \in Pollers, Step(p)
  PROVE  /\ poller' \in [Pollers -> PollerStates]
         /\ \A q \in Pollers \ {p} : poller'[q] = poller[q]
         /\ consume_trigger_request(p) => poller[p] = "idle" /\ poller'[p] \in {"idle", "consumed"}
         /\ PollFails(p) => poller'[p] = poller[p]
         /\ acquire_trigger_lock(p) => poller'[p] = IF lock = 0 THEN "running" ELSE "idle"
         /\ run_backup_pipeline(p) =>
               poller'[p] = IF poller[p] = "running" THEN "finished" ELSE "idle"
         /\ release_trigger_lock(p) \/ AcquireFails(p) => poller'[p] = "idle"
         /\ PollerDies(p) => \/ poller'[p] = "idle"
                             \/ poller[p] = "running" /\ poller'[p] = "abandoned"
<1>0. poller \in [Pollers -> PollerStates]
  BY DEF TriggerTypeOK, PollerStates
<1>1. PICK s \in PollerStates : poller' = [poller EXCEPT ![p] = s]
  BY StepIs
<1>2. poller' \in [Pollers -> PollerStates] /\ \A q \in Pollers \ {p} : poller'[q] = poller[q]
  BY <1>0, <1>1
<1>3. \A t : Becomes(p, t) => poller'[p] = t
  BY <1>0 DEF Becomes
<1>4. consume_trigger_request(p) => poller[p] = "idle" /\ poller'[p] \in {"idle", "consumed"}
  BY <1>3 DEF consume_trigger_request, Polls
<1>5. PollFails(p) => poller'[p] = poller[p]
  BY DEF PollFails
<1>6. acquire_trigger_lock(p) => poller'[p] = IF lock = 0 THEN "running" ELSE "idle"
  BY <1>3, Zenon DEF acquire_trigger_lock
<1>7. run_backup_pipeline(p) => poller'[p] = IF poller[p] = "running" THEN "finished" ELSE "idle"
  BY <1>3, Zenon DEF run_backup_pipeline
<1>8. release_trigger_lock(p) \/ AcquireFails(p) => poller'[p] = "idle"
  BY <1>3, Zenon DEF release_trigger_lock, AcquireFails
<1>9. PollerDies(p) => \/ poller'[p] = "idle"
                       \/ poller[p] = "running" /\ poller'[p] = "abandoned"
  BY <1>3, Zenon DEF PollerDies
<1>10. QED BY <1>2, <1>4, <1>5, <1>6, <1>7, <1>8, <1>9

\* Who holds the lock after a step of a poller.
LEMMA StepHeld == ASSUME TriggerInv, NEW p \in Pollers, Step(p) PROVE LockHeld'
<1> USE TTLAssumption
<1> SUFFICES ASSUME ~overran' PROVE LockHeld'
  BY DEF LockHeld
<1>0. TriggerTypeOK /\ ~overran /\ lock \in 0 .. LOCK_TTL
  BY StepIs DEF TriggerInv, TriggerTypeOK
<1>1. \A q \in Pollers \ {p} : Holding(q)' <=> Holding(q)
  BY <1>0, StepPoller DEF Holding, Running
<1>2. CASE acquire_trigger_lock(p) /\ lock = 0
  <2>1. \A q \in Pollers \ {p} : ~Holding(q)
    BY <1>0, <1>2 DEF TriggerInv, LockHeld
  <2>2. lock' > 0
    BY <1>2 DEF acquire_trigger_lock
  <2>3. QED BY <1>1, <2>1, <2>2 DEF LockHeld
<1>3. CASE ~(acquire_trigger_lock(p) /\ lock = 0)
  <2>1. Holding(p)' => Holding(p)
    BY <1>0, <1>3, StepPoller DEF Step, Holding, Running, run_backup_pipeline
  <2>2. CASE release_trigger_lock(p)
    <3>1. Holding(p) /\ ~Holding(p)'
      BY <1>0, <2>2, StepPoller DEF release_trigger_lock, Holding, Running
    <3>2. QED BY <1>0, <1>1, <3>1 DEF TriggerInv, LockHeld
  <2>3. CASE ~release_trigger_lock(p)
    <3>1. lock' = lock \/ (AcquireFails(p) /\ lock' > 0)
      <4>1. CASE AcquireFails(p)
        BY <4>1 DEF AcquireFails
      <4>2. CASE acquire_trigger_lock(p)
        BY <1>3, <4>2, Zenon DEF acquire_trigger_lock
      <4>3. CASE consume_trigger_request(p) \/ run_backup_pipeline(p) \/ PollFails(p) \/ PollerDies(p)
        BY <4>3, Zenon DEF consume_trigger_request, run_backup_pipeline, PollFails, PollerDies
      <4>4. QED BY <2>3, <4>1, <4>2, <4>3 DEF Step
    <3>2. QED BY <1>0, <1>1, <2>1, <3>1 DEF TriggerInv, LockHeld
  <2>4. QED BY <2>2, <2>3
<1>4. QED BY <1>2, <1>3

\* What is left of a lock after a step of a poller.
LEMMA StepKept == ASSUME TriggerInv, NEW p \in Pollers, Step(p) PROVE LockKept'
<1> USE TTLAssumption
<1>0. /\ TriggerTypeOK /\ lock \in 0 .. LOCK_TTL /\ lock' \in {lock, 0, LOCK_TTL}
      /\ mishap' \in {mishap, LOCK_TTL}
  BY StepIs DEF TriggerInv, TriggerTypeOK
<1>1. Keepers \ {p} \subseteq Keepers'
  BY <1>0, StepPoller DEF Keepers
<1>2. CASE mishap' = LOCK_TTL
  BY <1>0, <1>2 DEF LockKept
<1>3. CASE acquire_trigger_lock(p) /\ lock = 0
  <2>1. p \in Keepers'
    BY <1>0, <1>3, StepPoller DEF Keepers
  <2>2. QED BY <2>1 DEF LockKept
<1>4. CASE mishap' # LOCK_TTL /\ ~(acquire_trigger_lock(p) /\ lock = 0)
  <2>1. mishap' = mishap /\ lock' \in {lock, 0}
    BY <1>0, <1>4 DEF Step, consume_trigger_request, acquire_trigger_lock, run_backup_pipeline,
       release_trigger_lock, PollFails, AcquireFails, PollerDies
  <2>2. CASE lock' = 0
    BY <2>2 DEF LockKept
  <2>3. CASE lock' # 0
    <3>1. p \in Keepers => p \in Keepers'
      <4> SUFFICES ASSUME p \in Keepers PROVE p \in Keepers'
        OBVIOUS
      <4>1. poller[p] \in {"running", "finished"}
        BY DEF Keepers
      <4>2. ~PollerDies(p)
        BY <1>4, <4>1 DEF PollerDies
      <4>3. ~release_trigger_lock(p)
        BY <1>4, <2>3 DEF release_trigger_lock
      <4>4. ~consume_trigger_request(p) /\ ~acquire_trigger_lock(p) /\ ~AcquireFails(p)
        BY <4>1 DEF consume_trigger_request, Polls, acquire_trigger_lock, AcquireFails
      <4>5. CASE PollFails(p)
        BY <1>0, <4>1, <4>5, StepPoller DEF Keepers
      <4>6. CASE run_backup_pipeline(p)
        BY <1>0, <4>1, <4>6, StepPoller DEF Keepers, run_backup_pipeline, Running
      <4>7. QED BY <4>2, <4>3, <4>4, <4>5, <4>6 DEF Step
    <3>2. Keepers # {} => Keepers' # {}
      BY <1>1, <3>1
    <3>3. QED BY <2>1, <2>3, <3>2 DEF TriggerInv, LockKept
  <2>4. QED BY <2>2, <2>3
<1>5. QED BY <1>2, <1>3, <1>4

LEMMA PollerKeeps == ASSUME TriggerInv, NEW p \in Pollers, Step(p) PROVE TriggerInv'
<1> USE TTLAssumption
<1>0. TriggerTypeOK
  BY DEF TriggerInv
<1>1. flag' \in 0 .. FLAG_TTL /\ lock' \in 0 .. LOCK_TTL /\ mishap' \in 0 .. LOCK_TTL
  <2>1. /\ flag \in 0 .. FLAG_TTL /\ lock \in 0 .. LOCK_TTL /\ mishap \in 0 .. LOCK_TTL
        /\ flag' \in {flag, 0} /\ lock' \in {lock, 0, LOCK_TTL} /\ mishap' \in {mishap, LOCK_TTL}
    BY <1>0, StepIs DEF TriggerTypeOK
  <2>2. QED BY <2>1
<1>2. polled' \in BOOLEAN /\ down' \in BOOLEAN /\ overran' \in BOOLEAN /\ unread' \in BOOLEAN
  <2>1. polled' \in {polled, TRUE} /\ unread' \in BOOLEAN /\ UNCHANGED <<down, overran>>
    BY <1>0, StepIs
  <2>2. QED BY <1>0, <2>1, Zenon DEF TriggerTypeOK
<1>3. fate' \in Fates /\ AgesOnlyUnread'
  <2>1. fate' \in {fate, "run", "in flight", "orphaned", "lost"}
    BY <1>0, StepIs
  <2>2. QED BY <2>1 DEF TriggerInv, TriggerTypeOK, AgesOnlyUnread, Fates
<1>4. FreshAfterPoll'
  <2>1. CASE consume_trigger_request(p)
    BY <2>1 DEF consume_trigger_request, FreshAfterPoll
  <2>2. CASE PollFails(p)
    <3>1. flag' \in {flag, 0} /\ unread' = (unread \/ flag # 0)
      BY <2>2, Zenon DEF PollFails
    <3>2. QED BY <3>1 DEF FreshAfterPoll
  <2>3. CASE ~consume_trigger_request(p) /\ ~PollFails(p)
    <3>1. UNCHANGED <<flag, polled, unread>>
      BY <2>3, Zenon DEF Step, acquire_trigger_lock, run_backup_pipeline, release_trigger_lock,
         AcquireFails, PollerDies
    <3>2. QED BY <3>1 DEF TriggerInv, FreshAfterPoll
  <2>4. QED BY <2>1, <2>2, <2>3
<1>5. poller' \in [Pollers -> {"idle", "consumed", "running", "finished", "abandoned"}]
  BY <1>0, StepPoller DEF PollerStates
<1>6. QED BY <1>1, <1>2, <1>3, <1>4, <1>5, StepHeld, StepKept DEF TriggerInv, TriggerTypeOK

\* RequestsAreServed is an invariant: two runs on request are in the pipeline
\* together only after a lock was outlived; a request ages out only while the
\* workflow container is stopped or after a poll failed on it; and a lock that
\* no run holds is gone a lock's life after its holder met with a mishap, or
\* its setting did (run_backup_if_requested.py).
THEOREM RequestsServed == ASSUME FLAG_TTL > 1 PROVE TriggerSpec => []RequestsAreServed
<1>1. TriggerInv /\ [TriggerNext]_triggerVars => TriggerInv'
  <2>1. CASE UNCHANGED triggerVars
    BY <2>1 DEF triggerVars, TriggerInv, TriggerTypeOK, LockHeld, LockKept, Keepers, Holding, Running,
       FreshAfterPoll, AgesOnlyUnread
  <2>2. QED BY <2>1, MinuteKeeps, OutsideKeeps, PollerKeeps DEF TriggerNext, Step
<1>2. TriggerInv => RequestsAreServed
  <2>1. TriggerInv => ManualRunsExclude /\ AgesOnlyUnread
    BY DEF TriggerInv, LockHeld, Holding, ManualRunsExclude
  <2>2. TriggerInv => OrphanExpires
    BY DEF TriggerInv, LockKept, Keepers, Holding, Running, OrphanExpires
  <2>3. QED BY <2>1, <2>2 DEF RequestsAreServed
<1>3. QED BY InitTrigger, <1>1, <1>2, PTL DEF TriggerSpec

-----------------------------------------------------------------------------
(* The jobs and the audit log                                              *)

\* Until runs of the job overlap one of them is under way at most.
OneAtATime == \A c, d \in Crons : cron[c] # "idle" /\ cron[d] # "idle" => c = d

\* What the flag and the last message say of each other where a run stands.
FlagIsTold ==
    /\ ~doubled
    /\ (\A c \in Crons : cron[c] \notin {"FAILURE", "RECOVERED"}) => (notified <=> told = "FAILURE")
    /\ \A c \in Crons : /\ cron[c] = "FAILURE" => notified /\ told # "FAILURE"
                        /\ cron[c] = "RECOVERED" => ~notified /\ told = "FAILURE"

\* What the flag says of the last work, where a run stands.
FlagIsTrue ==
    /\ (\A c \in Crons : cron[c] \in {"idle", "work"}) /\ worked # "unconnected"
          => (notified <=> worked = "failed")
    /\ \A c \in Crons : /\ cron[c] = "mark" => worked = "failed"
                        /\ cron[c] = "clear" => worked = "ok"
                        /\ cron[c] = "FAILURE" => worked = "failed" /\ notified
                        /\ cron[c] = "RECOVERED" => worked = "ok" /\ ~notified

\* Who clears the flag has seen the job succeed.
ClearedAfterSuccess == \A c \in Crons : cron[c] \in {"clear", "RECOVERED"} => worked = "ok"

AdminRequest == [pc : {"record", "work", "audit", "over"}, op : Ops, effect : BOOLEAN, row : BOOLEAN,
                 mishap : SUBSET Mishaps]

\* Where a request stands, what it has done and what of that is on record.
Recorded(q) ==
    /\ q.pc = "record" => q.op = "purge" /\ ~q.effect
    /\ q.pc = "work" => ~q.effect /\ (q.op = "purge" => q.row \/ "refused" \in q.mishap)
    /\ q.pc = "audit" /\ q.op = "purge" => ~q.effect
    /\ q.pc = "over" /\ q.effect /\ ~q.row =>
          IF q.op = "purge" THEN "refused" \in q.mishap ELSE q.mishap # {}

OpsInv ==
    /\ OpsTypeOK
    /\ "overlap" \notin muddled => OneAtATime
    /\ muddled \intersect {"overlap", "lost"} = {} => FlagIsTold
    /\ muddled = {} => FlagIsTrue
    /\ muddled \intersect {"overlap", "skip"} = {} => ~claim /\ ClearedAfterSuccess
    /\ \A w \in Webs : Recorded(web[w])

LEMMA InitOps == OpsInit => OpsInv
<1> SUFFICES ASSUME OpsInit PROVE OpsInv
  OBVIOUS
<1> USE DEF OpsInit, NoRequest
<1>1. OpsTypeOK
  BY DEF OpsTypeOK, Jobs, Ops
<1>2. OneAtATime /\ FlagIsTold /\ FlagIsTrue /\ ~claim /\ ClearedAfterSuccess
  BY DEF OneAtATime, FlagIsTold, FlagIsTrue, ClearedAfterSuccess
<1>3. \A w \in Webs : Recorded(web[w])
  BY DEF Recorded
<1>4. QED BY <1>1, <1>2, <1>3 DEF OpsInv

\* A step of a run of the job, or the end of the lock.
LEMMA JobKeeps == ASSUME OpsInv, JobsNext PROVE OpsInv'
<1> USE DEF OpsInv, OpsTypeOK, OneAtATime, FlagIsTold, FlagIsTrue, ClearedAfterSuccess, To, jobHistory
<1>1. CASE LockExpires
  BY <1>1 DEF LockExpires
<1>2. ASSUME NEW c \in Crons, StartJob(c) PROVE OpsInv'
  BY <1>2 DEF StartJob, Busy, Disturb
<1>3. ASSUME NEW c \in Crons, RunJob(c) PROVE OpsInv'
  BY <1>3 DEF RunJob
<1>4. ASSUME NEW c \in Crons, SkipFlush(c) PROVE OpsInv'
  BY <1>4 DEF SkipFlush, Disturb
<1>5. ASSUME NEW c \in Crons, mark_failure_and_should_notify(c) PROVE OpsInv'
  BY <1>5 DEF mark_failure_and_should_notify
<1>6. ASSUME NEW c \in Crons, clear_failure_and_should_notify_recovery(c) PROVE OpsInv'
  BY <1>6 DEF clear_failure_and_should_notify_recovery
<1>7. ASSUME NEW c \in Crons, send(c) PROVE OpsInv'
  <2> USE <1>7
  <2>1. OpsTypeOK' /\ (\A w \in Webs : Recorded(web[w]))'
    BY DEF send, Disturb
  <2>2. ("overlap" \notin muddled => OneAtATime)'
    BY DEF send, Disturb
  <2>3. (muddled \intersect {"overlap", "lost"} = {} => FlagIsTold)'
    BY DEF send, Disturb
  <2>4. (muddled = {} => FlagIsTrue)'
    BY DEF send, Disturb
  <2>5. (muddled \intersect {"overlap", "skip"} = {} => ~claim /\ ClearedAfterSuccess)'
    BY DEF send, Disturb
  <2>6. QED BY <2>1, <2>2, <2>3, <2>4, <2>5
<1>8. ASSUME NEW c \in Crons, JobDies(c) PROVE OpsInv'
  BY <1>8 DEF JobDies, Disturb
<1>9. ASSUME NEW c \in Crons, _build_pg_conn_from_env(c) PROVE OpsInv'
  BY <1>9 DEF _build_pg_conn_from_env
<1>10. QED BY <1>1, <1>2, <1>3, <1>4, <1>5, <1>6, <1>7, <1>8, <1>9 DEF JobsNext

\* A step that changes one request, and perhaps the lock.
LEMMA RequestShape ==
  ASSUME OpsInv, NEW w \in Webs, NEW r \in AdminRequest, Recorded(r),
         web' = [web EXCEPT ![w] = r], held' \in BOOLEAN,
         UNCHANGED <<job, notified, cron, jobHistory>>
  PROVE  OpsInv'
<1> USE DEF OpsInv, jobHistory
<1>1. OpsTypeOK'
  BY DEF OpsTypeOK, AdminRequest
<1>2. \A v \in Webs : Recorded(web'[v])
  BY DEF OpsTypeOK
<1>3. QED BY <1>1, <1>2 DEF OneAtATime, FlagIsTold, FlagIsTrue, ClearedAfterSuccess

\* The audit row, written or refused.
LEMMA RecordIs ==
  ASSUME NEW w \in Webs, NEW pc \in {"work", "over"}, web \in [Webs -> AdminRequest],
         Record(w, pc)
  PROVE  \E r \in AdminRequest :
            /\ web' = [web EXCEPT ![w] = r]
            /\ r.pc = pc /\ r.op = web[w].op /\ r.effect = web[w].effect
            /\ r.row \/ "refused" \in r.mishap
<1> DEFINE q == web[w]
<1>0. q \in AdminRequest
  OBVIOUS
<1>1. CASE web' = [web EXCEPT ![w].pc = pc, ![w].row = TRUE]
  <2> DEFINE r == [[q EXCEPT !.pc = pc] EXCEPT !.row = TRUE]
  <2>1. r \in AdminRequest /\ r.pc = pc /\ r.op = q.op /\ r.effect = q.effect /\ r.row
    BY <1>0 DEF AdminRequest
  <2>2. web' = [web EXCEPT ![w] = r]
    BY <1>1
  <2>3. QED BY <2>1, <2>2
<1>2. CASE web' = [web EXCEPT ![w].pc = pc, ![w].mishap = @ \union {"refused"}]
  <2> DEFINE r == [[q EXCEPT !.pc = pc] EXCEPT !.mishap = @ \union {"refused"}]
  <2>1. r \in AdminRequest /\ r.pc = pc /\ r.op = q.op /\ r.effect = q.effect /\ "refused" \in r.mishap
    BY <1>0 DEF AdminRequest, Mishaps
  <2>2. web' = [web EXCEPT ![w] = r]
    BY <1>2
  <2>3. QED BY <2>1, <2>2
<1>3. QED BY <1>1, <1>2 DEF Record

\* The work: what it changes of its request.
LEMMA DoneIs ==
  ASSUME NEW w \in Webs, NEW op, NEW pc \in {"audit", "over"}, NEW effect \in BOOLEAN,
         web \in [Webs -> AdminRequest], Done(w, op, pc, effect)
  PROVE  \E r \in AdminRequest :
            /\ web' = [web EXCEPT ![w] = r]
            /\ r.pc = pc /\ r.op = web[w].op /\ r.effect = effect
            /\ r.row = web[w].row /\ r.mishap = web[w].mishap
<1> DEFINE q == web[w]
           r == [[q EXCEPT !.pc = pc] EXCEPT !.effect = effect]
<1>1. q \in AdminRequest
  OBVIOUS
<1>2. r \in AdminRequest /\ r.pc = pc /\ r.op = q.op /\ r.effect = effect /\ r.row = q.row /\ r.mishap = q.mishap
  BY <1>1 DEF AdminRequest
<1>3. web' = [web EXCEPT ![w] = r]
  BY DEF Done
<1>4. QED BY <1>2, <1>3

\* A request is put, recorded or given up.
LEMMA RequestKeeps ==
  ASSUME OpsInv, NEW w \in Webs, NEW op \in Ops,
         Ask(w, op) \/ RecordPurge(w) \/ RecordAfter(w) \/ RequestDies(w)
  PROVE  OpsInv'
<1> DEFINE q == web[w]
<1>0. q \in AdminRequest /\ Recorded(q) /\ held \in BOOLEAN /\ web \in [Webs -> AdminRequest]
  BY DEF OpsInv, OpsTypeOK, AdminRequest
<1>1. \E r \in AdminRequest : Recorded(r) /\ web' = [web EXCEPT ![w] = r]
  <2>1. CASE Ask(w, op)
    <3> DEFINE r == [[NoRequest EXCEPT !.op = op] EXCEPT !.pc = IF op = "purge" THEN "record" ELSE "work"]
    <3>1. r \in AdminRequest /\ Recorded(r)
      BY DEF NoRequest, Recorded, Ops, AdminRequest
    <3>2. web' = [web EXCEPT ![w] = r]
      BY <2>1 DEF Ask
    <3>3. QED BY <3>1, <3>2
  <2>2. CASE RecordPurge(w)
    BY <1>0, <2>2, RecordIs DEF RecordPurge, Recorded
  <2>3. CASE RecordAfter(w)
    BY <1>0, <2>3, RecordIs DEF RecordAfter, Recorded
  <2>4. CASE RequestDies(w)
    <3> DEFINE r == [[q EXCEPT !.pc = "over"] EXCEPT !.mishap = @ \union {"died"}]
    <3>1. r \in AdminRequest /\ Recorded(r)
      BY <1>0, <2>4 DEF Recorded, AdminRequest, RequestDies, Mishaps
    <3>2. web' = [web EXCEPT ![w] = r]
      BY <2>4 DEF RequestDies
    <3>3. QED BY <3>1, <3>2
  <2>5. QED BY <2>1, <2>2, <2>3, <2>4
<1>2. held' = held /\ UNCHANGED <<job, notified, cron, jobHistory>>
  BY DEF Ask, RecordPurge, RecordAfter, RequestDies
<1>3. QED BY <1>0, <1>1, <1>2, RequestShape

\* The flag of a backup is set, and the answer is lost.
LEMMA UnansweredKeeps ==
  ASSUME OpsInv, NEW w \in Webs, web[w].pc = "work", web[w].op = "backup",
         web' = [web EXCEPT ![w].pc = "over", ![w].effect = TRUE,
                            ![w].mishap = @ \union {"unanswered"}],
         UNCHANGED <<held, job, notified, cron, jobHistory>>
  PROVE  OpsInv'
<1> DEFINE q == web[w]
           r == [[[q EXCEPT !.pc = "over"] EXCEPT !.effect = TRUE]
                    EXCEPT !.mishap = @ \union {"unanswered"}]
<1>0. q \in AdminRequest /\ web \in [Webs -> AdminRequest] /\ held' \in BOOLEAN
  BY DEF OpsInv, OpsTypeOK, AdminRequest
<1>1. r \in AdminRequest /\ Recorded(r)
  BY <1>0 DEF AdminRequest, Recorded, Mishaps
<1>2. web' = [web EXCEPT ![w] = r]
  BY <1>0
<1>3. QED BY <1>0, <1>1, <1>2, RequestShape

\* The work of a request.
LEMMA WorkKeeps ==
  ASSUME OpsInv, NEW w \in Webs,
         \/ trigger_metrics_flush(w) \/ trigger_gauge_sample(w) \/ trigger_audit_purge(w)
         \/ trigger_verify_tables(w) \/ request_backup(w) \/ trigger_short_urls_sync(w)
  PROVE  OpsInv'
<1> DEFINE Works(op, pc, effect) ==
              /\ Done(w, op, pc, effect)
              /\ op = "purge" => (pc = "audit" => ~effect)
              /\ op # "purge" => (pc = "over" => ~effect)
           Worked == /\ \E op \in Ops, pc \in {"audit", "over"}, effect \in BOOLEAN : Works(op, pc, effect)
                     /\ held' \in BOOLEAN
           Unanswered == /\ web[w].pc = "work" /\ web[w].op = "backup"
                         /\ web' = [web EXCEPT ![w].pc = "over", ![w].effect = TRUE,
                                               ![w].mishap = @ \union {"unanswered"}]
                         /\ UNCHANGED <<held, job, notified, cron, jobHistory>>
<1>0. web[w] \in AdminRequest /\ Recorded(web[w]) /\ held \in BOOLEAN /\ web \in [Webs -> AdminRequest]
  BY DEF OpsInv, OpsTypeOK, AdminRequest
<1>1. Worked \/ Unanswered
  <2>1. CASE request_backup(w)
    BY <1>0, <2>1 DEF request_backup, Ops
  <2>2. CASE ~request_backup(w)
    BY <1>0, <2>2 DEF trigger_metrics_flush, trigger_gauge_sample, trigger_audit_purge,
       trigger_verify_tables, trigger_short_urls_sync, Ops
  <2>3. QED BY <2>1, <2>2
<1>2. CASE Worked
  <2>1. PICK op \in Ops, pc \in {"audit", "over"}, effect \in BOOLEAN : Works(op, pc, effect)
    BY <1>2
  <2>2. \E r \in AdminRequest : Recorded(r) /\ web' = [web EXCEPT ![w] = r]
    <3>1. web[w].pc = "work" /\ web[w].op = op
      BY <2>1 DEF Done
    <3>2. PICK r \in AdminRequest :
              /\ web' = [web EXCEPT ![w] = r]
              /\ r.pc = pc /\ r.op = web[w].op /\ r.effect = effect
              /\ r.row = web[w].row /\ r.mishap = web[w].mishap
      BY <1>0, <2>1, DoneIs
    <3>3. Recorded(r)
      BY <1>0, <2>1, <3>1, <3>2 DEF Recorded
    <3>4. QED BY <3>2, <3>3
  <2>3. UNCHANGED <<job, notified, cron, jobHistory>>
    BY <2>1 DEF Done
  <2>4. QED BY <1>0, <1>2, <2>2, <2>3, RequestShape
<1>3. CASE Unanswered
  BY <1>3, UnansweredKeeps
<1>4. QED BY <1>1, <1>2, <1>3

LEMMA OpsInvariance == AdminSpec => []OpsInv
<1>1. OpsInv /\ [JobsNext \/ RequestsNext(Ops)]_opsVars => OpsInv'
  <2>1. CASE UNCHANGED opsVars
    BY <2>1 DEF OpsInv, opsVars, OpsTypeOK, OneAtATime, FlagIsTold, FlagIsTrue, ClearedAfterSuccess
  <2>2. QED BY <2>1, JobKeeps, RequestKeeps, WorkKeeps DEF RequestsNext, Ops
<1>2. QED BY <1>1, InitOps, PTL DEF AdminSpec

\* AlertsAreTrue is an invariant: between cron's runs the last message says how
\* the last one ended, unless it could not connect to PostgreSQL, and no message
\* comes twice in a row, but for overlaps, losses and skipped runs
\* (mark_failure_and_should_notify and clear_failure_and_should_notify_recovery
\* in notify.py; the connection in flush_metrics.py and sample_gauges.py).
THEOREM AlertsTrue == AdminSpec => []AlertsAreTrue
<1>1. OpsInv => AlertsAreTrue
  BY DEF OpsInv, OneAtATime, FlagIsTold, FlagIsTrue, AlertsAreTrue, AlertsTell, AlertsAlternate, Busy
<1>2. QED BY <1>1, OpsInvariance, PTL

\* RecoveredIsTrue is an invariant: RECOVERED goes out in the middle of an
\* outage only after an overlap or a run that found the lock of the flush held
\* (run_flush_job in flush_metrics.py).
THEOREM RecoveriesTrue == AdminSpec => []RecoveredIsTrue
<1>1. OpsInv => RecoveredIsTrue
  BY DEF OpsInv, RecoveredIsTrue
<1>2. QED BY <1>1, OpsInvariance, PTL

\* OnRecord is an invariant: what an admin's request has set off is in the
\* audit log, unless the worker died, the log refused the row or Redis's answer
\* was lost; a purge is there unless the log refused it (ops_service.py).
THEOREM EffectsOnRecord == AdminSpec => []OnRecord
<1>1. OpsInv => OnRecord
  BY DEF OpsInv, OnRecord, Recorded
<1>2. QED BY <1>1, OpsInvariance, PTL

-----------------------------------------------------------------------------
(* Backup runs                                                             *)

\* Until another run takes it over, a name is the run's own.
Own(r) == ~SharedName(r)
NoShared == \A n \in Runs : Own(n)

\* A run has a name from its beginning on, and its legs come in their order.
Names == \A r \in Runs : /\ run[r].pc = "new" => run[r] = New
                         /\ run[r].pc # "new" => run[r].name \in Runs
                         /\ run[r].db => run[r].pc \in {"logs", "ship", "stamp"}
                         /\ run[r].logs => run[r].pc \in {"ship", "stamp"}

\* What lies on disk under a name that only one run has written to.
Files == \A r \in Runs : Own(r) =>
    /\ run[r].pc = "new" => sql[r] = "none" /\ gz[r] = "none"
    /\ run[r].name = r /\ run[r].pc = "dump" => sql[r] = "none" /\ gz[r] = "none"
    /\ run[r].name = r /\ run[r].pc = "gzip" => sql[r] = "whole" /\ gz[r] = "none"
    /\ run[r].name = r /\ (run[r].pc = "verify" \/ run[r].db) => gz[r] \in {"none", "whole"}

\* Runs that dump at one time have met, and a run meets fewer than KEEP.
Met == /\ \A p \in Runs : Cardinality(run[p].met) < KEEP
       /\ \A p, q \in Dumping : p # q => q \in run[p].met

\* A dump newer than one that is being verified is of a run it has met, so
\* that pruning cannot reach the one that is being verified.
NewerAreMet == NoShared => \A r \in Runs : run[r].pc = "verify" => newer[r] \subseteq run[r].met

\* Once a dump has passed its verification a good one is on disk.
HasDump == NoShared /\ (sentinel \/ \E r \in Runs : run[r].db) => \E n \in Runs : gz[n] = "whole"

\* Until a second run comes to a day's log it is live or well archived.
Logs == \A d \in Days : /\ archived[d] = 0 => logs[d] = "live"
                        /\ archived[d] = 1 => logs[d] = "live" \/ archive[d] = "whole"

\* Each run that is past a day's log has been counted.
Past(r) == run[r].pc \in {"ship", "stamp"}
Turns == /\ \A r \in Runs : Past(r) => archived[run[r].day] # 0
         /\ \A p, q \in Runs : Past(p) /\ Past(q) /\ p # q /\ run[p].day = run[q].day
                => archived[run[p].day] = 2

\* What a run believes to have archived and copied is there.
Copies == \A r \in Runs :
    /\ Past(r) /\ run[r].logs => archive[run[r].day] = "whole" \/ archived[run[r].day] = 2
    /\ run[r].pc = "stamp" /\ run[r].rlogs = "ok" => remote.log[run[r].day] = "whole" \/ archived[run[r].day] = 2
    /\ run[r].pc = "stamp" /\ run[r].rdb = "ok" => remote.dump[run[r].name] = "whole" \/ SharedName(run[r].name)

BackupInv == BackupTypeOK /\ Names /\ Files /\ Met /\ NewerAreMet /\ HasDump /\ Logs /\ Turns /\ Copies

RunRec == [pc : {"new", "dump", "gzip", "verify", "logs", "ship",
                 "stamp", "over"},
           met : SUBSET Runs, name : Runs \union {NoRun}, day : Days,
           db : BOOLEAN, logs : BOOLEAN,
           rdb : {"skip", "ok", "fail"}, rlogs : {"skip", "ok", "fail"}]

\* When one run changes the others stay as they are.
LEMMA OneRun ==
    ASSUME BackupTypeOK, NEW r \in Runs, NEW x \in RunRec, run' = [run EXCEPT ![r] = x]
    PROVE  run' \in [Runs -> RunRec] /\ run'[r] = x /\ \A q \in Runs \ {r} : run'[q] = run[q]
BY DEF BackupTypeOK, RunRec

LEMMA BackupTypeInit == BackupInit => BackupTypeOK
<1>1. 1 \in Days  BY DaysAssumption DEF Days
<1>2. ASSUME BackupInit PROVE BackupTypeOK
  <2>1. run \in [Runs -> RunRec]  BY <1>1, <1>2 DEF BackupInit, New, RunRec
  <2>2. Dumps = {}  BY <1>2 DEF BackupInit, Dumps
  <2>3. Ordered  BY <1>2, <2>2 DEF BackupInit, Ordered
  <2>4. sql \in [Runs -> {"none", "whole", "mixed"}] /\ gz \in [Runs -> {"none", "whole", "mixed", "torn"}]
    BY <1>2 DEF BackupInit
  <2>5. day \in Days /\ logs \in [Days -> {"live", "gone"}] /\ archive \in [Days -> {"none", "whole", "torn"}]
    BY <1>1, <1>2 DEF BackupInit
  <2>6. remote \in [dump : [Runs -> {"none", "whole", "mixed", "torn"}],
                   log : [Days -> {"none", "whole", "torn"}]]
    BY <1>2 DEF BackupInit
  <2>7. sentinel \in BOOLEAN  BY <1>2 DEF BackupInit
  <2>9. archived \in [Days -> 0 .. 2]
    <3>1. 0 \in 0 .. 2  OBVIOUS
    <3> QED  BY <1>2, <3>1 DEF BackupInit
  <2>8. newer \in [Runs -> SUBSET Runs]  BY <1>2 DEF BackupInit
  <2> QED  BY <2>1, <2>3, <2>4, <2>5, <2>6, <2>7, <2>8, <2>9 DEF BackupTypeOK, RunRec
<1> QED  BY <1>2

\* Apart from where it stands a run keeps what it is about.
SameLegs(r) == /\ run'[r].name = run[r].name /\ run'[r].db = run[r].db
               /\ run'[r].day = run[r].day /\ run'[r].logs = run[r].logs
               /\ run'[r].rdb = run[r].rdb /\ run'[r].rlogs = run[r].rlogs

\* A run that goes on within the dump, or leaves it.
LEMMA GotoType ==
    ASSUME BackupTypeOK, NEW r \in Runs, NEW pc \in {"logs", "gzip", "verify"}, Goto(r, pc)
    PROVE  /\ run' \in [Runs -> RunRec]
           /\ run'[r] = [run[r] EXCEPT !.pc = pc, !.met = IF pc = "logs" THEN {} ELSE @]
           /\ \A q \in Runs \ {r} : run'[q] = run[q]
           /\ run'[r].pc = pc /\ SameLegs(r)
<1> DEFINE x == [run[r] EXCEPT !.pc = pc, !.met = IF pc = "logs" THEN {} ELSE @]
<1>1. run[r] \in RunRec  BY DEF BackupTypeOK, RunRec
<1>2. [run[r] EXCEPT !.pc = pc] \in RunRec  BY <1>1 DEF RunRec
<1>3. [[run[r] EXCEPT !.pc = pc] EXCEPT !.met = {}] \in RunRec  BY <1>2 DEF RunRec
<1>4. x \in RunRec
  <2>1. CASE pc = "logs"  BY <1>3, <2>1
  <2>2. CASE pc # "logs"
    <3>1. x = [run[r] EXCEPT !.pc = pc]  BY <1>1, <2>2 DEF RunRec
    <3> QED  BY <1>2, <3>1
  <2> QED  BY <2>1, <2>2
<1>5. run' = [run EXCEPT ![r] = x]  BY <1>1 DEF Goto, BackupTypeOK, RunRec
<1>6. /\ x.pc = pc /\ x.name = run[r].name /\ x.db = run[r].db /\ x.day = run[r].day
      /\ x.logs = run[r].logs /\ x.rdb = run[r].rdb /\ x.rlogs = run[r].rlogs
  BY <1>1 DEF RunRec
<1> HIDE DEF x
<1>7. run' \in [Runs -> RunRec] /\ run'[r] = x /\ \A q \in Runs \ {r} : run'[q] = run[q]
  BY <1>4, <1>5, OneRun
<1> QED  BY <1>6, <1>7 DEF x, SameLegs

\* A dump that is written over becomes the newest, and the order stays one.
LEMMA WrittenLast ==
    ASSUME BackupTypeOK, NEW n \in Runs, NEW quality \in {"whole", "mixed", "torn"},
           gz' = [gz EXCEPT ![n] = quality],
           newer' = [x \in Runs |-> IF x \in Dumps \ {n} THEN newer[x] \union {n} ELSE {}]
    PROVE  newer' \in [Runs -> SUBSET Runs] /\ Ordered'
<1>1. Dumps' = Dumps \union {n} /\ Dumps \in SUBSET Runs  BY DEF Dumps, BackupTypeOK
<1>2. newer' \in [Runs -> SUBSET Runs]  BY DEF BackupTypeOK
<1>3. ASSUME NEW x \in Runs, NEW y \in Runs
      PROVE  y \in newer'[x] <=> x \in Dumps /\ x # n /\ (y = n \/ y \in newer[x])
  BY <1>1
<1>4. \A x, y \in Runs : y \in newer'[x] => x \in Dumps' /\ y \in Dumps' /\ x \notin newer'[y]
  BY <1>1, <1>3 DEF BackupTypeOK, Ordered
<1>5. \A x, y \in Dumps' : x = y \/ x \in newer'[y] \/ y \in newer'[x]
  BY <1>1, <1>3 DEF BackupTypeOK, Ordered
<1>6. \A x, y, z \in Runs : y \in newer'[x] /\ z \in newer'[y] => z \in newer'[x]
  BY <1>1, <1>3 DEF BackupTypeOK, Ordered
<1> QED  BY <1>2, <1>4, <1>5, <1>6 DEF Ordered

\* What is removed takes its place in the order with it.
LEMMA Removed ==
    ASSUME BackupTypeOK, NEW gone,
           gz' = [x \in Runs |-> IF x \in gone THEN "none" ELSE gz[x]],
           newer' = [x \in Runs |-> IF x \in gone THEN {} ELSE newer[x] \ gone]
    PROVE  newer' \in [Runs -> SUBSET Runs] /\ Ordered'
<1>1. Dumps' = Dumps \ gone /\ Dumps \in SUBSET Runs  BY DEF Dumps, BackupTypeOK
<1>2. newer' \in [Runs -> SUBSET Runs]  BY DEF BackupTypeOK
<1>3. ASSUME NEW x \in Runs, NEW y \in Runs
      PROVE  y \in newer'[x] <=> x \notin gone /\ y \notin gone /\ y \in newer[x]
  BY <1>1
<1>4. \A x, y \in Runs : y \in newer'[x] => x \in Dumps' /\ y \in Dumps' /\ x \notin newer'[y]
  BY <1>1, <1>3 DEF BackupTypeOK, Ordered
<1>5. \A x, y \in Dumps' : x = y \/ x \in newer'[y] \/ y \in newer'[x]
  BY <1>1, <1>3 DEF BackupTypeOK, Ordered
<1>6. \A x, y, z \in Runs : y \in newer'[x] /\ z \in newer'[y] => z \in newer'[x]
  BY <1>1, <1>3 DEF BackupTypeOK, Ordered
<1> QED  BY <1>2, <1>4, <1>5, <1>6 DEF Ordered

\* The order is about the dumps on disk alone.
SameFiles == Dumps' = Dumps /\ (Ordered => Ordered')
LEMMA Untouched == UNCHANGED <<gz, newer>> => SameFiles
BY DEF SameFiles, Dumps, Ordered

\* A run that begins meets those that are dumping, and they meet it.
LEMMA BeginType ==
    ASSUME BackupTypeOK, NEW r \in Runs, Begin(r)
    PROVE  /\ run' \in [Runs -> RunRec] /\ run[r].pc = "new" /\ RoomFor
           /\ run'[r].pc = "dump" /\ run'[r].met = Dumping /\ ~run'[r].db /\ ~run'[r].logs
           /\ run'[r].name \in {r} \union {run[q].name : q \in {q \in Runs : run[q].pc = "dump"}}
           /\ \A q \in Dumping : run'[q] = [run[q] EXCEPT !.met = @ \union {r}]
           /\ \A q \in Runs \ ({r} \union Dumping) : run'[q] = run[q]
           /\ \A q \in Runs \ {r} : /\ run'[q].pc = run[q].pc /\ run'[q].name = run[q].name
                                    /\ run'[q].day = run[q].day /\ run'[q].db = run[q].db
                                    /\ run'[q].logs = run[q].logs /\ run'[q].rdb = run[q].rdb
                                    /\ run'[q].rlogs = run[q].rlogs
<1>0. 1 \in Days  BY DaysAssumption DEF Days
<1>1. PICK n \in {r} \union {run[q].name : q \in {q \in Runs : run[q].pc = "dump"}} :
           run' = [q \in Runs |->
                     IF q = r THEN [New EXCEPT !.pc = "dump", !.name = n, !.met = Dumping]
                     ELSE IF q \in Dumping THEN [run[q] EXCEPT !.met = @ \union {r}]
                     ELSE run[q]]
  BY DEF Begin
<1>2. n \in Runs \union {NoRun}  BY DEF BackupTypeOK
<1>3. Dumping \in SUBSET Runs /\ r \notin Dumping  BY DEF Dumping, Begin
<1>4. run'[r] = [New EXCEPT !.pc = "dump", !.name = n, !.met = Dumping]  BY <1>1
<1>5. run'[r] \in RunRec  BY <1>0, <1>2, <1>3, <1>4 DEF New, RunRec
<1>6. ASSUME NEW q \in Dumping
      PROVE  run'[q] = [run[q] EXCEPT !.met = @ \union {r}] /\ run'[q] \in RunRec
  <2>1. run'[q] = [run[q] EXCEPT !.met = @ \union {r}]  BY <1>1, <1>3
  <2>2. run[q] \in RunRec  BY <1>3 DEF BackupTypeOK, RunRec
  <2> QED  BY <2>1, <2>2 DEF RunRec
<1>7. ASSUME NEW q \in Runs \ ({r} \union Dumping) PROVE run'[q] = run[q]  BY <1>1
<1>8. ASSUME NEW q \in Runs PROVE run[q] \in RunRec /\ run'[q] \in RunRec
  <2>1. run[q] \in RunRec  BY DEF BackupTypeOK, RunRec
  <2>2. q = r \/ q \in Dumping \/ q \in Runs \ ({r} \union Dumping)  OBVIOUS
  <2> QED  BY <1>5, <1>6, <1>7, <2>1, <2>2
<1>9. run' \in [Runs -> RunRec]  BY <1>1, <1>8
<1>10. ASSUME NEW q \in Runs \ {r}
       PROVE  /\ run'[q].pc = run[q].pc /\ run'[q].name = run[q].name
              /\ run'[q].day = run[q].day /\ run'[q].db = run[q].db
              /\ run'[q].logs = run[q].logs /\ run'[q].rdb = run[q].rdb
              /\ run'[q].rlogs = run[q].rlogs
  <2>1. CASE q \in Dumping
    <3>1. run'[q] = [run[q] EXCEPT !.met = @ \union {r}]  BY <1>6, <2>1
    <3>2. run[q] \in RunRec  BY <1>8
    <3> QED  BY <3>1, <3>2 DEF RunRec
  <2>2. CASE q \notin Dumping  BY <1>7, <2>2
  <2> QED  BY <2>1, <2>2
<1>11. run'[r].pc = "dump" /\ run'[r].met = Dumping /\ run'[r].db = FALSE /\ run'[r].logs = FALSE
       /\ run'[r].name = n
  BY <1>4 DEF New
<1> QED  BY <1>1, <1>6, <1>7, <1>9, <1>10, <1>11 DEF Begin

\* A run that stops, or is over, keeps its name.
LEMMA OverType ==
    ASSUME BackupTypeOK, NEW r \in Runs
    PROVE  /\ Over(r) \in RunRec /\ Over(r).pc = "over" /\ Over(r).met = {}
           /\ Over(r).name = run[r].name /\ Over(r).db = FALSE /\ Over(r).logs = FALSE
<1>1. 1 \in Days  BY DaysAssumption DEF Days
<1>2. run[r].name \in Runs \union {NoRun}  BY DEF BackupTypeOK
<1> QED  BY <1>1, <1>2 DEF Over, New, RunRec

\* A run whose dump has been verified.
LEMMA VerifiedType ==
    ASSUME BackupTypeOK, NEW r \in Runs,
           run' = [run EXCEPT ![r].pc = "logs", ![r].met = {}, ![r].db = TRUE]
    PROVE  /\ run' \in [Runs -> RunRec] /\ \A q \in Runs \ {r} : run'[q] = run[q]
           /\ run'[r].pc = "logs" /\ run'[r].met = {} /\ run'[r].name = run[r].name
           /\ run'[r].db /\ run'[r].logs = run[r].logs
<1> DEFINE x == [run[r] EXCEPT !.pc = "logs", !.met = {}, !.db = TRUE]
<1>1. run[r] \in RunRec  BY DEF BackupTypeOK, RunRec
<1>2. x \in RunRec  BY <1>1 DEF RunRec
<1>3. run' = [run EXCEPT ![r] = x]  BY <1>1 DEF BackupTypeOK, RunRec
<1>4. x.pc = "logs" /\ x.met = {} /\ x.name = run[r].name /\ x.db = TRUE
      /\ x.logs = run[r].logs
  BY <1>1 DEF RunRec
<1> HIDE DEF x
<1>5. run' \in [Runs -> RunRec] /\ run'[r] = x /\ \A q \in Runs \ {r} : run'[q] = run[q]
  BY <1>2, <1>3, OneRun
<1> QED  BY <1>4, <1>5

\* A run that has come to the log of the day.
LEMMA LoggedType ==
    ASSUME BackupTypeOK, NEW r \in Runs, BackupLogs(r)
    PROVE  /\ run' \in [Runs -> RunRec] /\ \A q \in Runs \ {r} : run'[q] = run[q]
           /\ run'[r].pc = "ship" /\ run'[r].day = day /\ run'[r].name = run[r].name
           /\ run'[r].met = run[r].met /\ run'[r].db = run[r].db
           /\ run'[r].logs => \/ run[r].logs
                             \/ archive' = [archive EXCEPT ![day] = "whole"]
<1>1. run[r] \in RunRec /\ day \in Days  BY DEF BackupTypeOK, RunRec
<1>2. CASE run' = [run EXCEPT ![r].pc = "ship", ![r].day = day]
  <2> DEFINE x == [run[r] EXCEPT !.pc = "ship", !.day = day]
  <2>1. x \in RunRec  BY <1>1 DEF RunRec
  <2>2. run' = [run EXCEPT ![r] = x]  BY <1>1, <1>2 DEF BackupTypeOK, RunRec
  <2>3. /\ x.pc = "ship" /\ x.day = day /\ x.name = run[r].name /\ x.met = run[r].met
        /\ x.db = run[r].db /\ x.logs = run[r].logs
    BY <1>1 DEF RunRec
  <2> HIDE DEF x
  <2>4. run' \in [Runs -> RunRec] /\ run'[r] = x /\ \A q \in Runs \ {r} : run'[q] = run[q]
    BY <2>1, <2>2, OneRun
  <2> QED  BY <2>3, <2>4
<1>3. CASE /\ run' = [run EXCEPT ![r].pc = "ship", ![r].day = day, ![r].logs = TRUE]
           /\ archive' = [archive EXCEPT ![day] = "whole"]
  <2> DEFINE x == [run[r] EXCEPT !.pc = "ship", !.day = day, !.logs = TRUE]
  <2>1. x \in RunRec  BY <1>1 DEF RunRec
  <2>2. run' = [run EXCEPT ![r] = x]  BY <1>1, <1>3 DEF BackupTypeOK, RunRec
  <2>3. /\ x.pc = "ship" /\ x.day = day /\ x.name = run[r].name /\ x.met = run[r].met
        /\ x.db = run[r].db
    BY <1>1 DEF RunRec
  <2> HIDE DEF x
  <2>4. run' \in [Runs -> RunRec] /\ run'[r] = x /\ \A q \in Runs \ {r} : run'[q] = run[q]
    BY <2>1, <2>2, OneRun
  <2> QED  BY <1>3, <2>3, <2>4
<1> QED  BY <1>2, <1>3 DEF BackupLogs

\* What is copied is what lies on disk at that moment.
LEMMA ShippedType ==
    ASSUME BackupTypeOK, NEW r \in Runs, RemoteBackup(r)
    PROVE  /\ run' \in [Runs -> RunRec] /\ \A q \in Runs \ {r} : run'[q] = run[q]
           /\ run'[r].pc = "stamp" /\ run'[r].day = run[r].day /\ run'[r].name = run[r].name
           /\ run'[r].met = run[r].met /\ run'[r].db = run[r].db /\ run'[r].logs = run[r].logs
           /\ run'[r].rdb = "ok" => run[r].db /\ gz[run[r].name] # "none"
           /\ run'[r].rlogs = "ok" => run[r].logs
           /\ remote' \in [dump : [Runs -> {"none", "whole", "mixed", "torn"}],
                           log : [Days -> {"none", "whole", "torn"}]]
           /\ remote'.dump = [remote.dump EXCEPT ![run[r].name] =
                                 IF run'[r].rdb = "ok" THEN gz[run[r].name] ELSE @]
           /\ remote'.log = [remote.log EXCEPT ![run[r].day] =
                                IF run'[r].rlogs = "ok" THEN archive[run[r].day] ELSE @]
<1> DEFINE n == run[r].name
           d == run[r].day
<1>1. run[r] \in RunRec /\ d \in Days  BY DEF BackupTypeOK, RunRec
<1>2. PICK rdb \in Upload(run[r].db, gz[n]), rlogs \in Upload(run[r].logs, archive[d]) :
             /\ remote' = [remote EXCEPT !.dump[n] = IF rdb = "ok" THEN gz[n] ELSE @,
                                         !.log[d] = IF rlogs = "ok" THEN archive[d] ELSE @]
             /\ run' = [run EXCEPT ![r].pc = "stamp", ![r].rdb = rdb, ![r].rlogs = rlogs]
  BY DEF RemoteBackup
<1>3. rdb \in {"skip", "ok", "fail"} /\ (rdb = "ok" => run[r].db /\ gz[n] # "none")
  BY DEF Upload
<1>4. rlogs \in {"skip", "ok", "fail"} /\ (rlogs = "ok" => run[r].logs)
  BY DEF Upload
<1> DEFINE x == [run[r] EXCEPT !.pc = "stamp", !.rdb = rdb, !.rlogs = rlogs]
<1>5. x \in RunRec  BY <1>1, <1>3, <1>4 DEF RunRec
<1>6. run' = [run EXCEPT ![r] = x]  BY <1>1, <1>2 DEF BackupTypeOK, RunRec
<1>7. /\ x.pc = "stamp" /\ x.day = run[r].day /\ x.name = run[r].name
      /\ x.met = run[r].met /\ x.db = run[r].db /\ x.logs = run[r].logs
      /\ x.rdb = rdb /\ x.rlogs = rlogs
  BY <1>1 DEF RunRec
<1> HIDE DEF x
<1>8. run' \in [Runs -> RunRec] /\ run'[r] = x /\ \A q \in Runs \ {r} : run'[q] = run[q]
  BY <1>5, <1>6, OneRun
<1> DEFINE dump == [remote.dump EXCEPT ![n] = IF rdb = "ok" THEN gz[n] ELSE @]
           log == [remote.log EXCEPT ![d] = IF rlogs = "ok" THEN archive[d] ELSE @]
<1>9. remote \in [dump : [Runs -> {"none", "whole", "mixed", "torn"}],
                 log : [Days -> {"none", "whole", "torn"}]]
  BY DEF BackupTypeOK
<1>10. remote' = [dump |-> dump, log |-> log]  BY <1>2, <1>9
<1>11. dump \in [Runs -> {"none", "whole", "mixed", "torn"}]  BY <1>9 DEF BackupTypeOK
<1>12. log \in [Days -> {"none", "whole", "torn"}]  BY <1>9 DEF BackupTypeOK
<1> QED  BY <1>3, <1>4, <1>7, <1>8, <1>10, <1>11, <1>12

\* Every step of a run stays within the types.
LEMMA BackupTypeKeeps == BackupTypeOK /\ Names /\ [BackupNext]_backupVars => BackupTypeOK'
<1> SUFFICES ASSUME BackupTypeOK, Names, [BackupNext]_backupVars PROVE BackupTypeOK'
  OBVIOUS
<1> USE DEF RunRec
<1>1. ASSUME UNCHANGED backupVars PROVE BackupTypeOK'
  BY <1>1, Untouched DEF BackupTypeOK, backupVars, SameFiles
<1>2. ASSUME Midnight PROVE BackupTypeOK'
  <2>1. day' \in Days  BY <1>2, DaysAssumption DEF Midnight, BackupTypeOK, Days
  <2> QED  BY <1>2, <2>1, Untouched DEF Midnight, BackupTypeOK, SameFiles
<1>3. ASSUME Stop PROVE BackupTypeOK'
  <2>1. run' \in [Runs -> RunRec]
    BY <1>3, OverType DEF Stop, BackupTypeOK
  <2> QED  BY <1>3, <2>1, Untouched DEF Stop, BackupTypeOK, SameFiles
<1>4. ASSUME NEW r \in Runs, Begin(r) PROVE BackupTypeOK'
  BY <1>4, BeginType, Untouched DEF Begin, BackupTypeOK, SameFiles
<1>5. ASSUME NEW r \in Runs, PgDump(r) PROVE BackupTypeOK'
  <2>1. run' \in [Runs -> RunRec]  BY <1>5, GotoType DEF PgDump
  <2>2. sql' \in [Runs -> {"none", "whole", "mixed"}]  BY <1>5 DEF PgDump, BackupTypeOK
  <2> QED  BY <1>5, <2>1, <2>2, Untouched DEF PgDump, BackupTypeOK, SameFiles
<1>6. ASSUME NEW r \in Runs, Gzip(r) PROVE BackupTypeOK'
  <2> DEFINE n == run[r].name
  <2>0. n \in Runs  BY <1>6 DEF Gzip, Names
  <2>1. PICK quality \in {sql[n], "torn"} \ {"none"} :
                  /\ gz' = [gz EXCEPT ![n] = quality]
                  /\ Goto(r, IF quality = "torn" THEN "logs" ELSE "verify")
    BY <1>6 DEF Gzip
  <2>2. run' \in [Runs -> RunRec]  BY <2>1, GotoType
  <2>3. quality \in {"whole", "mixed", "torn"}  BY <2>0 DEF BackupTypeOK
  <2>4. gz' \in [Runs -> {"none", "whole", "mixed", "torn"}]
    BY <2>1, <2>3 DEF BackupTypeOK
  <2>5. newer' \in [Runs -> SUBSET Runs] /\ Ordered'
    <3>1. newer' = [x \in Runs |-> IF x \in Dumps \ {n} THEN newer[x] \union {n} ELSE {}]
      BY <1>6 DEF Gzip
    <3> HIDE DEF n
    <3> QED  BY <2>0, <2>1, <2>3, <3>1, WrittenLast
  <2> QED  BY <1>6, <2>2, <2>4, <2>5 DEF Gzip, BackupTypeOK
<1>7. ASSUME NEW r \in Runs, VerifyDump(r) PROVE BackupTypeOK'
  <2>1. CASE Goto(r, "logs") /\ UNCHANGED <<gz, newer, sql>>
    <3>1. run' \in [Runs -> RunRec]  BY <2>1, GotoType
    <3> QED  BY <1>7, <2>1, <3>1, Untouched DEF VerifyDump, BackupTypeOK, SameFiles
  <2>2. CASE ~(Goto(r, "logs") /\ UNCHANGED <<gz, newer, sql>>)
    <3>1. PICK gone \in {SelectFilesToPrune, {}} :
            /\ gz' = [x \in Runs |-> IF x \in gone THEN "none" ELSE gz[x]]
            /\ newer' = [x \in Runs |-> IF x \in gone THEN {} ELSE newer[x] \ gone]
      BY <1>7, <2>2 DEF VerifyDump
    <3>2. /\ sql' = [sql EXCEPT ![run[r].name] = "none"]
          /\ run' = [run EXCEPT ![r].pc = "logs", ![r].met = {}, ![r].db = TRUE]
      BY <1>7, <2>2 DEF VerifyDump
    <3>3. newer' \in [Runs -> SUBSET Runs] /\ Ordered'  BY <3>1, Removed
    <3>4. gz' \in [Runs -> {"none", "whole", "mixed", "torn"}]  BY <3>1 DEF BackupTypeOK
    <3>5. sql' \in [Runs -> {"none", "whole", "mixed"}]  BY <3>2 DEF BackupTypeOK
    <3>6. run' \in [Runs -> RunRec]  BY <3>2, VerifiedType
    <3> QED  BY <1>7, <3>3, <3>4, <3>5, <3>6 DEF VerifyDump, BackupTypeOK
  <2> QED  BY <2>1, <2>2
<1>8. ASSUME NEW r \in Runs, BackupLogs(r) PROVE BackupTypeOK'
  <2>1. run' \in [Runs -> RunRec]  BY <1>8, LoggedType
  <2>2. archive' \in [Days -> {"none", "whole", "torn"}] /\ logs' \in [Days -> {"live", "gone"}]
    BY <1>8 DEF BackupLogs, BackupTypeOK
  <2>3. archived' \in [Days -> 0 .. 2]
    <3>1. 1 \in 0 .. 2 /\ 2 \in 0 .. 2  OBVIOUS
    <3> QED  BY <1>8, <3>1 DEF BackupLogs, BackupTypeOK
  <2> QED  BY <1>8, <2>1, <2>2, <2>3, Untouched DEF BackupLogs, BackupTypeOK, SameFiles
<1>9. ASSUME NEW r \in Runs, RemoteBackup(r) PROVE BackupTypeOK'
  BY <1>9, Untouched, ShippedType DEF RemoteBackup, BackupTypeOK, SameFiles
<1>10. ASSUME NEW r \in Runs, StampBackupSuccess(r) PROVE BackupTypeOK'
  <2>1. run' \in [Runs -> RunRec]  BY <1>10, OverType DEF StampBackupSuccess, BackupTypeOK
  <2> QED  BY <1>10, <2>1, Untouched DEF StampBackupSuccess, BackupTypeOK, SameFiles
<1> QED  BY <1>1, <1>2, <1>3, <1>4, <1>5, <1>6, <1>7, <1>8, <1>9, <1>10 DEF BackupNext

\* A run that goes on keeps its name, and no name is given away.
LEMMA Moved ==
    ASSUME BackupTypeOK, Names, NEW r \in Runs, run[r].pc # "new",
           \A q \in Runs \ {r} : run'[q] = run[q],
           run'[r].name = run[r].name, run'[r].pc # "new",
           run'[r].db => run'[r].pc \in {"logs", "ship", "stamp"},
           run'[r].logs => run'[r].pc \in {"ship", "stamp"}
    PROVE  Names' /\ \A n \in Runs : Own(n)' <=> Own(n)
<1>1. Names'  BY DEF Names, New
<1>2. \A q \in Runs : run'[q].name = run[q].name  OBVIOUS
<1> QED  BY <1>1, <1>2 DEF Own, SharedName

\* No run that goes on meets another.
LEMMA MetKept ==
    ASSUME BackupTypeOK, Met, NEW r \in Runs,
           \A q \in Runs \ {r} : run'[q] = run[q],
           \/ run'[r].met = {} /\ run'[r].pc \notin {"dump", "gzip", "verify"}
           \/ run'[r].met = run[r].met /\ r \in Dumping
           \/ run'[r].met = run[r].met /\ run'[r].pc \notin {"dump", "gzip", "verify"}
    PROVE  Met'
<1>1. \A p \in Runs : Cardinality(run'[p].met) < KEEP
  <2>1. Cardinality({}) < KEEP  BY FS_EmptySet, KeepAssumption
  <2>2. \A p \in Runs : run'[p].met = {} \/ run'[p].met = run[p].met  OBVIOUS
  <2> QED  BY <2>1, <2>2 DEF Met
<1>2. \A q \in Runs : q \in Dumping' => q \in Dumping  BY DEF Dumping
<1>3. Dumping' \subseteq Runs /\ (r \in Dumping' => run'[r].met = run[r].met)  BY DEF Dumping
<1>4. \A p, q \in Dumping' : p # q => q \in run'[p].met
  BY <1>2, <1>3 DEF Met
<1> QED  BY <1>1, <1>4 DEF Met

\* A beginning run leaves each of those it meets below the bound.
LEMMA MetGrows ==
    ASSUME BackupTypeOK, Met, NEW r \in Runs, Begin(r)
    PROVE  Met'
<1>1. ASSUME NEW q \in Dumping PROVE Cardinality(run'[q].met) < KEEP
  <2>1. IsFiniteSet(run[q].met)
    BY FS_Subset, RunsAssumption DEF BackupTypeOK, Dumping
  <2>2. Cardinality(run[q].met \union {r}) <= Cardinality(run[q].met) + 1
    <3> DEFINE S == run[q].met
    <3>1. IsFiniteSet(S) /\ Cardinality(S) \in Nat  BY <2>1, FS_CardinalityType
    <3> HIDE DEF S
    <3>2. Cardinality(S \union {r}) = IF r \in S THEN Cardinality(S) ELSE Cardinality(S) + 1
      BY <3>1, FS_AddElement
    <3>3. Cardinality(S \union {r}) <= Cardinality(S) + 1  BY <3>1, <3>2
    <3> QED  BY <3>3 DEF S
  <2>3. run'[q].met = run[q].met \union {r}
    <3>1. q \in Runs /\ run[q] \in RunRec  BY DEF BackupTypeOK, Dumping, RunRec
    <3>2. run'[q] = [run[q] EXCEPT !.met = @ \union {r}]  BY BeginType
    <3> QED  BY <3>1, <3>2 DEF RunRec
  <2>4. IsFiniteSet(run[q].met \union {r})  BY <2>1, FS_AddElement
  <2> QED  BY <2>1, <2>2, <2>3, <2>4, BeginType, FS_CardinalityType, KeepAssumption DEF RoomFor
<1>2. Cardinality(run'[r].met) < KEEP  BY BeginType DEF RoomFor
<1>3. \A p \in Runs : Cardinality(run'[p].met) < KEEP
  BY <1>1, <1>2, BeginType DEF Met
<1>4. Dumping' = Dumping \union {r} /\ r \notin Dumping /\ Dumping \subseteq Runs
  BY BeginType DEF Dumping
<1>5. ASSUME NEW p \in Dumping', NEW q \in Dumping', p # q PROVE q \in run'[p].met
  <2>1. CASE p = r  BY <1>4, <1>5, <2>1, BeginType
  <2>2. CASE p # r
    <3>1. p \in Dumping /\ p \in Runs  BY <1>4, <2>2
    <3>2. run'[p] = [run[p] EXCEPT !.met = @ \union {r}]  BY <3>1, BeginType
    <3>3. run'[p].met = run[p].met \union {r}  BY <3>1, <3>2 DEF BackupTypeOK
    <3> QED  BY <1>4, <1>5, <3>1, <3>3 DEF Met
  <2> QED  BY <2>1, <2>2
<1> QED  BY <1>3, <1>5 DEF Met

\* Midnight touches nothing a run has made.
LEMMA MidnightStep == BackupInv /\ Midnight => BackupInv'
<1> SUFFICES ASSUME BackupInv, Midnight PROVE BackupInv'  OBVIOUS
<1>1. BackupTypeOK'  BY BackupTypeKeeps DEF BackupInv, BackupNext
<1> QED  BY <1>1 DEF BackupInv, Midnight, Names, Files, Own, SharedName, Met, Dumping, NewerAreMet,
                     NoShared, HasDump, Logs, Turns, Past, Copies, New

\* Runs that stop have no leg left to report.
LEMMA StopStep == BackupInv /\ Stop => BackupInv'
<1> SUFFICES ASSUME BackupInv, Stop PROVE BackupInv'  OBVIOUS
<1>1. BackupTypeOK'  BY BackupTypeKeeps DEF BackupInv, BackupNext
<1>2. ASSUME NEW q \in Runs
      PROVE  /\ run'[q].name = run[q].name
             /\ \/ run'[q] = run[q] /\ run[q].pc \in {"new", "over"}
                \/ /\ run'[q].pc = "over" /\ run'[q].met = {} /\ ~run'[q].db /\ ~run'[q].logs
                   /\ run[q].pc # "new"
  BY OverType DEF BackupInv, Stop, Alive
<1>3. \A n \in Runs : Own(n)' <=> Own(n)  BY <1>2 DEF Own, SharedName
<1>4. Names'  BY <1>2 DEF BackupInv, Names, New
<1>5. Files'  BY <1>2, <1>3 DEF BackupInv, Files, Stop
<1>6. Met'
  <2>1. Cardinality({}) < KEEP  BY FS_EmptySet, KeepAssumption
  <2>2. \A q \in Runs : run'[q].met = {} \/ run'[q].met = run[q].met  BY <1>2
  <2>3. Dumping' = {}  BY <1>2 DEF Dumping
  <2> QED  BY <2>1, <2>2, <2>3 DEF BackupInv, Met
<1>7. NewerAreMet'  BY <1>2 DEF NewerAreMet
<1>8. HasDump'  BY <1>2, <1>3 DEF BackupInv, HasDump, NoShared, Stop
<1>9. Logs' /\ Turns' /\ Copies'  BY <1>2 DEF BackupInv, Logs, Turns, Copies, Past, Stop
<1> QED  BY <1>1, <1>4, <1>5, <1>6, <1>7, <1>8, <1>9 DEF BackupInv

\* A beginning run takes a name of its own, or makes one shared.
LEMMA BeginStep == ASSUME NEW r \in Runs PROVE BackupInv /\ Begin(r) => BackupInv'
<1> SUFFICES ASSUME BackupInv, Begin(r) PROVE BackupInv'  OBVIOUS
<1>0. BackupTypeOK /\ Names /\ Files /\ Met  BY DEF BackupInv
<1>1. BackupTypeOK'  BY <1>0, BackupTypeKeeps DEF BackupNext
<1>a. UNCHANGED <<sql, gz, newer, day, logs, archive, remote, sentinel, archived>>  BY DEF Begin
<1>b. /\ run[r].pc = "new"
      /\ run'[r].pc = "dump" /\ run'[r].met = Dumping /\ ~run'[r].db /\ ~run'[r].logs
      /\ run'[r].name \in {r} \union {run[q].name : q \in {q \in Runs : run[q].pc = "dump"}}
  BY <1>0, BeginType
<1>c. ASSUME NEW q \in Runs, q # r
      PROVE  /\ run'[q].pc = run[q].pc /\ run'[q].name = run[q].name
             /\ run'[q].day = run[q].day /\ run'[q].db = run[q].db
             /\ run'[q].logs = run[q].logs /\ run'[q].rdb = run[q].rdb
             /\ run'[q].rlogs = run[q].rlogs
             /\ run[q].met \subseteq run'[q].met
  <2>1. run[q].met \subseteq run'[q].met
    <3>1. CASE q \in Dumping
      <4>1. run[q] \in RunRec  BY <1>0 DEF BackupTypeOK, RunRec
      <4>2. run'[q] = [run[q] EXCEPT !.met = @ \union {r}]  BY <1>0, <3>1, BeginType
      <4> QED  BY <4>1, <4>2 DEF RunRec
    <3>2. CASE q \notin Dumping  BY <1>0, <1>c, <3>2, BeginType
    <3> QED  BY <3>1, <3>2
  <2> QED  BY <1>0, <1>c, <2>1, BeginType
<1>2. run'[r].name \in Runs  BY <1>0, <1>b DEF Names
<1>3. run[r].name = NoRun  BY <1>0, <1>b DEF Names, New
<1>4. \A n \in Runs : Own(n)' => Own(n)
  <2>1. \A n, q \in Runs : run[q].name = n => run'[q].name = n
    BY <1>3, <1>c, RunsAssumption
  <2> QED  BY <2>1 DEF Own, SharedName
<1>5. Names'
  <2>1. ASSUME NEW q \in Runs, q # r, run[q].pc = "new" PROVE run'[q] = run[q]
    <3>1. q \notin Dumping  BY <2>1 DEF Dumping
    <3> QED  BY <1>0, <2>1, <3>1, BeginType
  <2>2. ASSUME NEW q \in Runs, q # r
        PROVE  /\ (run'[q].pc = "new" => run'[q] = New) /\ (run'[q].pc # "new" => run'[q].name \in Runs)
               /\ run'[q].db => run'[q].pc \in {"logs", "ship", "stamp"}
               /\ run'[q].logs => run'[q].pc \in {"ship", "stamp"}
    BY <1>0, <1>c, <2>1, <2>2 DEF Names
  <2> QED  BY <1>2, <1>b, <2>2 DEF Names, New
<1>6. Files'
  <2>1. ASSUME NEW n \in Runs, Own(n)', n # r
        PROVE  /\ run'[n].pc = run[n].pc /\ run'[n].name = run[n].name
               /\ run'[n].db = run[n].db /\ Own(n)
    BY <1>4, <1>c, <2>1
  <2>2. ASSUME Own(r)' PROVE sql'[r] = "none" /\ gz'[r] = "none"
    BY <1>0, <1>4, <1>a, <1>b, <2>2 DEF Files
  <2> QED  BY <1>0, <1>a, <1>b, <2>1, <2>2 DEF Files
<1>7. Met'  BY <1>0, MetGrows
<1>8. NewerAreMet'
  <2>1. ASSUME NoShared', NEW q \in Runs, run'[q].pc = "verify"
        PROVE  newer'[q] \subseteq run'[q].met
    <3>1. NoShared  BY <1>4, <2>1 DEF NoShared
    <3>2. q # r /\ run[q].pc = "verify"  BY <1>b, <1>c, <2>1
    <3> QED  BY <1>a, <1>c, <3>1, <3>2 DEF BackupInv, NewerAreMet
  <2> QED  BY <2>1 DEF NewerAreMet
<1>9. HasDump'
  <2>1. NoShared' => NoShared  BY <1>4 DEF NoShared
  <2>2. (\E q \in Runs : run'[q].db) => \E q \in Runs : run[q].db  BY <1>b, <1>c
  <2> QED  BY <1>a, <2>1, <2>2 DEF BackupInv, HasDump
<1>10. Logs'  BY <1>a DEF BackupInv, Logs
<1>11. Turns'
  <2>1. \A q \in Runs : Past(q)' => q # r /\ Past(q)  BY <1>b, <1>c DEF Past
  <2> QED  BY <1>a, <1>c, <2>1 DEF BackupInv, Turns
<1>12. Copies'
  <2>1. \A q \in Runs : Past(q)' => q # r /\ Past(q)  BY <1>b, <1>c DEF Past
  <2>2. \A n \in Runs : SharedName(n) => SharedName(n)'  BY <1>4 DEF Own
  <2>3. \A q \in Runs : run[q].pc = "stamp" => run[q].name \in Runs  BY <1>0 DEF Names
  <2>4. ASSUME NEW q \in Runs, q # r
        PROVE  /\ Past(q)' /\ run'[q].logs => archive'[run'[q].day] = "whole" \/ archived'[run'[q].day] = 2
               /\ run'[q].pc = "stamp" /\ run'[q].rlogs = "ok" =>
                    remote'.log[run'[q].day] = "whole" \/ archived'[run'[q].day] = 2
               /\ run'[q].pc = "stamp" /\ run'[q].rdb = "ok" =>
                    remote'.dump[run'[q].name] = "whole" \/ SharedName(run[q].name)'
    BY <1>a, <1>c, <2>1, <2>2, <2>3, <2>4 DEF BackupInv, Copies
  <2>6. ~Past(r)' /\ run'[r].pc # "stamp"  BY <1>b DEF Past
  <2> QED  BY <1>c, <2>4, <2>6 DEF Copies, SharedName
<1> QED  BY <1>1, <1>5, <1>6, <1>7, <1>8, <1>9, <1>10, <1>11, <1>12 DEF BackupInv

\* Under a name of its own pg_dump writes a whole dump.
LEMMA PgDumpStep == ASSUME NEW r \in Runs PROVE BackupInv /\ PgDump(r) => BackupInv'
<1> SUFFICES ASSUME BackupInv, PgDump(r) PROVE BackupInv'  OBVIOUS
<1>0. BackupTypeOK /\ Names /\ Files /\ Met /\ NewerAreMet /\ HasDump  BY DEF BackupInv
<1>1. BackupTypeOK'  BY <1>0, BackupTypeKeeps DEF BackupNext
<1> DEFINE n == run[r].name
<1>a. UNCHANGED <<gz, newer, day, logs, archive, remote, sentinel, archived>> /\ run[r].pc = "dump"
  BY DEF PgDump
<1>b. /\ \A q \in Runs \ {r} : run'[q] = run[q]
      /\ SameLegs(r)
      /\ \/ /\ run'[r].pc = "gzip" /\ run'[r].met = run[r].met
            /\ sql' = [sql EXCEPT ![n] =
                         IF \A q \in Runs \ {r} : run[q].pc \in {"dump", "gzip"} => run[q].name # n
                         THEN "whole" ELSE "mixed"]
         \/ run'[r].pc = "logs" /\ run'[r].met = {}
  <2>1. CASE /\ Goto(r, "gzip")
             /\ sql' = [sql EXCEPT ![n] =
                         IF \A q \in Runs \ {r} : run[q].pc \in {"dump", "gzip"} => run[q].name # n
                         THEN "whole" ELSE "mixed"]
    <3>1. run'[r] = [run[r] EXCEPT !.pc = "gzip", !.met = IF "gzip" = "logs" THEN {} ELSE @]
      BY <1>0, <2>1, GotoType
    <3>2. run[r] \in RunRec  BY <1>0 DEF BackupTypeOK, RunRec
    <3>3. run'[r].met = run[r].met  BY <3>1, <3>2 DEF RunRec
    <3> QED  BY <1>0, <2>1, <3>3, GotoType
  <2>2. CASE Goto(r, "logs")
    <3>1. run'[r] = [run[r] EXCEPT !.pc = "logs", !.met = IF "logs" = "logs" THEN {} ELSE @]
      BY <1>0, <2>2, GotoType
    <3>2. run[r] \in RunRec  BY <1>0 DEF BackupTypeOK, RunRec
    <3>3. run'[r].met = {}  BY <3>1, <3>2 DEF RunRec
    <3> QED  BY <1>0, <2>2, <3>3, GotoType
  <2> QED  BY <2>1, <2>2 DEF PgDump
<1>c. run'[r].name = run[r].name /\ run'[r].db = run[r].db /\ run'[r].pc # "new"
  BY <1>b DEF SameLegs
<1>d. Names' /\ \A m \in Runs : Own(m)' <=> Own(m)
  <2>1. ~run[r].db /\ ~run[r].logs /\ run'[r].logs = run[r].logs
    BY <1>0, <1>a, <1>b DEF Names, SameLegs
  <2> QED  BY <1>0, <1>a, <1>b, <1>c, <2>1, Moved
<1>e. \A q \in Runs : run'[q].name = run[q].name /\ run'[q].db = run[q].db
  BY <1>b, <1>c
<1>6. Files'
  <2>1. ASSUME NEW m \in Runs, Own(m)', m # r
        PROVE  run'[m] = run[m] /\ sql'[m] = sql[m]
    <3>1. n # m  BY <1>d, <2>1 DEF Own, SharedName
    <3>2. sql' = sql \/ \E q : sql' = [sql EXCEPT ![n] = q]  BY DEF PgDump
    <3> QED  BY <1>0, <1>b, <2>1, <3>1, <3>2 DEF BackupTypeOK
  <2>2. ASSUME Own(r)', run'[r].name = r, run'[r].pc = "gzip"
        PROVE  sql'[r] = "whole" /\ gz'[r] = "none"
    <3>1. n = r /\ Own(r)  BY <1>c, <1>d, <2>2
    <3>2. gz[r] = "none"  BY <1>0, <1>a, <3>1 DEF Files
    <3>3. \A q \in Runs \ {r} : run[q].name # r  BY <3>1 DEF Own, SharedName
    <3>4. sql' = [sql EXCEPT ![r] = "whole"]  BY <1>b, <2>2, <3>1, <3>3
    <3> QED  BY <1>0, <1>a, <3>2, <3>4 DEF BackupTypeOK
  <2> QED  BY <1>0, <1>a, <1>b, <1>d, <1>e, <2>1, <2>2 DEF Files
<1>7. Met'  BY <1>0, <1>a, <1>b, MetKept DEF Dumping
<1>8. NewerAreMet'
  <2>1. \A q \in Runs : run'[q].pc = "verify" => q # r  BY <1>b
  <2> QED  BY <1>0, <1>a, <1>b, <1>d, <2>1 DEF NewerAreMet, NoShared
<1>9. HasDump'  BY <1>0, <1>a, <1>d, <1>e DEF HasDump, NoShared
<1>10. Logs'  BY <1>a DEF BackupInv, Logs
<1>11. Turns'
  <2>1. \A q \in Runs : Past(q)' => q # r /\ Past(q)  BY <1>b DEF Past
  <2> QED  BY <1>a, <1>b, <2>1 DEF BackupInv, Turns
<1>12. Copies'
  <2>1. ~Past(r)' /\ run'[r].pc # "stamp"  BY <1>b DEF Past
  <2>2. \A m : SharedName(m)' <=> SharedName(m)  BY <1>e DEF SharedName
  <2>3. ASSUME NEW q \in Runs, q # r PROVE run'[q] = run[q]  BY <1>b, <2>3
  <2> QED  BY <1>a, <2>1, <2>2, <2>3 DEF BackupInv, Copies, Past
<1> QED  BY <1>1, <1>d, <1>6, <1>7, <1>8, <1>9, <1>10, <1>11, <1>12 DEF BackupInv

\* Under a name of its own gzip cannot spoil another run's dump.
LEMMA GzipStep == ASSUME NEW r \in Runs PROVE BackupInv /\ Gzip(r) => BackupInv'
<1> SUFFICES ASSUME BackupInv, Gzip(r) PROVE BackupInv'  OBVIOUS
<1>0. BackupTypeOK /\ Names /\ Files /\ Met /\ NewerAreMet /\ HasDump  BY DEF BackupInv
<1>1. BackupTypeOK'  BY <1>0, BackupTypeKeeps DEF BackupNext
<1> DEFINE n == run[r].name
<1>a. /\ UNCHANGED <<sql, day, logs, archive, remote, sentinel, archived>> /\ run[r].pc = "gzip"
      /\ newer' = [x \in Runs |-> IF x \in Dumps \ {n} THEN newer[x] \union {n} ELSE {}]
      /\ n \in Runs
  BY <1>0 DEF Gzip, Names
<1>2. PICK quality \in {sql[n], "torn"} \ {"none"} :
                /\ gz' = [gz EXCEPT ![n] = quality]
                /\ Goto(r, IF quality = "torn" THEN "logs" ELSE "verify")
  BY DEF Gzip
<1>b. /\ \A q \in Runs \ {r} : run'[q] = run[q]
      /\ SameLegs(r)
      /\ \/ run'[r].pc = "verify" /\ run'[r].met = run[r].met /\ quality = sql[n]
         \/ run'[r].pc = "logs" /\ run'[r].met = {}
  <2>1. CASE quality # "torn"
    <3>1. Goto(r, "verify") /\ quality = sql[n]  BY <1>2, <2>1
    <3>2. run'[r] = [run[r] EXCEPT !.pc = "verify", !.met = IF "verify" = "logs" THEN {} ELSE @]
      BY <1>0, <3>1, GotoType
    <3>3. run[r] \in RunRec  BY <1>0 DEF BackupTypeOK, RunRec
    <3>4. run'[r].met = run[r].met  BY <3>2, <3>3 DEF RunRec
    <3> QED  BY <1>0, <3>1, <3>4, GotoType
  <2>2. CASE quality = "torn"
    <3>1. Goto(r, "logs")  BY <1>2, <2>2
    <3>2. run'[r] = [run[r] EXCEPT !.pc = "logs", !.met = IF "logs" = "logs" THEN {} ELSE @]
      BY <1>0, <3>1, GotoType
    <3>3. run[r] \in RunRec  BY <1>0 DEF BackupTypeOK, RunRec
    <3>4. run'[r].met = {}  BY <3>2, <3>3 DEF RunRec
    <3> QED  BY <1>0, <3>1, <3>4, GotoType
  <2> QED  BY <2>1, <2>2
<1>c. run'[r].name = run[r].name /\ run'[r].db = run[r].db /\ run'[r].pc # "new"
  BY <1>b DEF SameLegs
<1>d. Names' /\ \A m \in Runs : Own(m)' <=> Own(m)
  <2>1. ~run[r].db /\ ~run[r].logs /\ run'[r].logs = run[r].logs
    BY <1>0, <1>a, <1>b DEF Names, SameLegs
  <2> QED  BY <1>0, <1>a, <1>b, <1>c, <2>1, Moved
<1>e. \A q \in Runs : run'[q].name = run[q].name /\ run'[q].db = run[q].db
  BY <1>b, <1>c
<1>f. \A m \in Runs : Own(m) /\ m # r => m # n  BY DEF Own, SharedName
<1>6. Files'
  <2>1. ASSUME NEW m \in Runs, Own(m)', m # r
        PROVE  run'[m] = run[m] /\ gz'[m] = gz[m]
    BY <1>0, <1>2, <1>b, <1>d, <1>f, <2>1 DEF BackupTypeOK
  <2>2. ASSUME Own(r)', run'[r].name = r
        PROVE  /\ run'[r].pc = "verify" => gz'[r] = "whole"
               /\ ~run'[r].db
    <3>1. n = r /\ Own(r)  BY <1>c, <1>d, <2>2
    <3>2. sql[r] = "whole"  BY <1>0, <1>a, <3>1 DEF Files
    <3>3. run'[r].pc = "verify" => quality = "whole"  BY <1>b, <3>1, <3>2
    <3>4. ~run[r].db  BY <1>0, <1>a DEF Names
    <3> QED  BY <1>0, <1>2, <1>c, <3>1, <3>3, <3>4 DEF BackupTypeOK
  <2>3. run'[r].pc \notin {"new", "dump", "gzip"}  BY <1>b
  <2> QED  BY <1>0, <1>a, <1>d, <2>1, <2>2, <2>3 DEF Files
<1>7. Met'  BY <1>0, <1>a, <1>b, MetKept DEF Dumping
<1>8. NewerAreMet'
  <2>1. ASSUME NoShared', NEW q \in Runs, run'[q].pc = "verify"
        PROVE  newer'[q] \subseteq run'[q].met
    <3>1. NoShared /\ n = r  BY <1>a, <1>d, <2>1 DEF NoShared, Own, SharedName
    <3>2. CASE q = r  BY <1>a, <3>1, <3>2
    <3>3. CASE q # r
      <4>1. run'[q] = run[q] /\ run[q].pc = "verify"  BY <1>b, <2>1, <3>3
      <4>2. newer[q] \subseteq run[q].met  BY <1>0, <3>1, <4>1 DEF NewerAreMet
      <4>3. r \in run[q].met  BY <1>0, <1>a, <3>3, <4>1 DEF Met, Dumping
      <4> QED  BY <1>a, <3>1, <4>1, <4>2, <4>3
    <3> QED  BY <3>2, <3>3
  <2> QED  BY <2>1 DEF NewerAreMet
<1>9. HasDump'
  <2>1. ASSUME NoShared', sentinel' \/ \E q \in Runs : run'[q].db
        PROVE  \E m \in Runs : gz'[m] = "whole"
    <3>1. NoShared /\ n = r  BY <1>a, <1>d, <2>1 DEF NoShared, Own, SharedName
    <3>2. PICK m \in Runs : gz[m] = "whole"  BY <1>0, <1>a, <1>e, <2>1, <3>1 DEF HasDump
    <3>3. gz[r] = "none"  BY <1>0, <1>a, <3>1 DEF Files, NoShared
    <3>4. m # n  BY <3>1, <3>2, <3>3
    <3>5. gz'[m] = "whole"  BY <1>0, <1>2, <3>2, <3>4 DEF BackupTypeOK
    <3> QED  BY <3>5
  <2> QED  BY <2>1 DEF HasDump
<1>10. Logs'  BY <1>a DEF BackupInv, Logs
<1>11. Turns'
  <2>1. \A q \in Runs : Past(q)' => q # r /\ Past(q)  BY <1>b DEF Past
  <2> QED  BY <1>a, <1>b, <2>1 DEF BackupInv, Turns
<1>12. Copies'
  <2>1. ~Past(r)' /\ run'[r].pc # "stamp"  BY <1>b DEF Past
  <2>2. \A m : SharedName(m)' <=> SharedName(m)  BY <1>e DEF SharedName
  <2>3. ASSUME NEW q \in Runs, q # r PROVE run'[q] = run[q]  BY <1>b, <2>3
  <2> QED  BY <1>a, <2>1, <2>2, <2>3 DEF BackupInv, Copies, Past
<1> QED  BY <1>1, <1>d, <1>6, <1>7, <1>8, <1>9, <1>10, <1>11, <1>12 DEF BackupInv

\* Pruning after a verification keeps the dump that was verified.
LEMMA VerifyStep == ASSUME NEW r \in Runs PROVE BackupInv /\ VerifyDump(r) => BackupInv'
<1> SUFFICES ASSUME BackupInv, VerifyDump(r) PROVE BackupInv'  OBVIOUS
<1>0. BackupTypeOK /\ Names /\ Files /\ Met /\ NewerAreMet /\ HasDump  BY DEF BackupInv
<1>1. BackupTypeOK'  BY <1>0, BackupTypeKeeps DEF BackupNext
<1> DEFINE n == run[r].name
<1>a. /\ UNCHANGED <<day, logs, archive, remote, sentinel, archived>> /\ run[r].pc = "verify"
      /\ n \in Runs /\ ~run[r].db /\ ~run[r].logs
  BY <1>0 DEF VerifyDump, Names
<1>b. /\ \A q \in Runs \ {r} : run'[q] = run[q]
      /\ run'[r].pc = "logs" /\ run'[r].met = {} /\ run'[r].name = n
      /\ run'[r].logs = run[r].logs
  <2>1. CASE Goto(r, "logs")
    <3>1. run'[r] = [run[r] EXCEPT !.pc = "logs", !.met = IF "logs" = "logs" THEN {} ELSE @]
      BY <1>0, <2>1, GotoType
    <3>2. run[r] \in RunRec  BY <1>0 DEF BackupTypeOK, RunRec
    <3>3. run'[r].met = {}  BY <3>1, <3>2 DEF RunRec
    <3> QED  BY <1>0, <2>1, <3>3, GotoType DEF SameLegs
  <2>2. CASE run' = [run EXCEPT ![r].pc = "logs", ![r].met = {}, ![r].db = TRUE]
    BY <1>0, <2>2, VerifiedType
  <2> QED  BY <2>1, <2>2 DEF VerifyDump
<1>2. \/ run'[r].db = FALSE /\ UNCHANGED <<gz, newer, sql>>
      \/ /\ gz[n] \in {"whole", "mixed"} /\ run'[r].db = TRUE
         /\ \E gone \in {SelectFilesToPrune, {}} :
                 /\ gz' = [x \in Runs |-> IF x \in gone THEN "none" ELSE gz[x]]
                 /\ newer' = [x \in Runs |-> IF x \in gone THEN {} ELSE newer[x] \ gone]
         /\ sql' = [sql EXCEPT ![n] = "none"]
  <2>1. CASE Goto(r, "logs") /\ UNCHANGED <<gz, newer, sql>>
    BY <1>0, <1>a, <2>1, GotoType DEF SameLegs, BackupTypeOK
  <2>2. CASE run' = [run EXCEPT ![r].pc = "logs", ![r].met = {}, ![r].db = TRUE]
    <3>1. run'[r].db = TRUE  BY <1>0, <2>2, VerifiedType DEF BackupTypeOK
    <3>2. ~(Goto(r, "logs") /\ UNCHANGED <<gz, newer, sql>>)
      BY <1>0, <1>a, <3>1, GotoType DEF SameLegs
    <3> QED  BY <3>1, <3>2 DEF VerifyDump
  <2> QED  BY <2>1, <2>2 DEF VerifyDump
<1>d. Names' /\ \A m \in Runs : Own(m)' <=> Own(m)
  BY <1>0, <1>a, <1>b, Moved
<1>e. \A q \in Runs : run'[q].name = run[q].name
  BY <1>b
<1>f. \A m \in Runs : Own(m) /\ m # r => m # n  BY DEF Own, SharedName
<1>g. \A m \in Runs : gz'[m] \in {gz[m], "none"} /\ newer'[m] \subseteq newer[m]
  BY <1>0, <1>2 DEF BackupTypeOK
<1>6. Files'
  <2>1. ASSUME NEW m \in Runs, Own(m)', m # r
        PROVE  run'[m] = run[m] /\ sql'[m] = sql[m] /\ (gz[m] = "none" => gz'[m] = "none")
    BY <1>0, <1>2, <1>b, <1>d, <1>f, <1>g, <2>1 DEF BackupTypeOK
  <2>2. ASSUME Own(r)', run'[r].name = r PROVE gz'[r] \in {"none", "whole"}
    BY <1>0, <1>a, <1>b, <1>d, <1>g, <2>2 DEF Files
  <2>3. ASSUME NEW m \in Runs, Own(m)', m # r
        PROVE /\ run'[m].pc = "new" => sql'[m] = "none" /\ gz'[m] = "none"
              /\ run'[m].name = m /\ run'[m].pc = "dump" => sql'[m] = "none" /\ gz'[m] = "none"
              /\ run'[m].name = m /\ run'[m].pc = "gzip" => sql'[m] = "whole" /\ gz'[m] = "none"
              /\ run'[m].name = m /\ (run'[m].pc = "verify" \/ run'[m].db) => gz'[m] \in {"none", "whole"}
    BY <1>0, <1>d, <1>g, <2>1, <2>3 DEF Files
  <2> QED  BY <1>b, <2>2, <2>3 DEF Files
<1>7. Met'  BY <1>0, <1>a, <1>b, MetKept DEF Dumping
<1>8. NewerAreMet'
  <2>1. ASSUME NoShared', NEW q \in Runs, run'[q].pc = "verify"
        PROVE  newer'[q] \subseteq run'[q].met
    <3>1. NoShared /\ q # r  BY <1>b, <1>d, <2>1 DEF NoShared
    <3>2. newer[q] \subseteq run[q].met /\ run'[q] = run[q]  BY <1>0, <1>b, <2>1, <3>1 DEF NewerAreMet
    <3> QED  BY <1>g, <3>2
  <2> QED  BY <2>1 DEF NewerAreMet
<1>9. HasDump'
  <2>1. ASSUME NoShared', run'[r].db = TRUE PROVE gz'[n] = "whole"
    <3>1. NoShared /\ n = r  BY <1>a, <1>d, <2>1 DEF NoShared, Own, SharedName
    <3>2. gz[n] = "whole"  BY <1>0, <1>2, <1>a, <2>1, <3>1 DEF Files, NoShared
    <3>3. newer[n] \subseteq run[r].met  BY <1>0, <1>a, <3>1 DEF NewerAreMet
    <3>4. Cardinality(newer[n]) < KEEP
      <4>1. IsFiniteSet(run[r].met)  BY <1>0, FS_Subset, RunsAssumption DEF BackupTypeOK
      <4>2. Cardinality(newer[n]) <= Cardinality(run[r].met)  BY <3>3, <4>1, FS_Subset
      <4>3. IsFiniteSet(newer[n])  BY <3>3, <4>1, FS_Subset
      <4>4. Cardinality(newer[n]) \in Nat /\ Cardinality(run[r].met) \in Nat
        BY <4>1, <4>3, FS_CardinalityType
      <4> QED  BY <1>0, <4>2, <4>4, KeepAssumption DEF Met
    <3>5. n \notin SelectFilesToPrune
      <4>1. IsFiniteSet(newer[n])  BY <1>0, <1>a, FS_Subset, RunsAssumption DEF BackupTypeOK
      <4>2. Cardinality(newer[n]) \in Nat  BY <4>1, FS_CardinalityType
      <4> QED  BY <3>4, <4>2, KeepAssumption DEF SelectFilesToPrune
    <3> QED  BY <1>2, <1>a, <2>1, <3>2, <3>5
  <2>2. ASSUME NoShared', run'[r].db # TRUE, sentinel' \/ \E q \in Runs : run'[q].db
        PROVE  \E m \in Runs : gz'[m] = "whole"
    <3>1. NoShared  BY <1>d, <2>2 DEF NoShared
    <3>2. UNCHANGED gz /\ run'[r].db = FALSE  BY <1>2, <2>2
    <3>3. (\E q \in Runs : run'[q].db) => \E q \in Runs : run[q].db  BY <1>b, <3>2
    <3> QED  BY <1>0, <1>a, <2>2, <3>1, <3>2, <3>3 DEF HasDump
  <2> QED  BY <1>a, <2>1, <2>2 DEF HasDump
<1>10. Logs'  BY <1>a DEF BackupInv, Logs
<1>11. Turns'
  <2>1. \A q \in Runs : Past(q)' => q # r /\ Past(q)  BY <1>b DEF Past
  <2> QED  BY <1>a, <1>b, <2>1 DEF BackupInv, Turns
<1>12. Copies'
  <2>1. ~Past(r)' /\ run'[r].pc # "stamp"  BY <1>b DEF Past
  <2>2. \A m : SharedName(m)' <=> SharedName(m)  BY <1>e DEF SharedName
  <2>3. ASSUME NEW q \in Runs, q # r PROVE run'[q] = run[q]  BY <1>b, <2>3
  <2> QED  BY <1>a, <2>1, <2>2, <2>3 DEF BackupInv, Copies, Past
<1> QED  BY <1>1, <1>d, <1>6, <1>7, <1>8, <1>9, <1>10, <1>11, <1>12 DEF BackupInv

\* The first run that comes to a day's log keeps or archives it.
LEMMA LogsStep == ASSUME NEW r \in Runs PROVE BackupInv /\ BackupLogs(r) => BackupInv'
<1> SUFFICES ASSUME BackupInv, BackupLogs(r) PROVE BackupInv'  OBVIOUS
<1>0. BackupTypeOK /\ Names /\ Files /\ Met /\ NewerAreMet /\ HasDump /\ Logs /\ Turns /\ Copies
  BY DEF BackupInv
<1>1. BackupTypeOK'  BY <1>0, BackupTypeKeeps DEF BackupNext
<1>a. /\ UNCHANGED <<sql, gz, newer, day, remote, sentinel>> /\ run[r].pc = "logs" /\ day \in Days
      /\ archived' = [archived EXCEPT ![day] = IF @ = 0 THEN 1 ELSE 2]
  BY <1>0 DEF BackupLogs, BackupTypeOK
<1>b. /\ \A q \in Runs \ {r} : run'[q] = run[q]
      /\ run'[r].pc = "ship" /\ run'[r].name = run[r].name /\ run'[r].day = day
      /\ run'[r].met = run[r].met /\ run'[r].db = run[r].db
  BY <1>0, LoggedType
<1>c. \A q \in Runs : run'[q].name = run[q].name /\ run'[q].db = run[q].db  BY <1>b
<1>d. Names' /\ \A m \in Runs : Own(m)' <=> Own(m)
  BY <1>0, <1>a, <1>b, Moved
<1>6. Files'
  <2>1. run'[r].pc \notin {"new", "dump", "gzip", "verify"}  BY <1>b
  <2> QED  BY <1>0, <1>a, <1>b, <1>c, <1>d, <2>1 DEF Files
<1>7. Met'  BY <1>0, <1>a, <1>b, MetKept DEF Dumping
<1>8. NewerAreMet'
  <2>1. \A q \in Runs : run'[q].pc = "verify" => q # r  BY <1>b
  <2> QED  BY <1>0, <1>a, <1>b, <1>d, <2>1 DEF NewerAreMet, NoShared
<1>9. HasDump'  BY <1>0, <1>a, <1>c, <1>d DEF HasDump, NoShared
<1>2. \A d \in Days : archived'[d] = IF d # day THEN archived[d]
                                    ELSE IF archived[d] = 0 THEN 1 ELSE 2
  BY <1>0, <1>a DEF BackupTypeOK
<1>3. \A d \in Days \ {day} : logs'[d] = logs[d] /\ archive'[d] = archive[d]
  BY <1>0, <1>a DEF BackupTypeOK, BackupLogs
<1>4. \/ archive'[day] = "whole" /\ logs'[day] = "gone"
      \/ archive'[day] = "torn" /\ logs' = logs /\ run'[r].logs = run[r].logs
  <2>1. CASE archive' = [archive EXCEPT ![day] = "whole"] /\ logs' = [logs EXCEPT ![day] = "gone"]
    BY <1>0, <1>a, <2>1 DEF BackupTypeOK
  <2>2. CASE /\ archive' = [archive EXCEPT ![day] = "torn"] /\ UNCHANGED logs
             /\ run' = [run EXCEPT ![r].pc = "ship", ![r].day = day]
    <3>1. run[r] \in RunRec  BY <1>0 DEF BackupTypeOK, RunRec
    <3>2. run'[r] = [run[r] EXCEPT !.pc = "ship", !.day = day]  BY <1>0, <2>2 DEF BackupTypeOK
    <3> QED  BY <1>0, <1>a, <2>2, <3>1, <3>2 DEF BackupTypeOK, RunRec
  <2> QED  BY <2>1, <2>2 DEF BackupLogs
<1>10. Logs'
  <2>1. ASSUME NEW d \in Days, archived'[d] = 0 PROVE logs'[d] = "live"
    <3>1. d # day /\ archived[d] = 0  BY <1>2, <2>1
    <3> QED  BY <1>0, <1>3, <3>1 DEF Logs
  <2>2. ASSUME NEW d \in Days, archived'[d] = 1 PROVE logs'[d] = "live" \/ archive'[d] = "whole"
    <3>1. CASE d # day  BY <1>0, <1>2, <1>3, <2>2, <3>1 DEF Logs
    <3>2. CASE d = day
      <4>1. archived[d] = 0  BY <1>2, <2>2, <3>2
      <4>2. logs[d] = "live"  BY <1>0, <4>1 DEF Logs
      <4> QED  BY <1>4, <3>2, <4>2
    <3> QED  BY <3>1, <3>2
  <2> QED  BY <2>1, <2>2 DEF Logs
<1>11. Turns'
  <2>1. \A q \in Runs : Past(q)' <=> q = r \/ Past(q)  BY <1>a, <1>b DEF Past
  <2>2. \A d \in Days : archived[d] # 0 => archived'[d] # 0  BY <1>2
  <2>3. \A d \in Days : archived[d] = 2 => archived'[d] = 2  BY <1>2
  <2>4. ASSUME NEW q \in Runs, Past(q)' PROVE archived'[run'[q].day] # 0
    <3>1. CASE q = r  BY <1>2, <1>a, <1>b, <3>1
    <3>2. CASE q # r
      <4>1. Past(q) /\ run'[q].day = run[q].day /\ run[q].day \in Days
        BY <1>0, <1>b, <2>1, <2>4, <3>2 DEF BackupTypeOK
      <4> QED  BY <1>0, <2>2, <4>1 DEF Turns
    <3> QED  BY <3>1, <3>2
  <2>5. ASSUME NEW q \in Runs, q # r, Past(q)', run'[q].day = day PROVE archived'[day] = 2
    <3>1. Past(q) /\ run[q].day = day  BY <1>b, <2>1, <2>5
    <3>2. archived[day] # 0  BY <1>0, <3>1 DEF Turns
    <3> QED  BY <1>2, <1>a, <3>2
  <2>6. ASSUME NEW p \in Runs, NEW q \in Runs, Past(p)', Past(q)', p # q, run'[p].day = run'[q].day
        PROVE  archived'[run'[p].day] = 2
    <3>1. CASE p = r \/ q = r  BY <1>b, <2>5, <2>6, <3>1
    <3>2. CASE p # r /\ q # r
      <4>1. Past(p) /\ Past(q) /\ run[p].day = run[q].day /\ run'[p].day = run[p].day
        BY <1>b, <2>1, <2>6, <3>2
      <4>2. archived[run[p].day] = 2 /\ run[p].day \in Days
        BY <1>0, <2>6, <4>1 DEF Turns, BackupTypeOK
      <4> QED  BY <2>3, <4>1, <4>2
    <3> QED  BY <3>1, <3>2
  <2> QED  BY <2>4, <2>6 DEF Turns
<1>12. Copies'
  <2>1. \A m : SharedName(m)' <=> SharedName(m)  BY <1>c DEF SharedName
  <2>2. \A d \in Days : archived[d] = 2 => archived'[d] = 2  BY <1>2
  <2>3. ASSUME NEW q \in Runs, Past(q)', run'[q].logs
        PROVE  archive'[run'[q].day] = "whole" \/ archived'[run'[q].day] = 2
    <3>1. run'[q].day \in Days  BY <1>1 DEF BackupTypeOK
    <3>2. CASE q = r
      <4>1. ~run[r].logs  BY <1>0, <1>a DEF Names
      <4> QED  BY <1>4, <1>b, <2>3, <3>2, <4>1
    <3>3. CASE q # r
      <4>1. Past(q) /\ run'[q] = run[q]  BY <1>b, <2>3, <3>3 DEF Past
      <4>2. CASE run[q].day = day
        <5>1. archived[day] # 0  BY <1>0, <4>1, <4>2 DEF Turns
        <5> QED  BY <1>2, <1>a, <4>1, <4>2, <5>1
      <4>3. CASE run[q].day # day
        <5>1. archive[run[q].day] = "whole" \/ archived[run[q].day] = 2
          BY <1>0, <2>3, <4>1 DEF Copies
        <5> QED  BY <1>2, <1>3, <3>1, <4>1, <4>3, <5>1
      <4> QED  BY <4>2, <4>3
    <3> QED  BY <3>2, <3>3
  <2>4. ASSUME NEW q \in Runs, run'[q].pc = "stamp"
        PROVE  /\ q # r /\ run'[q] = run[q] /\ run[q].day \in Days
    BY <1>0, <1>b, <2>4 DEF BackupTypeOK
  <2> QED  BY <1>0, <1>a, <2>1, <2>2, <2>3, <2>4 DEF Copies
<1> QED  BY <1>1, <1>d, <1>6, <1>7, <1>8, <1>9, <1>10, <1>11, <1>12 DEF BackupInv

\* What is copied is readable, unless a name or a log was shared.
LEMMA ShipStep == ASSUME NEW r \in Runs PROVE BackupInv /\ RemoteBackup(r) => BackupInv'
<1> SUFFICES ASSUME BackupInv, RemoteBackup(r) PROVE BackupInv'  OBVIOUS
<1>0. BackupTypeOK /\ Names /\ Files /\ Met /\ NewerAreMet /\ HasDump /\ Logs /\ Turns /\ Copies
  BY DEF BackupInv
<1>1. BackupTypeOK'  BY <1>0, BackupTypeKeeps DEF BackupNext
<1>a. UNCHANGED <<sql, gz, newer, day, logs, archive, sentinel, archived>> /\ run[r].pc = "ship"
  BY DEF RemoteBackup
<1>b. /\ \A q \in Runs \ {r} : run'[q] = run[q]
      /\ run'[r].pc = "stamp" /\ run'[r].name = run[r].name /\ run'[r].day = run[r].day
      /\ run'[r].met = run[r].met /\ run'[r].db = run[r].db /\ run'[r].logs = run[r].logs
  BY <1>0, ShippedType
<1>2. /\ remote'.dump = [remote.dump EXCEPT ![run[r].name] =
                            IF run'[r].rdb = "ok" THEN gz[run[r].name] ELSE @]
      /\ remote'.log = [remote.log EXCEPT ![run[r].day] =
                            IF run'[r].rlogs = "ok" THEN archive[run[r].day] ELSE @]
      /\ run'[r].rdb = "ok" => run[r].db /\ gz[run[r].name] # "none"
      /\ run'[r].rlogs = "ok" => run[r].logs
  BY <1>0, ShippedType
<1>c. \A q \in Runs : run'[q].name = run[q].name /\ run'[q].db = run[q].db  BY <1>b
<1>d. Names' /\ \A m \in Runs : Own(m)' <=> Own(m)
  BY <1>0, <1>a, <1>b, Moved
<1>6. Files'
  <2>1. run'[r].pc \notin {"new", "dump", "gzip", "verify"}  BY <1>b
  <2> QED  BY <1>0, <1>a, <1>b, <1>c, <1>d, <2>1 DEF Files
<1>7. Met'  BY <1>0, <1>a, <1>b, MetKept DEF Dumping
<1>8. NewerAreMet'
  <2>1. \A q \in Runs : run'[q].pc = "verify" => q # r  BY <1>b
  <2> QED  BY <1>0, <1>a, <1>b, <1>d, <2>1 DEF NewerAreMet, NoShared
<1>9. HasDump'  BY <1>0, <1>a, <1>c, <1>d DEF HasDump, NoShared
<1>10. Logs'  BY <1>0, <1>a DEF Logs
<1>11. Turns'
  <2>1. \A q \in Runs : (Past(q)' <=> Past(q)) /\ run'[q].day = run[q].day  BY <1>a, <1>b DEF Past
  <2> QED  BY <1>0, <1>a, <2>1 DEF Turns
<1>12. Copies'
  <2>1. \A m : SharedName(m)' <=> SharedName(m)  BY <1>c DEF SharedName
  <2>2. /\ remote.dump \in [Runs -> {"none", "whole", "mixed", "torn"}]
        /\ remote.log \in [Days -> {"none", "whole", "torn"}]
        /\ run[r].name \in Runs /\ run[r].day \in Days
    BY <1>0, <1>a DEF BackupTypeOK, Names
  <2>3. ASSUME NEW q \in Runs, Past(q)', run'[q].logs
        PROVE  archive'[run'[q].day] = "whole" \/ archived'[run'[q].day] = 2
    BY <1>0, <1>a, <1>b, <2>3 DEF Copies, Past
  <2>4. ASSUME NEW q \in Runs, run'[q].pc = "stamp", run'[q].rlogs = "ok"
        PROVE  remote'.log[run'[q].day] = "whole" \/ archived'[run'[q].day] = 2
    <3>1. CASE q = r
      <4>1. archive[run[r].day] = "whole" \/ archived[run[r].day] = 2
        BY <1>0, <1>2, <1>a, <2>4, <3>1 DEF Copies, Past
      <4>2. remote'.log[run[r].day] = archive[run[r].day]  BY <1>2, <2>2, <2>4, <3>1
      <4> QED  BY <1>a, <1>b, <3>1, <4>1, <4>2
    <3>2. CASE q # r
      <4>1. run'[q] = run[q] /\ run[q].day \in Days  BY <1>0, <1>b, <3>2 DEF BackupTypeOK
      <4>2. remote.log[run[q].day] = "whole" \/ archived[run[q].day] = 2
        BY <1>0, <2>4, <4>1 DEF Copies
      <4>3. CASE run[q].day = run[r].day
        <5>1. archived[run[q].day] = 2  BY <1>0, <1>a, <2>4, <3>2, <4>1, <4>3 DEF Turns, Past
        <5> QED  BY <1>a, <4>1, <5>1
      <4>4. CASE run[q].day # run[r].day  BY <1>2, <1>a, <2>2, <4>1, <4>2, <4>4
      <4> QED  BY <4>3, <4>4
    <3> QED  BY <3>1, <3>2
  <2>5. ASSUME NEW q \in Runs, run'[q].pc = "stamp", run'[q].rdb = "ok"
        PROVE  remote'.dump[run'[q].name] = "whole" \/ SharedName(run[q].name)
    <3>1. CASE q = r
      <4>1. ASSUME ~SharedName(run[r].name) PROVE gz[run[r].name] = "whole"
        <5>1. run[r].name = r /\ Own(r)  BY <2>2, <4>1 DEF Own, SharedName
        <5>2. gz[r] \in {"none", "whole"}  BY <1>0, <1>2, <2>5, <3>1, <5>1 DEF Files
        <5> QED  BY <1>2, <2>5, <3>1, <5>1, <5>2
      <4>2. remote'.dump[run[r].name] = gz[run[r].name]  BY <1>2, <2>2, <2>5, <3>1
      <4> QED  BY <1>b, <3>1, <4>1, <4>2
    <3>2. CASE q # r
      <4>1. run'[q] = run[q] /\ run[q].name \in Runs  BY <1>0, <1>b, <2>5, <3>2 DEF Names
      <4>2. remote.dump[run[q].name] = "whole" \/ SharedName(run[q].name)
        BY <1>0, <2>5, <4>1 DEF Copies
      <4>3. CASE run[q].name = run[r].name  BY <3>2, <4>3, <2>2 DEF SharedName
      <4>4. CASE run[q].name # run[r].name  BY <1>2, <2>2, <4>1, <4>2, <4>4
      <4> QED  BY <4>3, <4>4
    <3> QED  BY <3>1, <3>2
  <2>6. \A q \in Runs : SharedName(run[q].name)' <=> SharedName(run[q].name)
    BY <1>c DEF SharedName
  <2> QED  BY <2>3, <2>4, <2>5, <2>6 DEF Copies
<1> QED  BY <1>1, <1>d, <1>6, <1>7, <1>8, <1>9, <1>10, <1>11, <1>12 DEF BackupInv

\* The sentinel is stamped by a run whose dump has passed.
LEMMA StampStep == ASSUME NEW r \in Runs PROVE BackupInv /\ StampBackupSuccess(r) => BackupInv'
<1> SUFFICES ASSUME BackupInv, StampBackupSuccess(r) PROVE BackupInv'  OBVIOUS
<1>0. BackupTypeOK /\ Names /\ Files /\ Met /\ NewerAreMet /\ HasDump /\ Logs /\ Turns /\ Copies
  BY DEF BackupInv
<1>1. BackupTypeOK'  BY <1>0, BackupTypeKeeps DEF BackupNext
<1>a. /\ UNCHANGED <<sql, gz, newer, day, logs, archive, remote, archived>> /\ run[r].pc = "stamp"
      /\ sentinel' => sentinel \/ run[r].db
  BY DEF StampBackupSuccess
<1>b. /\ \A q \in Runs \ {r} : run'[q] = run[q]
      /\ run'[r].pc = "over" /\ run'[r].name = run[r].name /\ run'[r].met = {}
      /\ run'[r].db = FALSE /\ run'[r].logs = FALSE
  BY <1>0, OverType DEF StampBackupSuccess, BackupTypeOK
<1>c. \A q \in Runs : run'[q].name = run[q].name  BY <1>b
<1>d. Names' /\ \A m \in Runs : Own(m)' <=> Own(m)
  BY <1>0, <1>a, <1>b, Moved
<1>6. Files'
  <2>1. run'[r].pc \notin {"new", "dump", "gzip", "verify"}  BY <1>b
  <2> QED  BY <1>0, <1>a, <1>b, <1>c, <1>d, <2>1 DEF Files
<1>7. Met'  BY <1>0, <1>a, <1>b, MetKept DEF Dumping
<1>8. NewerAreMet'
  <2>1. \A q \in Runs : run'[q].pc = "verify" => q # r  BY <1>b
  <2> QED  BY <1>0, <1>a, <1>b, <1>d, <2>1 DEF NewerAreMet, NoShared
<1>9. HasDump'
  <2>1. \A q \in Runs : run'[q].db => run[q].db  BY <1>b
  <2> QED  BY <1>0, <1>a, <1>d, <2>1 DEF HasDump, NoShared
<1>10. Logs'  BY <1>0, <1>a DEF Logs
<1>11. Turns'
  <2>1. \A q \in Runs : Past(q)' => q # r /\ Past(q)  BY <1>b DEF Past
  <2> QED  BY <1>0, <1>a, <1>b, <2>1 DEF Turns
<1>12. Copies'
  <2>1. ~Past(r)' /\ run'[r].pc # "stamp"  BY <1>b DEF Past
  <2>2. \A m : SharedName(m)' <=> SharedName(m)  BY <1>c DEF SharedName
  <2>3. ASSUME NEW q \in Runs, q # r PROVE run'[q] = run[q]  BY <1>b, <2>3
  <2> QED  BY <1>0, <1>a, <2>1, <2>2, <2>3 DEF Copies, Past
<1> QED  BY <1>1, <1>d, <1>6, <1>7, <1>8, <1>9, <1>10, <1>11, <1>12 DEF BackupInv

LEMMA InitBackup == BackupInit => BackupInv
<1> SUFFICES ASSUME BackupInit PROVE BackupInv  OBVIOUS
<1>1. BackupTypeOK  BY BackupTypeInit
<1>2. \A r \in Runs : run[r] = New  BY DEF BackupInit
<1>3. Names
  <2>1. New.pc = "new" /\ New.db = FALSE /\ New.logs = FALSE  BY DEF New
  <2> QED  BY <1>2, <2>1 DEF Names
<1>4. Files  BY <1>2 DEF Files, New, BackupInit
<1>5. Met
  <2>1. Cardinality({}) < KEEP  BY FS_EmptySet, KeepAssumption
  <2>2. Dumping = {}  BY <1>2 DEF Dumping, New
  <2> QED  BY <1>2, <2>1, <2>2 DEF Met, New
<1>6. NewerAreMet /\ HasDump  BY <1>2 DEF NewerAreMet, HasDump, New, BackupInit
<1>7. Logs /\ Turns /\ Copies  BY <1>2 DEF Logs, Turns, Copies, Past, New, BackupInit
<1> QED  BY <1>1, <1>3, <1>4, <1>5, <1>6, <1>7 DEF BackupInv

LEMMA BackupStep == BackupInv /\ [BackupNext]_backupVars => BackupInv'
<1> SUFFICES ASSUME BackupInv, [BackupNext]_backupVars PROVE BackupInv'  OBVIOUS
<1>1. CASE UNCHANGED backupVars
  <2>1. BackupTypeOK'  BY <1>1, BackupTypeKeeps DEF BackupInv
  <2> QED  BY <1>1, <2>1 DEF BackupInv, backupVars, Names, Files, Own, SharedName, Met, Dumping, NewerAreMet,
                     NoShared, HasDump, Logs, Turns, Past, Copies, New
<1>2. CASE Midnight \/ Stop  BY <1>2, MidnightStep, StopStep
<1>3. ASSUME NEW r \in Runs, \/ Begin(r) \/ PgDump(r) \/ Gzip(r) \/ VerifyDump(r)
                              \/ BackupLogs(r) \/ RemoteBackup(r) \/ StampBackupSuccess(r)
      PROVE  BackupInv'
  BY <1>3, BeginStep, PgDumpStep, GzipStep, VerifyStep, LogsStep, ShipStep, StampStep
<1> QED  BY <1>1, <1>2, <1>3 DEF BackupNext

LEMMA InvRemains == BackupInv => BackupsRemain
<1> SUFFICES ASSUME BackupInv PROVE BackupsRemain  OBVIOUS
<1>1. SentinelHasDump  BY DEF BackupInv, HasDump, NoShared, Own, SentinelHasDump
<1>2. LogKept
  <2>1. \A d \in Days : archived[d] \in 0 .. 2  BY DEF BackupInv, BackupTypeOK
  <2>2. \A d \in Days : archived[d] \in {0, 1, 2}  BY <2>1
  <2> QED  BY <2>2 DEF BackupInv, Logs, LogKept
<1>3. DigestIsTrue  BY DEF BackupInv, Copies, DigestIsTrue
<1> QED  BY <1>1, <1>2, <1>3 DEF BackupsRemain

\* BackupsRemain is an invariant: through failing, overlapping and interrupted
\* runs of the pipeline (daily-docker.sh) a verified dump survives every
\* pruning, no day's log is lost and no digest claims a copy that is not there,
\* but for the collisions the property names.
THEOREM GoodBackupsRemain == BackupSpec => []BackupsRemain
<1>1. BackupSpec => []BackupInv  BY InitBackup, BackupStep, PTL DEF BackupSpec
<1> QED  BY <1>1, InvRemains, PTL

-----------------------------------------------------------------------------
(* All of them                                                             *)

\* Whatever the lives of the flag and of the lock.
LEMMA TriggerTypeKeeps == TriggerTypeOK /\ [TriggerNext]_triggerVars => TriggerTypeOK'
<1> SUFFICES ASSUME TriggerTypeOK, [TriggerNext]_triggerVars PROVE TriggerTypeOK'
  OBVIOUS
<1> USE TTLAssumption
<1>1. CASE UNCHANGED triggerVars
  BY <1>1 DEF triggerVars, TriggerTypeOK
<1>2. CASE trigger_backup
  <2>1. flag' \in 0 .. FLAG_TTL
    BY <1>2 DEF trigger_backup
  <2>2. unread' \in BOOLEAN
    BY <1>2, Zenon DEF trigger_backup
  <2>3. QED BY <1>2, <2>1, <2>2, Zenon DEF trigger_backup, TriggerTypeOK
<1>3. CASE Minute
  <2>1. flag' \in 0 .. FLAG_TTL /\ lock' \in 0 .. LOCK_TTL /\ mishap' \in 0 .. LOCK_TTL
    <3>1. /\ flag \in 0 .. FLAG_TTL /\ lock \in 0 .. LOCK_TTL /\ mishap \in 0 .. LOCK_TTL
          /\ flag' = Less(flag) /\ lock' = Less(lock) /\ mishap' = Less(mishap)
      BY <1>3, Zenon DEF Minute, TriggerTypeOK
    <3>2. QED BY <3>1 DEF Less
  <2>2. fate' \in Fates
    BY <1>3 DEF Minute, TriggerTypeOK, Fates
  <2>3. polled' \in BOOLEAN /\ overran' \in BOOLEAN /\ UNCHANGED <<down, poller, unread>>
    BY <1>3, Zenon DEF Minute, TriggerTypeOK
  <2>4. QED BY <2>1, <2>2, <2>3 DEF TriggerTypeOK
<1>4. CASE ContainerStops \/ ContainerStarts
  <2>1. mishap' \in 0 .. LOCK_TTL
    BY <1>4 DEF ContainerStops, ContainerStarts, TriggerTypeOK
  <2>2. poller' \in [Pollers -> {"idle", "consumed", "running", "finished", "abandoned"}]
    BY <1>4 DEF ContainerStops, ContainerStarts, TriggerTypeOK
  <2>3. fate' \in Fates
    BY <1>4 DEF ContainerStops, ContainerStarts, TriggerTypeOK, Fates
  <2>4. polled' \in BOOLEAN /\ down' \in BOOLEAN /\ UNCHANGED <<flag, lock, overran, unread>>
    BY <1>4, Zenon DEF ContainerStops, ContainerStarts, TriggerTypeOK
  <2>5. QED BY <2>1, <2>2, <2>3, <2>4 DEF TriggerTypeOK
<1>5. ASSUME NEW p \in Pollers, Step(p) PROVE TriggerTypeOK'
  <2>1. flag' \in 0 .. FLAG_TTL /\ lock' \in 0 .. LOCK_TTL /\ mishap' \in 0 .. LOCK_TTL
    <3>1. /\ flag \in 0 .. FLAG_TTL /\ lock \in 0 .. LOCK_TTL /\ mishap \in 0 .. LOCK_TTL
          /\ flag' \in {flag, 0} /\ lock' \in {lock, 0, LOCK_TTL} /\ mishap' \in {mishap, LOCK_TTL}
      BY <1>5, StepIs DEF TriggerTypeOK
    <3>2. QED BY <3>1
  <2>2. poller' \in [Pollers -> {"idle", "consumed", "running", "finished", "abandoned"}]
    BY <1>5, StepPoller DEF PollerStates
  <2>3. fate' \in Fates
    <3>1. fate' \in {fate, "run", "in flight", "orphaned", "lost"}
      BY <1>5, StepIs
    <3>2. QED BY <3>1 DEF TriggerTypeOK, Fates
  <2>4. polled' \in BOOLEAN /\ unread' \in BOOLEAN /\ UNCHANGED <<down, overran>>
    <3>1. polled' \in {polled, TRUE} /\ unread' \in BOOLEAN /\ UNCHANGED <<down, overran>>
      BY <1>5, StepIs
    <3>2. QED BY <3>1, Zenon DEF TriggerTypeOK
  <2>5. QED BY <2>1, <2>2, <2>3, <2>4 DEF TriggerTypeOK
<1>6. QED BY <1>1, <1>2, <1>3, <1>4, <1>5 DEF TriggerNext, Step

\* The parts run side by side: each of them as it would alone, or it rests.
LEMMA Parts == Spec => BackupSpec /\ TriggerSpec /\ AdminSpec /\ SessionsSpec
<1>1. Init => BackupInit /\ TriggerInit /\ OpsInit /\ SessionsInit
  BY DEF Init
<1>2. [Next]_vars => /\ [BackupNext]_backupVars /\ [TriggerNext]_triggerVars
                     /\ [JobsNext \/ RequestsNext(Ops)]_opsVars
                     /\ [SessionsNext]_sessionsVars
  <2>1. OpsNext => JobsNext \/ RequestsNext(Ops)
    BY DEF OpsNext, RequestsNext, Ops
  <2>2. Next => /\ [BackupNext]_backupVars /\ [TriggerNext]_triggerVars
                /\ [JobsNext \/ RequestsNext(Ops)]_opsVars
                /\ [SessionsNext]_sessionsVars
    BY <2>1, Zenon DEF Next, RunsNext
  <2>3. UNCHANGED vars => UNCHANGED <<backupVars, triggerVars, opsVars, sessionsVars>>
    BY DEF vars
  <2>4. QED BY <2>2, <2>3
<1>3. QED BY <1>1, <1>2, PTL DEF Spec, BackupSpec, TriggerSpec, AdminSpec, SessionsSpec

\* TypeOK is an invariant of the operations together: the state of the backup
\* runs, the trigger, the jobs and the sessions stays within its values, and
\* the dumps on disk stay in one order by mtime (backup_maintenance.py).
THEOREM TypesHold == Spec => []TypeOK
<1>1. TriggerInit => TriggerTypeOK
  BY InitTrigger DEF TriggerInv
<1>2. TriggerSpec => []TriggerTypeOK
  BY <1>1, TriggerTypeKeeps, PTL DEF TriggerSpec
<1>3. BackupSpec => []BackupInv
  BY InitBackup, BackupStep, PTL DEF BackupSpec
<1>4. BackupInv /\ TriggerTypeOK /\ OpsInv /\ SessionsInv => TypeOK
  BY DEF BackupInv, OpsInv, SessionsInv, TypeOK
<1>5. QED BY Parts, <1>2, <1>3, <1>4, OpsInvariance, SessionsInvariance, PTL
=============================================================================
