------------------------- MODULE RefreshTokensProofs -------------------------
(***************************************************************************)
(* Theorems about RefreshTokens, for any sets of tokens, users and workers. *)
(*                                                                         *)
(* The inductive invariant is IInv: the types, FamilySound, and Carried,   *)
(* which says that what a worker carries from its read to its commit still *)
(* names an issued row.  Without Carried a rotation could insert a row     *)
(* into the family of a row that was never issued.                         *)
(***************************************************************************)
EXTENDS RefreshTokens, TLAPS

Carried == \A w \in Workers :
              request[w].op \in {"rotate", "reuse"} => request[w].token \in issued

IInv == TypeOK /\ FamilySound /\ Carried

-----------------------------------------------------------------------------
\* What a worker carries is of the shape its operation says.
LEMMA CarriedShape ==
  ASSUME TypeOK, NEW w \in Workers
  PROVE  /\ request[w].op \in {"idle", "rotate", "reuse", "login", "credential",
                               "suspend", "erase"}
         /\ request[w].op \in {"rotate", "reuse"} => request[w].token \in Tokens
         /\ request[w].op \in {"login", "credential", "suspend", "erase"}
               => request[w].user \in Users
         /\ request[w] = Idle <=> request[w].op = "idle"
BY DEF TypeOK, Request, Idle

\* The initial state: no row, no request.
LEMMA InitIInv == Init => IInv
BY DEF Init, IInv, TypeOK, FamilySound, Carried, Request, Idle

\* Every step keeps the types; the row a rotation stamps is an issued one.
LEMMA TypeStep == TypeOK /\ Carried /\ [Next]_vars => TypeOK'
<1> SUFFICES ASSUME TypeOK, Carried, [Next]_vars PROVE TypeOK'
  OBVIOUS
<1> USE DEF TypeOK, table, account, Members, TokensOf
<1>1. ASSUME NEW w \in Workers, Arrive(w) PROVE TypeOK'
  BY <1>1 DEF Arrive, LoginRead, CredentialRead, SuspendRead, EraseRead, RefreshRead,
     Begin, Request
<1>2. ASSUME NEW w \in Workers, Complete(w) PROVE TypeOK'
  <2> USE DEF Finish, Request
  <2>1. CASE LoginCommit(w)
    BY <2>1, CarriedShape DEF LoginCommit, Insert
  <2>2. CASE RotateCommit(w)
    BY <2>2, CarriedShape DEF RotateCommit, Insert, Carried
  <2>3. CASE ReuseCommit(w)
    BY <2>3 DEF ReuseCommit, Revoke
  <2>4. CASE SuspendCommit(w)
    BY <2>4, CarriedShape DEF SuspendCommit, Revoke
  <2>5. CASE EraseCommit(w)
    BY <2>5, CarriedShape DEF EraseCommit, Revoke
  <2>6. CASE Abort(w)
    BY <2>6 DEF Abort
  <2>7. CASE CredentialCommit(w)
    BY <2>7, CarriedShape DEF CredentialCommit
  <2>8. QED BY <1>2, <2>1, <2>2, <2>3, <2>4, <2>5, <2>6, <2>7 DEF Complete
<1>3. CASE AtOnce
  BY <1>3 DEF AtOnce, LogoutDevice, LogoutEverywhere, Unsuspend, KillSessions, Revoke
<1>4. CASE Clock
  BY <1>4 DEF Clock, Expire
<1>5. CASE UNCHANGED vars
  BY <1>5 DEF vars
<1>6. QED BY <1>1, <1>2, <1>3, <1>4, <1>5 DEF Next

\* Every step keeps the families sound: a row enters a family whose name is
\* issued and has the same owner.
LEMMA FamilyStep == IInv /\ [Next]_vars => FamilySound'
<1> SUFFICES ASSUME TypeOK, FamilySound, Carried, [Next]_vars PROVE FamilySound'
  BY DEF IInv
<1> USE DEF TypeOK, FamilySound, Insert
<1>1. ASSUME NEW w \in Workers, LoginCommit(w) PROVE FamilySound'
  BY <1>1 DEF LoginCommit
<1>2. ASSUME NEW w \in Workers, RotateCommit(w) PROVE FamilySound'
  <2> DEFINE old == request[w].token
  <2>1. old \in issued
    BY <1>2 DEF RotateCommit, Carried
  <2>2. PICK new \in Tokens : /\ Insert(new, owner[old], family[old])
                              /\ rotated' = rotated \union {old}
                              /\ replacedBy' = [replacedBy EXCEPT ![old] = new]
    BY <1>2 DEF RotateCommit
  <2>3. /\ new # old /\ new # family[old]
        /\ \A t \in issued : family'[t] = family[t] /\ owner'[t] = owner[t]
        /\ family'[new] = family[old] /\ owner'[new] = owner[old]
    BY <2>1, <2>2
  <2>4. new \notin rotated'
    BY <2>2, <2>3
  <2> SUFFICES ASSUME NEW t \in issued'
               PROVE  /\ family'[t] \in issued'
                      /\ family'[family'[t]] = family'[t]
                      /\ owner'[family'[t]] = owner'[t]
                      /\ t \in rotated' => /\ replacedBy'[t] \in issued' \ {t, family'[t]}
                                           /\ family'[replacedBy'[t]] = family'[t]
    OBVIOUS
  <2>5. CASE t = new
    BY <2>1, <2>2, <2>3, <2>4, <2>5
  <2>6. CASE t = old
    BY <2>1, <2>2, <2>3, <2>6
  <2>7. CASE t \notin {old, new}
    BY <2>1, <2>2, <2>3, <2>7
  <2>8. QED BY <2>5, <2>6, <2>7
<1>3. ASSUME UNCHANGED <<issued, owner, family, replacedBy, rotated>>
      PROVE  FamilySound'
  BY <1>3
<1>4. ASSUME NEW w \in Workers, Arrive(w) \/ Complete(w) PROVE FamilySound'
  BY <1>1, <1>2, <1>3, <1>4
     DEF Arrive, Complete, LoginRead, CredentialRead, SuspendRead, EraseRead,
     RefreshRead, table,
         ReuseCommit, CredentialCommit, SuspendCommit, EraseCommit, Abort, Revoke
<1>5. CASE AtOnce \/ Clock
  BY <1>3, <1>5 DEF AtOnce, LogoutDevice, LogoutEverywhere, Unsuspend, KillSessions,
                    Revoke, table, Clock, Expire
<1>6. CASE UNCHANGED vars
  BY <1>3, <1>6 DEF vars, table
<1>7. QED BY <1>4, <1>5, <1>6 DEF Next

\* No row is ever deleted, so what a worker carries stays issued.
LEMMA CarriedStep == TypeOK /\ Carried /\ [Next]_vars => Carried'
<1> SUFFICES ASSUME TypeOK, Carried, [Next]_vars PROVE Carried'
  OBVIOUS
<1> USE DEF TypeOK, Carried, table
<1>1. issued \subseteq issued'
  <2>1. ASSUME NEW w \in Workers, Arrive(w) \/ Complete(w) PROVE issued \subseteq issued'
    BY <2>1 DEF Arrive, Complete, LoginRead, CredentialRead, SuspendRead, EraseRead,
       RefreshRead,
       LoginCommit, RotateCommit, ReuseCommit, CredentialCommit, SuspendCommit,
       EraseCommit, Abort,
       Insert, Revoke
  <2>2. CASE AtOnce \/ Clock
    BY <2>2 DEF AtOnce, LogoutDevice, LogoutEverywhere, Unsuspend, KillSessions,
       Revoke, Clock, Expire
  <2>3. QED BY <2>1, <2>2 DEF Next, vars
<1>2. ASSUME NEW w \in Workers, Arrive(w) PROVE Carried'
  BY <1>1, <1>2 DEF Arrive, LoginRead, CredentialRead, SuspendRead, EraseRead,
     RefreshRead, Begin
<1>3. ASSUME NEW w \in Workers, Complete(w) PROVE Carried'
  <2>1. Finish(w)
    BY <1>3 DEF Complete, LoginCommit, RotateCommit, ReuseCommit, CredentialCommit,
       SuspendCommit, EraseCommit, Abort
  <2>2. QED BY <1>1, <2>1 DEF Finish, Idle
<1>4. CASE AtOnce \/ Clock \/ UNCHANGED vars
  BY <1>1, <1>4 DEF AtOnce, LogoutDevice, LogoutEverywhere, Unsuspend, KillSessions,
     Revoke, Clock, Expire, vars
<1>5. QED BY <1>2, <1>3, <1>4 DEF Next

\* The inductive invariant, and with it the type invariant and FamilySound,
\* holds in every state of every run.
THEOREM Invariance == Spec => []IInv
<1>1. IInv /\ [Next]_vars => IInv'
  BY TypeStep, FamilyStep, CarriedStep DEF IInv
<1>2. QED BY InitIInv, <1>1, PTL DEF Spec

\* TypeOK is an invariant (the columns of ApiRefreshTokens).
THEOREM TypeCorrect == Spec => []TypeOK
<1>1. IInv => TypeOK
  BY DEF IInv
<1>2. QED BY Invariance, <1>1, PTL

\* FamilySound is an invariant: a rotation never leaves its family nor its
\* user (tokens.py:133-144).
THEOREM FamiliesSound == Spec => []FamilySound
<1>1. IInv => FamilySound
  BY DEF IInv
<1>2. QED BY Invariance, <1>1, PTL

-----------------------------------------------------------------------------
(* The finality of logout, reuse detection and suspension.                 *)

\* What a step leaves alone: it names, for the two action properties below,
\* the only steps that insert a row or start carrying one.
LEMMA StepKinds ==
  ASSUME TypeOK, [Next]_vars
  PROVE  \/ \E w \in Workers, u \in Users : LoginRead(w, u) \/ CredentialRead(w, u)
         \/ \E w \in Workers, t \in Tokens : RefreshRead(w, t)
         \/ \E w \in Workers : LoginCommit(w) \/ RotateCommit(w) \/ CredentialCommit(w)
         \/ /\ UNCHANGED <<issued, owner, family>>
            /\ revoked \subseteq revoked'
            /\ keyless \subseteq keyless'
            /\ \A w \in Workers : request'[w].op \in {"login", "rotate", "credential"}
                                  => request'[w] = request[w]
<1> USE DEF table, account
<1>1. ASSUME NEW w \in Workers, NEW u \in Users, SuspendRead(w, u) \/ EraseRead(w, u)
      PROVE  /\ UNCHANGED <<table, account>>
             /\ \A v \in Workers : request'[v].op \in {"login", "rotate", "credential"}
                                   => request'[v] = request[v]
  BY <1>1 DEF SuspendRead, EraseRead, Begin, TypeOK
<1>2. ASSUME NEW w \in Workers,
             ReuseCommit(w) \/ SuspendCommit(w) \/ EraseCommit(w) \/ Abort(w)
      PROVE  /\ UNCHANGED <<issued, owner, family>>
             /\ revoked \subseteq revoked' /\ keyless \subseteq keyless'
             /\ \A v \in Workers : request'[v].op \in {"login", "rotate", "credential"}
                                   => request'[v] = request[v]
  BY <1>2 DEF ReuseCommit, SuspendCommit, EraseCommit, Abort, Revoke, Finish, Idle, TypeOK
<1>3. CASE AtOnce \/ Clock \/ UNCHANGED vars
  BY <1>3 DEF AtOnce, LogoutDevice, LogoutEverywhere, KillSessions, Unsuspend, Revoke,
              Clock, Expire, vars
<1>4. QED BY <1>1, <1>2, <1>3 DEF Next, Arrive, Complete

LEMMA ClosedStep ==
  ASSUME IInv, [Next]_vars, NEW f \in Tokens, Closed(f)
  PROVE  Closed(f)'
<1> USE DEF IInv, TypeOK, Closed, Members, Rotating
<1>1. CASE \E w \in Workers, u \in Users : LoginRead(w, u) \/ CredentialRead(w, u)
  BY <1>1 DEF LoginRead, CredentialRead, Begin, table
<1>2. CASE \E w \in Workers, t \in Tokens : RefreshRead(w, t)
  BY <1>2 DEF RefreshRead, Begin, table
<1>3. ASSUME NEW w \in Workers, LoginCommit(w) PROVE Closed(f)'
  BY <1>3 DEF LoginCommit, Insert, Finish, Idle, Carried
<1>4. ASSUME NEW w \in Workers, RotateCommit(w) PROVE Closed(f)'
  BY <1>4 DEF RotateCommit, Insert, Finish, Idle, Carried
<1>5. ASSUME NEW w \in Workers, CredentialCommit(w) PROVE Closed(f)'
  BY <1>5 DEF CredentialCommit, Finish, Idle, table
<1>6. QED BY <1>1, <1>2, <1>3, <1>4, <1>5, StepKinds

\* ClosedFamilyStaysClosed holds of every step: a family that was revoked
\* with no rotation under way never again holds a usable row.
THEOREM ClosedFamily == Spec => ClosedFamilyStaysClosed
<1>1. IInv /\ [Next]_vars
      => [\A f \in Tokens : Closed(f) => Closed(f)']_vars
  BY ClosedStep
<1>2. QED BY Invariance, <1>1, PTL DEF Spec, ClosedFamilyStaysClosed

LEMMA LockedOutStep ==
  ASSUME IInv, [Next]_vars, NEW u \in Users, LockedOut(u)
  PROVE  LockedOut(u)' \/ u \in suspended \ suspended'
<1> USE DEF IInv, TypeOK, LockedOut, TokensOf, LoggingIn, Rotating, Adding
<1>1. ASSUME NEW w \in Workers, NEW v \in Users, LoginRead(w, v) PROVE LockedOut(u)'
  BY <1>1 DEF LoginRead, Begin, table, account
<1>2. ASSUME NEW w \in Workers, NEW v \in Users, CredentialRead(w, v) PROVE LockedOut(u)'
  BY <1>2 DEF CredentialRead, Begin, table, account
<1>3. CASE \E w \in Workers, t \in Tokens : RefreshRead(w, t)
  BY <1>3 DEF RefreshRead, Begin, FamilySound, table, account
<1>4. ASSUME NEW w \in Workers, LoginCommit(w) PROVE LockedOut(u)'
  BY <1>4 DEF LoginCommit, Insert, Finish, Idle, Carried, account
<1>5. ASSUME NEW w \in Workers, CredentialCommit(w) PROVE LockedOut(u)'
  <2>1. /\ UNCHANGED <<table, suspended>>
        /\ \A v \in Workers : request'[v] = Idle \/ request'[v] = request[v]
    BY <1>5 DEF CredentialCommit, Finish
  <2>2. u \in keyless /\ ~Adding(u) => u \in keyless'
    BY <1>5 DEF CredentialCommit
  <2>3. ~LoggingIn(u)' /\ (~Adding(u) => ~Adding(u)')
    BY <2>1 DEF Idle
  <2>4. TokensOf(u)' = TokensOf(u) /\ \A f \in TokensOf(u)' : ~Rotating(f)'
    BY <2>1 DEF Idle, table
  <2>5. QED BY <2>1, <2>2, <2>3, <2>4 DEF table
<1>6. ASSUME NEW w \in Workers, RotateCommit(w) PROVE LockedOut(u)'
  <2>1. request[w].token \in issued /\ owner[request[w].token] # u
    BY <1>6 DEF RotateCommit, Carried, FamilySound
  <2>2. PICK new \in Tokens \ issued :
              /\ issued' = issued \union {new}
              /\ owner' = [owner EXCEPT ![new] = owner[request[w].token]]
              /\ family' = [family EXCEPT ![new] = family[request[w].token]]
    BY <1>6 DEF RotateCommit, Insert
  <2>3. /\ TokensOf(u)' = TokensOf(u)
        /\ \A v \in Workers : request'[v] = Idle \/ request'[v] = request[v]
        /\ UNCHANGED <<revoked, suspended, keyless>>
    BY <1>6, <2>1, <2>2 DEF RotateCommit, Insert, Finish, account
  <2>4. ~LoggingIn(u)' /\ (~Adding(u) => ~Adding(u)')
    BY <2>3 DEF Idle
  <2>5. \A f \in TokensOf(u)' : ~Rotating(f)'
    BY <2>2, <2>3 DEF Idle, Carried
  <2>6. QED BY <2>3, <2>4, <2>5
<1>7. QED BY <1>1, <1>2, <1>3, <1>4, <1>5, <1>6, StepKinds

\* LockedOutUntilUnsuspended holds of every step: only lifting a suspension
\* lets a locked-out user in again. It is proved with no assumption on what
\* an erasure leaves: a request that adds a credential may commit after it.
THEOREM LockedOutUsers == Spec => LockedOutUntilUnsuspended
<1>1. IInv /\ [Next]_vars
      => [\A u \in Users : LockedOut(u) => LockedOut(u)' \/ u \in suspended \ suspended']_vars
  BY LockedOutStep
<1>2. QED BY Invariance, <1>1, PTL DEF Spec, LockedOutUntilUnsuspended

-----------------------------------------------------------------------------
(* Requests served one at a time.  OneLiveTokenPerFamily is not inductive  *)
(* by itself: a rotation keeps it only if the row it carries is still live *)
(* (nothing ran since its read), and a closed family must not come back,   *)
(* for which a revocation always takes a whole family.                     *)

Lone == \A v, w \in Workers : request[v] # Idle /\ request[w] # Idle => v = w

OneUnspent == \A s, t \in issued \ rotated : family[s] = family[t] => s = t

WholeFamilyRevoked == \A t \in issued : t \in revoked <=> family[t] \in revoked

CarriedStillTrue ==
    \A w \in Workers :
       /\ request[w].op = "rotate" => request[w].token \in Live
       /\ request[w].op = "reuse"  => request[w].token \in rotated \ revoked
       /\ request[w].op = "login"  => request[w].user \notin suspended \union keyless
       /\ request[w].op = "credential" => request[w].user \notin keyless

SInv == /\ IInv
        /\ Lone
        /\ OneUnspent
        /\ WholeFamilyRevoked
        /\ CarriedStillTrue
        /\ SuspendedHasNoLiveToken

LEMMA InitSInv == Init => SInv
<1> SUFFICES ASSUME Init PROVE SInv
  OBVIOUS
<1>1. IInv
  BY InitIInv
<1>2. \A w \in Workers : request[w] = Idle
  BY DEF Init
<1>3. Lone /\ CarriedStillTrue
  BY <1>2 DEF Lone, CarriedStillTrue, Idle
<1>4. OneUnspent /\ WholeFamilyRevoked /\ SuspendedHasNoLiveToken
  BY DEF Init, OneUnspent, WholeFamilyRevoked, SuspendedHasNoLiveToken
<1>5. QED BY <1>1, <1>3, <1>4 DEF SInv

\* A serial step is a step.
LEMMA SerialIsNext == [SerialNext]_vars => [Next]_vars
BY DEF SerialNext, Next

\* While one worker carries something, no other worker does.
LEMMA LoneStep == TypeOK /\ Lone /\ [SerialNext]_vars => Lone'
<1> SUFFICES ASSUME TypeOK, Lone, [SerialNext]_vars PROVE Lone'
  OBVIOUS
<1> USE DEF TypeOK, Lone
<1>1. ASSUME Quiet, NEW w \in Workers, Arrive(w) PROVE Lone'
  BY <1>1 DEF Quiet, Arrive, LoginRead, CredentialRead, SuspendRead, EraseRead,
     RefreshRead, Begin
<1>2. ASSUME NEW w \in Workers, Complete(w) PROVE Lone'
  <2>1. Finish(w)
    BY <1>2 DEF Complete, LoginCommit, RotateCommit, ReuseCommit, CredentialCommit,
       SuspendCommit, EraseCommit, Abort
  <2>2. QED BY <2>1 DEF Finish
<1>3. CASE AtOnce \/ Clock \/ UNCHANGED vars
  BY <1>3 DEF AtOnce, LogoutDevice, LogoutEverywhere, Unsuspend, KillSessions,
     Clock, Expire, vars
<1>4. QED BY <1>1, <1>2, <1>3 DEF SerialNext

\* The last request to finish leaves the system quiet.
LEMMA QuietAfter ==
  ASSUME TypeOK, Lone, NEW w \in Workers, request[w] # Idle, Finish(w)
  PROVE  \A v \in Workers : request'[v] = Idle
BY DEF TypeOK, Lone, Finish

LEMMA CarriedTrueStep == SInv /\ [SerialNext]_vars => CarriedStillTrue'
<1> SUFFICES ASSUME SInv, [SerialNext]_vars PROVE CarriedStillTrue'
  OBVIOUS
<1> USE DEF SInv, IInv, TypeOK, CarriedStillTrue, Live
<1>1. ASSUME Quiet, NEW w \in Workers, Arrive(w) PROVE CarriedStillTrue'
  <2>1. UNCHANGED <<table, account>>
    BY <1>1 DEF Arrive, LoginRead, CredentialRead, SuspendRead, EraseRead, RefreshRead
  <2>2. CASE \E u \in Users : LoginRead(w, u) \/ CredentialRead(w, u)
                          \/ SuspendRead(w, u) \/ EraseRead(w, u)
    BY <1>1, <2>1, <2>2 DEF LoginRead, CredentialRead, SuspendRead, EraseRead, Begin,
       table, account
  <2>3. CASE \E t \in Tokens : RefreshRead(w, t)
    BY <1>1, <2>1, <2>3 DEF RefreshRead, Begin, table, account
  <2>4. QED BY <1>1, <2>2, <2>3 DEF Arrive
<1>2. ASSUME NEW w \in Workers, Complete(w) PROVE CarriedStillTrue'
  <2>1. request[w] # Idle /\ Finish(w)
    BY <1>2 DEF Complete, LoginCommit, RotateCommit, ReuseCommit, CredentialCommit,
       SuspendCommit, EraseCommit, Abort, Idle
  <2>2. QED BY <2>1, QuietAfter DEF Idle
<1>3. CASE Quiet /\ AtOnce
  BY <1>3 DEF Quiet, Idle, AtOnce, LogoutDevice, LogoutEverywhere, Unsuspend, KillSessions
<1>4. CASE Clock \/ UNCHANGED vars
  BY <1>4 DEF Clock, Expire, vars, table, account
<1>5. QED BY <1>1, <1>2, <1>3, <1>4 DEF SerialNext

\* A bulk revocation takes whole families, as the owner of a row is the
\* owner of its family.
LEMMA RevokeWhole ==
  ASSUME SInv, NEW S \in SUBSET issued, Revoke(S),
         \A t \in issued : t \in S <=> family[t] \in S
  PROVE  OneUnspent' /\ WholeFamilyRevoked'
BY DEF SInv, IInv, TypeOK, FamilySound, OneUnspent, WholeFamilyRevoked, Revoke

LEMMA MembersWhole ==
  ASSUME IInv, NEW r \in issued, NEW t \in issued
  PROVE  t \in Members(family[r]) <=> family[t] \in Members(family[r])
BY DEF IInv, FamilySound, Members

LEMMA TokensOfWhole ==
  ASSUME IInv, NEW u \in Users, NEW t \in issued
  PROVE  t \in TokensOf(u) <=> family[t] \in TokensOf(u)
BY DEF IInv, FamilySound, TokensOf

LEMMA ChainStep ==
  ASSUME SInv, [SerialNext]_vars
  PROVE  OneUnspent' /\ WholeFamilyRevoked' /\ SuspendedHasNoLiveToken'
<1> USE DEF SInv, IInv, TypeOK
<1> DEFINE Goal == OneUnspent' /\ WholeFamilyRevoked' /\ SuspendedHasNoLiveToken'
<1>1. ASSUME UNCHANGED <<table, suspended>> PROVE Goal
  BY <1>1 DEF OneUnspent, WholeFamilyRevoked, SuspendedHasNoLiveToken, TokensOf, Live,
     table
<1>2. ASSUME NEW S \in SUBSET issued, Revoke(S), suspended' \subseteq suspended
      PROVE  SuspendedHasNoLiveToken'
  BY <1>2 DEF SuspendedHasNoLiveToken, TokensOf, Live, Revoke
<1>3. ASSUME NEW t \in issued, Revoke(Members(family[t])), suspended' = suspended
      PROVE  Goal
  <2>1. Members(family[t]) \in SUBSET issued
    BY DEF Members
  <2>2. QED BY <1>2, <1>3, <2>1, RevokeWhole, MembersWhole
<1>4. ASSUME NEW u \in Users, Revoke(TokensOf(u)),
             suspended' = suspended \/ suspended' = suspended \union {u}
      PROVE  Goal
  <2>1. TokensOf(u) \in SUBSET issued
    BY DEF TokensOf
  <2>2. OneUnspent' /\ WholeFamilyRevoked'
    BY <1>4, <2>1, RevokeWhole, TokensOfWhole
  <2>3. SuspendedHasNoLiveToken'
    BY <1>4 DEF SuspendedHasNoLiveToken, TokensOf, Live, Revoke
  <2>4. QED BY <2>2, <2>3
<1>5. ASSUME NEW w \in Workers, LoginCommit(w) PROVE Goal
  <2> DEFINE u == request[w].user
  <2>1. u \in Users \ (suspended \union keyless)
    BY <1>5, CarriedShape DEF LoginCommit, CarriedStillTrue
  <2>2. PICK t \in Tokens : Insert(t, u, t)
    BY <1>5 DEF LoginCommit
  <2>3. /\ t \notin issued
        /\ \A s \in issued : family'[s] = family[s] /\ family[s] # t /\ owner'[s] = owner[s]
        /\ family'[t] = t /\ owner'[t] = u
    BY <2>1, <2>2 DEF Insert, FamilySound
  <2>4. UNCHANGED <<rotated, suspended>>
    BY <1>5 DEF LoginCommit, account
  <2>5. OneUnspent'
    BY <2>2, <2>3, <2>4 DEF OneUnspent, Insert
  <2>6. WholeFamilyRevoked'
    BY <2>2, <2>3 DEF WholeFamilyRevoked, Insert
  <2>7. SuspendedHasNoLiveToken'
    BY <2>1, <2>2, <2>3, <2>4 DEF SuspendedHasNoLiveToken, TokensOf, Live, Insert
  <2>8. QED BY <2>5, <2>6, <2>7
<1>6. ASSUME NEW w \in Workers, RotateCommit(w) PROVE Goal
  <2> DEFINE old == request[w].token
  <2>1. old \in Live
    BY <1>6 DEF RotateCommit, CarriedStillTrue
  <2>2. PICK new \in Tokens : /\ Insert(new, owner[old], family[old])
                              /\ rotated' = rotated \union {old}
    BY <1>6 DEF RotateCommit
  <2>3. /\ new \notin issued
        /\ \A s \in issued : family'[s] = family[s] /\ family[s] \in issued
                           /\ owner'[s] = owner[s]
        /\ family'[new] = family[old] /\ owner'[new] = owner[old]
    BY <2>1, <2>2 DEF Insert, FamilySound, Live
  <2>4. UNCHANGED suspended
    BY <1>6 DEF RotateCommit, account
  <2>5. OneUnspent'
    BY <2>1, <2>2, <2>3 DEF OneUnspent, Insert, Live
  <2>6. WholeFamilyRevoked'
    BY <2>1, <2>2, <2>3 DEF WholeFamilyRevoked, Insert, Live
  <2>7. SuspendedHasNoLiveToken'
    BY <2>1, <2>2, <2>3, <2>4 DEF SuspendedHasNoLiveToken, TokensOf, Live, Insert
  <2>8. QED BY <2>5, <2>6, <2>7
<1>7. ASSUME NEW w \in Workers, Complete(w) PROVE Goal
  <2>1. CASE ReuseCommit(w)
    BY <2>1, <1>3 DEF ReuseCommit, Carried, account
  <2>2. CASE SuspendCommit(w)
    BY <2>2, <1>4, CarriedShape DEF SuspendCommit
  <2>3. CASE EraseCommit(w)
    BY <2>3, <1>4, CarriedShape DEF EraseCommit
  <2>4. CASE Abort(w)
    BY <2>4, <1>1 DEF Abort, account
  <2>5. CASE CredentialCommit(w)
    BY <2>5, <1>1 DEF CredentialCommit
  <2>6. QED BY <1>5, <1>6, <1>7, <2>1, <2>2, <2>3, <2>4, <2>5 DEF Complete
<1>8. CASE AtOnce
  <2>1. ASSUME NEW u \in Users, Unsuspend(u) PROVE Goal
    BY <2>1 DEF Unsuspend, table, OneUnspent, WholeFamilyRevoked,
       SuspendedHasNoLiveToken, TokensOf, Live
  <2>2. QED BY <1>3, <1>4, <1>8, <2>1
               DEF AtOnce, LogoutDevice, LogoutEverywhere, KillSessions, account
<1>9. CASE Clock
  BY <1>9 DEF Clock, Expire, account, OneUnspent, WholeFamilyRevoked,
     SuspendedHasNoLiveToken, TokensOf, Live
<1>10. ASSUME NEW w \in Workers, Arrive(w) PROVE Goal
  BY <1>10, <1>1 DEF Arrive, LoginRead, CredentialRead, SuspendRead, EraseRead, RefreshRead,
                     account
<1>11. CASE UNCHANGED vars
  BY <1>11, <1>1 DEF vars, account
<1>12. QED BY <1>7, <1>8, <1>9, <1>10, <1>11 DEF SerialNext

\* The inductive invariant of the serial specification.
THEOREM SerialInvariance == SerialSpec => []SInv
<1>1. SInv /\ [SerialNext]_vars => SInv'
  BY SerialIsNext, TypeStep, FamilyStep, CarriedStep, LoneStep, CarriedTrueStep, ChainStep
     DEF SInv, IInv
<1>2. QED BY InitSInv, <1>1, PTL DEF SerialSpec

\* OneLiveTokenPerFamily holds when requests do not overlap: a family is one
\* rotation chain.
THEOREM SerialOneLiveToken == SerialSpec => []OneLiveTokenPerFamily
<1>1. SInv => OneLiveTokenPerFamily
  BY DEF SInv, OneUnspent, OneLiveTokenPerFamily, Live
<1>2. QED BY SerialInvariance, <1>1, PTL

\* SuspendedHasNoLiveToken holds when requests do not overlap.
THEOREM SerialSuspendedHasNoLiveToken == SerialSpec => []SuspendedHasNoLiveToken
<1>1. SInv => SuspendedHasNoLiveToken
  BY DEF SInv
<1>2. QED BY SerialInvariance, <1>1, PTL

-----------------------------------------------------------------------------
(* The refinement: each serial step is a step of DeviceSessions or leaves  *)
(* its variables alone.                                                    *)

USE DEF Promise!vars

LEMMA InitPromise == Init => Promise!Init
<1> SUFFICES ASSUME Init PROVE Promise!Init
  OBVIOUS
<1>1. Roots = {}
  BY DEF Init, Roots
<1>2. QED BY <1>1 DEF Init, Promise!Init

\* The variables of DeviceSessions depend on the columns and accounts alone.
LEMMA PromiseStutter ==
  ASSUME UNCHANGED <<issued, owner, family, rotated, revoked>>,
         (suspended \union keyless)' = suspended \union keyless
  PROVE  UNCHANGED Promise!vars
<1>1. Roots' = Roots
  BY DEF Roots
<1>2. \A d : Members(d)' = Members(d)
  BY DEF Members
<1>3. [d \in Roots |-> owner[d]]' = [d \in Roots |-> owner[d]]
  BY <1>1
<1>4. [d \in Roots |-> Members(d)]' = [d \in Roots |-> Members(d)]
  BY <1>1, <1>2
<1>5. QED BY <1>1, <1>3, <1>4

\* A revocation leaves every part of the sessions but their openness.
LEMMA RevokeKeepsSessions ==
  ASSUME NEW S, Revoke(S)
  PROVE  /\ Roots' = Roots
         /\ [d \in Roots |-> owner[d]]' = [d \in Roots |-> owner[d]]
         /\ [d \in Roots |-> Members(d)]' = [d \in Roots |-> Members(d)]
         /\ rotated' = rotated
         /\ (Roots \ revoked)' = (Roots \ revoked) \ S
<1>1. Roots' = Roots
  BY DEF Roots, Revoke
<1>2. \A d : Members(d)' = Members(d)
  BY DEF Members, Revoke
<1>3. [d \in Roots |-> owner[d]]' = [d \in Roots |-> owner[d]]
  BY <1>1 DEF Revoke
<1>4. [d \in Roots |-> Members(d)]' = [d \in Roots |-> Members(d)]
  BY <1>1, <1>2
<1>5. QED BY <1>1, <1>3, <1>4 DEF Revoke

\* Revoking the rows of a user closes the sessions the user holds.
LEMMA RevokeUserCloses ==
  ASSUME TypeOK, NEW u \in Users, Revoke(TokensOf(u))
  PROVE  (Roots \ revoked)' =
            {d \in Roots \ revoked : [c \in Roots |-> owner[c]][d] # u}
<1>1. (Roots \ revoked)' = (Roots \ revoked) \ TokensOf(u)
  BY RevokeKeepsSessions
<1>2. QED BY <1>1 DEF TypeOK, Roots, TokensOf

\* Revoking a family closes its session.
LEMMA RevokeFamilyCloses ==
  ASSUME IInv, NEW t \in issued, Revoke(Members(family[t]))
  PROVE  /\ (Roots \ revoked)' = (Roots \ revoked) \ {family[t]}
         /\ family[t] \in Roots
<1>1. (Roots \ revoked)' = (Roots \ revoked) \ Members(family[t])
  BY RevokeKeepsSessions
<1>2. \A d \in Roots : d \in Members(family[t]) <=> d = family[t]
  BY DEF IInv, FamilySound, Roots, Members
<1>3. family[t] \in Roots
  BY DEF IInv, FamilySound, Roots
<1>4. QED BY <1>1, <1>2, <1>3

\* Every row is in a session: the tokens minted are the rows issued.
LEMMA UsedIsIssued ==
  ASSUME IInv
  PROVE  Promise!Used = issued
<1>1. \A d \in Roots : Members(d) \subseteq issued
  BY DEF Members
<1>2. \A t \in issued : family[t] \in Roots /\ t \in Members(family[t])
  BY DEF IInv, FamilySound, Roots, Members
<1>3. Promise!Sessions = Roots
  BY DEF Promise!Sessions
<1>4. \A d \in Roots : [c \in Roots |-> Members(c)][d] = Members(d)
  OBVIOUS
<1>5. QED BY <1>1, <1>2, <1>3, <1>4 DEF Promise!Used

LEMMA LoginIsOpen ==
  ASSUME SInv, NEW w \in Workers, LoginCommit(w)
  PROVE  \E t \in Tokens, u \in Users : Promise!Open(t, u)
<1> USE DEF SInv, IInv, TypeOK
<1>1. PICK u \in Users \ (suspended \union keyless) : u = request[w].user
  BY CarriedShape DEF LoginCommit, CarriedStillTrue
<1>2. PICK t \in Tokens : Insert(t, u, t)
  BY <1>1 DEF LoginCommit
<1>3. /\ t \notin issued /\ issued' = issued \union {t} /\ revoked' = revoked
      /\ \A s \in issued : family'[s] = family[s] /\ family[s] # t /\ owner'[s] = owner[s]
      /\ family'[t] = t /\ owner'[t] = u
  BY <1>1, <1>2 DEF Insert, FamilySound
<1>4. Roots' = Roots \union {t} /\ t \notin Roots
  BY <1>3 DEF Roots
<1>5. (Roots \ revoked)' = (Roots \ revoked) \union {t}
  BY <1>3, <1>4
<1>6. \A d \in Roots : Members(d)' = Members(d)
  BY <1>3 DEF Members, Roots
<1>7. Members(t)' = {t}
  BY <1>3 DEF Members
<1>8. [d \in Roots |-> owner[d]]'
        = [d \in Roots \union {t} |-> IF d = t THEN u ELSE [c \in Roots |-> owner[c]][d]]
  BY <1>3, <1>4 DEF Roots
<1>9. [d \in Roots |-> Members(d)]'
        = [d \in Roots \union {t} |-> IF d = t THEN {t} ELSE [c \in Roots |-> Members(c)][d]]
  BY <1>4, <1>6, <1>7
<1>10. UNCHANGED <<rotated, suspended, keyless>>
  BY DEF LoginCommit, account
<1>11. t \notin Promise!Used
  BY <1>3, UsedIsIssued
<1>12. Promise!Sessions = Roots
  BY DEF Promise!Sessions
<1>13. Promise!Open(t, u)
  BY <1>1, <1>5, <1>8, <1>9, <1>10, <1>11, <1>12 DEF Promise!Open
<1>14. QED BY <1>1, <1>2, <1>13

LEMMA RotateIsRefresh ==
  ASSUME SInv, NEW w \in Workers, RotateCommit(w)
  PROVE  \E d, old, new \in Tokens : Promise!Refresh(d, old, new)
<1> USE DEF SInv, IInv, TypeOK
<1>1. PICK old \in Live : old = request[w].token
  BY DEF RotateCommit, CarriedStillTrue
<1>d. PICK d \in Tokens : d = family[old]
  BY DEF Live
<1>2. PICK new \in Tokens : /\ Insert(new, owner[old], d)
                            /\ rotated' = rotated \union {old}
  BY <1>1, <1>d DEF RotateCommit
<1>3. /\ new \notin issued /\ issued' = issued \union {new} /\ revoked' = revoked
      /\ \A s \in issued : family'[s] = family[s] /\ owner'[s] = owner[s]
      /\ family'[new] = d
      /\ d \in issued
  BY <1>1, <1>d, <1>2 DEF Insert, FamilySound, Live
<1>4. d \in Roots \ revoked
  BY <1>1, <1>d DEF Roots, Live, FamilySound, WholeFamilyRevoked
<1>5. Roots' = Roots
  BY <1>3 DEF Roots
<1>6. Members(d) \ rotated = {old}
  BY <1>1, <1>d DEF Members, OneUnspent, Live
<1>7. Members(d)' = Members(d) \union {new}
  BY <1>3, <1>d DEF Members
<1>8. \A c \in Roots \ {d} : Members(c)' = Members(c)
  BY <1>3, <1>d DEF Members
<1>9. [c \in Roots |-> owner[c]]' = [c \in Roots |-> owner[c]]
  BY <1>3, <1>5 DEF Roots
<1>10. [c \in Roots |-> Members(c)]'
         = [[c \in Roots |-> Members(c)] EXCEPT ![d] = @ \union {new}]
  BY <1>4, <1>5, <1>7, <1>8
<1>11. UNCHANGED <<suspended, keyless>>
  BY DEF RotateCommit, account
<1>12. new \notin Promise!Used
  BY <1>3, UsedIsIssued
<1>13. Promise!Refresh(d, old, new)
  BY <1>2, <1>3, <1>4, <1>5, <1>6, <1>9, <1>10, <1>11, <1>12 DEF Promise!Refresh
<1>14. QED BY <1>1, <1>3, <1>13 DEF Live

LEMMA ReuseIsReplay ==
  ASSUME SInv, NEW w \in Workers, ReuseCommit(w)
  PROVE  \E d, old \in Tokens : Promise!Replay(d, old)
<1> USE DEF SInv, IInv, TypeOK
<1> DEFINE old == request[w].token
           d   == family[old]
<1>1. old \in rotated \ revoked /\ Revoke(Members(d)) /\ UNCHANGED account
  BY DEF ReuseCommit, CarriedStillTrue
<1>2. d \in Roots \ revoked /\ old \in Members(d)
  BY <1>1 DEF Roots, Members, FamilySound, WholeFamilyRevoked
<1>3. (Roots \ revoked)' = (Roots \ revoked) \ {d}
  BY <1>1, RevokeFamilyCloses
<1>4. [c \in Roots |-> Members(c)][d] = Members(d)
  BY <1>2
<1>5. Promise!Replay(d, old)
  BY <1>1, <1>2, <1>3, <1>4, RevokeKeepsSessions DEF Promise!Replay, account
<1>6. QED BY <1>1, <1>5

\* The steps that revoke all rows of a user.
LEMMA RevokeUserIsClose ==
  ASSUME TypeOK, NEW u \in Users, Revoke(TokensOf(u))
  PROVE  /\ UNCHANGED account => Promise!CloseAll(u)
         /\ (suspended \union keyless)' = suspended \union keyless \union {u} => Promise!Bar(u)
<1>1. /\ UNCHANGED <<[d \in Roots |-> owner[d]], [d \in Roots |-> Members(d)], rotated>>
      /\ (Roots \ revoked)' =
            {d \in Roots \ revoked : [c \in Roots |-> owner[c]][d] # u}
  BY RevokeKeepsSessions, RevokeUserCloses
<1>2. QED BY <1>1 DEF Promise!CloseAll, Promise!Bar, account

LEMMA LogoutIsClose ==
  ASSUME IInv, NEW t \in Tokens, LogoutDevice(t)
  PROVE  \E d \in Promise!Sessions : Promise!CloseSession(d)
<1>1. t \in issued /\ Revoke(Members(family[t])) /\ UNCHANGED account
  BY DEF LogoutDevice
<1>2. Promise!CloseSession(family[t])
  BY <1>1, RevokeFamilyCloses, RevokeKeepsSessions DEF Promise!CloseSession, account
<1>3. QED BY <1>1, <1>2, RevokeFamilyCloses DEF Promise!Sessions

LEMMA UnsuspendIsUnbar ==
  ASSUME NEW u \in Users, Unsuspend(u)
  PROVE  Promise!Unbar(u) \/ UNCHANGED Promise!vars
<1>1. UNCHANGED <<issued, owner, family, rotated, revoked>>
  BY DEF Unsuspend, table
<1>2. CASE u \in keyless
  <2>1. (suspended \union keyless)' = suspended \union keyless
    BY <1>2 DEF Unsuspend
  <2>2. QED BY <1>1, <2>1, PromiseStutter
<1>3. CASE u \notin keyless
  <2>1. (suspended \union keyless)' = (suspended \union keyless) \ {u}
    BY <1>3 DEF Unsuspend
  <2>2. Roots' = Roots /\ (\A d : Members(d)' = Members(d))
    BY <1>1 DEF Roots, Members
  <2>3. QED BY <1>1, <2>1, <2>2 DEF Promise!Unbar
<1>4. QED BY <1>2, <1>3

LEMMA CredentialIsNothing ==
  ASSUME SInv, NEW w \in Workers, CredentialCommit(w)
  PROVE  UNCHANGED Promise!vars
<1>1. keyless' = keyless
  BY DEF CredentialCommit, SInv, CarriedStillTrue
<1>2. QED BY <1>1, PromiseStutter DEF CredentialCommit, table

LEMMA StepPromise == SInv /\ [SerialNext]_vars => [Promise!Next]_(Promise!vars)
<1> SUFFICES ASSUME SInv, [SerialNext]_vars
             PROVE  Promise!Next \/ UNCHANGED Promise!vars
  OBVIOUS
<1>1. TypeOK /\ IInv
  BY DEF SInv, IInv
<1>2. ASSUME NEW w \in Workers, Arrive(w) PROVE UNCHANGED Promise!vars
  <2>1. UNCHANGED <<table, account>>
    BY <1>2 DEF Arrive, LoginRead, CredentialRead, SuspendRead, EraseRead, RefreshRead
  <2>2. QED BY <2>1, PromiseStutter DEF table, account
<1>3. ASSUME NEW w \in Workers, Complete(w) PROVE Promise!Next \/ UNCHANGED Promise!vars
  <2>1. CASE LoginCommit(w)
    BY <2>1, LoginIsOpen DEF Promise!Next
  <2>2. CASE RotateCommit(w)
    BY <2>2, RotateIsRefresh DEF Promise!Next
  <2>3. CASE ReuseCommit(w)
    BY <2>3, ReuseIsReplay DEF Promise!Next
  <2>4. CASE SuspendCommit(w)
    BY <2>4, <1>1, CarriedShape, RevokeUserIsClose DEF SuspendCommit, Promise!Next
  <2>5. CASE EraseCommit(w)
    BY <2>5, <1>1, CarriedShape, RevokeUserIsClose DEF EraseCommit, Promise!Next
  <2>6. CASE Abort(w)
    BY <2>6, PromiseStutter DEF Abort, table, account
  <2>7. CASE CredentialCommit(w)
    BY <2>7, CredentialIsNothing
  <2>8. QED BY <1>3, <2>1, <2>2, <2>3, <2>4, <2>5, <2>6, <2>7 DEF Complete
<1>4. CASE AtOnce
  <2>1. ASSUME NEW t \in Tokens, LogoutDevice(t) PROVE Promise!Next
    BY <2>1, <1>1, LogoutIsClose DEF Promise!Next
  <2>2. ASSUME NEW u \in Users, LogoutEverywhere(u) \/ KillSessions(u) PROVE Promise!Next
    BY <2>2, <1>1, RevokeUserIsClose DEF LogoutEverywhere, KillSessions, Promise!Next
  <2>3. ASSUME NEW u \in Users, Unsuspend(u)
        PROVE  Promise!Next \/ UNCHANGED Promise!vars
    BY <2>3, UnsuspendIsUnbar DEF Promise!Next
  <2>4. QED BY <1>4, <2>1, <2>2, <2>3 DEF AtOnce
<1>5. CASE Clock \/ UNCHANGED vars
  BY <1>5, PromiseStutter DEF Clock, Expire, vars, table, account
<1>6. QED BY <1>2, <1>3, <1>4, <1>5 DEF SerialNext

\* Served one at a time, the requests implement DeviceSessions: one token
\* holds a session, a replay closes it, a logout is final, and a barred user
\* has no session.
THEOREM SerialKeepsPromise == SerialSpec => KeepsPromise
<1>1. SerialSpec => Promise!Spec
  BY InitPromise, StepPromise, SerialInvariance, PTL DEF SerialSpec, Promise!Spec
<1>2. QED BY <1>1 DEF KeepsPromise
=============================================================================
