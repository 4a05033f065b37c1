------------------------ MODULE SignInMethodsProofs ------------------------
(***************************************************************************)
(* Theorems about SignInMethods, for any sets of accounts, addresses,      *)
(* providers, subjects, browsers and clients.                              *)
(*                                                                         *)
(* IInv says of every account that no two requests ever shared: what is    *)
(* under way about it is about an account that is there, leaves it a way   *)
(* in, or deletes all of its identities; and an account that is not there  *)
(* has nothing left, so that nobody can begin anything about it.           *)
(***************************************************************************)
EXTENDS SignInMethods, FiniteSetTheorems, TLAPS

\* An intent to link was shown by the account it is for.
SoundIntent(i) == i # None /\ i.action = "link" => i.shown = i.user

\* What a worker may have under way: a link somebody has shown, the rows of
\* one account, about an account that is there, which keeps a way in when it
\* is unlinked and none when it is erased.
Sound(w, q) ==
    /\ q.op \in {"link", "confirm"} => q.shown = q.user
    /\ q.op \in {"unlink", "erase"} => \A r \in q.rows : r.user = q.user
    /\ q.user \in Users \ raced => q.user \in Active
    /\ q.op = "unlink" /\ q.user \notin raced =>
          q.user \in password \/ RowsOf(q.user) \ q.rows # {}
    /\ q.op = "erase" /\ q.user \notin raced => RowsOf(q.user) \subseteq q.rows

\* An account that is not there has no password, no identity and no browser.
Gone(u) == u \notin password /\ RowsOf(u) = {} /\ \A s \in Sessions : user[s] # u

IInv ==
    /\ TypeOK
    /\ \A s \in Sessions : SoundIntent(intent[s])
    /\ \A w \in Workers : Sound(w, request[w])
    /\ \A u \in Users \ raced : ~Races(u)
    /\ MethodRemains
    /\ \A u \in Users \ (Active \union raced) : Gone(u)

-----------------------------------------------------------------------------
(* Requests and their types.                                               *)
LEMMA IdleType == Idle \in Request /\ Idle.op = "idle" /\ Idle.user = None
BY DEF Idle, Request

LEMMA IdleSound == ASSUME NEW w PROVE Sound(w, Idle)
BY IdleType, NoneAssumption DEF Sound

LEMMA RequestTypes ==
  ASSUME NEW q \in Request
  PROVE  /\ q.user \in Users \union {None}
         /\ q.op = "create" => q.user = None /\ q.subject \in Subjects /\ q.email \in Emails
         /\ q.op \in {"link", "confirm"} => /\ q.user \in Users /\ q.subject \in Subjects
                                            /\ q.shown \in Users \union {None}
         /\ q.op \in {"unlink", "erase"} => q.user \in Users /\ q.rows \subseteq Row
BY DEF Request, Idle

LEMMA LinkRequestTypes ==
  ASSUME NEW op \in {"link", "confirm"}, NEW u \in Users, NEW x \in Subjects,
         NEW shown \in Users \union {None}, NEW rows
  PROVE  LET q == LinkRequest(op, u, x, shown, rows) IN
         /\ q \in Request
         /\ q = Idle \/ (q.op = op /\ q.user = u /\ q.shown = shown /\ q.subject = x)
BY IdleType DEF LinkRequest, Request

\* What signing in leaves in the session and to the request.
LEMMA SignInTypes ==
  ASSUME TypeOK, NEW s \in Sessions, NEW u \in Users, NEW e, NEW rows, SignIn(s, u, e, rows)
  PROVE  /\ user' = [user EXCEPT ![s] = u] /\ user' \in [Sessions -> Users \union {None}]
         /\ intent' = intent /\ pending' \in [Sessions -> Pending]
         /\ \E q \in Request : /\ request' = [request EXCEPT ![s] = q]
                               /\ q = Idle \/ (q.op = "link" /\ q.user = u /\ q.shown = u)
<1>1. user' = [user EXCEPT ![s] = u] /\ intent' = intent
  BY DEF SignIn
<1>2. user' \in [Sessions -> Users \union {None}]
  BY <1>1 DEF TypeOK
<1>3. CASE Completes(s, e)
  <2>1. pending[s].subject \in Subjects
    BY <1>3 DEF Completes, TypeOK, Pending
  <2>2. pending' \in [Sessions -> Pending]
    BY <1>3 DEF SignIn, TypeOK, Pending
  <2> DEFINE q == LinkRequest("link", u, pending[s].subject, u, rows)
  <2>3. request' = [request EXCEPT ![s] = q]
    BY <1>3 DEF SignIn, Begins
  <2>4. q \in Request /\ (q = Idle \/ (q.op = "link" /\ q.user = u /\ q.shown = u))
    BY <2>1, LinkRequestTypes
  <2> HIDE DEF q
  <2>5. QED BY <1>1, <1>2, <2>2, <2>3, <2>4
<1>4. CASE ~Completes(s, e)
  BY <1>1, <1>2, <1>4, IdleType DEF SignIn, Ends, TypeOK
<1>5. QED BY <1>3, <1>4

-----------------------------------------------------------------------------
(* The steps that change no account and no identity.                       *)
Stands(u) == u \in Active \union raced

\* Such a step keeps IInv when what it begins is sound, and the users of its
\* sessions are there.
LEMMA QuietKeeps ==
  ASSUME IInv, UNCHANGED <<account, identity>>,
         raced' = raced \union {u \in Users : Races(u)'},
         user' \in [Sessions -> Users \union {None}],
         \A s \in Sessions : user'[s] = user[s] \/ user'[s] = None \/ Stands(user'[s]),
         intent' \in [Sessions -> Intent],
         \A s \in Sessions : SoundIntent(intent'[s]),
         pending' \in [Sessions -> Pending],
         request' \in [Workers -> Request],
         \A w \in Workers : request'[w] = request[w] \/ Sound(w, request'[w])
  PROVE  IInv'
<1>1. raced \subseteq raced' /\ raced' \subseteq Users /\ \A u \in Users \ raced' : ~Races(u)'
  BY DEF IInv, TypeOK
<1>2. Active' = Active /\ password' = password /\ \A u : RowsOf(u)' = RowsOf(u)
  BY DEF account, Active, RowsOf
<1>3. TypeOK'
  BY <1>1 DEF IInv, TypeOK, account, Active
<1>4. \A w \in Workers : Sound(w, request[w])'
  <2> SUFFICES ASSUME NEW w \in Workers PROVE Sound(w, request[w])'
    OBVIOUS
  <2>1. Sound(w, request'[w])
    BY DEF IInv
  <2>2. ASSUME NEW q, Sound(w, q) PROVE Sound(w, q)'
    <3>1. RowsOf(q.user)' = RowsOf(q.user)
      BY <1>2
    <3>2. QED BY <1>1, <1>2, <2>2, <3>1 DEF Sound
  <2>3. QED BY <2>1, <2>2 DEF Sound
<1>5. MethodRemains'
  BY <1>1, <1>2 DEF IInv, MethodRemains
<1>6. \A u \in Users \ (Active \union raced)' : Gone(u)'
  <2> SUFFICES ASSUME NEW u \in Users \ (Active \union raced)' PROVE Gone(u)'
    OBVIOUS
  <2>1. u \notin Active \union raced /\ Gone(u)
    BY <1>1, <1>2 DEF IInv
  <2>2. \A s \in Sessions : user'[s] # u
    BY <2>1, NoneAssumption DEF Gone, Stands
  <2>3. QED BY <1>2, <2>1, <2>2 DEF Gone
<1>7. QED BY <1>1, <1>3, <1>4, <1>5, <1>6 DEF IInv

\* Who has a password, an identity or a session, stands.
LEMMA WhoStands ==
  ASSUME IInv
  PROVE  /\ \A u \in password : Stands(u)
         /\ \A r \in identity : r \in Row /\ r.user \in Users /\ r.subject \in Subjects /\ Stands(r.user)
         /\ \A s \in Sessions : user[s] # None => user[s] \in Users /\ Stands(user[s])
<1>1. \A u \in Users : ~Stands(u) => Gone(u)
  BY DEF IInv, Stands
<1>2. \A u \in password : Stands(u)
  BY <1>1 DEF Gone, IInv, TypeOK
<1>3. \A r \in identity : r \in Row /\ r.user \in Users /\ r.subject \in Subjects
  BY DEF IInv, TypeOK, Row
<1>4. \A r \in identity : Stands(r.user)
  BY <1>1, <1>3 DEF Gone, RowsOf
<1>5. \A s \in Sessions : user[s] # None => user[s] \in Users
  BY DEF IInv, TypeOK
<1>6. QED BY <1>1, <1>2, <1>3, <1>4, <1>5 DEF Gone

LEMMA BeginsSound ==
  ASSUME IInv, NEW w \in Workers, NEW q \in Request, Sound(w, q),
         request' = [request EXCEPT ![w] = q]
  PROVE  /\ request' \in [Workers -> Request]
         /\ \A v \in Workers : request'[v] = request[v] \/ Sound(v, request'[v])
BY DEF IInv, TypeOK

\* A request to link an account that stands, shown by it, is sound.
LEMMA LinkSound ==
  ASSUME NEW w, NEW q, q = Idle \/ (q.op \in {"link", "confirm"} /\ q.user = q.shown /\ Stands(q.user))
  PROVE  Sound(w, q)
BY IdleSound DEF Sound, Stands

Counted == raced' = raced \union {u \in Users : Races(u)'}

\* Signing in as somebody who stands.
LEMMA SignInQuiet ==
  ASSUME IInv, Counted, NEW s \in Sessions, NEW u \in Users, Stands(u), NEW e, NEW rows,
         SignIn(s, u, e, rows), UNCHANGED <<account, identity>>
  PROVE  IInv'
<1>1. PICK q \in Request : /\ request' = [request EXCEPT ![s] = q]
                           /\ q = Idle \/ (q.op = "link" /\ q.user = u /\ q.shown = u)
  BY SignInTypes DEF IInv
<1>2. Sound(s, q)
  BY <1>1, LinkSound
<1>3. s \in Workers
  BY DEF Workers
<1>4. /\ request' \in [Workers -> Request]
      /\ \A v \in Workers : request'[v] = request[v] \/ Sound(v, request'[v])
  BY <1>1, <1>2, <1>3, BeginsSound
<1>5. /\ user' = [user EXCEPT ![s] = u] /\ user' \in [Sessions -> Users \union {None}]
      /\ intent' = intent /\ pending' \in [Sessions -> Pending]
  BY SignInTypes DEF IInv
<1>6. \A t \in Sessions : user'[t] = user[t] \/ user'[t] = None \/ Stands(user'[t])
  BY <1>5 DEF IInv, TypeOK
<1>7. intent' \in [Sessions -> Intent] /\ \A t \in Sessions : SoundIntent(intent'[t])
  BY <1>5 DEF IInv, TypeOK
<1>8. QED BY <1>4, <1>5, <1>6, <1>7, QuietKeeps DEF Counted

\* Steps that only change a session.
LEMMA SessionQuiet ==
  ASSUME IInv, Counted, NEW s \in Sessions,
         \/ \E u \in Users : Login(s, u)
         \/ Logout(s) \/ Forget(s)
         \/ \E x \in Subjects : \E e \in Reports[x] : Collide(s, x, e)
         \/ \E u \in Users, p \in Providers : InitiateLink(s, u, p)
  PROVE  IInv'
<1>1. UNCHANGED <<account, identity>> /\ request' = request
  BY DEF Login, Logout, Forget, Collide, InitiateLink
<1>2. /\ user' \in [Sessions -> Users \union {None}]
      /\ \A t \in Sessions : user'[t] = user[t] \/ user'[t] = None \/ Stands(user'[t])
  BY WhoStands DEF Login, Logout, Forget, Collide, InitiateLink, IInv, TypeOK
<1>3. /\ intent' \in [Sessions -> Intent]
      /\ \A t \in Sessions : SoundIntent(intent'[t])
  <2>1. CASE \E u \in Users, p \in Providers : InitiateLink(s, u, p)
    <3>1. PICK u \in Users, p \in Providers : InitiateLink(s, u, p)
      BY <2>1
    <3>2. PICK i \in Intent : intent' = [intent EXCEPT ![s] = i] /\ SoundIntent(i)
      <4>1. LinkIntent(u, p, u) \in Intent /\ SoundIntent(LinkIntent(u, p, u))
        BY DEF LinkIntent, Intent, SoundIntent
      <4>2. \A q \in Providers : ProofIntent(u, p, q) \in Intent /\ SoundIntent(ProofIntent(u, p, q))
        BY DEF ProofIntent, Intent, SoundIntent
      <4>3. QED BY <3>1, <4>1, <4>2 DEF InitiateLink
    <3>3. QED BY <3>2 DEF IInv, TypeOK
  <2>2. CASE intent' = [intent EXCEPT ![s] = None]
    BY <2>2 DEF IInv, TypeOK, Intent, SoundIntent
  <2>3. CASE intent' = intent
    BY <2>3 DEF IInv, TypeOK
  <2>4. QED BY <2>1, <2>2, <2>3 DEF Login, Logout, Forget, Collide
<1>4. pending' \in [Sessions -> Pending]
  <2>1. CASE \E x \in Subjects : \E e \in Reports[x] : Collide(s, x, e)
    <3>1. PICK x \in Subjects, e \in Emails : pending' = [pending EXCEPT ![s] = [subject |-> x, email |-> e]]
      BY <2>1, ReportsAssumption DEF Collide
    <3>2. [subject |-> x, email |-> e] \in Pending
      BY DEF Pending
    <3>3. QED BY <3>1, <3>2 DEF IInv, TypeOK
  <2>2. CASE pending' = [pending EXCEPT ![s] = None]
    BY <2>2 DEF IInv, TypeOK, Pending
  <2>3. CASE pending' = pending
    BY <2>3 DEF IInv, TypeOK
  <2>4. QED BY <2>1, <2>2, <2>3 DEF Login, Logout, Forget, InitiateLink
<1>5. request' \in [Workers -> Request]
  BY <1>1 DEF IInv, TypeOK
<1>6. QED BY <1>1, <1>2, <1>3, <1>4, <1>5, QuietKeeps DEF Counted

\* The callbacks that find an account.
LEMMA FindQuiet ==
  ASSUME IInv, Counted, NEW s \in Sessions,
         (\E x \in Subjects : FindUser(s, x)) \/ CreateLost(s)
  PROVE  IInv'
<1>1. UNCHANGED <<account, identity>>
  BY DEF FindUser, CreateLost
<1>2. CASE \E r \in identity : SignIn(s, r.user, email[r.user], identity)
  BY <1>1, <1>2, WhoStands, SignInQuiet
<1>3. CASE Ends(s) /\ UNCHANGED session
  <2>1. s \in Workers /\ request' = [request EXCEPT ![s] = Idle]
    BY <1>3 DEF Workers, Ends
  <2>2. /\ request' \in [Workers -> Request]
        /\ \A v \in Workers : request'[v] = request[v] \/ Sound(v, request'[v])
    BY <2>1, IdleType, IdleSound, BeginsSound
  <2>3. /\ user' = user /\ intent' = intent /\ pending' = pending
    BY <1>3 DEF session
  <2>4. QED BY <1>1, <2>2, <2>3, QuietKeeps DEF Counted, IInv, TypeOK
<1>4. QED BY <1>2, <1>3 DEF FindUser, CreateLost, RowOf

\* Coming back from a provider, to link it or to show who one is.
LEMMA CallbackQuiet ==
  ASSUME IInv, Counted, NEW s \in Sessions, NEW x \in Subjects, AuthenticatedCallback(s, x)
  PROVE  IInv'
<1> DEFINE u == user[s]
           p == ProviderOf[x]
<1>1. /\ u \in Users /\ u # None /\ Stands(u) /\ s \in Workers
      /\ UNCHANGED <<account, identity>> /\ user' = user /\ pending' = pending
  BY WhoStands DEF AuthenticatedCallback, SignedIn, Workers, IInv, TypeOK
<1>2. /\ intent \in [Sessions -> Intent] /\ request \in [Workers -> Request]
      /\ \A t \in Sessions : SoundIntent(intent[t])
  BY DEF IInv, TypeOK
<1>3. CASE /\ Expects(s, "proof", p)
           /\ \E r \in RowOf(x) :
                /\ r.user = u
                /\ intent' = [intent EXCEPT ![s] = LinkIntent(u, IntentOf(s).target, r.user)]
           /\ UNCHANGED request
  <2>1. IntentOf(s).target \in Providers
    BY <1>2, <1>3 DEF Expects, IntentOf, Intent
  <2>2. LinkIntent(u, IntentOf(s).target, u) \in Intent /\ SoundIntent(LinkIntent(u, IntentOf(s).target, u))
    BY <1>1, <2>1 DEF LinkIntent, Intent, SoundIntent
  <2>3. intent' = [intent EXCEPT ![s] = LinkIntent(u, IntentOf(s).target, u)]
    BY <1>3
  <2>4. intent' \in [Sessions -> Intent] /\ \A t \in Sessions : SoundIntent(intent'[t])
    BY <1>2, <2>2, <2>3
  <2>5. QED BY <1>1, <1>2, <1>3, <2>4, QuietKeeps DEF Counted, IInv, TypeOK
<1>4. CASE intent' = [intent EXCEPT ![s] = None]
  <2>1. intent' \in [Sessions -> Intent] /\ \A t \in Sessions : SoundIntent(intent'[t])
    BY <1>2, <1>4 DEF Intent, SoundIntent
  <2>2. CASE UNCHANGED request
    BY <1>1, <1>2, <2>1, <2>2, QuietKeeps DEF Counted, IInv, TypeOK
  <2>3. CASE /\ Expects(s, "link", p)
             /\ Begins(s, LinkRequest("link", u, x, IntentOf(s).shown, identity))
    <3>1. IntentOf(s).shown = u
      BY <1>1, <1>2, <2>3 DEF Expects, IntentOf, SoundIntent
    <3> DEFINE q == LinkRequest("link", u, x, u, identity)
    <3>2. q \in Request /\ (q = Idle \/ (q.op = "link" /\ q.user = u /\ q.shown = u))
      BY <1>1, LinkRequestTypes
    <3>3. request' = [request EXCEPT ![s] = q]
      BY <2>3, <3>1 DEF Begins
    <3> HIDE DEF q
    <3>4. Sound(s, q)
      BY <1>1, <3>2, LinkSound
    <3>5. /\ request' \in [Workers -> Request]
          /\ \A v \in Workers : request'[v] = request[v] \/ Sound(v, request'[v])
      BY <1>1, <3>2, <3>3, <3>4, BeginsSound
    <3>6. QED BY <1>1, <2>1, <3>5, QuietKeeps DEF Counted, IInv, TypeOK
  <2>4. QED BY <1>4, <2>2, <2>3 DEF AuthenticatedCallback
<1>5. QED BY <1>3, <1>4 DEF AuthenticatedCallback

LEMMA ConfirmQuiet ==
  ASSUME IInv, Counted, NEW s \in Sessions, ConfirmLink(s)
  PROVE  IInv'
<1>1. /\ UNCHANGED <<account, identity>> /\ intent' = intent /\ s \in Workers
      /\ pending' = [pending EXCEPT ![s] = None] /\ pending[s] # None
  BY DEF ConfirmLink, Workers
<1>2. /\ pending' \in [Sessions -> Pending] /\ pending[s].subject \in Subjects
      /\ intent' \in [Sessions -> Intent] /\ \A t \in Sessions : SoundIntent(intent'[t])
  BY <1>1 DEF IInv, TypeOK, Pending
<1>3. CASE UNCHANGED <<user, request>>
  BY <1>1, <1>2, <1>3, QuietKeeps DEF Counted, IInv, TypeOK
<1>4. ASSUME NEW u \in password,
             \/ user' = [user EXCEPT ![s] = u] /\ UNCHANGED request
             \/ /\ Begins(s, LinkRequest("confirm", u, pending[s].subject, u, identity))
                /\ UNCHANGED user
      PROVE  IInv'
  <2>1. u \in Users /\ Stands(u)
    BY WhoStands DEF IInv, TypeOK
  <2>2. CASE user' = [user EXCEPT ![s] = u] /\ UNCHANGED request
    <3>1. /\ user' \in [Sessions -> Users \union {None}]
          /\ \A t \in Sessions : user'[t] = user[t] \/ user'[t] = None \/ Stands(user'[t])
      BY <2>1, <2>2 DEF IInv, TypeOK
    <3>2. QED BY <1>1, <1>2, <2>2, <3>1, QuietKeeps DEF Counted, IInv, TypeOK
  <2>3. CASE /\ Begins(s, LinkRequest("confirm", u, pending[s].subject, u, identity))
             /\ UNCHANGED user
    <3> DEFINE q == LinkRequest("confirm", u, pending[s].subject, u, identity)
    <3>1. q \in Request /\ (q = Idle \/ (q.op = "confirm" /\ q.user = u /\ q.shown = u))
      BY <1>2, <2>1, LinkRequestTypes
    <3>2. request' = [request EXCEPT ![s] = q]
      BY <2>3 DEF Begins
    <3> HIDE DEF q
    <3>3. Sound(s, q)
      BY <2>1, <3>1, LinkSound
    <3>4. /\ request' \in [Workers -> Request]
          /\ \A v \in Workers : request'[v] = request[v] \/ Sound(v, request'[v])
      BY <1>1, <3>1, <3>2, <3>3, BeginsSound
    <3>5. QED BY <1>1, <1>2, <2>3, <3>4, QuietKeeps DEF Counted, IInv, TypeOK
  <2>4. QED BY <1>4, <2>2, <2>3
<1>5. QED BY <1>3, <1>4 DEF ConfirmLink

\* What is read and found well: to create, to unlink, to erase, or nothing.
LEMMA ReadsQuiet ==
  ASSUME IInv, Counted,
         \/ \E w \in Sessions \union Clients, x \in Subjects : \E e \in Reports[x] : CreateRead(w, x, e)
         \/ \E w \in Sessions \union {Admin}, u \in Users : \E r \in RowsOf(u) : UnlinkRead(w, u, r)
         \/ \E u \in Users : EraseRead(u)
         \/ \E w \in Workers : Abort(w)
  PROVE  IInv'
<1>1. UNCHANGED <<account, identity>> /\ user' = user /\ intent' = intent /\ pending' = pending
  BY DEF CreateRead, UnlinkRead, EraseRead, Abort, session
<1>2. PICK w \in Workers, q \in Request : request' = [request EXCEPT ![w] = q] /\ Sound(w, q)
  <2>1. ASSUME NEW w \in Sessions \union Clients, NEW x \in Subjects, NEW e \in Reports[x],
               CreateRead(w, x, e)
        PROVE  \E v \in Workers, q \in Request : request' = [request EXCEPT ![v] = q] /\ Sound(v, q)
    <3> DEFINE q == [op |-> "create", user |-> None, subject |-> x, email |-> e]
    <3>1. q \in Request
      BY ReportsAssumption DEF Request
    <3>2. Sound(w, q)
      BY NoneAssumption DEF Sound
    <3>3. QED BY <2>1, <3>1, <3>2 DEF CreateRead, Begins, Workers
  <2>2. ASSUME NEW w \in Sessions \union {Admin}, NEW u \in Users, NEW r \in RowsOf(u),
               UnlinkRead(w, u, r)
        PROVE  \E v \in Workers, q \in Request : request' = [request EXCEPT ![v] = q] /\ Sound(v, q)
    <3> DEFINE q == [op |-> "unlink", user |-> u, rows |-> {r}]
    <3>1. r \in Row /\ r.user = u /\ Stands(u)
      BY WhoStands DEF RowsOf
    <3>2. q \in Request
      BY <3>1 DEF Request
    <3>3. u \in password \/ RowsOf(u) \ {r} # {}
      <4>1. u \notin password => Cardinality(RowsOf(u)) # 1
        BY <2>2 DEF UnlinkRead, LastMethod
      <4>2. Cardinality({r}) = 1
        BY FS_Singleton
      <4>3. RowsOf(u) \ {r} = {} => RowsOf(u) = {r}
        BY <2>2
      <4>4. QED BY <4>1, <4>2, <4>3
    <3>4. Sound(w, q)
      BY <3>1, <3>3 DEF Sound, Stands
    <3>5. QED BY <2>2, <3>2, <3>4 DEF UnlinkRead, Begins, Workers
  <2>3. ASSUME NEW u \in Users, EraseRead(u)
        PROVE  \E v \in Workers, q \in Request : request' = [request EXCEPT ![v] = q] /\ Sound(v, q)
    <3> DEFINE q == [op |-> "erase", user |-> u, rows |-> RowsOf(u)]
    <3>1. RowsOf(u) \subseteq Row /\ u \in Active
      BY <2>3, WhoStands DEF RowsOf, EraseRead
    <3>2. q \in Request
      BY <3>1 DEF Request
    <3>3. Sound(Admin, q)
      BY <3>1 DEF Sound, RowsOf
    <3>4. QED BY <2>3, <3>2, <3>3 DEF EraseRead, Begins, Workers
  <2>4. ASSUME NEW w \in Workers, Abort(w)
        PROVE  \E v \in Workers, q \in Request : request' = [request EXCEPT ![v] = q] /\ Sound(v, q)
    BY <2>4, IdleType, IdleSound DEF Abort, Ends
  <2>5. QED BY <2>1, <2>2, <2>3, <2>4
<1>3. /\ request' \in [Workers -> Request]
      /\ \A v \in Workers : request'[v] = request[v] \/ Sound(v, request'[v])
  BY <1>2, BeginsSound
<1>4. QED BY <1>1, <1>3, QuietKeeps DEF Counted, IInv, TypeOK

-----------------------------------------------------------------------------
(* The steps that write an account or an identity.                         *)

\* One account u, which is there afterwards, gets a password or identities,
\* unless it is just being erased.
LEMMA GrowKeeps ==
  ASSUME IInv, Counted, TypeOK', NEW u \in Users,
         \A v \in Users \ {u} : email'[v] = email[v],
         password \subseteq password', password' \subseteq password \union {u},
         identity \subseteq identity', \A r \in identity' \ identity : r.user = u,
         u \in Active' \/ u \in raced,
         u \in password' \/ RowsOf(u)' # {} \/ u \in raced,
         u \in Active => u \in Active',
         \A s \in Sessions : user'[s] = user[s] \/ user'[s] = u,
         \A s \in Sessions : SoundIntent(intent'[s]),
         \A w \in Workers :
            \/ request'[w] = request[w]
            \/ request'[w] = Idle
            \/ request'[w].op = "link" /\ request'[w].user = u /\ request'[w].shown = u,
         \A w \in Workers : request'[w].op = "erase" /\ request'[w].user = u => u \in raced
  PROVE  IInv'
<1>1. raced \subseteq raced' /\ \A v \in Users \ raced' : ~Races(v)'
  BY DEF Counted
<1>2. /\ \A v \in Users \ {u} : v \in Active' <=> v \in Active
      /\ \A v \in Users \ {u} : RowsOf(v)' = RowsOf(v)
      /\ RowsOf(u) \subseteq RowsOf(u)'
  BY DEF Active, RowsOf
<1>3. \A w \in Workers : Sound(w, request[w])'
  <2> SUFFICES ASSUME NEW w \in Workers PROVE Sound(w, request[w])'
    OBVIOUS
  <2>1. CASE request'[w] = Idle
    BY <2>1, IdleType, NoneAssumption DEF Sound
  <2>2. CASE request'[w].op = "link" /\ request'[w].user = u /\ request'[w].shown = u
    BY <1>1, <2>2 DEF Sound
  <2>3. CASE request'[w] = request[w]
    <3> DEFINE q == request[w]
    <3>1. Sound(w, q)
      BY DEF IInv
    <3>2. CASE q.user = u
      <4>1. q.op = "erase" => u \in raced
        BY <2>3, <3>2
      <4>2. RowsOf(u) \ q.rows # {} => RowsOf(u)' \ q.rows # {}
        BY <1>2
      <4>3. QED BY <1>1, <2>3, <3>1, <3>2, <4>1, <4>2 DEF Sound
    <3>3. CASE q.user \in Users \ {u}
      <4>1. RowsOf(q.user)' = RowsOf(q.user) /\ (q.user \in Active => q.user \in Active')
        BY <1>2, <2>3, <3>3
      <4>2. QED BY <1>1, <2>3, <3>1, <3>3, <4>1 DEF Sound
    <3>4. CASE q.user \notin Users
      <4>1. q.op \notin {"link", "confirm", "unlink", "erase"}
        BY <3>4, RequestTypes DEF IInv, TypeOK
      <4>2. QED BY <2>3, <3>4, <4>1 DEF Sound
    <3>5. QED BY <3>2, <3>3, <3>4
  <2>4. QED BY <2>1, <2>2, <2>3
<1>4. MethodRemains'
  <2> SUFFICES ASSUME NEW v \in Active' \ raced' PROVE v \in password' \/ RowsOf(v)' # {}
    BY DEF MethodRemains
  <2>1. CASE v = u
    BY <1>1, <2>1
  <2>2. CASE v # u
    <3>1. v \in Users
      BY DEF Active
    <3>2. v \in Active \ raced /\ RowsOf(v)' = RowsOf(v)
      BY <1>1, <1>2, <2>2, <3>1
    <3>3. QED BY <3>2 DEF IInv, MethodRemains
  <2>3. QED BY <2>1, <2>2
<1>5. \A v \in Users \ (Active \union raced)' : Gone(v)'
  <2> SUFFICES ASSUME NEW v \in Users \ (Active \union raced)' PROVE Gone(v)'
    OBVIOUS
  <2>1. v # u
    BY <1>1
  <2>2. Gone(v) /\ RowsOf(v)' = RowsOf(v)
    BY <1>1, <1>2, <2>1 DEF IInv
  <2>3. QED BY <2>1, <2>2 DEF Gone
<1>6. QED BY <1>1, <1>3, <1>4, <1>5 DEF IInv

LEMMA RegisterKeeps ==
  ASSUME IInv, Counted, NEW s \in Sessions, NEW u \in Users, NEW e \in Emails, Register(s, u, e)
  PROVE  IInv'
<1>1. /\ email' = [email EXCEPT ![u] = e] /\ password' = password \union {u}
      /\ user' = [user EXCEPT ![s] = u] /\ u \notin Active \union erased /\ ~Taken(e)
      /\ UNCHANGED <<erased, identity, intent, pending, request>>
  BY DEF Register
<1>2. TypeOK'
  <2>1. email' \in [Users -> Emails \union {None}]
    BY <1>1 DEF IInv, TypeOK
  <2>2. Active' = Active \union {u}
    BY <1>1, <2>1, NoneAssumption DEF Active, IInv, TypeOK
  <2>3. \A v, w \in Active' : email'[v] = email'[w] => v = w
    BY <1>1, <2>2 DEF Active, IInv, TypeOK, Taken
  <2>4. raced' \subseteq Users
    BY DEF Counted, IInv, TypeOK
  <2>5. QED BY <1>1, <2>1, <2>2, <2>3, <2>4 DEF IInv, TypeOK
<1>3. u \in Active' /\ \A v \in Users \ {u} : email'[v] = email[v]
  BY <1>1, NoneAssumption DEF Active, IInv, TypeOK
<1>4. \A w \in Workers : request'[w].op = "erase" /\ request'[w].user = u => u \in raced
  BY <1>1 DEF IInv, Sound
<1>5. QED BY <1>1, <1>2, <1>3, <1>4, GrowKeeps DEF IInv, TypeOK

LEMMA LinkKeeps ==
  ASSUME IInv, Counted, NEW s \in Sessions, LinkCommit(s)
  PROVE  IInv'
<1>0. /\ s \in Workers /\ s # Admin /\ request[s] \in Request
      /\ request[s].user \in Users /\ request[s].subject \in Subjects
  BY WorkersAssumption, RequestTypes DEF LinkCommit, Workers, IInv, TypeOK
<1>1. PICK u \in Users, x \in Subjects : u = request[s].user /\ x = request[s].subject
  BY <1>0
<1>2. /\ identity' = identity \union {[user |-> u, subject |-> x]}
      /\ user' = user \/ user' = [user EXCEPT ![s] = u]
      /\ request' = [request EXCEPT ![s] = Idle]
      /\ UNCHANGED <<email, password, erased, intent, pending>>
  BY <1>1 DEF LinkCommit, Ends, account
<1>3. TypeOK'
  <2>1. identity' \subseteq Row
    BY <1>0, <1>1, <1>2 DEF IInv, TypeOK, Row
  <2>2. user' \in [Sessions -> Users \union {None}] /\ request' \in [Workers -> Request]
    BY <1>0, <1>1, <1>2, IdleType DEF IInv, TypeOK
  <2>3. Active' = Active /\ raced' \subseteq Users
    BY <1>2 DEF Active, Counted, IInv, TypeOK
  <2>4. QED BY <1>2, <2>1, <2>2, <2>3 DEF IInv, TypeOK
<1>4. u \in Active \union raced /\ Active' = Active
  BY <1>0, <1>1, <1>2 DEF IInv, Sound, Active
<1>5. RowsOf(u)' # {}
  <2>1. [user |-> u, subject |-> x] \in identity' /\ [user |-> u, subject |-> x].user = u
    BY <1>2
  <2>2. QED BY <2>1 DEF RowsOf
<1>6. ASSUME NEW w \in Workers, request'[w].op = "erase", request'[w].user = u PROVE u \in raced
  <2>1. w # s
    BY <1>0, <1>1, <1>2, <1>6, IdleType DEF IInv, TypeOK
  <2>2. request[w].user = u
    BY <1>0, <1>1, <1>2, <1>6, <2>1 DEF IInv, TypeOK
  <2>3. QED BY <1>0, <1>1, <2>1, <2>2 DEF IInv, Races
<1>7. \A r \in identity' \ identity : r.user = u
  BY <1>2
<1>8. QED BY <1>0, <1>1, <1>2, <1>3, <1>4, <1>5, <1>6, <1>7, GrowKeeps DEF IInv, TypeOK

LEMMA CreateKeeps ==
  ASSUME IInv, Counted, NEW w \in Sessions \union Clients, NEW u \in Users, CreateCommit(w, u)
  PROVE  IInv'
<1>0. w \in Workers /\ request[w] \in Request /\ request[w].op = "create"
  BY DEF CreateCommit, Workers, IInv, TypeOK
<1>1. PICK e \in Emails, x \in Subjects : e = request[w].email /\ x = request[w].subject
  BY <1>0, RequestTypes
<1>2. /\ u \notin Active \union erased /\ ~Taken(e)
      /\ email' = [email EXCEPT ![u] = e]
      /\ identity' = identity \union {[user |-> u, subject |-> x]}
      /\ UNCHANGED <<password, erased>>
  BY <1>1 DEF CreateCommit
<1>3. /\ user' \in [Sessions -> Users \union {None}]
      /\ \A s \in Sessions : user'[s] = user[s] \/ user'[s] = u
      /\ intent' = intent /\ pending' \in [Sessions -> Pending]
      /\ \E q \in Request : /\ request' = [request EXCEPT ![w] = q]
                            /\ q = Idle \/ (q.op = "link" /\ q.user = u /\ q.shown = u)
  <2>1. CASE w \in Sessions
    <3>1. PICK rows : SignIn(w, u, request[w].email, rows)
      BY <2>1 DEF CreateCommit
    <3>2. QED BY <2>1, <3>1, SignInTypes DEF IInv, TypeOK
  <2>2. CASE w \notin Sessions
    BY <2>2, IdleType DEF CreateCommit, Ends, session, IInv, TypeOK
  <2>3. QED BY <2>1, <2>2
<1>4. PICK q \in Request : /\ request' = [request EXCEPT ![w] = q]
                           /\ q = Idle \/ (q.op = "link" /\ q.user = u /\ q.shown = u)
  BY <1>3
<1>5. TypeOK'
  <2>1. email' \in [Users -> Emails \union {None}]
    BY <1>2 DEF IInv, TypeOK
  <2>2. Active' = Active \union {u}
    BY <1>2, <2>1, NoneAssumption DEF Active, IInv, TypeOK
  <2>3. \A v, t \in Active' : email'[v] = email'[t] => v = t
    BY <1>2, <2>2 DEF Active, IInv, TypeOK, Taken
  <2>4. identity' \subseteq Row
    BY <1>2 DEF IInv, TypeOK, Row
  <2>5. raced' \subseteq Users /\ request' \in [Workers -> Request]
    BY <1>0, <1>4 DEF Counted, IInv, TypeOK
  <2>6. intent' \in [Sessions -> Intent]
    BY <1>3 DEF IInv, TypeOK
  <2>7. password' \subseteq Users /\ erased' \subseteq Users \ Active'
    BY <1>2, <2>2 DEF IInv, TypeOK
  <2>8. QED BY <1>3, <2>1, <2>3, <2>4, <2>5, <2>6, <2>7 DEF TypeOK
<1>6. u \in Active' /\ \A v \in Users \ {u} : email'[v] = email[v]
  BY <1>2, NoneAssumption DEF Active, IInv, TypeOK
<1>7. RowsOf(u)' # {} /\ \A r \in identity' \ identity : r.user = u
  <2>1. [user |-> u, subject |-> x] \in identity' /\ [user |-> u, subject |-> x].user = u
    BY <1>2
  <2>2. QED BY <1>2, <2>1 DEF RowsOf
<1>8. \A v \in Workers : \/ request'[v] = request[v] \/ request'[v] = Idle
                         \/ request'[v].op = "link" /\ request'[v].user = u /\ request'[v].shown = u
  BY <1>0, <1>4 DEF IInv, TypeOK
<1>9. ASSUME NEW v \in Workers, request'[v].op = "erase", request'[v].user = u PROVE u \in raced
  <2>1. request[v].op = "erase" /\ request[v].user = u
    BY <1>8, <1>9, IdleType
  <2>2. QED BY <1>2, <2>1 DEF IInv, Sound
<1>10. \A s \in Sessions : SoundIntent(intent'[s])
  BY <1>3 DEF IInv
<1>11. QED BY <1>2, <1>3, <1>5, <1>6, <1>7, <1>8, <1>9, <1>10, GrowKeeps

-----------------------------------------------------------------------------
(* The steps that delete identities.                                       *)

\* What worker w deletes is u's: other accounts keep their identities, and
\* requests about them are what they were.
LEMMA DeletesTypes ==
  ASSUME IInv, NEW w \in Workers, request[w].op \in {"unlink", "erase"}, Deletes(w),
         NEW u \in Users, u = request[w].user
  PROVE  /\ identity' \subseteq Row /\ request' \in [Workers -> Request]
         /\ RowsOf(u)' = RowsOf(u) \ request[w].rows
         /\ \A v \in Users \ {u} : RowsOf(v)' = RowsOf(v)
         /\ request'[w] = Idle
         /\ \A v \in Workers \ {w} :
               \/ request'[v] = request[v]
               \/ /\ request[v].user = u /\ request'[v].user = u
                  /\ request[v].op \in {"unlink", "erase"} /\ request'[v].op = request[v].op
                  /\ request'[v].rows \subseteq request[v].rows
<1>1. \A r \in request[w].rows : r.user = u
  BY DEF IInv, Sound
<1>2. identity' = identity \ request[w].rows
  BY DEF Deletes
<1>3. /\ RowsOf(u)' = RowsOf(u) \ request[w].rows
      /\ \A v \in Users \ {u} : RowsOf(v)' = RowsOf(v)
  BY <1>1, <1>2 DEF RowsOf
<1>4. request' = [v \in Workers |->
                    IF v = w THEN Idle
                    ELSE IF request[v].op \in {"unlink", "erase"}
                         THEN [request[v] EXCEPT !.rows = @ \ request[w].rows]
                         ELSE request[v]]
  BY DEF Deletes
<1>5. ASSUME NEW v \in Workers \ {w}, request[v].op \in {"unlink", "erase"}
      PROVE  /\ request'[v] \in Request
             /\ request'[v].user = request[v].user /\ request'[v].op = request[v].op
             /\ request'[v].rows = request[v].rows \ request[w].rows
             /\ request[v].user # u => request'[v] = request[v]
  <2>1. request'[v] = [request[v] EXCEPT !.rows = @ \ request[w].rows]
    BY <1>4, <1>5
  <2>2. request[v] \in [op : {"unlink", "erase"}, user : Users, rows : SUBSET Row]
    BY <1>5 DEF IInv, TypeOK, Request, Idle
  <2>3. /\ request'[v] \in [op : {"unlink", "erase"}, user : Users, rows : SUBSET Row]
        /\ request'[v].user = request[v].user /\ request'[v].op = request[v].op
        /\ request'[v].rows = request[v].rows \ request[w].rows
    BY <2>1, <2>2
  <2>4. \A r \in request[v].rows : r.user = request[v].user
    BY <1>5 DEF IInv, Sound
  <2>5. request[v].user # u => request[v].rows \ request[w].rows = request[v].rows
    BY <1>1, <2>4
  <2>6. request[v].user # u => request'[v] = request[v]
    BY <2>1, <2>2, <2>5
  <2>7. QED BY <2>3, <2>6 DEF Request
<1>6. \A v \in Workers \ {w} :
         request[v].op \notin {"unlink", "erase"} => request'[v] = request[v]
  BY <1>4
<1>7. \A v \in Workers : request'[v] \in Request
  BY <1>4, <1>5, <1>6, IdleType DEF IInv, TypeOK
<1>8. request' \in [Workers -> Request] /\ request'[w] = Idle
  BY <1>4, <1>7
<1>9. QED BY <1>2, <1>3, <1>5, <1>6, <1>8 DEF IInv, TypeOK

LEMMA ShrinkKeeps ==
  ASSUME IInv, Counted, TypeOK',
         NEW w \in Workers, request[w].op \in {"unlink", "erase"}, Deletes(w),
         NEW u \in Users, u = request[w].user,
         \A v \in Users \ {u} : email'[v] = email[v] /\ (v \in password <=> v \in password'),
         \A s \in Sessions : user'[s] = user[s] \/ user'[s] = None,
         intent' = intent,
         u \in raced' \/ (u \notin Active' /\ Gone(u)')
                      \/ (u \in Active /\ u \in Active' /\ (u \in password' \/ RowsOf(u)' # {}))
  PROVE  IInv'
<1>1. raced \subseteq raced' /\ \A v \in Users \ raced' : ~Races(v)'
  BY DEF Counted
<1>2. /\ \A v \in Users \ {u} : v \in Active' <=> v \in Active
      /\ \A v \in Users \ {u} : RowsOf(v)' = RowsOf(v)
  BY DeletesTypes DEF Active
<1>3. ASSUME NEW v \in Workers PROVE Sound(v, request[v])'
  <2> DEFINE q == request[v]
  <2>0. Sound(v, q) /\ q \in Request /\ request' \in [Workers -> Request]
    BY DeletesTypes DEF IInv, TypeOK
  <2>1. CASE request'[v] = Idle
    BY <2>1, IdleType, NoneAssumption DEF Sound
  <2>2. CASE v # w /\ q.user = u
    <3>1. u \in raced'
      BY <1>1, <2>2 DEF IInv, Races
    <3>2. \/ request'[v] = q
          \/ /\ request'[v].user = u /\ request'[v].op = q.op
             /\ q.op \in {"unlink", "erase"} /\ request'[v].rows \subseteq q.rows
      BY <2>2, DeletesTypes
    <3>3. QED BY <2>0, <2>2, <3>1, <3>2 DEF Sound
  <2>3. CASE v # w /\ q.user \in Users \ {u}
    <3>1. request'[v] = q
      BY <2>3, DeletesTypes
    <3>2. /\ RowsOf(q.user)' = RowsOf(q.user) /\ (q.user \in Active => q.user \in Active')
          /\ (q.user \in password => q.user \in password')
      BY <1>2, <2>3, <3>1
    <3>3. QED BY <1>1, <2>0, <2>3, <3>1, <3>2 DEF Sound
  <2>4. CASE v # w /\ q.user \notin Users
    <3>1. request'[v] = q /\ q.op \notin {"link", "confirm", "unlink", "erase"}
      BY <2>0, <2>4, DeletesTypes, RequestTypes
    <3>2. QED BY <2>4, <3>1 DEF Sound
  <2>5. QED BY <2>1, <2>2, <2>3, <2>4, DeletesTypes
<1>4. MethodRemains'
  <2> SUFFICES ASSUME NEW v \in Active' \ raced' PROVE v \in password' \/ RowsOf(v)' # {}
    BY DEF MethodRemains
  <2>1. CASE v = u
    BY <2>1
  <2>2. CASE v # u
    <3>1. v \in Users
      BY DEF Active
    <3>2. v \in Active \ raced /\ RowsOf(v)' = RowsOf(v)
      BY <1>1, <1>2, <2>2, <3>1
    <3>3. QED BY <2>2, <3>1, <3>2 DEF IInv, MethodRemains
  <2>3. QED BY <2>1, <2>2
<1>5. \A v \in Users \ (Active \union raced)' : Gone(v)'
  <2> SUFFICES ASSUME NEW v \in Users \ (Active \union raced)' PROVE Gone(v)'
    OBVIOUS
  <2>1. CASE v = u
    BY <2>1
  <2>2. CASE v # u
    <3>1. Gone(v) /\ RowsOf(v)' = RowsOf(v)
      BY <1>1, <1>2, <2>2 DEF IInv
    <3>2. QED BY <2>2, <3>1, NoneAssumption DEF Gone
  <2>3. QED BY <2>1, <2>2
<1>6. \A s \in Sessions : SoundIntent(intent[s])'
  BY DEF IInv
<1>7. QED BY <1>1, <1>3, <1>4, <1>5, <1>6 DEF IInv

LEMMA UnlinkKeeps ==
  ASSUME IInv, Counted, NEW w \in Sessions \union {Admin}, UnlinkCommit(w)
  PROVE  IInv'
<1>1. /\ w \in Workers /\ request[w] \in Request /\ request[w].op = "unlink"
      /\ Deletes(w) /\ UNCHANGED <<email, password, erased, user, intent, pending>>
  BY DEF UnlinkCommit, Workers, IInv, TypeOK, account, session
<1>2. PICK u \in Users : u = request[w].user
  BY <1>1, RequestTypes
<1>3. TypeOK'
  <2>1. identity' \subseteq Row /\ request' \in [Workers -> Request]
    BY <1>1, <1>2, DeletesTypes
  <2>2. Active' = Active /\ raced' \subseteq Users
    BY <1>1 DEF Active, Counted, IInv, TypeOK
  <2>3. QED BY <1>1, <2>1, <2>2 DEF IInv, TypeOK
<1>4. u \in raced \/ (u \in Active /\ (u \in password \/ RowsOf(u) \ request[w].rows # {}))
  BY <1>1, <1>2 DEF IInv, Sound
<1>5. RowsOf(u)' = RowsOf(u) \ request[w].rows
  BY <1>1, <1>2, DeletesTypes
<1>6. u \in raced' \/ (u \in Active /\ u \in Active' /\ (u \in password' \/ RowsOf(u)' # {}))
  BY <1>1, <1>4, <1>5 DEF Counted, Active
<1>7. QED BY <1>1, <1>2, <1>3, <1>6, ShrinkKeeps

LEMMA EraseKeeps == ASSUME IInv, Counted, EraseCommit PROVE IInv'
<1>1. /\ Admin \in Workers /\ request[Admin] \in Request /\ request[Admin].op = "erase"
      /\ Deletes(Admin) /\ UNCHANGED <<intent, pending>>
  BY DEF EraseCommit, Workers, IInv, TypeOK
<1>2. PICK u \in Users : u = request[Admin].user
  BY <1>1, RequestTypes
<1>3. /\ email' = [email EXCEPT ![u] = None]
      /\ password' = password \ {u} /\ erased' = erased \union {u}
      /\ user' = [s \in Sessions |-> IF user[s] = u THEN None ELSE user[s]]
  BY <1>2 DEF EraseCommit
<1>4. Active' = Active \ {u}
  BY <1>3 DEF Active, IInv, TypeOK
<1>5. TypeOK'
  <2>1. identity' \subseteq Row /\ request' \in [Workers -> Request]
    BY <1>1, <1>2, DeletesTypes
  <2>2. email' \in [Users -> Emails \union {None}] /\ \A v, t \in Active' : email'[v] = email'[t] => v = t
    BY <1>3, <1>4 DEF IInv, TypeOK, Active
  <2>3. raced' \subseteq Users /\ user' \in [Sessions -> Users \union {None}]
    BY <1>3 DEF Counted, IInv, TypeOK
  <2>4. password' \subseteq Users /\ erased' \subseteq Users \ Active'
    BY <1>3, <1>4 DEF IInv, TypeOK
  <2>5. QED BY <1>1, <2>1, <2>2, <2>3, <2>4 DEF IInv, TypeOK
<1>6. u \in raced' \/ Gone(u)'
  <2>1. u \in raced \/ RowsOf(u) \subseteq request[Admin].rows
    BY <1>1, <1>2 DEF IInv, Sound
  <2>2. RowsOf(u)' = RowsOf(u) \ request[Admin].rows
    BY <1>1, <1>2, DeletesTypes
  <2>3. u \notin password' /\ \A s \in Sessions : user'[s] # u
    BY <1>3, NoneAssumption
  <2>4. QED BY <2>1, <2>2, <2>3 DEF Gone, Counted
<1>7. QED BY <1>1, <1>2, <1>3, <1>4, <1>5, <1>6, ShrinkKeeps DEF IInv, TypeOK

-----------------------------------------------------------------------------
(* The theorems.                                                           *)
LEMMA InitIInv == Init => IInv
<1> SUFFICES ASSUME Init PROVE IInv
  OBVIOUS
<1>1. Active = {}
  BY DEF Init, Active
<1>2. TypeOK
  BY <1>1, IdleType DEF Init, TypeOK, Intent, Pending
<1>3. \A s \in Sessions : SoundIntent(intent[s])
  BY DEF Init, SoundIntent
<1>4. \A w \in Workers : Sound(w, request[w]) /\ request[w].user = None
  BY IdleSound, IdleType DEF Init
<1>5. \A u \in Users : ~Races(u)
  BY <1>4, NoneAssumption DEF Races
<1>6. MethodRemains
  BY <1>1 DEF MethodRemains
<1>7. \A u \in Users : Gone(u)
  BY NoneAssumption DEF Init, Gone, RowsOf
<1>8. QED BY <1>2, <1>3, <1>4, <1>5, <1>6, <1>7 DEF IInv

LEMMA NextIInv == IInv /\ [Next]_vars => IInv'
<1> SUFFICES ASSUME IInv, [Next]_vars PROVE IInv'
  OBVIOUS
<1>1. CASE Next
  <2>1. Step /\ Counted
    BY <1>1 DEF Next, Counted
  <2>2. QED BY <2>1, SessionQuiet, FindQuiet, CallbackQuiet, ConfirmQuiet, ReadsQuiet,
               RegisterKeeps, LinkKeeps, CreateKeeps, UnlinkKeeps, EraseKeeps DEF Step
<1>2. CASE UNCHANGED vars
  BY <1>2 DEF vars, account, session, IInv, TypeOK, Active, Sound, RowsOf, Races, MethodRemains, Gone
<1>3. QED BY <1>1, <1>2

THEOREM Invariance == Spec => []IInv
BY InitIInv, NextIInv, PTL DEF Spec

\* Every reachable state is of the declared types; above all, an address is
\* of one account, whatever overlaps.
THEOREM TypeCorrect == Spec => []TypeOK
<1>1. IInv => TypeOK
  BY DEF IInv
<1>2. QED BY <1>1, Invariance, PTL

\* MethodRemains is an invariant: whoever links, unlinks, registers or erases,
\* an account of which no two requests overlapped keeps a way in
\* (linking_service.py:718-720).
THEOREM MethodsRemain == Spec => []MethodRemains
<1>1. IInv => MethodRemains
  BY DEF IInv
<1>2. QED BY <1>1, Invariance, PTL

\* ErasedStaysOut is an invariant: whatever browsers carry from before, an
\* account that was erased, alone, is never entered again
\* (account_data_service.py).
THEOREM ErasedStayOut == Spec => []ErasedStaysOut
<1>1. IInv => ErasedStaysOut
  BY DEF IInv, TypeOK, Gone, ErasedStaysOut
<1>2. QED BY <1>1, Invariance, PTL

\* An identity that a step adds to an account that is there was shown.
LEMMA AddedStep ==
  ASSUME IInv, [Next]_vars, NEW r \in identity' \ identity, r.user \in Active
  PROVE  \E s \in Sessions : /\ request[s].op \in {"link", "confirm"}
                             /\ request[s].user = r.user /\ request[s].subject = r.subject
                             /\ request[s].shown = r.user
<1>1. \/ \E s \in Sessions : LinkCommit(s)
      \/ \E w \in Sessions \union Clients, u \in Users : CreateCommit(w, u)
  BY DEF Next, Step, vars, Register, Login, Logout, Forget, FindUser, AuthenticatedCallback, Collide,
     CreateLost, ConfirmLink, InitiateLink, CreateRead, UnlinkRead, UnlinkCommit, Deletes,
     Abort, EraseRead, EraseCommit
<1>2. CASE \E s \in Sessions : LinkCommit(s)
  <2>1. PICK s \in Sessions : LinkCommit(s)
    BY <1>2
  <2>2. r = [user |-> request[s].user, subject |-> request[s].subject]
    BY <2>1 DEF LinkCommit
  <2>3. request[s].shown = request[s].user
    BY <2>1 DEF LinkCommit, IInv, Sound, Workers
  <2>4. QED BY <2>1, <2>2, <2>3 DEF LinkCommit
<1>3. CASE \E w \in Sessions \union Clients, u \in Users : CreateCommit(w, u)
  BY <1>3 DEF CreateCommit
<1>4. QED BY <1>1, <1>2, <1>3

\* LinkNeedsProof is a property of every step: an identity is added to an
\* account that exists only by a browser that has shown, for this link, that
\* it may enter the account (google_service.py:199).
THEOREM LinksAreProven == Spec => LinkNeedsProof
<1>1. IInv /\ [Next]_vars =>
        [\A r \in identity' \ identity : r.user \in Active =>
          \E s \in Sessions : /\ request[s].op \in {"link", "confirm"}
                              /\ request[s].user = r.user /\ request[s].subject = r.subject
                              /\ request[s].shown = r.user]_vars
  BY AddedStep
<1>2. QED BY Invariance, <1>1, PTL DEF Spec, LinkNeedsProof
=============================================================================
