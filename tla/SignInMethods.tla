---------------------------- MODULE SignInMethods ----------------------------
(***************************************************************************)
(* How a person gets into an account: its password, or the identities at   *)
(* Google and GitHub that are linked to it                                 *)
(* (backend/splash/services/oauth, the table UserOAuthIdentities), and the *)
(* ways an identity is added or taken away: first sign-in, the settings    *)
(* page, the confirmation after an e-mail collision, unlinking by the user *)
(* or an admin, and erasure.                                               *)
(*                                                                         *)
(* A browser has a session (in Redis) with the user it is signed in as and *)
(* two stashes that survive a logout: the intent to link a provider, and   *)
(* the identity that collided with an account's e-mail.  One browser sends *)
(* one request at a time; browsers and an admin overlap.  As elsewhere, a  *)
(* request reads, decides, and writes in one commit, on which PostgreSQL   *)
(* checks the unique constraints.                                          *)
(*                                                                         *)
(* What the provider answers is free: any subject of its, with any e-mail  *)
(* it may report for it. A mobile client has no session: it only creates   *)
(* accounts, with Google. Accounts begin with their e-mail validated.      *)
(* Suspension is left out: a suspended account is refused where it could   *)
(* sign in, and no step is bound to be taken here. Registering and signing *)
(* in are one step: the unique e-mail refuses what a race could add, and   *)
(* what an erasure that overlaps a sign-in does is not claimed (raced).    *)
(* Rows of identities have a key that is not reused; when a row is         *)
(* deleted, requests that name it name nothing.                            *)
(*                                                                         *)
(* The field shown of an intent and of a request to link is history: the   *)
(* account of which the browser has, for this link, given the password or  *)
(* come back from a linked provider.                                       *)
(***************************************************************************)
EXTENDS FiniteSets

CONSTANTS
    Users,      \* primary keys of Users
    Emails,     \* addresses, in lower case
    Providers,  \* google and github, both configured
    Google,     \* the one mobile clients sign in with
    Subjects,   \* accounts at the providers
    ProviderOf, \* the provider of each
    Reports,    \* the e-mails a provider may report for each
    Sessions,   \* browsers
    Clients,    \* mobile clients
    Admin,      \* the worker that serves an admin
    None        \* no value

ASSUME ProviderAssumption == ProviderOf \in [Subjects -> Providers]
ASSUME ReportsAssumption == Reports \in [Subjects -> SUBSET Emails]
ASSUME NoneAssumption == None \notin Users \union Emails \union Subjects
ASSUME WorkersAssumption == Admin \notin Sessions \union Clients /\ Sessions \intersect Clients = {}

VARIABLES
    email,      \* Users.email, None for no row and for the tombstone
    password,   \* accounts whose Users.password is not NULL
    erased,     \* accounts whose e-mail is a tombstone
    identity,   \* rows of UserOAuthIdentities
    user,       \* the session's user
    intent,     \* the session's oauth_link_intent
    pending,    \* the session's oauth_pending_link
    request,    \* what each worker has read and not yet committed
    \* history
    raced       \* accounts of which two requests were under way at once

account == <<email, password, erased>>
session == <<user, intent, pending>>
vars    == <<account, identity, session, request, raced>>

-----------------------------------------------------------------------------
Workers == Sessions \union Clients \union {Admin}
Idle    == [op |-> "idle", user |-> None]
Row     == [user : Users, subject : Subjects]

Intent  == {None} \union [action : {"link", "proof"}, target : Providers, proof : Providers,
                       user : Users, shown : Users \union {None}]
Pending == {None} \union [subject : Subjects, email : Emails]
Request == {Idle} \union [op : {"create"}, user : {None}, subject : Subjects, email : Emails]
                  \union [op : {"link", "confirm"}, user : Users, subject : Subjects,
                            shown : Users \union {None}]
                  \union [op : {"unlink", "erase"}, user : Users, rows : SUBSET Row]

Active == {u \in Users : email[u] # None}
Taken(e) == \E u \in Users : email[u] = e
RowsOf(u) == {r \in identity : r.user = u}
RowOf(x) == {r \in identity : r.subject = x}
Linked(u, p) == {r \in RowsOf(u) : ProviderOf[r.subject] = p}

TypeOK ==
    /\ email \in [Users -> Emails \union {None}]
    /\ \A u, v \in Active : email[u] = email[v] => u = v
    /\ password \subseteq Users /\ erased \subseteq Users \ Active
    /\ identity \subseteq Row
    /\ user \in [Sessions -> Users \union {None}]
    /\ intent \in [Sessions -> Intent]
    /\ pending \in [Sessions -> Pending]
    /\ request \in [Workers -> Request]
    /\ raced \subseteq Users

Init ==
    /\ email = [u \in Users |-> None] /\ password = {} /\ erased = {}
    /\ identity = {}
    /\ user = [s \in Sessions |-> None]
    /\ intent = [s \in Sessions |-> None] /\ pending = [s \in Sessions |-> None]
    /\ request = [w \in Workers |-> Idle]
    /\ raced = {}

-----------------------------------------------------------------------------
Free(w)         == request[w] = Idle
Anonymous(s)    == Free(s) /\ user[s] = None
SignedIn(s, u)  == Free(s) /\ user[s] = u /\ u # None
Begins(w, r)    == request' = [request EXCEPT ![w] = r]
Ends(w)         == request' = [request EXCEPT ![w] = Idle]

\* What the unique constraints and the searches before the insert refuse.
Linkable(u, x, rows) ==
    \A r \in rows : /\ r.subject # x
                    /\ ~(r.user = u /\ ProviderOf[r.subject] = ProviderOf[x])

LinkRequest(op, u, x, shown, rows) ==
    IF Linkable(u, x, rows)
    THEN [op |-> op, user |-> u, subject |-> x, shown |-> shown]
    ELSE Idle

\* A browser signs in as u, whose e-mail is e; an identity it has pending for
\* that e-mail is linked at once.
Completes(s, e) == pending[s] # None /\ pending[s].email = e

SignIn(s, u, e, rows) ==
    /\ user' = [user EXCEPT ![s] = u]
    /\ IF Completes(s, e)
       THEN /\ pending' = [pending EXCEPT ![s] = None]
            /\ Begins(s, LinkRequest("link", u, pending[s].subject, u, rows))
       ELSE Ends(s) /\ UNCHANGED pending
    /\ UNCHANGED intent

-----------------------------------------------------------------------------
(* Accounts with a password.                                               *)
Register(s, u, e) ==
    /\ Anonymous(s)
    /\ u \notin Active \union erased /\ ~Taken(e)
    /\ email' = [email EXCEPT ![u] = e]
    /\ password' = password \union {u}
    /\ user' = [user EXCEPT ![s] = u]
    /\ UNCHANGED <<erased, identity, intent, pending, request>>

Login(s, u) ==
    /\ Anonymous(s) /\ u \in password
    /\ user' = [user EXCEPT ![s] = u]
    /\ UNCHANGED <<account, identity, intent, pending, request>>

Logout(s) ==
    /\ Free(s)
    /\ user' = [user EXCEPT ![s] = None]
    /\ UNCHANGED <<account, identity, intent, pending, request>>

\* A stash is ten minutes old, or dropped with the error of a provider.
Forget(s) ==
    /\ Free(s)
    /\ \/ intent' = [intent EXCEPT ![s] = None] /\ UNCHANGED pending
       \/ pending' = [pending EXCEPT ![s] = None] /\ UNCHANGED intent
    /\ UNCHANGED <<account, identity, user, request>>

-----------------------------------------------------------------------------
(* The provider's callback without a session.                              *)
FindUser(s, x) ==
    /\ Anonymous(s)
    /\ \E r \in RowOf(x) : SignIn(s, r.user, email[r.user], identity)
    /\ UNCHANGED <<account, identity>>

CollideAutoLinking(s, x, e) ==           \* mutant: links on the e-mail alone
    /\ Anonymous(s)
    /\ RowOf(x) = {}
    /\ \E u \in Active : email[u] = e /\ Begins(s, LinkRequest("link", u, x, None, identity))
    /\ UNCHANGED <<account, identity, user, pending, intent>>

Collide(s, x, e) ==
    /\ Anonymous(s)
    /\ RowOf(x) = {} /\ Taken(e)
    /\ pending' = [pending EXCEPT ![s] = [subject |-> x, email |-> e]]
    /\ UNCHANGED <<account, identity, user, intent, request>>

\* Also the native sign-in, which changes nothing but here: it only reads an
\* identity it finds, and answers a collision with an error.
CreateRead(w, x, e) ==
    /\ IF w \in Sessions THEN Anonymous(w) ELSE Free(w) /\ ProviderOf[x] = Google
    /\ RowOf(x) = {} /\ ~Taken(e)
    /\ Begins(w, [op |-> "create", user |-> None, subject |-> x, email |-> e])
    /\ UNCHANGED <<account, identity, session>>

CreateCommit(w, u) ==
    LET new == identity \union {[user |-> u, subject |-> request[w].subject]} IN
    /\ request[w].op = "create"
    /\ u \notin Active \union erased
    /\ ~Taken(request[w].email) /\ RowOf(request[w].subject) = {}
    /\ email' = [email EXCEPT ![u] = request[w].email]
    /\ identity' = new
    /\ IF w \in Sessions THEN SignIn(w, u, request[w].email, new) ELSE Ends(w) /\ UNCHANGED session
    /\ UNCHANGED <<password, erased>>

\* The IntegrityError of a browser: the account of a request that was quicker, or none.
CreateLost(s) ==
    /\ request[s].op = "create"
    /\ Taken(request[s].email) \/ RowOf(request[s].subject) # {}
    /\ \/ \E r \in RowOf(request[s].subject) : SignIn(s, r.user, email[r.user], identity)
       \/ /\ RowOf(request[s].subject) = {}
          /\ Ends(s)
          /\ UNCHANGED session
    /\ UNCHANGED <<account, identity>>

-----------------------------------------------------------------------------
(* Linking: from the settings page, and after a collision.                 *)
LinkIntent(u, p, shown) ==
    [action |-> "link", target |-> p, proof |-> p, user |-> u, shown |-> shown]
ProofIntent(u, p, q) ==
    [action |-> "proof", target |-> p, proof |-> q, user |-> u, shown |-> None]

InitiateLink(s, u, p) ==
    /\ SignedIn(s, u)
    /\ Linked(u, p) = {}
    /\ \/ /\ u \in password
          /\ intent' = [intent EXCEPT ![s] = LinkIntent(u, p, u)]
       \/ /\ u \notin password
          /\ \E q \in Providers \ {p} :
              /\ Linked(u, q) # {}
              /\ intent' = [intent EXCEPT ![s] = ProofIntent(u, p, q)]
    /\ UNCHANGED <<account, identity, user, pending, request>>

\* The intent, which is taken from the session in any case.
IntentOf(s) == IF intent[s] # None /\ intent[s].user = user[s] THEN intent[s] ELSE None

Expects(s, action, p) ==
    /\ IntentOf(s) # None
    /\ IntentOf(s).action = action
    /\ p = IF action = "proof" THEN IntentOf(s).proof ELSE IntentOf(s).target

AuthenticatedCallback(s, x) ==
    LET u == user[s]
        p == ProviderOf[x]
    IN
    /\ SignedIn(s, u) /\ intent[s] # None
    /\ \/ /\ Expects(s, "proof", p)
          /\ \E r \in RowOf(x) :
              /\ r.user = u
              /\ intent' = [intent EXCEPT ![s] = LinkIntent(u, IntentOf(s).target, r.user)]
          /\ UNCHANGED request
       \/ /\ Expects(s, "link", p)
          /\ intent' = [intent EXCEPT ![s] = None]
          /\ Begins(s, LinkRequest("link", u, x, IntentOf(s).shown, identity))
       \/ /\ ~Expects(s, "link", p)
          /\ Expects(s, "proof", p) => \A r \in RowOf(x) : r.user # u
          /\ intent' = [intent EXCEPT ![s] = None]
          /\ UNCHANGED request
    /\ UNCHANGED <<account, identity, user, pending>>

ConfirmLink(s) ==
    /\ Anonymous(s) /\ pending[s] # None
    /\ pending' = [pending EXCEPT ![s] = None]
    /\ \/ \E u \in password :
            LET x == pending[s].subject IN
            /\ email[u] = pending[s].email
            /\ IF [user |-> u, subject |-> x] \in identity
               THEN user' = [user EXCEPT ![s] = u] /\ UNCHANGED request
               ELSE Begins(s, LinkRequest("confirm", u, x, u, identity)) /\ UNCHANGED user
       \/ /\ \A u \in password : email[u] # pending[s].email
          /\ UNCHANGED <<user, request>>
    /\ UNCHANGED <<account, identity, intent>>

LinkCommit(s) ==
    /\ request[s].op \in {"link", "confirm"}
    /\ Linkable(request[s].user, request[s].subject, identity)
    /\ identity' = identity \union {[user |-> request[s].user, subject |-> request[s].subject]}
    /\ user' = IF request[s].op = "confirm" THEN [user EXCEPT ![s] = request[s].user] ELSE user
    /\ Ends(s)
    /\ UNCHANGED <<account, intent, pending>>

-----------------------------------------------------------------------------
(* Unlinking and erasure.                                                  *)
LastMethod(u) == u \notin password /\ Cardinality(RowsOf(u)) = 1

UnlinkAny(w, u, r) ==                    \* mutant: no guard of the last method
    /\ Free(w)
    /\ w = Admin \/ (w \in Sessions /\ user[w] = u)
    /\ r \in RowsOf(u)
    /\ Begins(w, [op |-> "unlink", user |-> u, rows |-> {r}])
    /\ UNCHANGED <<account, identity, session>>

UnlinkRead(w, u, r) ==
    /\ Free(w)
    /\ w = Admin \/ (w \in Sessions /\ user[w] = u)
    /\ r \in RowsOf(u) /\ ~LastMethod(u)
    /\ Begins(w, [op |-> "unlink", user |-> u, rows |-> {r}])
    /\ UNCHANGED <<account, identity, session>>

EraseRead(u) ==
    /\ Free(Admin) /\ u \in Active
    /\ Begins(Admin, [op |-> "erase", user |-> u, rows |-> RowsOf(u)])
    /\ UNCHANGED <<account, identity, session>>

\* Request w is over, and the rows it deletes are nobody's any more.
Deletes(w) ==
    /\ identity' = identity \ request[w].rows
    /\ request' = [v \in Workers |->
                      IF v = w THEN Idle
                      ELSE IF request[v].op \in {"unlink", "erase"}
                           THEN [request[v] EXCEPT !.rows = @ \ request[w].rows]
                           ELSE request[v]]

UnlinkCommit(w) ==
    /\ request[w].op = "unlink"
    /\ Deletes(w)
    /\ UNCHANGED <<account, session>>

EraseKeepingIdentities ==                \* mutant: the identities stay
    /\ request[Admin].op = "erase"
    /\ Ends(Admin)
    /\ email' = [email EXCEPT ![request[Admin].user] = None]
    /\ password' = password \ {request[Admin].user}
    /\ erased' = erased \union {request[Admin].user}
    /\ user' = [s \in Sessions |-> IF user[s] = request[Admin].user THEN None ELSE user[s]]
    /\ UNCHANGED <<identity, intent, pending>>

\* Sessions of an earlier stamp are anonymous from here on.
EraseCommit ==
    LET u == request[Admin].user IN
    /\ request[Admin].op = "erase"
    /\ Deletes(Admin)
    /\ email' = [email EXCEPT ![u] = None]
    /\ password' = password \ {u}
    /\ erased' = erased \union {u}
    /\ user' = [s \in Sessions |-> IF user[s] = u THEN None ELSE user[s]]
    /\ UNCHANGED <<intent, pending>>

\* A constraint, an error, or the end of the process.
Abort(w) ==
    /\ ~Free(w)
    /\ Ends(w)
    /\ UNCHANGED <<account, identity, session>>

-----------------------------------------------------------------------------
Step ==
    \/ \E s \in Sessions :
        \/ \E u \in Users, e \in Emails : Register(s, u, e)
        \/ \E u \in Users : Login(s, u)
        \/ Logout(s) \/ Forget(s)
        \/ \E x \in Subjects : FindUser(s, x) \/ AuthenticatedCallback(s, x)
        \/ \E x \in Subjects : \E e \in Reports[x] : Collide(s, x, e)
        \/ CreateLost(s) \/ ConfirmLink(s) \/ LinkCommit(s)
        \/ \E u \in Users, p \in Providers : InitiateLink(s, u, p)
    \/ \E w \in Sessions \union Clients :
        \/ \E x \in Subjects : \E e \in Reports[x] : CreateRead(w, x, e)
        \/ \E u \in Users : CreateCommit(w, u)
    \/ \E w \in Sessions \union {Admin} :
        \/ \E u \in Users : \E r \in RowsOf(u) : UnlinkRead(w, u, r)
        \/ UnlinkCommit(w)
    \/ \E w \in Workers : Abort(w)
    \/ \E u \in Users : EraseRead(u)
    \/ EraseCommit

Races(u) == \E v, w \in Workers : v # w /\ request[v].user = u /\ request[w].user = u

Next == Step /\ raced' = raced \union {u \in Users : Races(u)'}

Spec == Init /\ [][Next]_vars

-----------------------------------------------------------------------------
(* Properties                                                              *)

\* "Never auto-link on the provider's email claim" (google_service.py:199): an
\* identity is added to an account that exists only by a browser that has,
\* for this link, given its password or come back from one of its providers,
\* whatever stashes the browser carries from those who used it before.
LinkNeedsProof ==
    [][\A r \in identity' \ identity : r.user \in Active =>
          \E s \in Sessions : /\ request[s].op \in {"link", "confirm"}
                              /\ request[s].user = r.user /\ request[s].subject = r.subject
                              /\ request[s].shown = r.user]_vars

\* "A password-less account may never drop its final identity"
\* (linking_service.py:718-720): everybody keeps a way in, unless two requests
\* about one account overlap (each unlinking then counts the other's row).
MethodRemains == \A u \in Active \ raced : u \in password \/ RowsOf(u) # {}

\* An erased account has no password and no identity left, and no browser is
\* signed in to it, whatever intents and collisions its browsers still carry;
\* again unless a request about it overlapped the erasure.
ErasedStaysOut ==
    \A u \in erased \ raced :
        u \notin password /\ RowsOf(u) = {} /\ \A s \in Sessions : user[s] # u
=============================================================================
