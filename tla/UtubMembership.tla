--------------------------- MODULE UtubMembership ---------------------------
(***************************************************************************)
(* Who belongs to a UTub and who owns it: the tables Utubs and UtubMembers *)
(* (backend/models/utubs.py, utub_members.py), changed by the requests of  *)
(* utubs/services and members/services, which a UTub's members send, and   *)
(* by the admin actions of admin/moderation_service.py and                 *)
(* admin/account_data_service.py.                                          *)
(*                                                                         *)
(* As in RefreshTokens, a request of a worker process reads, decides and   *)
(* commits later, and other workers commit in between.  What the commit    *)
(* still checks is what the database checks for it: foreign keys, primary  *)
(* keys, and that an UPDATE of a row finds it (SQLAlchemy's                *)
(* StaleDataError; a DELETE that finds nothing is only a warning).  A      *)
(* request that fails there, or for any other reason, is rolled back       *)
(* (Fail).                                                                 *)
(*                                                                         *)
(* The code keeps the owner of a UTub twice: in the column utub_creator,   *)
(* which the admin actions consult, and as the role of a membership row,   *)
(* which the permission decorators consult.  No code path assigns the role *)
(* CO_CREATOR, so it is left out.                                          *)
(*                                                                         *)
(* Primary keys come from a sequence and are never reused; here a key is   *)
(* free again once its row is gone and no request remembers it.            *)
(***************************************************************************)
EXTENDS Integers, FiniteSets

CONSTANTS
    Utubs,     \* primary keys of UTubs
    Users,     \* primary keys of users: the smallest inherits a UTub
    Workers,   \* worker processes
    Null       \* no user

ASSUME UsersAssumption == Users \subseteq Nat /\ Null \notin Users

VARIABLES
    utubs,     \* rows of Utubs
    creator,   \* Utubs.utub_creator
    locked,    \* Utubs.is_locked
    role,      \* UtubMembers.member_role, "none" where there is no row
    erased,    \* users anonymised by an erasure
    request    \* what each worker has read and not yet committed

tables == <<utubs, creator, locked, role, erased>>
vars   == <<tables, request>>

-----------------------------------------------------------------------------
Role == {"none", "member", "creator"}

\* What a removal has decided to do in one UTub: delete the membership,
\* delete the UTub together with the memberships it saw, or hand the UTub to
\* an heir (noting whether the heir's row already has the role).
Departure == [kind : {"leave"}]
             \union [kind : {"close"}, seen : SUBSET Users]
             \union [kind : {"succeed"}, heir : Users, asCreator : BOOLEAN]

Plans == UNION {[S -> Departure] : S \in SUBSET Utubs}

Idle == [op |-> "idle"]

Removing == {"remove", "moderate", "erase"}   \* by a member, by an admin, of an account

Request == {Idle}
           \union [op : {"enrol", "add"}, utub : Utubs, user : Users]
           \union [op : {"remove", "moderate"}, user : Users \union {Null}, plan : Plans]
           \union [op : {"erase"}, user : Users, plan : Plans]

TypeOK ==
    /\ utubs \subseteq Utubs
    /\ creator \in [Utubs -> Users \union {Null}]
    /\ locked \subseteq utubs
    /\ role \in [Utubs -> [Users -> Role]]
    /\ erased \subseteq Users
    /\ request \in [Workers -> Request]

Members(u) == {v \in Users : role[u][v] # "none"}
Joined(v)  == {u \in utubs : v \in Members(u)}

Named(r) == IF r.op \in {"enrol", "add"} THEN {r.utub}
            ELSE IF r.op \in Removing THEN DOMAIN r.plan
            ELSE {}

Free(u) == u \notin utubs /\ \A w \in Workers : u \notin Named(request[w])

\* The rows a departing member leaves behind choose the smallest user id.
select_ownership_transfer_target(others) ==
    CHOOSE v \in others : \A x \in others : v <= x

Leave == [kind |-> "leave"]

Close(u) == [kind |-> "close", seen |-> Members(u)]

Succeed(u, v) ==
    LET heir == select_ownership_transfer_target(Members(u) \ {v})
    IN  [kind |-> "succeed", heir |-> heir, asCreator |-> role[u][heir] = "creator"]

-----------------------------------------------------------------------------
Init ==
    /\ utubs = {}
    /\ creator = [u \in Utubs |-> Null]
    /\ locked = {}
    /\ role = [u \in Utubs |-> [v \in Users |-> "none"]]
    /\ erased = {}
    /\ request = [w \in Workers |-> Idle]

Begin(w, r) == request[w] = Idle /\ request' = [request EXCEPT ![w] = r]
Finish(w)   == request' = [request EXCEPT ![w] = Idle]

Read(w, r) == Begin(w, r) /\ UNCHANGED tables

-----------------------------------------------------------------------------
(* POST /utubs: the UTub is committed first, its creator's membership in a *)
(* second transaction.                                                     *)
CreateUtub(w, v) ==
    /\ v \notin erased
    /\ \E u \in Utubs :
          /\ Free(u)
          /\ utubs' = utubs \union {u}
          /\ creator' = [creator EXCEPT ![u] = v]
          /\ Begin(w, [op |-> "enrol", utub |-> u, user |-> v])
    /\ UNCHANGED <<locked, role, erased>>

EnrolCreator(w) ==
    /\ request[w].op = "enrol"
    /\ request[w].utub \in utubs
    /\ request[w].user \notin Members(request[w].utub)
    /\ role' = [role EXCEPT ![request[w].utub][request[w].user] = "creator"]
    /\ UNCHANGED <<utubs, creator, locked, erased>>
    /\ Finish(w)

(* POST /utubs/u/members: the creator names any user, by name.             *)
AddRead(w, actor, v, u) ==
    /\ actor \notin erased
    /\ role[u][actor] = "creator"
    /\ u \notin locked
    /\ v \notin Members(u)
    /\ Read(w, [op |-> "add", utub |-> u, user |-> v])

AddCommit(w) ==
    /\ request[w].op = "add"
    /\ request[w].utub \in utubs
    /\ request[w].user \notin Members(request[w].utub)
    /\ role' = [role EXCEPT ![request[w].utub][request[w].user] = "member"]
    /\ UNCHANGED <<utubs, creator, locked, erased>>
    /\ Finish(w)

(* DELETE /utubs/u/members/v: a creator removes somebody else, any other   *)
(* member removes himself.                                                 *)
RemoveReadOfSelf(w, actor, v, u) ==    \* mutant: a creator may remove himself
    /\ actor \notin erased
    /\ u \in Joined(actor) \ locked
    /\ role[u][actor] # "creator" => v = actor
    /\ v \in Members(u)
    /\ Read(w, [op |-> "remove", user |-> v, plan |-> [x \in {u} |-> Leave]])

RemoveRead(w, actor, v, u) ==
    /\ actor \notin erased
    /\ u \in Joined(actor) \ locked
    /\ (role[u][actor] = "creator") <=> (v # actor)
    /\ v \in Members(u)
    /\ Read(w, [op |-> "remove", user |-> v, plan |-> [x \in {u} |-> Leave]])

(* DELETE /utubs/u, by its creator or by an admin.  The ORM cascade loads  *)
(* the memberships here and deletes these, and no others, at the commit.   *)
DeleteRead(w, actor, u) ==
    /\ actor \notin erased
    /\ role[u][actor] = "creator"
    /\ u \notin locked
    /\ Read(w, [op |-> "remove", user |-> Null, plan |-> [x \in {u} |-> Close(u)]])

AdminDeleteRead(w, u) ==
    /\ u \in utubs
    /\ Read(w, [op |-> "moderate", user |-> Null, plan |-> [x \in {u} |-> Close(u)]])

(* An admin removes member v: any member but the creator just leaves, a    *)
(* creator hands the UTub over, or closes it when nobody else is left.     *)
AdminRemoveReadPlain(w, v, u) ==       \* mutant: no case for the creator
    /\ u \in Joined(v)
    /\ Read(w, [op |-> "moderate", user |-> v, plan |-> [x \in {u} |-> Leave]])

AdminRemoveRead(w, v, u) ==
    /\ u \in Joined(v)
    /\ LET d == IF creator[u] # v THEN Leave
                ELSE IF Members(u) = {v} THEN Close(u)
                ELSE Succeed(u, v)
       IN  Read(w, [op |-> "moderate", user |-> v, plan |-> [x \in {u} |-> d]])

(* An admin erases account v, and with it all the memberships it has now.  *)
\* In one UTub: alone, v closes it; its creator hands it over; else v leaves.
Bequest(u, v) == IF Members(u) = {v} THEN Close(u)
                 ELSE IF creator[u] = v THEN Succeed(u, v)
                 ELSE Leave

EraseRead(w, v) ==
    /\ v \notin erased
    /\ Read(w, [op |-> "erase", user |-> v,
                plan |-> [u \in Joined(v) |-> Bequest(u, v)]])

-----------------------------------------------------------------------------
(* The commit of a removal or an erasure: all its departures, or none.     *)
\* The database lets departure d from u pass: a deleted UTub leaves no
\* membership behind, and every row to be updated is still there.
PassesWithNewcomer(u, d) ==            \* mutant: the cascade is left to the database
    CASE d.kind = "leave"   -> u \in utubs
      [] d.kind = "close"   -> TRUE
      [] d.kind = "succeed" -> u \in utubs /\ (d.heir \in Members(u) \/ d.asCreator)

Passes(u, d) ==
    CASE d.kind = "leave"   -> u \in utubs
      [] d.kind = "close"   -> Members(u) \subseteq d.seen
      [] d.kind = "succeed" -> u \in utubs /\ (d.heir \in Members(u) \/ d.asCreator)

Deleted(u, d, v) == {v} \union (IF d.kind = "close" THEN d.seen ELSE {})

RoleAfter(u, d, v) ==
    [x \in Users |->
        IF x \in Deleted(u, d, v) THEN "none"
        ELSE IF d.kind = "succeed" /\ ~d.asCreator /\ x = d.heir THEN "creator"
        ELSE role[u][x]]

Closed(plan) == {u \in DOMAIN plan : plan[u].kind = "close"}

PassedInRoleOnly(plan) == {}           \* mutant: utub_creator is not reassigned
Passed(plan) == {u \in DOMAIN plan : plan[u].kind = "succeed"}

RemoveCommit(w) ==
    /\ request[w].op \in Removing
    /\ LET v == request[w].user  plan == request[w].plan IN
         /\ \A u \in DOMAIN plan : Passes(u, plan[u])
         /\ utubs' = utubs \ Closed(plan)
         /\ locked' = locked \ Closed(plan)
         /\ creator' = [u \in Utubs |->
                          IF u \in Closed(plan) THEN Null
                          ELSE IF u \in Passed(plan) THEN plan[u].heir ELSE creator[u]]
         /\ role' = [u \in Utubs |-> IF u \in DOMAIN plan THEN RoleAfter(u, plan[u], v)
                                     ELSE role[u]]
         /\ erased' = IF request[w].op = "erase" THEN erased \union {v} ELSE erased
    /\ Finish(w)

-----------------------------------------------------------------------------
(* Moderation: one UPDATE of a constant, so one step.                      *)
Lock(u) ==
    /\ u \in utubs \ locked
    /\ locked' = locked \union {u}
    /\ UNCHANGED <<utubs, creator, role, erased, request>>

Unlock(u) ==
    /\ u \in locked
    /\ locked' = locked \ {u}
    /\ UNCHANGED <<utubs, creator, role, erased, request>>

(* A request is rolled back: a check of the database, an error, a crash.   *)
Fail(w) ==
    /\ request[w].op \in Removing \union {"add"}
    /\ Finish(w)
    /\ UNCHANGED tables

(* The same between the two transactions of a creation.                    *)
FailToEnrol(w) ==
    /\ request[w].op = "enrol"
    /\ Finish(w)
    /\ UNCHANGED tables

-----------------------------------------------------------------------------
ByMember(w) == \/ \E v \in Users : CreateUtub(w, v)
               \/ \E actor, v \in Users, u \in Utubs : AddRead(w, actor, v, u)
               \/ \E actor, v \in Users, u \in Utubs : RemoveRead(w, actor, v, u)
               \/ \E actor \in Users, u \in Utubs : DeleteRead(w, actor, u)

ByAdmin(w) == \/ \E u \in Utubs : AdminDeleteRead(w, u)
              \/ \E v \in Users, u \in Utubs : AdminRemoveRead(w, v, u)
              \/ \E v \in Users : EraseRead(w, v)

Moderate == \E u \in Utubs : Lock(u) \/ Unlock(u)

Complete(w) == EnrolCreator(w) \/ AddCommit(w) \/ RemoveCommit(w) \/ Fail(w)

Next == \/ \E w \in Workers : ByMember(w) \/ ByAdmin(w) \/ Complete(w) \/ FailToEnrol(w)
        \/ Moderate

Spec == Init /\ [][Next]_vars

\* One request at a time, and no creation is cut in two.
Quiet == \A w \in Workers : request[w] = Idle

SerialNext == \/ Quiet /\ (Moderate \/ \E w \in Workers : ByMember(w) \/ ByAdmin(w))
              \/ \E w \in Workers : Complete(w)

SerialSpec == Init /\ [][SerialNext]_vars

-----------------------------------------------------------------------------
(* Properties                                                              *)

\* A membership is a membership of a UTub that exists: a UTub is deleted
\* with every membership it has at that moment, also with one added after
\* the deletion read them (delete_utubs.py:36-37, moderation_service.py:163).
NoStrayMembership == \A u \in Utubs \ utubs : Members(u) = {}

\* A row gets the role of creator only in the commit that makes its user the
\* UTub's creator, or after that (create_utubs.py:77-81,
\* moderation_service.py:256-257, account_data_service.py:162-163).
RoleFollowsColumn ==
    [][\A u \in Utubs, v \in Users :
          role'[u][v] = "creator" /\ role[u][v] # "creator" => creator'[u] = v]_vars

BeingCreated(u) == \E w \in Workers : request[w].op = "enrol" /\ request[w].utub = u

\* The two records of ownership agree: the UTub's creator is a member with
\* that role, and the only one (utubs.py:24-26, utub_members.py:8-11).  The
\* decorators trust the one, the admin actions the other.
CreatorIsMember ==
    \A u \in utubs : ~BeingCreated(u) =>
        \A v \in Users : role[u][v] = "creator" <=> v = creator[u]

\* A UTub of UtubOwnership is one that has members.
Inhabited == {u \in utubs : Members(u) # {}}

Promise == INSTANCE UtubOwnership WITH
    owner   <- [u \in Inhabited |-> creator[u]],
    members <- [u \in Inhabited |-> Members(u)]

\* Served one at a time, the requests keep every promise of UtubOwnership.
KeepsPromise == Promise!Spec
=============================================================================
