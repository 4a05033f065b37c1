------------------------ MODULE UtubMembershipProofs ------------------------
(***************************************************************************)
(* Theorems about UtubMembership, for any sets of UTubs and workers and    *)
(* any set of natural numbers as the users.                                *)
(*                                                                         *)
(* The inductive invariant of Spec is IInv: the types, NoStrayMembership,  *)
(* and Founding, which says what may overlap the two transactions of a     *)
(* creation.  Without Founding a second transaction could make somebody    *)
(* the creator of a UTub that has another one.                             *)
(***************************************************************************)
EXTENDS UtubMembership, WellFoundedInduction, TLAPS

\* Between its two transactions a UTub has no members and belongs to the one
\* who creates it; of the other requests only deletions concern it.
Founding ==
    \A w \in Workers : request[w].op = "enrol" =>
        LET u == request[w].utub IN
          /\ Members(u) = {}
          /\ u \in utubs => creator[u] = request[w].user
          /\ \A x \in Workers \ {w} :
                u \in Named(request[x]) => /\ request[x].op \in Removing
                                           /\ request[x].plan[u].kind = "close"

IInv == TypeOK /\ NoStrayMembership /\ Founding

-----------------------------------------------------------------------------
\* A set of users that is not empty has a smallest one.
LEMMA SmallestUser ==
  ASSUME NEW S \in SUBSET Users, S # {}
  PROVE  \E v \in S : \A x \in S : v <= x
<1> DEFINE Less == {p \in Nat \X Nat : p[1] < p[2]}
<1>1. IsWellFoundedOn(Less, Nat)
  BY NatLessThanWellFounded DEF OpToRel
<1>2. S \subseteq Nat
  BY UsersAssumption
<1> HIDE DEF Less
<1>3. PICK v \in S : \A x \in S : <<x, v>> \notin Less
  BY <1>1, <1>2, WFMin
<1>4. ASSUME NEW x \in S PROVE v <= x
  <2>1. <<x, v>> \in Nat \X Nat
    BY <1>2
  <2>2. ~ (x < v)
    BY <1>3, <2>1 DEF Less
  <2>3. QED BY <1>2, <2>2
<1>5. QED BY <1>4

\* An heir is one of those who are left behind.
LEMMA HeirIsLeftBehind ==
  ASSUME NEW S \in SUBSET Users, S # {}
  PROVE  select_ownership_transfer_target(S) \in S
BY SmallestUser DEF select_ownership_transfer_target

\* What a worker carries is of the shape its operation says.
LEMMA CarriedShape ==
  ASSUME TypeOK, NEW w \in Workers
  PROVE  /\ request[w].op \in {"idle", "enrol", "add", "remove", "moderate", "erase"}
         /\ request[w].op \in {"enrol", "add"} => /\ request[w].utub \in Utubs
                                                  /\ request[w].user \in Users
         /\ request[w].op \in Removing => /\ request[w].user \in Users \union {Null}
                                          /\ request[w].plan \in Plans
         /\ request[w].op = "erase" => request[w].user \in Users
         /\ request[w] = Idle <=> request[w].op = "idle"
BY DEF TypeOK, Request, Idle, Removing

\* A plan says of each of its UTubs one of three things.
LEMMA PlanShape ==
  ASSUME NEW plan \in Plans
  PROVE  /\ DOMAIN plan \subseteq Utubs
         /\ \A u \in DOMAIN plan :
               /\ plan[u] \in Departure
               /\ plan[u].kind \in {"leave", "close", "succeed"}
               /\ plan[u].kind = "close" => plan[u].seen \in SUBSET Users
               /\ plan[u].kind = "succeed" => /\ plan[u].heir \in Users
                                              /\ plan[u].asCreator \in BOOLEAN
<1>1. PICK S \in SUBSET Utubs : plan \in [S -> Departure]
  BY DEF Plans
<1>2. QED BY <1>1 DEF Departure

\* What a removal decides in one UTub is a departure.
LEMMA DepartureShape ==
  ASSUME TypeOK, NEW u \in Utubs, NEW v \in Users
  PROVE  /\ Leave \in Departure
         /\ Close(u) \in Departure
         /\ v \in Members(u) /\ Members(u) # {v} => Succeed(u, v) \in Departure
<1>1. Leave \in Departure /\ Close(u) \in Departure
  BY DEF Leave, Close, Departure, Members
<1>2. ASSUME v \in Members(u), Members(u) # {v} PROVE Succeed(u, v) \in Departure
  <2> DEFINE heir == select_ownership_transfer_target(Members(u) \ {v})
  <2>1. heir \in Users
    BY <1>2, HeirIsLeftBehind DEF Members
  <2>2. Succeed(u, v) = [kind |-> "succeed", heir |-> heir,
                         asCreator |-> role[u][heir] = "creator"]
    BY DEF Succeed
  <2>3. QED BY <2>1, <2>2 DEF Departure
<1>3. QED BY <1>1, <1>2

\* A function from UTubs to departures is a plan.
LEMMA PlanIsPlan ==
  ASSUME NEW S \in SUBSET Utubs, NEW plan \in [S -> Departure]
  PROVE  plan \in Plans
BY DEF Plans

-----------------------------------------------------------------------------
\* The initial state: no row, no request.
LEMMA InitIInv == Init => IInv
<1> SUFFICES ASSUME Init PROVE IInv
  OBVIOUS
<1>1. TypeOK
  BY DEF Init, TypeOK, Role, Request
<1>2. NoStrayMembership
  BY DEF Init, NoStrayMembership, Members
<1>3. Founding
  BY DEF Init, Founding, Idle
<1>4. QED BY <1>1, <1>2, <1>3 DEF IInv

\* What each read of a removal carries is a request.
LEMMA RemovalsAreRequests ==
  ASSUME TypeOK, NEW u \in Utubs
  PROVE  /\ \A v \in Users :
               [op |-> "remove", user |-> v, plan |-> [x \in {u} |-> Leave]] \in Request
         /\ [op |-> "remove", user |-> Null, plan |-> [x \in {u} |-> Close(u)]] \in Request
         /\ [op |-> "moderate", user |-> Null, plan |-> [x \in {u} |-> Close(u)]] \in Request
<1>1. Leave \in Departure /\ Close(u) \in Departure
  BY DEF Leave, Close, Departure, Members
<1>2. [x \in {u} |-> Leave] \in Plans /\ [x \in {u} |-> Close(u)] \in Plans
  BY <1>1, PlanIsPlan
<1>3. QED BY <1>2 DEF Request

LEMMA AdminRemovalIsRequest ==
  ASSUME TypeOK, NEW w \in Workers, NEW v \in Users, NEW u \in Utubs, AdminRemoveRead(w, v, u)
  PROVE  \E r \in Request : Begin(w, r)
<1> DEFINE d == IF creator[u] # v THEN Leave
                ELSE IF Members(u) = {v} THEN Close(u)
                ELSE Succeed(u, v)
           plan == [x \in {u} |-> d]
           r == [op |-> "moderate", user |-> v, plan |-> plan]
<1>1. v \in Members(u) /\ Begin(w, r)
  BY DEF AdminRemoveRead, Read, Joined
<1>2. d \in Departure
  BY <1>1, DepartureShape
<1>3. plan \in [{u} -> Departure]
  BY <1>2
<1>4. plan \in Plans
  BY <1>3, PlanIsPlan
<1>5. r \in Request
  BY <1>4 DEF Request
<1>6. QED BY <1>1, <1>5

LEMMA ErasureIsRequest ==
  ASSUME TypeOK, NEW w \in Workers, NEW v \in Users, EraseRead(w, v)
  PROVE  \E r \in Request : Begin(w, r)
<1> DEFINE plan == [u \in Joined(v) |-> Bequest(u, v)]
           r == [op |-> "erase", user |-> v, plan |-> plan]
<1>1. ASSUME NEW u \in Joined(v) PROVE Bequest(u, v) \in Departure
  <2>1. u \in Utubs /\ v \in Members(u)
    BY DEF Joined, TypeOK
  <2>2. QED BY <2>1, DepartureShape DEF Bequest
<1>2. Joined(v) \in SUBSET Utubs
  BY DEF Joined, TypeOK
<1>3. plan \in [Joined(v) -> Departure]
  BY <1>1
<1>4. plan \in Plans
  BY <1>2, <1>3, PlanIsPlan
<1>5. r \in Request
  BY <1>4 DEF Request
<1>6. Begin(w, r)
  BY DEF EraseRead, Read
<1>7. QED BY <1>5, <1>6

\* The requests that only read.
Arrive(w) ==
    \/ \E actor, v \in Users, u \in Utubs : AddRead(w, actor, v, u)
    \/ \E actor, v \in Users, u \in Utubs : RemoveRead(w, actor, v, u)
    \/ \E actor \in Users, u \in Utubs : DeleteRead(w, actor, u)
    \/ ByAdmin(w)

LEMMA ArrivalIsRequest ==
  ASSUME TypeOK, NEW w \in Workers, Arrive(w)
  PROVE  UNCHANGED tables /\ \E r \in Request : Begin(w, r)
<1>1. ASSUME NEW actor \in Users, NEW v \in Users, NEW u \in Utubs, AddRead(w, actor, v, u)
      PROVE  UNCHANGED tables /\ \E r \in Request : Begin(w, r)
  <2>1. [op |-> "add", utub |-> u, user |-> v] \in Request
    BY DEF Request
  <2>2. QED BY <1>1, <2>1 DEF AddRead, Read
<1>2. ASSUME NEW u \in Utubs,
             \/ AdminDeleteRead(w, u)
             \/ \E actor \in Users : DeleteRead(w, actor, u)
             \/ \E actor, v \in Users : RemoveRead(w, actor, v, u)
      PROVE  UNCHANGED tables /\ \E r \in Request : Begin(w, r)
  BY <1>2, RemovalsAreRequests DEF RemoveRead, DeleteRead, AdminDeleteRead, Read
<1>3. ASSUME NEW v \in Users, NEW u \in Utubs, AdminRemoveRead(w, v, u)
      PROVE  UNCHANGED tables /\ \E r \in Request : Begin(w, r)
  BY <1>3, AdminRemovalIsRequest DEF AdminRemoveRead, Read
<1>4. ASSUME NEW v \in Users, EraseRead(w, v)
      PROVE  UNCHANGED tables /\ \E r \in Request : Begin(w, r)
  BY <1>4, ErasureIsRequest DEF EraseRead, Read
<1>5. CASE ByAdmin(w)
  BY <1>2, <1>3, <1>4, <1>5 DEF ByAdmin
<1>6. CASE ~ByAdmin(w)
  BY <1>1, <1>2, <1>6 DEF Arrive
<1>7. QED BY <1>5, <1>6

\* After a removal the rows of a UTub are of their types.
LEMMA RoleAfterShape ==
  ASSUME TypeOK, NEW u \in Utubs, NEW d, NEW v
  PROVE  RoleAfter(u, d, v) \in [Users -> Role]
BY DEF RoleAfter, Role, TypeOK

\* A role that is given is a change of one row.
LEMMA RoleGiven ==
  ASSUME TypeOK, NEW u \in Utubs, NEW v \in Users, NEW r \in Role
  PROVE  LET after == [role EXCEPT ![u][v] = r] IN
         /\ after \in [Utubs -> [Users -> Role]]
         /\ \A x \in Utubs, y \in Users :
               after[x][y] = IF x = u /\ y = v THEN r ELSE role[x][y]
<1>1. role[u] \in [Users -> Role]
  BY DEF TypeOK
<1>2. [role[u] EXCEPT ![v] = r] \in [Users -> Role]
  BY <1>1
<1>3. [role EXCEPT ![u][v] = r] = [role EXCEPT ![u] = [role[u] EXCEPT ![v] = r]]
  OBVIOUS
<1>4. QED BY <1>1, <1>2, <1>3 DEF TypeOK

\* What the two insertions do.
LEMMA Insertion ==
  ASSUME TypeOK, NEW w \in Workers, EnrolCreator(w) \/ AddCommit(w)
  PROVE  /\ request[w].utub \in utubs /\ request[w].user \in Users
         /\ role' \in [Utubs -> [Users -> Role]]
         /\ \A x \in Utubs, y \in Users :
               role'[x][y] = IF x = request[w].utub /\ y = request[w].user
                             THEN IF EnrolCreator(w) THEN "creator" ELSE "member"
                             ELSE role[x][y]
<1> DEFINE u == request[w].utub
           v == request[w].user
           r == IF EnrolCreator(w) THEN "creator" ELSE "member"
<1>1. request[w].op \in {"enrol", "add"}
  BY DEF EnrolCreator, AddCommit
<1>2. u \in Utubs /\ v \in Users
  BY <1>1, CarriedShape
<1>3. r \in Role
  BY DEF Role
<1>4. u \in utubs /\ role' = [role EXCEPT ![u][v] = r]
  BY DEF EnrolCreator, AddCommit
<1> HIDE DEF u, v, r
<1>5. /\ role' \in [Utubs -> [Users -> Role]]
      /\ \A x \in Utubs, y \in Users :
            role'[x][y] = IF x = u /\ y = v THEN r ELSE role[x][y]
  BY <1>2, <1>3, <1>4, RoleGiven
<1>6. QED BY <1>2, <1>4, <1>5 DEF u, v, r

\* Every step keeps the types.
LEMMA TypeStep == TypeOK /\ [Next]_vars => TypeOK'
<1> SUFFICES ASSUME TypeOK, [Next]_vars PROVE TypeOK'
  OBVIOUS
<1>1. ASSUME NEW w \in Workers, NEW v \in Users, CreateUtub(w, v) PROVE TypeOK'
  <2>1. PICK u \in Utubs : /\ utubs' = utubs \union {u}
                           /\ creator' = [creator EXCEPT ![u] = v]
                           /\ Begin(w, [op |-> "enrol", utub |-> u, user |-> v])
    BY <1>1 DEF CreateUtub
  <2>2. [op |-> "enrol", utub |-> u, user |-> v] \in Request
    BY DEF Request
  <2>3. QED BY <1>1, <2>1, <2>2 DEF CreateUtub, Begin, TypeOK
<1>2. ASSUME NEW w \in Workers, Arrive(w) PROVE TypeOK'
  BY <1>2, ArrivalIsRequest DEF Begin, tables, TypeOK
<1>3. ASSUME NEW w \in Workers, Finish(w) PROVE request' \in [Workers -> Request]
  BY <1>3 DEF Finish, TypeOK, Request
<1>4. ASSUME NEW w \in Workers, EnrolCreator(w) \/ AddCommit(w) PROVE TypeOK'
  BY <1>3, <1>4, Insertion DEF EnrolCreator, AddCommit, TypeOK
<1>5. ASSUME NEW w \in Workers, RemoveCommit(w) PROVE TypeOK'
  <2> DEFINE v == request[w].user
             plan == request[w].plan
  <2>1. plan \in Plans
    BY <1>5, CarriedShape DEF RemoveCommit
  <2>2. creator' \in [Utubs -> Users \union {Null}]
    <3>1. \A u \in Passed(plan) : plan[u].heir \in Users
      BY <2>1, PlanShape DEF Passed
    <3>2. QED BY <1>5, <3>1 DEF RemoveCommit, TypeOK
  <2>3. role' \in [Utubs -> [Users -> Role]]
    BY <1>5, RoleAfterShape DEF RemoveCommit, TypeOK
  <2>4. erased' \subseteq Users
    BY <1>5, CarriedShape DEF RemoveCommit, TypeOK
  <2>5. utubs' \subseteq Utubs /\ locked' \subseteq utubs'
    BY <1>5 DEF RemoveCommit, TypeOK
  <2>6. request' \in [Workers -> Request]
    BY <1>3, <1>5 DEF RemoveCommit
  <2>7. QED BY <2>2, <2>3, <2>4, <2>5, <2>6 DEF TypeOK
<1>6. ASSUME NEW w \in Workers, Fail(w) \/ FailToEnrol(w) PROVE TypeOK'
  BY <1>3, <1>6 DEF Fail, FailToEnrol, tables, TypeOK
<1>7. CASE Moderate
  BY <1>7 DEF Moderate, Lock, Unlock, TypeOK
<1>8. CASE UNCHANGED vars
  BY <1>8 DEF vars, tables, TypeOK
<1>9. QED BY <1>1, <1>2, <1>4, <1>5, <1>6, <1>7, <1>8 DEF Next, ByMember, Arrive, Complete

-----------------------------------------------------------------------------
\* Of a UTub that a removal concerns and leaves there, it deletes a member's
\* row and gives no role but to an heir who becomes the creator as well.
LEMMA RemovalEffect ==
  ASSUME TypeOK, NEW w \in Workers, RemoveCommit(w), NEW u \in Utubs
  PROVE  LET plan == request[w].plan IN
         /\ u \notin DOMAIN plan =>
               /\ role'[u] = role[u]
               /\ creator'[u] = creator[u]
               /\ u \in utubs' <=> u \in utubs
         /\ u \in DOMAIN plan =>
               /\ role'[u] = RoleAfter(u, plan[u], request[w].user)
               /\ Passes(u, plan[u])
               /\ plan[u].kind = "close" => u \notin utubs'
               /\ plan[u].kind # "close" => u \in utubs' /\ u \in utubs
               /\ plan[u].kind = "succeed" => creator'[u] = plan[u].heir
               /\ plan[u].kind = "leave" => creator'[u] = creator[u]
<1> DEFINE plan == request[w].plan
<1>1. plan \in Plans
  BY CarriedShape DEF RemoveCommit
<1>2. u \in DOMAIN plan => plan[u].kind \in {"leave", "close", "succeed"}
  BY <1>1, PlanShape
<1>3. u \in DOMAIN plan => Passes(u, plan[u]) /\ role'[u] = RoleAfter(u, plan[u], request[w].user)
  BY DEF RemoveCommit
<1>4. u \in DOMAIN plan /\ plan[u].kind # "close" => u \in utubs
  BY <1>2, <1>3 DEF Passes
<1>5. /\ u \in Closed(plan) <=> u \in DOMAIN plan /\ plan[u].kind = "close"
      /\ u \in Passed(plan) <=> u \in DOMAIN plan /\ plan[u].kind = "succeed"
  BY DEF Closed, Passed
<1>6. /\ utubs' = utubs \ Closed(plan)
      /\ creator'[u] = IF u \in Closed(plan) THEN Null
                       ELSE IF u \in Passed(plan) THEN plan[u].heir ELSE creator[u]
      /\ role'[u] = IF u \in DOMAIN plan THEN RoleAfter(u, plan[u], request[w].user)
                    ELSE role[u]
  BY DEF RemoveCommit
<1>7. QED BY <1>2, <1>3, <1>4, <1>5, <1>6

\* A step that neither gives a role nor deletes a UTub.
LEMMA RosterKept ==
  ASSUME NoStrayMembership, role' = role, utubs \subseteq utubs'
  PROVE  NoStrayMembership'
BY DEF NoStrayMembership, Members

\* Every step keeps a UTub that is not there without memberships.
LEMMA NoStrayStep == TypeOK /\ NoStrayMembership /\ [Next]_vars => NoStrayMembership'
<1> SUFFICES ASSUME TypeOK, NoStrayMembership, [Next]_vars PROVE NoStrayMembership'
  OBVIOUS
<1>1. ASSUME NEW w \in Workers, NEW v \in Users, CreateUtub(w, v) PROVE NoStrayMembership'
  BY <1>1, RosterKept DEF CreateUtub
<1>2. ASSUME NEW w \in Workers, Arrive(w) PROVE NoStrayMembership'
  BY <1>2, ArrivalIsRequest, RosterKept DEF tables
<1>3. ASSUME NEW w \in Workers, EnrolCreator(w) \/ AddCommit(w) PROVE NoStrayMembership'
  <2>1. utubs' = utubs
    BY <1>3 DEF EnrolCreator, AddCommit
  <2>2. QED BY <1>3, <2>1, Insertion DEF NoStrayMembership, Members
<1>4. ASSUME NEW w \in Workers, RemoveCommit(w) PROVE NoStrayMembership'
  <2> SUFFICES ASSUME NEW u \in Utubs, u \notin utubs', NEW x \in Users
               PROVE  role'[u][x] = "none"
    BY DEF NoStrayMembership, Members
  <2> DEFINE plan == request[w].plan
  <2>1. CASE u \notin DOMAIN plan
    <3>1. role'[u] = role[u] /\ u \notin utubs
      BY <1>4, <2>1, RemovalEffect
    <3>2. QED BY <3>1 DEF NoStrayMembership, Members
  <2>2. CASE u \in DOMAIN plan
    <3>1. plan[u].kind = "close" /\ Passes(u, plan[u])
          /\ role'[u] = RoleAfter(u, plan[u], request[w].user)
      BY <1>4, <2>2, RemovalEffect
    <3>2. role[u][x] # "none" => x \in plan[u].seen
      BY <3>1 DEF Passes, Members
    <3>3. QED BY <3>1, <3>2 DEF RoleAfter, Deleted
  <2>3. QED BY <2>1, <2>2
<1>5. ASSUME NEW w \in Workers, Fail(w) \/ FailToEnrol(w) PROVE NoStrayMembership'
  BY <1>5, RosterKept DEF Fail, FailToEnrol, tables
<1>6. CASE Moderate \/ UNCHANGED vars
  BY <1>6, RosterKept DEF Moderate, Lock, Unlock, vars, tables
<1>7. QED BY <1>1, <1>2, <1>3, <1>4, <1>5, <1>6 DEF Next, ByMember, Arrive, Complete

-----------------------------------------------------------------------------
\* A request that only reads concerns UTubs that have members, or deletes.
LEMMA ArrivalConcerns ==
  ASSUME TypeOK, NEW w \in Workers, Arrive(w)
  PROVE  /\ request[w] = Idle
         /\ \A x \in Workers \ {w} : request'[x] = request[x]
         /\ request'[w].op # "enrol"
         /\ \A u \in Named(request'[w]) :
               \/ Members(u) # {}
               \/ request'[w].op \in Removing /\ request'[w].plan[u].kind = "close"
<1> DEFINE Concern(r) ==
             /\ r.op # "enrol"
             /\ \A u \in Named(r) :
                   \/ Members(u) # {}
                   \/ r.op \in Removing /\ r.plan[u].kind = "close"
<1> USE DEF Removing, Named
<1>1. ASSUME NEW actor \in Users, NEW v \in Users, NEW u \in Utubs, AddRead(w, actor, v, u)
      PROVE  \E r : Begin(w, r) /\ Concern(r)
  BY <1>1 DEF AddRead, Read, Members
<1>2. ASSUME NEW actor \in Users, NEW v \in Users, NEW u \in Utubs, RemoveRead(w, actor, v, u)
      PROVE  \E r : Begin(w, r) /\ Concern(r)
  BY <1>2 DEF RemoveRead, Read, Members
<1>3. ASSUME NEW u \in Utubs, AdminDeleteRead(w, u) \/ \E actor \in Users : DeleteRead(w, actor, u)
      PROVE  \E r : Begin(w, r) /\ Concern(r)
  BY <1>3 DEF AdminDeleteRead, DeleteRead, Read, Close
<1>4. ASSUME NEW v \in Users, NEW u \in Utubs, AdminRemoveRead(w, v, u)
      PROVE  \E r : Begin(w, r) /\ Concern(r)
  BY <1>4 DEF AdminRemoveRead, Read, Joined
<1>5. ASSUME NEW v \in Users, EraseRead(w, v)
      PROVE  \E r : Begin(w, r) /\ Concern(r)
  BY <1>5 DEF EraseRead, Read, Joined
<1>6. \E r : Begin(w, r) /\ Concern(r)
  <2>1. CASE ByAdmin(w)
    BY <1>3, <1>4, <1>5, <2>1 DEF ByAdmin
  <2>2. CASE ~ByAdmin(w)
    BY <1>1, <1>2, <1>3, <2>2 DEF Arrive
  <2>3. QED BY <2>1, <2>2
<1>7. PICK r : Begin(w, r) /\ Concern(r)
  BY <1>6
<1>8. request'[w] = r
  BY <1>7 DEF Begin, TypeOK
<1>9. QED BY <1>7, <1>8 DEF Begin, TypeOK

\* Of a UTub that is being created a step that leaves the tables alone and
\* ends a request changes nothing.
LEMMA EndOfRequest ==
  ASSUME TypeOK, Founding, NEW w \in Workers, Finish(w), UNCHANGED tables
  PROVE  Founding'
<1>1. /\ request'[w] = Idle
      /\ \A x \in Workers \ {w} : request'[x] = request[x]
      /\ UNCHANGED <<utubs, creator, role>>
  BY DEF TypeOK, Finish, tables
<1>2. QED BY <1>1 DEF Founding, Idle, Named, Removing, Members

\* Every step keeps the creations under way to themselves.
LEMMA FoundingStep == IInv /\ [Next]_vars => Founding'
<1> SUFFICES ASSUME TypeOK, NoStrayMembership, Founding, [Next]_vars PROVE Founding'
  BY DEF IInv
<1>1. ASSUME NEW w \in Workers, NEW v \in Users, CreateUtub(w, v) PROVE Founding'
  <2>1. PICK u \in Utubs : /\ Free(u)
                           /\ utubs' = utubs \union {u}
                           /\ creator' = [creator EXCEPT ![u] = v]
                           /\ Begin(w, [op |-> "enrol", utub |-> u, user |-> v])
                           /\ role' = role
    BY <1>1 DEF CreateUtub
  <2>2. /\ request'[w] = [op |-> "enrol", utub |-> u, user |-> v]
        /\ \A x \in Workers \ {w} : request'[x] = request[x]
        /\ Named(request'[w]) = {u}
    BY <2>1 DEF Begin, TypeOK, Named
  <2>3. \A x \in Workers \ {w} : u \notin Named(request[x])
    BY <2>1 DEF Free
  <2>4. Members(u) = {} /\ creator'[u] = v
    BY <2>1 DEF Free, NoStrayMembership, TypeOK
  <2>5. ASSUME NEW x \in Workers \ {w}, request[x].op = "enrol"
        PROVE  request[x].utub # u
    BY <2>3, <2>5 DEF Named
  <2>6. QED BY <2>1, <2>2, <2>3, <2>4, <2>5 DEF Founding, Members, TypeOK
<1>2. ASSUME NEW w \in Workers, Arrive(w) PROVE Founding'
  <2>1. UNCHANGED tables
    BY <1>2, ArrivalIsRequest
  <2>2. QED BY <1>2, <2>1, ArrivalConcerns DEF Founding, tables, Members
<1>3. ASSUME NEW w \in Workers, EnrolCreator(w) \/ AddCommit(w) PROVE Founding'
  <2>1. /\ request'[w] = Idle /\ request[w].op \in {"enrol", "add"}
        /\ \A x \in Workers \ {w} : request'[x] = request[x]
        /\ utubs' = utubs /\ creator' = creator
    BY <1>3 DEF EnrolCreator, AddCommit, Finish, TypeOK
  <2>2. ASSUME NEW x \in Workers \ {w}, request[x].op = "enrol"
        PROVE  request[x].utub # request[w].utub
    BY <2>1, <2>2 DEF Founding, Named, Removing
  <2>3. ASSUME NEW u \in Utubs, u # request[w].utub
        PROVE  Members(u)' = Members(u)
    BY <1>3, <2>3, Insertion DEF Members
  <2>4. ASSUME NEW x \in Workers, request'[x].op = "enrol"
        PROVE  x # w /\ request[x].op = "enrol" /\ request[x].utub \in Utubs
    BY <2>1, <2>4, CarriedShape DEF Idle
  <2>5. QED BY <2>1, <2>2, <2>3, <2>4 DEF Founding, Idle, Named, Removing
<1>4. ASSUME NEW w \in Workers, RemoveCommit(w) PROVE Founding'
  <2> DEFINE plan == request[w].plan
  <2>1. /\ request'[w] = Idle /\ request[w].op \in Removing
        /\ \A x \in Workers \ {w} : request'[x] = request[x]
        /\ utubs' \subseteq utubs
    BY <1>4 DEF RemoveCommit, Finish, TypeOK
  <2>2. ASSUME NEW x \in Workers \ {w}, NEW u \in Utubs,
               request[x].op = "enrol", request[x].utub = u
        PROVE  Members(u)' = {} /\ (u \in utubs' => creator'[u] = creator[u])
    <3>1. Members(u) = {}
      BY <2>2 DEF Founding
    <3>2. CASE u \notin DOMAIN plan
      <4>1. role'[u] = role[u] /\ creator'[u] = creator[u]
        BY <1>4, <3>2, RemovalEffect
      <4>2. QED BY <3>1, <4>1 DEF Members
    <3>3. CASE u \in DOMAIN plan
      <4>1. plan[u].kind = "close"
        BY <2>1, <2>2, <3>3 DEF Founding, Named, Removing
      <4>2. u \notin utubs' /\ role'[u] = RoleAfter(u, plan[u], request[w].user)
        BY <1>4, <3>1, <3>3, <4>1, RemovalEffect
      <4>3. \A y \in Users : role'[u][y] = "none"
        BY <3>1, <4>1, <4>2 DEF RoleAfter, Members
      <4>4. QED BY <4>2, <4>3 DEF Members
    <3>4. QED BY <3>2, <3>3
  <2>3. ASSUME NEW x \in Workers, request'[x].op = "enrol"
        PROVE  x # w /\ request[x].op = "enrol" /\ request[x].utub \in Utubs
    BY <2>1, <2>3, CarriedShape DEF Idle
  <2>4. QED BY <2>1, <2>2, <2>3 DEF Founding, Idle, Named, Removing
<1>5. ASSUME NEW w \in Workers, Fail(w) \/ FailToEnrol(w) PROVE Founding'
  BY <1>5, EndOfRequest DEF Fail, FailToEnrol
<1>6. CASE Moderate \/ UNCHANGED vars
  BY <1>6 DEF Moderate, Lock, Unlock, vars, tables, Founding, Members
<1>7. QED BY <1>1, <1>2, <1>3, <1>4, <1>5, <1>6 DEF Next, ByMember, Arrive, Complete

LEMMA Invariance == Spec => []IInv
<1>1. IInv /\ [Next]_vars => IInv'
  BY TypeStep, NoStrayStep, FoundingStep DEF IInv
<1>2. QED BY InitIInv, <1>1, PTL DEF Spec

\* TypeOK is an invariant (the columns of Utubs and UtubMembers): an heir,
\* above all, is always a user (moderation_service.py:32-55).
THEOREM TypeCorrect == Spec => []TypeOK
<1>1. IInv => TypeOK
  BY DEF IInv
<1>2. QED BY Invariance, <1>1, PTL

\* NoStrayMembership is an invariant: no membership outlives its UTub or is
\* added to one that is gone (delete_utubs.py:36-37, create_members.py:83-115).
THEOREM NoMembershipStrays == Spec => []NoStrayMembership
<1>1. IInv => NoStrayMembership
  BY DEF IInv
<1>2. QED BY Invariance, <1>1, PTL

-----------------------------------------------------------------------------
\* A step gives the role only with the ownership.
LEMMA RoleStep ==
  ASSUME IInv, [Next]_vars, NEW u \in Utubs, NEW v \in Users,
         role'[u][v] = "creator", role[u][v] # "creator"
  PROVE  creator'[u] = v
<1> USE DEF IInv
<1>1. ASSUME NEW w \in Workers, EnrolCreator(w) \/ AddCommit(w) PROVE creator'[u] = v
  <2>1. EnrolCreator(w) /\ request[w].utub = u /\ request[w].user = v
    BY <1>1, Insertion
  <2>2. u \in utubs /\ creator' = creator /\ request[w].op = "enrol"
    BY <2>1 DEF EnrolCreator
  <2>3. QED BY <2>1, <2>2 DEF Founding
<1>2. ASSUME NEW w \in Workers, RemoveCommit(w) PROVE creator'[u] = v
  <2> DEFINE d == request[w].plan[u]
  <2>1. u \in DOMAIN request[w].plan /\ role'[u] = RoleAfter(u, d, request[w].user)
    BY <1>2, RemovalEffect
  <2>2. d.kind = "succeed" /\ d.heir = v
    BY <2>1 DEF RoleAfter
  <2>3. QED BY <1>2, <2>1, <2>2, RemovalEffect
<1>3. role' # role
  OBVIOUS
<1>4. ASSUME NEW w \in Workers, Arrive(w) PROVE FALSE
  BY <1>3, <1>4, ArrivalIsRequest DEF tables
<1>5. QED BY <1>1, <1>2, <1>3, <1>4
      DEF Next, ByMember, Arrive, Complete, CreateUtub, Fail, FailToEnrol, Moderate, Lock,
          Unlock, vars, tables

\* RoleFollowsColumn holds of every step: whoever is given the role of
\* creator is, by the same commit or before, the UTub's creator.
THEOREM RoleComesWithOwnership == Spec => RoleFollowsColumn
<1>1. IInv /\ [Next]_vars
      => [\A u \in Utubs, v \in Users :
            role'[u][v] = "creator" /\ role[u][v] # "creator" => creator'[u] = v]_vars
  BY RoleStep
<1>2. QED BY Invariance, <1>1, PTL DEF Spec, RoleFollowsColumn
-----------------------------------------------------------------------------
(* Requests served one at a time, where no creation is cut in two.  What a *)
(* removal has decided at its read is still right at its commit, and what  *)
(* it decides keeps the two records of ownership together.                 *)

Lone == \A v, w \in Workers : request[v] # Idle /\ request[w] # Idle => v = w

\* Every UTub has an owner.
Owned == \A u \in utubs : creator[u] \in Users

\* A removal of v says of UTub u what is right for it: the creator does not
\* just leave, he closes what he is alone in, and the heir is somebody else
\* who has not the role.
RightFor(u, d, v) ==
    CASE d.kind = "leave"   -> v \in Members(u) /\ v # creator[u]
      [] d.kind = "close"   -> Members(u) = {v}
      [] d.kind = "succeed" -> /\ v \in Members(u) /\ v = creator[u]
                               /\ d.heir \in Members(u) \ {v}
                               /\ ~d.asCreator

\* A removal is of a member, in all the UTubs it is about, or of one UTub.
Right(r) ==
    \/ /\ r.user \in Users
       /\ \A u \in DOMAIN r.plan : u \in utubs /\ RightFor(u, r.plan[u], r.user)
    \/ /\ r.user = Null
       /\ \E u \in Utubs : DOMAIN r.plan = {u} /\ r.plan[u].kind = "close"

CarriedStillTrue ==
    \A w \in Workers :
       /\ request[w].op = "add" => Members(request[w].utub) # {}
       /\ request[w].op \in Removing => Right(request[w])

SInv == /\ IInv
        /\ Lone
        /\ Owned
        /\ CreatorIsMember
        /\ CarriedStillTrue

LEMMA InitSInv == Init => SInv
<1> SUFFICES ASSUME Init PROVE SInv
  OBVIOUS
<1>1. \A w \in Workers : request[w] = Idle
  BY DEF Init
<1>2. Lone /\ CarriedStillTrue
  BY <1>1 DEF Lone, CarriedStillTrue, Idle, Removing
<1>3. Owned /\ CreatorIsMember
  BY DEF Init, Owned, CreatorIsMember
<1>4. QED BY InitIInv, <1>2, <1>3 DEF SInv

\* A serial step is a step.
LEMMA SerialIsNext == [SerialNext]_vars => [Next]_vars
BY DEF SerialNext, Next, ByMember, Complete

\* What ends a request.
LEMMA CompletionFinishes ==
  ASSUME TypeOK, NEW w \in Workers, Complete(w)
  PROVE  Finish(w) /\ request[w] # Idle
BY DEF Complete, EnrolCreator, AddCommit, RemoveCommit, Fail, Idle, Removing

\* While one worker carries something, no other does, and the last request
\* to finish leaves the system quiet.
LEMMA LoneStep == TypeOK /\ Lone /\ [SerialNext]_vars => Lone'
<1> SUFFICES ASSUME TypeOK, Lone, [SerialNext]_vars PROVE Lone'
  OBVIOUS
<1> USE DEF TypeOK, Lone
<1>1. ASSUME Quiet, NEW w \in Workers, NEW r, Begin(w, r) PROVE Lone'
  BY <1>1 DEF Quiet, Begin
<1>2. ASSUME Quiet, NEW w \in Workers, ByMember(w) \/ ByAdmin(w) PROVE Lone'
  <2>1. CASE Arrive(w)
    <3>1. PICK r : Begin(w, r)
      BY <2>1, ArrivalIsRequest
    <3>2. QED BY <1>1, <1>2, <3>1
  <2>2. CASE \E v \in Users : CreateUtub(w, v)
    <3>1. PICK r : Begin(w, r)
      BY <2>2 DEF CreateUtub
    <3>2. QED BY <1>1, <1>2, <3>1
  <2>3. QED BY <1>2, <2>1, <2>2 DEF ByMember, Arrive
<1>3. ASSUME NEW w \in Workers, Complete(w) PROVE Lone'
  BY <1>3, CompletionFinishes DEF Finish
<1>4. CASE Moderate \/ UNCHANGED vars
  BY <1>4 DEF Moderate, Lock, Unlock, vars
<1>5. QED BY <1>2, <1>3, <1>4 DEF SerialNext

LEMMA QuietAfter ==
  ASSUME TypeOK, Lone, NEW w \in Workers, Complete(w)
  PROVE  Quiet'
BY CompletionFinishes DEF TypeOK, Lone, Finish, Quiet

\* In a quiet state the two records of ownership agree everywhere.
LEMMA QuietOwnership ==
  ASSUME SInv, Quiet, NEW u \in utubs
  PROVE  /\ u \in Utubs /\ creator[u] \in Users
         /\ \A v \in Users : role[u][v] = "creator" <=> v = creator[u]
         /\ creator[u] \in Members(u)
<1>1. ~BeingCreated(u)
  BY DEF Quiet, BeingCreated, Idle
<1>2. QED BY <1>1 DEF SInv, IInv, TypeOK, Owned, CreatorIsMember, Members

\* What the reads of the removals decide is right.
LEMMA RightRead ==
  ASSUME SInv, Quiet, NEW w \in Workers, Arrive(w)
  PROVE  /\ request'[w].op = "add" => Members(request'[w].utub) # {}
         /\ request'[w].op \in Removing => Right(request'[w])
<1> DEFINE Good(r) == /\ r.op = "add" => Members(r.utub) # {}
                      /\ r.op \in Removing => Right(r)
<1> USE DEF Removing
<1>1. ASSUME NEW actor \in Users, NEW v \in Users, NEW u \in Utubs, AddRead(w, actor, v, u)
      PROVE  \E r : Begin(w, r) /\ Good(r)
  BY <1>1 DEF AddRead, Read, Members
<1>2. ASSUME NEW actor \in Users, NEW v \in Users, NEW u \in Utubs, RemoveRead(w, actor, v, u)
      PROVE  \E r : Begin(w, r) /\ Good(r)
  <2>1. u \in utubs /\ v \in Members(u) /\ v # creator[u]
    BY <1>2, QuietOwnership DEF RemoveRead, Joined
  <2>2. RightFor(u, Leave, v)
    BY <2>1 DEF RightFor, Leave
  <2>3. QED BY <1>2, <2>1, <2>2 DEF RemoveRead, Read, Right
<1>3. ASSUME NEW u \in Utubs, AdminDeleteRead(w, u) \/ \E actor \in Users : DeleteRead(w, actor, u)
      PROVE  \E r : Begin(w, r) /\ Good(r)
  BY <1>3 DEF AdminDeleteRead, DeleteRead, Read, Close, Right
<1>4. ASSUME NEW v \in Users, NEW u \in Joined(v), creator[u] = v, Members(u) # {v}
      PROVE  RightFor(u, Succeed(u, v), v)
  <2> DEFINE heir == select_ownership_transfer_target(Members(u) \ {v})
  <2>1. u \in utubs /\ v \in Members(u)
    BY <1>4 DEF Joined
  <2>2. heir \in Members(u) \ {v} /\ heir \in Users
    BY <1>4, <2>1, HeirIsLeftBehind DEF Members
  <2>3. role[u][heir] # "creator"
    BY <1>4, <2>1, <2>2, QuietOwnership
  <2>4. QED BY <1>4, <2>1, <2>2, <2>3 DEF RightFor, Succeed
<1>5. ASSUME NEW v \in Users, NEW u \in Joined(v)
      PROVE  /\ u \in utubs
             /\ creator[u] # v => RightFor(u, Leave, v)
             /\ Members(u) = {v} => RightFor(u, Close(u), v)
  BY DEF Joined, RightFor, Leave, Close
<1>6. ASSUME NEW v \in Users, NEW u \in Utubs, AdminRemoveRead(w, v, u)
      PROVE  \E r : Begin(w, r) /\ Good(r)
  <2> DEFINE d == IF creator[u] # v THEN Leave
                  ELSE IF Members(u) = {v} THEN Close(u)
                  ELSE Succeed(u, v)
             r == [op |-> "moderate", user |-> v, plan |-> [x \in {u} |-> d]]
  <2>1. u \in Joined(v) /\ Begin(w, r)
    BY <1>6 DEF AdminRemoveRead, Read
  <2>2. u \in utubs /\ RightFor(u, d, v)
    BY <1>4, <1>5, <2>1
  <2> HIDE DEF d
  <2>3. Right(r)
    BY <2>2 DEF Right
  <2>4. QED BY <2>1, <2>3
<1>7. ASSUME NEW v \in Users, EraseRead(w, v)
      PROVE  \E r : Begin(w, r) /\ Good(r)
  <2> DEFINE r == [op |-> "erase", user |-> v,
                   plan |-> [u \in Joined(v) |-> Bequest(u, v)]]
  <2>1. \A u \in Joined(v) : u \in utubs /\ RightFor(u, Bequest(u, v), v)
    BY <1>4, <1>5 DEF Bequest
  <2>2. Right(r)
    BY <2>1 DEF Right
  <2>3. Begin(w, r)
    BY <1>7 DEF EraseRead, Read
  <2>4. QED BY <2>2, <2>3
<1>8. \E r : Begin(w, r) /\ Good(r)
  <2>1. CASE ByAdmin(w)
    BY <1>3, <1>6, <1>7, <2>1 DEF ByAdmin
  <2>2. CASE ~ByAdmin(w)
    BY <1>1, <1>2, <1>3, <2>2 DEF Arrive
  <2>3. QED BY <2>1, <2>2
<1>9. PICK r : Begin(w, r) /\ Good(r)
  BY <1>8
<1>10. request'[w] = r
  BY <1>9 DEF Begin, SInv, IInv, TypeOK
<1>11. QED BY <1>9, <1>10

LEMMA RightStays ==
  ASSUME UNCHANGED tables, NEW r, Right(r)
  PROVE  Right(r)'
BY DEF tables, Right, RightFor, Members

\* What a worker carries stays true: nothing runs between its read and its
\* commit.
LEMMA CarriedTrueStep == SInv /\ [SerialNext]_vars => CarriedStillTrue'
<1> SUFFICES ASSUME SInv, [SerialNext]_vars PROVE CarriedStillTrue'
  OBVIOUS
<1>0. TypeOK /\ Lone /\ CarriedStillTrue
  BY DEF SInv, IInv
<1>1. ASSUME Quiet, NEW w \in Workers, Arrive(w) PROVE CarriedStillTrue'
  <2>1. UNCHANGED tables
    BY <1>0, <1>1, ArrivalIsRequest
  <2>2. \A x \in Workers \ {w} : request'[x] = Idle
    BY <1>0, <1>1, ArrivalConcerns DEF Quiet
  <2>3. PICK r : r = request'[w]
    OBVIOUS
  <2>4. /\ r.op = "add" => Members(r.utub)' # {}
        /\ r.op \in Removing => Right(r)'
    BY <1>1, <2>1, <2>3, RightRead, RightStays DEF tables, Members
  <2>5. QED BY <2>2, <2>3, <2>4 DEF CarriedStillTrue, Idle, Removing
<1>2. ASSUME Quiet, NEW w \in Workers, NEW v \in Users, CreateUtub(w, v) PROVE CarriedStillTrue'
  <2>1. \A x \in Workers : request'[x] = Idle \/ request'[x].op = "enrol"
    BY <1>0, <1>2 DEF CreateUtub, Begin, Quiet, TypeOK
  <2>2. QED BY <2>1 DEF CarriedStillTrue, Idle, Removing
<1>3. ASSUME NEW w \in Workers, Complete(w) PROVE CarriedStillTrue'
  BY <1>0, <1>3, QuietAfter DEF Quiet, CarriedStillTrue, Idle, Removing
<1>4. CASE Quiet /\ Moderate
  BY <1>4 DEF Moderate, Lock, Unlock, Quiet, CarriedStillTrue, Idle, Removing
<1>5. CASE UNCHANGED vars
  <2>1. ASSUME NEW w \in Workers, NEW r, r = request[w]
        PROVE  /\ r = request'[w]
               /\ r.op = "add" => Members(r.utub)' # {}
               /\ r.op \in Removing => Right(r)'
    BY <1>0, <1>5, <2>1, RightStays DEF CarriedStillTrue, vars, tables, Members
  <2>2. QED BY <2>1 DEF CarriedStillTrue
<1>6. QED BY <1>1, <1>2, <1>3, <1>4, <1>5 DEF SerialNext, ByMember, Arrive

\* What the commit of a right removal of v does in UTub u: the three cases.
LEMMA RightEffect ==
  ASSUME SInv, NEW w \in Workers, RemoveCommit(w), NEW u \in DOMAIN request[w].plan,
         request[w].user \in Users
  PROVE  LET v == request[w].user
             d == request[w].plan[u] IN
         /\ u \in utubs /\ v \in Members(u)
         /\ d.kind = "close" /\ Members(u) = {v} => u \notin utubs'
         /\ d.kind # "close" =>
               /\ u \in utubs'
               /\ Members(u)' = Members(u) \ {v}
               /\ creator'[u] = IF creator[u] = v THEN d.heir ELSE creator[u]
               /\ creator[u] = v => d.heir \in Members(u) \ {v}
               /\ \A x \in Users : role'[u][x] = IF x = v THEN "none"
                                                 ELSE IF creator[u] = v /\ x = d.heir
                                                 THEN "creator" ELSE role[u][x]
         /\ d.kind = "close" => Members(u) = {v}
<1> DEFINE v == request[w].user
           d == request[w].plan[u]
<1>1. TypeOK /\ request[w].op \in Removing /\ Null \notin Users
  BY UsersAssumption DEF SInv, IInv, RemoveCommit
<1>2. u \in Utubs /\ d.kind \in {"leave", "close", "succeed"}
  BY <1>1, CarriedShape, PlanShape
<1>3. u \in utubs /\ RightFor(u, d, v)
  BY <1>1 DEF SInv, CarriedStillTrue, Right
<1>4. /\ role'[u] = RoleAfter(u, d, v)
      /\ d.kind = "close" => u \notin utubs'
      /\ d.kind # "close" => u \in utubs'
      /\ d.kind = "succeed" => creator'[u] = d.heir
      /\ d.kind = "leave" => creator'[u] = creator[u]
  BY <1>1, <1>2, RemovalEffect
<1> HIDE DEF v, d
<1>5. CASE d.kind = "leave"
  <2>1. v \in Members(u) /\ v # creator[u]
    BY <1>3, <1>5 DEF RightFor
  <2>2. \A x \in Users : role'[u][x] = IF x = v THEN "none" ELSE role[u][x]
    BY <1>4, <1>5 DEF RoleAfter, Deleted
  <2>3. Members(u)' = Members(u) \ {v}
    BY <2>2 DEF Members
  <2>4. QED BY <1>3, <1>4, <1>5, <2>1, <2>2, <2>3 DEF v, d
<1>6. CASE d.kind = "close"
  BY <1>3, <1>4, <1>6 DEF RightFor, v, d
<1>7. CASE d.kind = "succeed"
  <2>1. v \in Members(u) /\ v = creator[u] /\ d.heir \in Members(u) \ {v} /\ ~d.asCreator
    BY <1>3, <1>7 DEF RightFor
  <2>2. \A x \in Users : role'[u][x] = IF x = v THEN "none"
                                       ELSE IF x = d.heir THEN "creator" ELSE role[u][x]
    BY <1>4, <1>7, <2>1 DEF RoleAfter, Deleted
  <2>3. Members(u)' = Members(u) \ {v}
    BY <2>1, <2>2 DEF Members
  <2>4. QED BY <1>3, <1>4, <1>7, <2>1, <2>2, <2>3 DEF v, d
<1>8. QED BY <1>2, <1>5, <1>6, <1>7 DEF v, d

\* A step that changes neither the UTubs nor who has what role, and ends no
\* creation, keeps the records together.
LEMMA OwnershipKept ==
  ASSUME Owned, CreatorIsMember, UNCHANGED <<utubs, creator, role>>,
         \A u \in utubs : BeingCreated(u) => BeingCreated(u)'
  PROVE  Owned' /\ CreatorIsMember'
BY DEF Owned, CreatorIsMember

LEMMA OwnershipStep == SInv /\ [SerialNext]_vars => Owned' /\ CreatorIsMember'
<1> SUFFICES ASSUME SInv, [SerialNext]_vars PROVE Owned' /\ CreatorIsMember'
  OBVIOUS
<1>0. TypeOK /\ Founding /\ Lone /\ Owned /\ CreatorIsMember
  BY DEF SInv, IInv
<1>1. ASSUME Quiet, NEW w \in Workers, Arrive(w) PROVE Owned' /\ CreatorIsMember'
  <2>1. UNCHANGED tables
    BY <1>0, <1>1, ArrivalIsRequest
  <2>2. \A u : ~BeingCreated(u)
    BY <1>1 DEF Quiet, BeingCreated, Idle
  <2>3. QED BY <1>0, <2>1, <2>2, OwnershipKept DEF tables
<1>2. ASSUME Quiet, NEW w \in Workers, NEW v \in Users, CreateUtub(w, v)
      PROVE  Owned' /\ CreatorIsMember'
  <2>1. PICK u \in Utubs : /\ Free(u)
                           /\ utubs' = utubs \union {u}
                           /\ creator' = [creator EXCEPT ![u] = v]
                           /\ Begin(w, [op |-> "enrol", utub |-> u, user |-> v])
                           /\ role' = role
    BY <1>2 DEF CreateUtub
  <2>2. creator'[u] = v /\ \A x \in utubs : x # u /\ creator'[x] = creator[x]
    BY <1>0, <2>1 DEF TypeOK, Free
  <2>3. BeingCreated(u)'
    BY <1>0, <2>1 DEF BeingCreated, Begin, TypeOK
  <2>4. \A x \in utubs : ~BeingCreated(x)
    BY <1>2 DEF Quiet, BeingCreated, Idle
  <2>5. QED BY <1>0, <2>1, <2>2, <2>3, <2>4 DEF Owned, CreatorIsMember
<1>3. ASSUME NEW w \in Workers, EnrolCreator(w) \/ AddCommit(w)
      PROVE  Owned' /\ CreatorIsMember'
  <2> DEFINE u == request[w].utub
             v == request[w].user
  <2>1. u \in utubs /\ v \in Users /\ v \notin Members(u) /\ u \in Utubs
    BY <1>0, <1>3, Insertion DEF EnrolCreator, AddCommit, TypeOK
  <2>2. utubs' = utubs /\ creator' = creator
    BY <1>3 DEF EnrolCreator, AddCommit
  <2>3. \A x \in utubs, y \in Users :
           role'[x][y] = IF x = u /\ y = v
                         THEN IF EnrolCreator(w) THEN "creator" ELSE "member"
                         ELSE role[x][y]
    BY <1>0, <1>3, Insertion DEF TypeOK
  <2>4. \A x \in Workers \ {w} : request[x] = Idle
    BY <1>0, <1>3 DEF Lone, EnrolCreator, AddCommit, Idle
  <2>5. \A x \in utubs \ {u} : ~BeingCreated(x)
    BY <2>4 DEF BeingCreated, Idle
  <2>6. \A x \in utubs \ {u} : \A y \in Users : role'[x][y] = "creator" <=> y = creator'[x]
    BY <1>0, <2>2, <2>3, <2>5 DEF CreatorIsMember
  <2>7. \A y \in Users : role'[u][y] = "creator" <=> y = creator'[u]
    <3>1. CASE EnrolCreator(w)
      <4>1. Members(u) = {} /\ creator[u] = v
        BY <1>0, <2>1, <3>1 DEF EnrolCreator, Founding
      <4>2. QED BY <2>1, <2>2, <2>3, <3>1, <4>1 DEF Members
    <3>2. CASE ~EnrolCreator(w)
      <4>1. request[w].op = "add"
        BY <1>3, <3>2 DEF AddCommit
      <4>2. ~BeingCreated(u)
        BY <2>4, <4>1 DEF BeingCreated, Idle
      <4>3. \A y \in Users : role[u][y] = "creator" <=> y = creator[u]
        BY <1>0, <2>1, <4>2 DEF CreatorIsMember
      <4>4. QED BY <2>1, <2>2, <2>3, <3>2, <4>3 DEF Members
    <3>3. QED BY <3>1, <3>2
  <2>8. Owned'
    BY <1>0, <2>2 DEF Owned
  <2> HIDE DEF u, v
  <2>9. \A x \in utubs' : \A y \in Users : role'[x][y] = "creator" <=> y = creator'[x]
    BY <2>2, <2>6, <2>7
  <2>10. QED BY <2>8, <2>9 DEF CreatorIsMember
<1>4. ASSUME NEW w \in Workers, RemoveCommit(w) PROVE Owned' /\ CreatorIsMember'
  <2> DEFINE plan == request[w].plan
             v == request[w].user
  <2>1. request[w].op \in Removing /\ utubs' \subseteq utubs /\ utubs \subseteq Utubs
    BY <1>0, <1>4 DEF RemoveCommit, TypeOK
  <2>2. \A x \in utubs : ~BeingCreated(x)
    BY <1>0, <2>1 DEF Lone, BeingCreated, Idle, Removing
  <2>3. ASSUME NEW u \in utubs'
        PROVE  /\ creator'[u] \in Users
               /\ \A y \in Users : role'[u][y] = "creator" <=> y = creator'[u]
    <3>1. /\ u \in Utubs /\ u \in utubs /\ creator[u] \in Users
          /\ \A y \in Users : role[u][y] = "creator" <=> y = creator[u]
      BY <1>0, <2>1, <2>2 DEF Owned, CreatorIsMember
    <3>2. CASE u \notin DOMAIN plan
      <4>1. role'[u] = role[u] /\ creator'[u] = creator[u]
        BY <1>0, <1>4, <3>1, <3>2, RemovalEffect
      <4>2. QED BY <3>1, <4>1
    <3>3. CASE u \in DOMAIN plan /\ v = Null
      <4>1. plan[u].kind = "close"
        BY <1>4, <2>1, <3>3, UsersAssumption DEF SInv, CarriedStillTrue, Right
      <4>2. QED BY <1>0, <1>4, <3>1, <3>3, <4>1, RemovalEffect
    <3>4. CASE u \in DOMAIN plan /\ v # Null
      <4>1. v \in Users
        BY <1>0, <2>1, <3>4, CarriedShape
      <4>2. plan[u].kind # "close"
        BY <1>0, <1>4, <3>1, <3>4, RemovalEffect
      <4>3. /\ creator'[u] = IF creator[u] = v THEN plan[u].heir ELSE creator[u]
            /\ creator[u] = v => plan[u].heir \in Members(u) \ {v}
            /\ \A x \in Users : role'[u][x] = IF x = v THEN "none"
                                              ELSE IF creator[u] = v /\ x = plan[u].heir
                                              THEN "creator" ELSE role[u][x]
        BY <1>4, <3>4, <4>1, <4>2, RightEffect
      <4>4. QED BY <3>1, <4>3 DEF Members
    <3>5. QED BY <3>2, <3>3, <3>4
  <2>4. QED BY <2>3 DEF Owned, CreatorIsMember
<1>5. ASSUME NEW w \in Workers, Fail(w) PROVE Owned' /\ CreatorIsMember'
  <2>1. \A u : ~BeingCreated(u)
    BY <1>0, <1>5 DEF Lone, BeingCreated, Idle, Fail, Removing
  <2>2. QED BY <1>0, <1>5, <2>1, OwnershipKept DEF Fail, tables
<1>6. CASE Moderate \/ UNCHANGED vars
  BY <1>0, <1>6, OwnershipKept DEF Moderate, Lock, Unlock, vars, tables, BeingCreated
<1>7. QED BY <1>1, <1>2, <1>3, <1>4, <1>5, <1>6 DEF SerialNext, ByMember, Arrive, Complete

LEMMA SerialInvariance == SerialSpec => []SInv
<1>1. SInv /\ [SerialNext]_vars => SInv'
  BY SerialIsNext, TypeStep, NoStrayStep, FoundingStep, LoneStep, CarriedTrueStep,
     OwnershipStep DEF SInv, IInv
<1>2. QED BY InitSInv, <1>1, PTL DEF SerialSpec

\* CreatorIsMember is an invariant when requests do not overlap: the creator
\* of a UTub, and nobody else, is the member with that role.
THEOREM OwnershipAgrees == SerialSpec => []CreatorIsMember
<1>1. SInv => CreatorIsMember
  BY DEF SInv
<1>2. QED BY SerialInvariance, <1>1, PTL

-----------------------------------------------------------------------------
(* The refinement: each serial step is a step of UtubOwnership or leaves   *)
(* its variables alone.                                                    *)

USE DEF Promise!vars

LEMMA InitPromise == Init => Promise!Init
<1> SUFFICES ASSUME Init PROVE Promise!Init
  OBVIOUS
<1>1. Inhabited = {}
  BY DEF Init, Inhabited
<1>2. QED BY <1>1 DEF Promise!Init

\* What UtubOwnership calls open, an owner and the members.
LEMMA PromiseView ==
  /\ Promise!Open = Inhabited
  /\ \A u \in Inhabited : /\ [x \in Inhabited |-> creator[x]][u] = creator[u]
                          /\ [x \in Inhabited |-> Members(x)][u] = Members(u)
BY DEF Promise!Open

\* The variables of UtubOwnership depend on the inhabited UTubs alone.
LEMMA PromiseStutter ==
  ASSUME Inhabited' = Inhabited,
         \A u \in Inhabited : creator'[u] = creator[u] /\ Members(u)' = Members(u)
  PROVE  UNCHANGED Promise!vars
<1>1. [u \in Inhabited |-> creator[u]]' = [u \in Inhabited |-> creator[u]]
  OBVIOUS
<1>2. [u \in Inhabited |-> Members(u)]' = [u \in Inhabited |-> Members(u)]
  OBVIOUS
<1>3. QED BY <1>1, <1>2

LEMMA EnrolIsFound ==
  ASSUME SInv, NEW w \in Workers, EnrolCreator(w)
  PROVE  \E u \in Utubs, v \in Users : Promise!Found(u, v)
<1>0. TypeOK /\ Founding
  BY DEF SInv, IInv
<1>1. PICK u \in Utubs, v \in Users : u = request[w].utub /\ v = request[w].user
  BY <1>0, CarriedShape DEF EnrolCreator
<1>2. u \in utubs /\ Members(u) = {} /\ creator[u] = v
  BY <1>0, <1>1 DEF EnrolCreator, Founding
<1>3. utubs' = utubs /\ creator' = creator
  BY DEF EnrolCreator
<1>4. \A x \in Utubs, y \in Users :
         role'[x][y] = IF x = u /\ y = v THEN "creator" ELSE role[x][y]
  BY <1>0, <1>1, Insertion
<1>5. Members(u)' = {v} /\ \A x \in utubs \ {u} : Members(x)' = Members(x)
  BY <1>0, <1>2, <1>4 DEF Members, TypeOK
<1>6. u \notin Inhabited /\ Inhabited' = Inhabited \union {u}
  BY <1>2, <1>3, <1>5 DEF Inhabited
<1>7. \A x \in Inhabited : x \in utubs \ {u}
  BY <1>6 DEF Inhabited
<1>8. [x \in Inhabited |-> creator[x]]'
        = [x \in Inhabited \union {u} |-> IF x = u THEN v ELSE [y \in Inhabited |-> creator[y]][x]]
  BY <1>2, <1>3, <1>6
<1>9. [x \in Inhabited |-> Members(x)]'
        = [x \in Inhabited \union {u} |-> IF x = u THEN {v} ELSE [y \in Inhabited |-> Members(y)][x]]
  BY <1>5, <1>6, <1>7
<1>10. Promise!Found(u, v)
  BY <1>6, <1>8, <1>9, PromiseView DEF Promise!Found
<1>11. QED BY <1>10

LEMMA AddIsJoin ==
  ASSUME SInv, NEW w \in Workers, AddCommit(w)
  PROVE  \E u \in Utubs, v \in Users : Promise!Join(u, v)
<1>0. TypeOK /\ CarriedStillTrue
  BY DEF SInv, IInv
<1>1. PICK u \in Utubs, v \in Users : u = request[w].utub /\ v = request[w].user
  BY <1>0, CarriedShape DEF AddCommit
<1>2. u \in utubs /\ Members(u) # {} /\ ~EnrolCreator(w)
  BY <1>0, <1>1 DEF AddCommit, EnrolCreator, CarriedStillTrue
<1>3. utubs' = utubs /\ creator' = creator
  BY DEF AddCommit
<1>4. \A x \in Utubs, y \in Users :
         role'[x][y] = IF x = u /\ y = v THEN "member" ELSE role[x][y]
  BY <1>0, <1>1, <1>2, Insertion
<1>5. Members(u)' = Members(u) \union {v} /\ \A x \in utubs \ {u} : Members(x)' = Members(x)
  BY <1>0, <1>2, <1>4 DEF Members, TypeOK
<1>6. u \in Inhabited /\ Inhabited' = Inhabited
  BY <1>2, <1>3, <1>5 DEF Inhabited
<1>7. [x \in Inhabited |-> creator[x]]' = [x \in Inhabited |-> creator[x]]
  BY <1>3, <1>6
<1>8. [x \in Inhabited |-> Members(x)]'
        = [[x \in Inhabited |-> Members(x)] EXCEPT ![u] = @ \union {v}]
  BY <1>5, <1>6 DEF Inhabited
<1>9. Promise!Join(u, v)
  BY <1>6, <1>7, <1>8, PromiseView DEF Promise!Join
<1>10. QED BY <1>9

\* A deletion by the creator or an admin dissolves one UTub.
LEMMA DeletionIsDissolve ==
  ASSUME SInv, NEW w \in Workers, RemoveCommit(w), request[w].user = Null
  PROVE  \E u \in Utubs : Promise!Dissolve(u)
<1>0. TypeOK /\ request[w].op \in Removing
  BY DEF SInv, IInv, RemoveCommit
<1>1. PICK u \in Utubs : DOMAIN request[w].plan = {u} /\ request[w].plan[u].kind = "close"
  BY <1>0, UsersAssumption DEF SInv, CarriedStillTrue, Right
<1>2. u \notin utubs'
  BY <1>0, <1>1, RemovalEffect
<1>3. ASSUME NEW x \in Utubs \ {u}
      PROVE  role'[x] = role[x] /\ creator'[x] = creator[x] /\ (x \in utubs' <=> x \in utubs)
  BY <1>0, <1>1, RemovalEffect
<1>4. \A x \in Utubs \ {u} : Members(x)' = Members(x)
  BY <1>3 DEF Members
<1>5. utubs \subseteq Utubs /\ utubs' \subseteq utubs
  BY <1>0 DEF TypeOK, RemoveCommit
<1>6. Inhabited' = Inhabited \ {u} /\ Inhabited \subseteq Utubs
  BY <1>2, <1>3, <1>4, <1>5 DEF Inhabited
<1>7. [x \in Inhabited |-> creator[x]]'
        = [x \in Inhabited \ {u} |-> [y \in Inhabited |-> creator[y]][x]]
  BY <1>3, <1>6
<1>8. [x \in Inhabited |-> Members(x)]'
        = [x \in Inhabited \ {u} |-> [y \in Inhabited |-> Members(y)][x]]
  BY <1>4, <1>6
<1>9. Promise!Dissolve(u)
  BY <1>7, <1>8, PromiseView DEF Promise!Dissolve
<1>10. QED BY <1>9

\* A departure or an erasure takes one member out of several UTubs.
LEMMA RemovalIsDepart ==
  ASSUME SInv, NEW w \in Workers, RemoveCommit(w), request[w].user # Null
  PROVE  \E v \in Users, S \in SUBSET Utubs : Promise!Depart(v, S)
<1>0. TypeOK /\ request[w].op \in Removing /\ Owned /\ CreatorIsMember /\ Lone
  BY DEF SInv, IInv, RemoveCommit
<1>1. PICK v \in Users : v = request[w].user
  BY <1>0, CarriedShape
<1>2. PICK S \in SUBSET Utubs : S = DOMAIN request[w].plan
  BY <1>0, CarriedShape, PlanShape
<1>3. utubs \subseteq Utubs /\ utubs' \subseteq utubs
  BY <1>0 DEF TypeOK, RemoveCommit
<1>4. ASSUME NEW u \in Utubs \ S
      PROVE  /\ creator'[u] = creator[u] /\ Members(u)' = Members(u)
             /\ u \in utubs' <=> u \in utubs
  <2>1. role'[u] = role[u] /\ creator'[u] = creator[u] /\ (u \in utubs' <=> u \in utubs)
    BY <1>0, <1>2, <1>4, RemovalEffect
  <2>2. QED BY <2>1 DEF Members
<1>5. ASSUME NEW u \in S
      PROVE  /\ u \in Inhabited
             /\ u \in utubs' <=> Members(u) # {v}
             /\ u \in utubs' =>
                   /\ Members(u)' = Members(u) \ {v} /\ Members(u)' # {}
                   /\ IF creator[u] = v THEN creator'[u] \in Members(u) \ {v}
                                        ELSE creator'[u] = creator[u]
  <2> DEFINE d == request[w].plan[u]
  <2>1. /\ u \in utubs /\ v \in Members(u)
        /\ d.kind = "close" /\ Members(u) = {v} => u \notin utubs'
        /\ d.kind # "close" =>
              /\ u \in utubs'
              /\ Members(u)' = Members(u) \ {v}
              /\ creator'[u] = IF creator[u] = v THEN d.heir ELSE creator[u]
              /\ creator[u] = v => d.heir \in Members(u) \ {v}
        /\ d.kind = "close" => Members(u) = {v}
    BY <1>1, <1>2, RightEffect
  <2> HIDE DEF d
  <2>2. ~BeingCreated(u)
    BY <1>0 DEF Lone, BeingCreated, Idle, Removing
  <2>3. creator[u] \in Members(u)
    BY <1>0, <2>1, <2>2 DEF Owned, CreatorIsMember, Members
  <2>4. u \in Inhabited
    BY <2>1 DEF Inhabited
  <2>5. QED BY <2>1, <2>3, <2>4
<1> DEFINE left == {u \in Inhabited : u \notin S \/ Members(u) # {v}}
<1>6. Inhabited \subseteq Utubs
  BY <1>3 DEF Inhabited
<1>7. Inhabited' = left
  BY <1>3, <1>4, <1>5, <1>6 DEF Inhabited
<1>8. [u \in Inhabited |-> Members(u)]'
        = [u \in left |-> IF u \in S THEN [x \in Inhabited |-> Members(x)][u] \ {v}
                          ELSE [x \in Inhabited |-> Members(x)][u]]
  <2>1. \A u \in left : Members(u)' = IF u \in S THEN Members(u) \ {v} ELSE Members(u)
    BY <1>4, <1>5, <1>6, <1>7 DEF Inhabited
  <2>2. QED BY <1>7, <2>1
<1>9. \A u \in left : IF u \in S /\ creator[u] = v THEN creator'[u] \in Members(u) \ {v}
                      ELSE creator'[u] = creator[u]
  BY <1>4, <1>5, <1>6, <1>7 DEF Inhabited
<1>10. \A u \in left : creator'[u] \in Users
  BY <1>0, <1>9 DEF Owned, Inhabited, Members
<1> DEFINE heir == [u \in left |-> creator'[u]]
<1>11. heir \in [left -> Users] /\ [u \in Inhabited |-> creator[u]]' = heir
  BY <1>7, <1>10
<1>12. Promise!Depart(v, S)
  BY <1>8, <1>9, <1>11, PromiseView DEF Promise!Depart
<1>13. QED BY <1>12

LEMMA StepPromise == SInv /\ [SerialNext]_vars => [Promise!Next]_(Promise!vars)
<1> SUFFICES ASSUME SInv, [SerialNext]_vars
             PROVE  Promise!Next \/ UNCHANGED Promise!vars
  OBVIOUS
<1>0. TypeOK /\ NoStrayMembership
  BY DEF SInv, IInv
<1>1. ASSUME UNCHANGED <<utubs, creator, role>> PROVE UNCHANGED Promise!vars
  <2>1. Inhabited' = Inhabited /\ \A u : Members(u)' = Members(u)
    BY <1>1 DEF Inhabited, Members
  <2>2. QED BY <1>1, <2>1, PromiseStutter
<1>2. ASSUME NEW w \in Workers, Arrive(w) PROVE UNCHANGED Promise!vars
  BY <1>0, <1>1, <1>2, ArrivalIsRequest DEF tables
<1>3. ASSUME NEW w \in Workers, NEW v \in Users, CreateUtub(w, v) PROVE UNCHANGED Promise!vars
  <2>1. PICK u \in Utubs : /\ u \notin utubs
                           /\ utubs' = utubs \union {u}
                           /\ creator' = [creator EXCEPT ![u] = v]
                           /\ role' = role
    BY <1>3 DEF CreateUtub, Free
  <2>2. Members(u) = {} /\ \A x : Members(x)' = Members(x)
    BY <1>0, <2>1 DEF NoStrayMembership, Members
  <2>3. Inhabited' = Inhabited /\ u \notin Inhabited
    BY <2>1, <2>2 DEF Inhabited
  <2>4. \A x \in Inhabited : creator'[x] = creator[x]
    BY <1>0, <2>1, <2>3 DEF TypeOK, Inhabited
  <2>5. QED BY <2>2, <2>3, <2>4, PromiseStutter
<1>4. ASSUME NEW w \in Workers, Complete(w) PROVE Promise!Next \/ UNCHANGED Promise!vars
  <2>1. CASE EnrolCreator(w)
    BY <2>1, EnrolIsFound DEF Promise!Next
  <2>2. CASE AddCommit(w)
    BY <2>2, AddIsJoin DEF Promise!Next
  <2>3. CASE RemoveCommit(w)
    BY <2>3, DeletionIsDissolve, RemovalIsDepart DEF Promise!Next
  <2>4. CASE Fail(w)
    BY <1>1, <2>4 DEF Fail, tables
  <2>5. QED BY <1>4, <2>1, <2>2, <2>3, <2>4 DEF Complete
<1>5. CASE Moderate \/ UNCHANGED vars
  BY <1>1, <1>5 DEF Moderate, Lock, Unlock, vars, tables
<1>6. QED BY <1>2, <1>3, <1>4, <1>5 DEF SerialNext, ByMember, Arrive

\* Served one at a time, the requests implement UtubOwnership: whoever
\* leaves, is removed or erased, a UTub has one owner, a member of it, and
\* it is dissolved with its last member.
THEOREM SerialKeepsPromise == SerialSpec => KeepsPromise
<1>1. SerialSpec => Promise!Spec
  BY InitPromise, StepPromise, SerialInvariance, PTL DEF SerialSpec, Promise!Spec
<1>2. QED BY <1>1 DEF KeepsPromise
=============================================================================
