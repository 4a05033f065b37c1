--------------------------- MODULE UtubOwnership ----------------------------
(***************************************************************************)
(* What membership promises: a UTub always has one owner, who is one of    *)
(* its members.  The owner cannot leave by himself; when he is taken out,  *)
(* another member inherits the UTub, and it is dissolved when there is     *)
(* none.  The promise is that of the docstrings of remove_member_or_self   *)
(* (backend/members/services/delete_members.py:21-39), remove_member_admin *)
(* (admin/moderation_service.py:183-191) and erase_user                    *)
(* (admin/account_data_service.py:86-95).                                  *)
(***************************************************************************)
CONSTANTS Utubs, Users

VARIABLES
    owner,     \* the owner of each UTub (a function on the UTubs there are)
    members    \* the members of each of them

vars == <<owner, members>>

Open == DOMAIN owner

Init == /\ owner = [u \in {} |-> u]
        /\ members = [u \in {} |-> {}]

Found(u, v) ==
    /\ u \notin Open
    /\ owner' = [x \in Open \union {u} |-> IF x = u THEN v ELSE owner[x]]
    /\ members' = [x \in Open \union {u} |-> IF x = u THEN {v} ELSE members[x]]

Join(u, v) ==
    /\ u \in Open
    /\ members' = [members EXCEPT ![u] = @ \union {v}]
    /\ UNCHANGED owner

Dissolve(u) ==
    /\ owner' = [x \in Open \ {u} |-> owner[x]]
    /\ members' = [x \in Open \ {u} |-> members[x]]

\* User v goes from the UTubs in S, all at once: a UTub that loses its owner
\* passes to one of its other members, one that loses its last member is
\* dissolved, and any other keeps its owner.
Depart(v, S) ==
    LET left == {u \in Open : u \notin S \/ members[u] # {v}} IN
    /\ members' = [u \in left |-> IF u \in S THEN members[u] \ {v} ELSE members[u]]
    /\ \E heir \in [left -> Users] :
          /\ owner' = heir
          /\ \A u \in left : IF u \in S /\ owner[u] = v THEN heir[u] \in members[u] \ {v}
                             ELSE heir[u] = owner[u]

Next ==
    \/ \E u \in Utubs, v \in Users : Found(u, v) \/ Join(u, v)
    \/ \E u \in Utubs : Dissolve(u)
    \/ \E v \in Users, S \in SUBSET Utubs : Depart(v, S)

Spec == Init /\ [][Next]_vars
=============================================================================
