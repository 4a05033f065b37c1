----------------------------- MODULE Bookmarks ------------------------------
(***************************************************************************)
(* What the contents of a UTub promise: a set of URLs, each once, each     *)
(* carrying at most a limited number of the tags the UTub knows            *)
(* (README.md:10-11).  A URL is saved together with its tags, or not at    *)
(* all; to point a saved URL elsewhere keeps its tags; a tag the UTub      *)
(* forgets is on no URL any more.                                          *)
(***************************************************************************)
EXTENDS Integers, FiniteSets

CONSTANTS Urls, Names, limit

VARIABLES
    known,     \* the tags of the UTub
    tags       \* the tags of each saved URL (a function on the saved URLs)

vars == <<known, tags>>

Saved == DOMAIN tags

Init == known = {} /\ tags = [a \in {} |-> {}]

Save(a, S) ==
    /\ a \notin Saved
    /\ Cardinality(S) <= limit
    /\ tags' = [x \in Saved \union {a} |-> IF x = a THEN S ELSE tags[x]]
    /\ known' = known \union S

Move(a, b) ==
    /\ a \in Saved /\ b \notin Saved
    /\ tags' = [x \in (Saved \ {a}) \union {b} |-> IF x = b THEN tags[a] ELSE tags[x]]
    /\ UNCHANGED known

Forget(a) ==
    /\ tags' = [x \in Saved \ {a} |-> tags[x]]
    /\ UNCHANGED known

Tag(a, S) ==
    /\ a \in Saved
    /\ Cardinality(tags[a] \union S) <= limit
    /\ tags' = [tags EXCEPT ![a] = @ \union S]
    /\ known' = known \union S

Untag(a, s) ==
    /\ a \in Saved
    /\ tags' = [tags EXCEPT ![a] = @ \ {s}]
    /\ UNCHANGED known

Coin(s) == known' = known \union {s} /\ UNCHANGED tags

Retire(s) ==
    /\ known' = known \ {s}
    /\ tags' = [a \in Saved |-> tags[a] \ {s}]

Clear == known' = {} /\ tags' = [a \in {} |-> {}]

Next ==
    \/ \E a \in Urls, S \in SUBSET Names : Save(a, S) \/ Tag(a, S)
    \/ \E a, b \in Urls : Move(a, b)
    \/ \E a \in Urls : Forget(a) \/ \E s \in Names : Untag(a, s)
    \/ \E s \in Names : Coin(s) \/ Retire(s)
    \/ Clear

Spec == Init /\ [][Next]_vars
=============================================================================
