---------------------------- MODULE UtubContents ----------------------------
(***************************************************************************)
(* What a UTub holds: its URLs (table UtubUrls), its tag vocabulary        *)
(* (UtubTags) and the tags applied to its URLs (UtubUrlTags), changed by   *)
(* the requests of urls/services and tags/services and by the admin        *)
(* actions of admin/moderation_service.py.  One UTub is enough: every      *)
(* table is keyed by it.  The catalog of all URLs (Urls) is shared with    *)
(* the UTubs that are not modelled.                                        *)
(*                                                                         *)
(* Requests read and commit as in UtubMembership, whose permission checks  *)
(* are not repeated: a creator passes all of them.  Every member's request *)
(* consults the lock when it reads, and never again.  At the commit the    *)
(* database refuses a second row for one URL or one tag of the UTub, a     *)
(* tag applied to a missing row, and an UPDATE of one; nothing refuses a   *)
(* second application of a tag to a URL.                                   *)
(*                                                                         *)
(* Two helpers commit in the middle of a request: a URL that is new to the *)
(* catalog, and a tag that is new to the vocabulary when a single tag is   *)
(* applied.  That commit is part of the Read action: the request holds on  *)
(* to nothing it read before it, but the lock and the tag count.           *)
(***************************************************************************)
EXTENDS Integers, FiniteSets

CONSTANTS
    Urls,          \* URL strings, normalised
    Names,         \* tag strings, stripped
    UrlRows,       \* keys of UtubUrls
    TagRows,       \* keys of UtubTags
    Copies,        \* numbers that tell equal rows of UtubUrlTags apart
    Workers,
    MAX_URL_TAGS,  \* 20 in utils/constants.py
    Null

ASSUME LimitAssumption == MAX_URL_TAGS \in Nat
ASSUME NullAssumption == Null \notin Urls \union Names
ASSUME NamesAssumption == IsFiniteSet(Names)   \* strings of bounded length

VARIABLES
    exists,    \* the row of Utubs is there
    locked,    \* Utubs.is_locked
    catalog,   \* rows of Urls
    url,       \* UtubUrls.url_id, Null where there is no row
    tag,       \* UtubTags.tag_string, Null where there is no row
    applied,   \* rows <<URL, tag, copy>> of UtubUrlTags
    request    \* what each worker has read and not yet committed

contents == <<url, tag, applied>>
vars     == <<exists, locked, catalog, contents, request>>

-----------------------------------------------------------------------------
Saved      == {r \in UrlRows : url[r] # Null}
Vocabulary == {t \in TagRows : tag[t] # Null}
TagsOn(r)  == {t \in TagRows : \E n \in Copies : <<r, t, n>> \in applied}
RowsOn(r)  == {x \in applied : x[1] = r}
RowsOf(t)  == {x \in applied : x[2] = t}

Idle == [op |-> "idle"]

Request ==
    {Idle}
    \union [op : {"save"}, url : Urls, names : SUBSET Names]
    \union [op : {"move"}, row : UrlRows, url : Urls]
    \union [op : {"drop"}, row : UrlRows, counts : SUBSET (TagRows \X Int)]
    \union [op : {"purge"}, row : UrlRows]
    \union [op : {"apply"}, row : UrlRows, tag : TagRows]
    \union [op : {"batch"}, row : UrlRows, names : SUBSET Names, present : SUBSET TagRows]
    \union [op : {"coin"}, name : Names]
    \union [op : {"untag"}, row : UrlRows, tag : TagRows, copy : Copies]
    \union [op : {"retire"}, tag : TagRows]

\* Keys come from a sequence: a key is free when no row has it and no
\* request remembers it.
NamesRow(q, r) == q.op \in {"move", "drop", "purge", "apply", "batch", "untag"} /\ q.row = r
NamesTag(q, t) == \/ q.op \in {"apply", "untag", "retire"} /\ q.tag = t
                  \/ q.op = "batch" /\ t \in q.present
                  \/ q.op = "drop" /\ \E c \in q.counts : c[1] = t
FreeRow(r) == r \notin Saved /\ \A w \in Workers : ~NamesRow(request[w], r)
FreeTag(t) == t \notin Vocabulary /\ \A w \in Workers : ~NamesTag(request[w], t)
FreeCopy(r, t, n) ==
    /\ <<r, t, n>> \notin applied
    /\ \A w \in Workers : request[w] # [op |-> "untag", row |-> r, tag |-> t, copy |-> n]

-----------------------------------------------------------------------------
Init ==
    /\ exists = TRUE /\ locked = FALSE
    /\ catalog \in SUBSET Urls
    /\ url = [r \in UrlRows |-> Null]
    /\ tag = [t \in TagRows |-> Null]
    /\ applied = {}
    /\ request = [w \in Workers |-> Idle]

Begin(w, q) == request[w] = Idle /\ request' = [request EXCEPT ![w] = q]
Finish(w)   == request' = [request EXCEPT ![w] = Idle] /\ UNCHANGED <<locked, catalog>>

\* A member's request passes reject_if_utub_locked and writes nothing yet.
Open == exists /\ ~locked
Read(w, q) == Open /\ Begin(w, q) /\ UNCHANGED <<exists, locked, catalog, contents>>

\* A commit touches Utubs.last_updated, which must still be there.
Commits(w, op) == request[w].op = op /\ exists /\ Finish(w) /\ UNCHANGED exists

\* The rows of a set of names: a name of the vocabulary keeps its row, any
\* other name gets a new one.
RowFor(f, S) ==
    /\ \A s \in S : tag[f[s]] = s \/ (FreeTag(f[s]) /\ \A t \in TagRows : tag[t] # s)
    /\ \A s, x \in S : f[s] = f[x] => s = x

TagsAfter(f, S) == [t \in TagRows |-> IF \E s \in S : f[s] = t
                                      THEN CHOOSE s \in S : f[s] = t ELSE tag[t]]

\* A new row of UtubUrlTags for URL r and each tag in S.
Applies(r, S) == \E copy \in [S -> Copies] :
                    /\ \A t \in S : FreeCopy(r, t, copy[t])
                    /\ applied' = applied \union {<<r, t, copy[t]>> : t \in S}

-----------------------------------------------------------------------------
(* validate_new_url_for_utub: a URL new to the catalog is inserted at once *)
(* and not looked for in the UTub; a known one must not be in the UTub.    *)
FindUrl(a) ==
    \/ a \notin catalog /\ catalog' = catalog \union {a}
    \/ a \in catalog /\ (\A r \in Saved : url[r] # a) /\ UNCHANGED catalog

SaveRead(w, a, S) ==
    /\ Open
    /\ FindUrl(a)
    /\ Cardinality(S) <= MAX_URL_TAGS
    /\ Begin(w, [op |-> "save", url |-> a, names |-> S])
    /\ UNCHANGED <<exists, locked, contents>>

\* The URL and its tags, in one transaction.
SaveCommitTwice(w) ==                   \* mutant: UtubUrls is not unique
    /\ Commits(w, "save")
    /\ LET q == request[w] IN
         \E r \in UrlRows, f \in [q.names -> TagRows] :
            /\ FreeRow(r) /\ RowFor(f, q.names)
            /\ url' = [url EXCEPT ![r] = q.url]
            /\ tag' = TagsAfter(f, q.names)
            /\ Applies(r, {f[s] : s \in q.names})

SaveCommit(w) ==
    /\ Commits(w, "save")
    /\ LET q == request[w] IN
         \E r \in UrlRows, f \in [q.names -> TagRows] :
            /\ FreeRow(r) /\ RowFor(f, q.names)
            /\ \A x \in Saved : url[x] # q.url
            /\ url' = [url EXCEPT ![r] = q.url]
            /\ tag' = TagsAfter(f, q.names)
            /\ Applies(r, {f[s] : s \in q.names})

(* update_url_in_utub: the row points at another URL.                      *)
MoveRead(w, r, a) ==
    /\ Open /\ r \in Saved /\ url[r] # a
    /\ FindUrl(a)
    /\ Begin(w, [op |-> "move", row |-> r, url |-> a])
    /\ UNCHANGED <<exists, locked, contents>>

MoveCommit(w) ==
    /\ Commits(w, "move")
    /\ request[w].row \in Saved
    /\ \A x \in Saved \ {request[w].row} : url[x] # request[w].url
    /\ url' = [url EXCEPT ![request[w].row] = request[w].url]
    /\ UNCHANGED <<tag, applied>>

(* delete_url_in_utub, which reports how often each tag of the URL is      *)
(* still applied: the query subtracts one, and so does its caller.         *)
DropRead(w, r) ==
    /\ r \in Saved
    /\ Read(w, [op |-> "drop", row |-> r,
                counts |-> {<<t, (Cardinality(RowsOf(t)) - 1) - 1>> : t \in TagsOn(r)}])

\* The row of a URL goes, and with it the tags on it, whenever they came.
Drop(r) ==
    /\ url' = [url EXCEPT ![r] = Null]
    /\ applied' = applied \ RowsOn(r)
    /\ UNCHANGED tag

DropCommit(w) == Commits(w, "drop") /\ Drop(request[w].row)

(* add_tag_to_url_if_valid: one tag.  The limit is counted, a new tag is   *)
(* committed to the vocabulary, the URL is searched for the tag.           *)
ApplyRead(w, r, s) ==
    /\ Open /\ r \in Saved
    /\ Cardinality(RowsOn(r)) < MAX_URL_TAGS
    /\ \E t \in TagRows :
          /\ RowFor([x \in {s} |-> t], {s})
          /\ tag' = [tag EXCEPT ![t] = s]
          /\ t \notin TagsOn(r)
          /\ Begin(w, [op |-> "apply", row |-> r, tag |-> t])
    /\ UNCHANGED <<exists, locked, catalog, url, applied>>

ApplyCommitUnchecked(w) ==              \* mutant: no foreign key to UtubTags
    /\ Commits(w, "apply")
    /\ request[w].row \in Saved
    /\ Applies(request[w].row, {request[w].tag})
    /\ UNCHANGED <<url, tag>>

ApplyCommit(w) ==
    /\ Commits(w, "apply")
    /\ request[w].row \in Saved /\ request[w].tag \in Vocabulary
    /\ Applies(request[w].row, {request[w].tag})
    /\ UNCHANGED <<url, tag>>

(* add_batch_tags_to_existing_url: the limit is checked against the tags   *)
(* the batch will add; those already present are skipped.                  *)
NetNew(r, S) == {s \in S : \A t \in TagsOn(r) : tag[t] # s}

BatchReadOfAny(w, r, S) ==              \* mutant: only the batch is counted
    /\ r \in Saved
    /\ Cardinality(S) <= MAX_URL_TAGS
    /\ Read(w, [op |-> "batch", row |-> r, names |-> S, present |-> TagsOn(r)])

BatchRead(w, r, S) ==
    /\ r \in Saved
    /\ Cardinality(TagsOn(r)) + Cardinality(NetNew(r, S)) <= MAX_URL_TAGS
    /\ Read(w, [op |-> "batch", row |-> r, names |-> S, present |-> TagsOn(r)])

BatchCommitFirst(w) ==                  \* mutant: a commit after each tag
    /\ Commits(w, "batch")
    /\ request[w].row \in Saved
    /\ LET q == request[w] IN
         \E s \in q.names : \E f \in [{s} -> TagRows] :
            /\ RowFor(f, {s})
            /\ tag' = TagsAfter(f, {s})
            /\ Applies(q.row, {f[s]} \ q.present)
    /\ UNCHANGED url

BatchCommit(w) ==
    /\ Commits(w, "batch")
    /\ request[w].row \in Saved
    /\ LET q == request[w] IN
         \E f \in [q.names -> TagRows] :
            /\ RowFor(f, q.names)
            /\ tag' = TagsAfter(f, q.names)
            /\ Applies(q.row, {f[s] : s \in q.names} \ q.present)
    /\ UNCHANGED url

(* create_tag_in_utub: a tag for the vocabulary, on no URL.                *)
CoinRead(w, s) ==
    /\ \A t \in TagRows : tag[t] # s
    /\ Read(w, [op |-> "coin", name |-> s])

CoinCommit(w) ==
    /\ Commits(w, "coin")
    /\ \E f \in [{request[w].name} -> TagRows] :
          /\ \A t \in TagRows : tag[t] # request[w].name
          /\ RowFor(f, {request[w].name})
          /\ tag' = TagsAfter(f, {request[w].name})
    /\ UNCHANGED <<url, applied>>

(* delete_url_tag: one row of UtubUrlTags, if it is still there.           *)
UntagRead(w, r, t) ==
    \E n \in Copies :
        /\ <<r, t, n>> \in applied
        /\ Read(w, [op |-> "untag", row |-> r, tag |-> t, copy |-> n])

UntagCommit(w) ==
    /\ Commits(w, "untag")
    /\ LET q == request[w] IN applied' = applied \ {<<q.row, q.tag, q.copy>>}
    /\ UNCHANGED <<url, tag>>

(* delete_utub_tag_from_utub_and_utub_urls: the tag and its applications.  *)
RetireRead(w, t) ==
    /\ t \in Vocabulary
    /\ Read(w, [op |-> "retire", tag |-> t])

RetireKeepingApplications(t) ==         \* mutant: no ON DELETE CASCADE
    /\ tag' = [tag EXCEPT ![t] = Null]
    /\ UNCHANGED <<url, applied>>

Retire(t) ==
    /\ tag' = [tag EXCEPT ![t] = Null]
    /\ applied' = applied \ RowsOf(t)
    /\ UNCHANGED url

RetireCommit(w) == Commits(w, "retire") /\ Retire(request[w].tag)

-----------------------------------------------------------------------------
(* The admin dashboard, which no lock stops.  Deleting a given row is one  *)
(* step: what it read of the row does not matter to its commit.            *)
Admin == exists /\ UNCHANGED <<exists, locked, catalog, request>>

AdminDrop(r)   == Admin /\ r \in Saved /\ Drop(r)
AdminRetire(t) == Admin /\ t \in Vocabulary /\ Retire(t)

\* purge_url_globally looks for the rows of a URL and deletes these rows,
\* whatever URL they point at by then.
PurgeRead(w, r) ==
    /\ exists /\ r \in Saved
    /\ Begin(w, [op |-> "purge", row |-> r])
    /\ UNCHANGED <<exists, locked, catalog, contents>>

PurgeCommit(w) == Commits(w, "purge") /\ Drop(request[w].row)

Lock ==
    /\ exists /\ ~locked
    /\ locked' = TRUE
    /\ UNCHANGED <<exists, catalog, contents, request>>

Unlock ==
    /\ locked
    /\ locked' = FALSE
    /\ UNCHANGED <<exists, catalog, contents, request>>

(* The commit of a deletion of the UTub (UtubMembership!RemoveCommit): the *)
(* database deletes all it holds.                                          *)
DeleteUtub ==
    /\ exists
    /\ exists' = FALSE /\ locked' = FALSE
    /\ url' = [r \in UrlRows |-> Null]
    /\ tag' = [t \in TagRows |-> Null]
    /\ applied' = {}
    /\ UNCHANGED <<catalog, request>>

(* Another UTub brings a URL into the catalog.                             *)
Catalogue(a) ==
    /\ a \notin catalog
    /\ catalog' = catalog \union {a}
    /\ UNCHANGED <<exists, locked, contents, request>>

(* A request is rolled back.                                               *)
Fail(w) ==
    /\ request[w] # Idle
    /\ Finish(w)
    /\ UNCHANGED <<exists, contents>>

-----------------------------------------------------------------------------
Arrive(w) ==
    \/ \E a \in Urls, S \in SUBSET Names : SaveRead(w, a, S)
    \/ \E r \in UrlRows, a \in Urls : MoveRead(w, r, a)
    \/ \E r \in UrlRows : DropRead(w, r) \/ PurgeRead(w, r)
    \/ \E r \in UrlRows, s \in Names : ApplyRead(w, r, s)
    \/ \E r \in UrlRows, S \in SUBSET Names \ {{}} : BatchRead(w, r, S)
    \/ \E s \in Names : CoinRead(w, s)
    \/ \E r \in UrlRows, t \in TagRows : UntagRead(w, r, t)
    \/ \E t \in TagRows : RetireRead(w, t)

Complete(w) ==
    \/ SaveCommit(w)  \/ MoveCommit(w)  \/ DropCommit(w) \/ PurgeCommit(w)
    \/ ApplyCommit(w) \/ BatchCommit(w) \/ CoinCommit(w)
    \/ UntagCommit(w) \/ RetireCommit(w) \/ Fail(w)

AtOnce ==
    \/ \E r \in UrlRows : AdminDrop(r)
    \/ \E t \in TagRows : AdminRetire(t)
    \/ \E a \in Urls : Catalogue(a)
    \/ Lock \/ Unlock \/ DeleteUtub

Next == AtOnce \/ \E w \in Workers : Arrive(w) \/ Complete(w)

Spec == Init /\ [][Next]_vars

\* The same requests, one at a time.
Quiet == \A w \in Workers : request[w] = Idle

SerialNext == \/ Quiet /\ (AtOnce \/ \E w \in Workers : Arrive(w))
              \/ \E w \in Workers : Complete(w)

SerialSpec == Init /\ [][SerialNext]_vars

-----------------------------------------------------------------------------
(* Properties                                                              *)

TypeOK ==
    /\ exists \in BOOLEAN /\ locked \in BOOLEAN /\ (locked => exists)
    /\ catalog \subseteq Urls
    /\ url \in [UrlRows -> Urls \union {Null}]
    /\ tag \in [TagRows -> Names \union {Null}]
    /\ applied \subseteq UrlRows \X TagRows \X Copies
    /\ request \in [Workers -> Request]

\* A tag is applied only to a URL of the UTub, and only a tag of its
\* vocabulary is, whoever deletes the one or the other in the meantime
\* (utub_url_tags.py:29-46, delete_urls.py:45-52, delete_utub_tag.py:43-46);
\* a UTub that is gone holds neither.
AppliedExists ==
    /\ \A x \in applied : x[1] \in Saved /\ x[2] \in Vocabulary
    /\ ~exists => Saved = {} /\ Vocabulary = {}

\* A URL is in the UTub once and a tag in its vocabulary once, although a
\* URL new to the catalog is not looked for in the UTub (create_urls.py:
\* 143-156, create_utub_tag.py:38-44); what the UTub holds is catalogued.
EachOnce ==
    /\ \A r, x \in Saved : url[r] = url[x] => r = x
    /\ \A t, x \in Vocabulary : tag[t] = tag[x] => t = x
    /\ \A r \in Saved : url[r] \in catalog

\* The rows fit together, whatever requests overlap.
RowsFit == TypeOK /\ AppliedExists /\ EachOnce

\* A batch of tags is applied as a whole or not at all: once it has changed
\* anything, each of its tags is on the URL, but those it found there when
\* it read ("either every net-new tag is applied or none are",
\* create_url_tag.py:197-199).
BatchIsAtomic ==
    [][\A w \in Workers, r \in UrlRows :
          /\ request[w].op = "batch" /\ request[w].row = r
          /\ request'[w] = Idle /\ contents' # contents
          => \A s \in request[w].names : \E t \in TagRows :
                tag'[t] = s /\ (t \in request[w].present \/ t \in TagsOn(r)')]_vars

\* No URL has more tags than the limit, nor one tag twice (README.md:11; a tag
\* is added if the limit allows and "the URL does not have the tag already on
\* it", create_url_tag.py:51), by one tag or by a batch.
WithinTagLimit ==
    /\ \A r \in UrlRows : Cardinality(RowsOn(r)) <= MAX_URL_TAGS
    /\ \A x, y \in applied : x[1] = y[1] /\ x[2] = y[2] => x = y

\* A deletion of a URL reports, for each tag that was on it, how often the
\* tag is applied after it ("Map of tag ID to new applied count after
\* deletion", schemas/urls.py:122-125).
DropReportsCounts ==
    [][\A w \in Workers :
          request[w].op = "drop" /\ request'[w] = Idle /\ request[w].row \notin Saved' =>
             \A c \in request[w].counts : c[2] = Cardinality(RowsOf(c[1])')]_vars

\* A UTub of Bookmarks is a set of URLs, each with the names of its tags.
Promise == INSTANCE Bookmarks WITH
    limit <- MAX_URL_TAGS,
    known <- {tag[t] : t \in Vocabulary},
    tags  <- [a \in {url[r] : r \in Saved} |->
                {tag[t] : t \in UNION {TagsOn(r) : r \in {x \in Saved : url[x] = a}}}]

\* Served one at a time, the requests keep every promise of Bookmarks.
KeepsPromise == Promise!Spec
=============================================================================
