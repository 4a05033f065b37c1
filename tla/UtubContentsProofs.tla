------------------------- MODULE UtubContentsProofs -------------------------
(***************************************************************************)
(* Theorems about UtubContents, for any sets of URLs, rows and workers and *)
(* any finite set of names.                                                *)
(*                                                                         *)
(* The inductive invariant of Spec is IInv: RowsFit, Catalogued (a URL     *)
(* that a request is about to save is in the catalog, which never          *)
(* shrinks), and that finitely many tags are applied, without which the    *)
(* counts a deletion reports would not be numbers.                         *)
(* That of SerialSpec is SInv, from which the requests keep the promise of *)
(* Bookmarks.                                                              *)
(***************************************************************************)
EXTENDS UtubContents, FiniteSetTheorems, FunctionTheorems, TLAPS

Catalogued == \A w \in Workers :
                 request[w].op \in {"save", "move"} => request[w].url \in catalog

IInv == RowsFit /\ Catalogued /\ IsFiniteSet(applied)

-----------------------------------------------------------------------------
\* What a worker carries is of the shape its operation says.
LEMMA CarriedShape ==
  ASSUME TypeOK, NEW w \in Workers
  PROVE  LET q == request[w] IN
         /\ q.op = "save" => q.url \in Urls /\ q.names \in SUBSET Names
         /\ q.op = "move" => q.row \in UrlRows /\ q.url \in Urls
         /\ q.op \in {"drop", "purge"} => q.row \in UrlRows
         /\ q.op = "apply" => q.row \in UrlRows /\ q.tag \in TagRows
         /\ q.op = "batch" => /\ q.row \in UrlRows /\ q.names \in SUBSET Names
                              /\ q.present \in SUBSET TagRows
         /\ q.op = "coin" => q.name \in Names
         /\ q.op = "untag" => q.row \in UrlRows /\ q.tag \in TagRows /\ q.copy \in Copies
         /\ q.op = "retire" => q.tag \in TagRows
         /\ q = Idle <=> q.op = "idle"
BY DEF TypeOK, Request, Idle

\* The tags after names have got their rows: of their type, each name in the
\* row chosen for it, the other rows as they were.
LEMMA TagsAfterShape ==
  ASSUME TypeOK, NEW S \in SUBSET Names, NEW f \in [S -> TagRows], RowFor(f, S)
  PROVE  /\ TagsAfter(f, S) \in [TagRows -> Names \union {Null}]
         /\ \A s \in S : TagsAfter(f, S)[f[s]] = s
         /\ \A t \in TagRows : (\A s \in S : f[s] # t) => TagsAfter(f, S)[t] = tag[t]
         /\ \A t \in TagRows : tag[t] # Null => TagsAfter(f, S)[t] = tag[t]
<1> DEFINE after == TagsAfter(f, S)
<1>1. after = [t \in TagRows |-> IF \E s \in S : f[s] = t
                                 THEN CHOOSE s \in S : f[s] = t ELSE tag[t]]
  BY DEF TagsAfter
<1>2. \A s, x \in S : f[s] = f[x] => s = x
  BY DEF RowFor
<1>3. ASSUME NEW s \in S PROVE after[f[s]] = s
  <2>1. f[s] \in TagRows
    OBVIOUS
  <2>2. (CHOOSE x \in S : f[x] = f[s]) = s
    BY <1>2
  <2>3. QED BY <1>1, <2>1, <2>2
<1>4. ASSUME NEW t \in TagRows, \A s \in S : f[s] # t PROVE after[t] = tag[t]
  BY <1>1, <1>4
<1>5. ASSUME NEW t \in TagRows PROVE after[t] \in Names \union {Null}
  <2>1. CASE \E s \in S : f[s] = t
    BY <1>3, <2>1
  <2>2. CASE \A s \in S : f[s] # t
    BY <1>4, <2>2 DEF TypeOK
  <2>3. QED BY <2>1, <2>2
<1>6. ASSUME NEW t \in TagRows, tag[t] # Null PROVE after[t] = tag[t]
  <2>1. ASSUME NEW s \in S, f[s] = t PROVE tag[t] = s
    BY <1>6, <2>1 DEF RowFor, FreeTag, Vocabulary
  <2>2. QED BY <1>3, <1>4, <2>1
<1>7. after \in [TagRows -> Names \union {Null}]
  BY <1>1, <1>5
<1>8. QED BY <1>3, <1>4, <1>6, <1>7

\* A vocabulary without repetitions stays so, and loses no tag.
LEMMA TagsAfterOnce ==
  ASSUME TypeOK, NEW S \in SUBSET Names, NEW f \in [S -> TagRows], RowFor(f, S),
         \A t, x \in Vocabulary : tag[t] = tag[x] => t = x,
         tag' = TagsAfter(f, S)
  PROVE  /\ tag' \in [TagRows -> Names \union {Null}]
         /\ Vocabulary \subseteq Vocabulary'
         /\ \A s \in S : f[s] \in Vocabulary'
         /\ \A t, x \in Vocabulary' : tag'[t] = tag'[x] => t = x
<1>1. /\ tag' \in [TagRows -> Names \union {Null}]
      /\ \A s \in S : tag'[f[s]] = s
      /\ \A t \in TagRows : (\A s \in S : f[s] # t) => tag'[t] = tag[t]
      /\ \A t \in TagRows : tag[t] # Null => tag'[t] = tag[t]
  BY TagsAfterShape
<1>2. Vocabulary \subseteq Vocabulary'
  BY <1>1 DEF Vocabulary
<1>3. \A s \in S : f[s] \in Vocabulary'
  BY <1>1, NullAssumption DEF Vocabulary
<1>4. ASSUME NEW t \in Vocabulary', NEW x \in Vocabulary', tag'[t] = tag'[x]
      PROVE  t = x
  <2>1. t \in TagRows /\ x \in TagRows /\ tag'[t] # Null /\ tag'[x] # Null
    BY <1>4 DEF Vocabulary
  <2>2. ASSUME NEW s \in S, NEW y \in TagRows, tag'[y] = s PROVE y = f[s]
    <3>1. CASE \E z \in S : f[z] = y
      BY <1>1, <2>2, <3>1
    <3>2. CASE \A z \in S : f[z] # y
      <4>1. tag[y] = s /\ y \in Vocabulary
        BY <1>1, <2>2, <3>2, NullAssumption DEF Vocabulary
      <4>2. tag[f[s]] = s /\ f[s] \in Vocabulary
        BY <4>1, NullAssumption DEF RowFor, Vocabulary
      <4>3. QED BY <4>1, <4>2
    <3>3. QED BY <3>1, <3>2
  <2>3. CASE \E s \in S : f[s] = t
    BY <1>1, <1>4, <2>1, <2>2, <2>3
  <2>4. CASE \E s \in S : f[s] = x
    BY <1>1, <1>4, <2>1, <2>2, <2>4
  <2>5. CASE \A s \in S : f[s] # t /\ f[s] # x
    <3>1. tag[t] = tag'[t] /\ tag[x] = tag'[x]
      BY <1>1, <2>1, <2>5
    <3>2. QED BY <1>4, <2>1, <3>1 DEF Vocabulary
  <2>6. QED BY <2>3, <2>4, <2>5
<1>5. QED BY <1>1, <1>2, <1>3, <1>4

\* New applications are of their URL and tags, and finitely many.
LEMMA AppliesShape ==
  ASSUME TypeOK, IsFiniteSet(applied), NEW r \in UrlRows, NEW S \in SUBSET TagRows,
         IsFiniteSet(S), Applies(r, S)
  PROVE  /\ applied \subseteq applied'
         /\ applied' \subseteq UrlRows \X TagRows \X Copies
         /\ \A x \in applied' \ applied : x[1] = r /\ x[2] \in S
         /\ \A t \in S : t \in TagsOn(r)'
         /\ IsFiniteSet(applied')
<1>1. PICK copy \in [S -> Copies] :
         applied' = applied \union {<<r, t, copy[t]>> : t \in S}
  BY DEF Applies
<1> DEFINE New == {<<r, t, copy[t]>> : t \in S}
<1>2. IsFiniteSet(New)
  <2> DEFINE row == [t \in S |-> <<r, t, copy[t]>>]
  <2>1. row \in Surjection(S, New)
    BY Fun_IsSurj
  <2>2. QED BY <2>1, FS_Surjection
<1>3. IsFiniteSet(applied')
  BY <1>1, <1>2, FS_Union
<1>4. \A x \in New : /\ x \in UrlRows \X TagRows \X Copies
                     /\ x[1] = r /\ x[2] \in S
  OBVIOUS
<1>5. \A t \in S : t \in TagRows /\ copy[t] \in Copies /\ <<r, t, copy[t]>> \in applied'
  BY <1>1
<1>6. \A t \in S : t \in TagsOn(r)'
  BY <1>5 DEF TagsOn
<1>7. QED BY <1>1, <1>3, <1>4, <1>6 DEF TypeOK

\* A set of names in their rows is a finite set of tags.
LEMMA RowsOfNames ==
  ASSUME NEW S \in SUBSET Names, NEW f \in [S -> TagRows], NEW P
  PROVE  {f[s] : s \in S} \ P \in SUBSET TagRows /\ IsFiniteSet({f[s] : s \in S} \ P)
<1>1. IsFiniteSet(S)
  BY NamesAssumption, FS_Subset
<1>2. f \in Surjection(S, {f[s] : s \in S})
  BY Fun_IsSurj
<1>3. IsFiniteSet({f[s] : s \in S})
  BY <1>1, <1>2, FS_Surjection
<1>4. QED BY <1>3, FS_Difference

-----------------------------------------------------------------------------
LEMMA InitIInv == Init => IInv
<1> SUFFICES ASSUME Init PROVE IInv
  OBVIOUS
<1>1. TypeOK
  BY DEF Init, TypeOK, Request
<1>2. AppliedExists /\ EachOnce
  BY DEF Init, AppliedExists, EachOnce, Saved, Vocabulary
<1>3. Catalogued /\ IsFiniteSet(applied)
  BY FS_EmptySet DEF Init, Catalogued, Idle
<1>4. QED BY <1>1, <1>2, <1>3 DEF IInv, RowsFit

-----------------------------------------------------------------------------
(* The rows of the UTub: of their types, finitely many, and fitting.       *)
Rows == /\ url \in [UrlRows -> Urls \union {Null}]
        /\ tag \in [TagRows -> Names \union {Null}]
        /\ applied \subseteq UrlRows \X TagRows \X Copies
        /\ IsFiniteSet(applied)
        /\ AppliedExists
        /\ EachOnce

\* The conditions on the rest of the state.
Rest == /\ exists \in BOOLEAN /\ locked \in BOOLEAN /\ (locked => exists)
        /\ catalog \subseteq Urls
        /\ request \in [Workers -> Request]
        /\ Catalogued

LEMMA Parts == IInv <=> Rows /\ Rest
BY DEF IInv, RowsFit, TypeOK, Rows, Rest

LEMMA RowsKept ==
  ASSUME Rows, UNCHANGED <<exists, contents>>, catalog \subseteq catalog'
  PROVE  Rows'
BY DEF Rows, contents, AppliedExists, EachOnce, Saved, Vocabulary

\* A new URL row for a URL of the catalog that no row has.
LEMMA UrlSet ==
  ASSUME Rows, NEW r \in UrlRows, NEW a \in Urls, a \in catalog,
         \A x \in Saved \ {r} : url[x] # a,
         url' = [url EXCEPT ![r] = a], catalog' = catalog
  PROVE  /\ url' \in [UrlRows -> Urls \union {Null}]
         /\ Saved' = Saved \union {r}
         /\ \A x, y \in Saved' : url'[x] = url'[y] => x = y
         /\ \A x \in Saved' : url'[x] \in catalog'
<1>1. a # Null
  BY NullAssumption
<1>2. Saved' = Saved \union {r}
  BY <1>1 DEF Saved, Rows
<1>3. \A x \in UrlRows : url'[x] = IF x = r THEN a ELSE url[x]
  BY DEF Rows
<1>4. QED BY <1>2, <1>3 DEF Rows, EachOnce, Saved

LEMMA SaveFits ==
  ASSUME IInv, NEW w \in Workers, SaveCommit(w)
  PROVE  Rows'
<1>0. Rows /\ TypeOK /\ Catalogued
  BY Parts DEF IInv, RowsFit
<1> DEFINE q == request[w]
<1>1. /\ q.op = "save" /\ exists /\ exists' = exists /\ catalog' = catalog
      /\ q.url \in Urls /\ q.url \in catalog /\ q.names \in SUBSET Names
  BY <1>0, CarriedShape DEF SaveCommit, Commits, Finish, Catalogued
<1>2. PICK r \in UrlRows, f \in [q.names -> TagRows] :
         /\ RowFor(f, q.names)
         /\ \A x \in Saved : url[x] # q.url
         /\ url' = [url EXCEPT ![r] = q.url]
         /\ tag' = TagsAfter(f, q.names)
         /\ Applies(r, {f[s] : s \in q.names})
  BY DEF SaveCommit
<1> HIDE DEF q
<1> DEFINE S == {f[s] : s \in q.names}
<1>3. /\ url' \in [UrlRows -> Urls \union {Null}]
      /\ Saved' = Saved \union {r}
      /\ \A x, y \in Saved' : url'[x] = url'[y] => x = y
      /\ \A x \in Saved' : url'[x] \in catalog'
  BY <1>0, <1>1, <1>2, UrlSet
<1>4. /\ tag' \in [TagRows -> Names \union {Null}]
      /\ Vocabulary \subseteq Vocabulary'
      /\ \A s \in q.names : f[s] \in Vocabulary'
      /\ \A t, x \in Vocabulary' : tag'[t] = tag'[x] => t = x
  BY <1>0, <1>1, <1>2, TagsAfterOnce DEF Rows, EachOnce
<1>5. S \in SUBSET TagRows /\ IsFiniteSet(S)
  <2>1. S \ {} = S
    OBVIOUS
  <2>2. QED BY <1>1, <2>1, RowsOfNames
<1>6. /\ applied' \subseteq UrlRows \X TagRows \X Copies
      /\ \A x \in applied' \ applied : x[1] = r /\ x[2] \in S
      /\ IsFiniteSet(applied')
  <2> HIDE DEF S
  <2>1. Applies(r, S)
    BY <1>2 DEF S
  <2>2. QED BY <1>0, <1>5, <2>1, AppliesShape DEF Rows
<1>7. AppliedExists'
  BY <1>0, <1>1, <1>3, <1>4, <1>6 DEF AppliedExists, Rows
<1>8. EachOnce'
  BY <1>3, <1>4 DEF EachOnce
<1>9. QED BY <1>3, <1>4, <1>6, <1>7, <1>8 DEF Rows

LEMMA MoveFits ==
  ASSUME IInv, NEW w \in Workers, MoveCommit(w)
  PROVE  Rows'
<1>0. Rows /\ TypeOK /\ Catalogued
  BY Parts DEF IInv, RowsFit
<1> DEFINE r == request[w].row
           a == request[w].url
<1>1. /\ r \in UrlRows /\ r \in Saved /\ a \in Urls /\ a \in catalog
      /\ exists' = exists /\ catalog' = catalog
      /\ \A x \in Saved \ {r} : url[x] # a
      /\ url' = [url EXCEPT ![r] = a]
      /\ tag' = tag /\ applied' = applied /\ exists
  BY <1>0, CarriedShape DEF MoveCommit, Commits, Finish, Catalogued
<1> HIDE DEF r, a
<1>2. /\ url' \in [UrlRows -> Urls \union {Null}]
      /\ Saved' = Saved \union {r}
      /\ \A x, y \in Saved' : url'[x] = url'[y] => x = y
      /\ \A x \in Saved' : url'[x] \in catalog'
  BY <1>0, <1>1, UrlSet
<1>3. Vocabulary' = Vocabulary
  BY <1>1 DEF Vocabulary
<1>4. QED BY <1>0, <1>1, <1>2, <1>3 DEF Rows, AppliedExists, EachOnce

LEMMA DropFits ==
  ASSUME Rows, NEW r \in UrlRows, Drop(r), UNCHANGED <<exists, catalog>>
  PROVE  Rows'
<1>1. \A x \in UrlRows : url'[x] = IF x = r THEN Null ELSE url[x]
  BY DEF Drop, Rows
<1>2. Saved' = Saved \ {r} /\ Vocabulary' = Vocabulary
  BY <1>1 DEF Saved, Vocabulary, Drop
<1>3. applied' = applied \ RowsOn(r) /\ tag' = tag
  BY DEF Drop
<1>4. url' \in [UrlRows -> Urls \union {Null}]
  BY DEF Drop, Rows
<1>5. IsFiniteSet(applied')
  BY <1>3, FS_Difference DEF Rows
<1>6. AppliedExists'
  BY <1>2, <1>3 DEF Rows, AppliedExists, RowsOn
<1>7. EachOnce'
  BY <1>1, <1>2, <1>3 DEF Rows, EachOnce, Saved
<1>8. QED BY <1>3, <1>4, <1>5, <1>6, <1>7 DEF Rows

LEMMA RetireFits ==
  ASSUME Rows, NEW t \in TagRows, Retire(t), UNCHANGED <<exists, catalog>>
  PROVE  Rows'
<1>1. \A x \in TagRows : tag'[x] = IF x = t THEN Null ELSE tag[x]
  BY DEF Retire, Rows
<1>2. Saved' = Saved /\ Vocabulary' = Vocabulary \ {t}
  BY <1>1 DEF Saved, Vocabulary, Retire
<1>3. applied' = applied \ RowsOf(t) /\ url' = url
  BY DEF Retire
<1>4. tag' \in [TagRows -> Names \union {Null}]
  BY DEF Retire, Rows
<1>5. IsFiniteSet(applied')
  BY <1>3, FS_Difference DEF Rows
<1>6. AppliedExists'
  BY <1>2, <1>3 DEF Rows, AppliedExists, RowsOf
<1>7. EachOnce'
  BY <1>1, <1>2, <1>3 DEF Rows, EachOnce, Vocabulary
<1>8. QED BY <1>3, <1>4, <1>5, <1>6, <1>7 DEF Rows

\* New applications of tags of the vocabulary to a saved URL.
LEMMA AppliesFits ==
  ASSUME TypeOK, Rows, exists, UNCHANGED <<exists, catalog, url>>,
         tag' \in [TagRows -> Names \union {Null}], Vocabulary \subseteq Vocabulary',
         \A t, x \in Vocabulary' : tag'[t] = tag'[x] => t = x,
         NEW r \in Saved, NEW S \in SUBSET TagRows, IsFiniteSet(S), S \subseteq Vocabulary',
         Applies(r, S)
  PROVE  Rows'
<1>1. r \in UrlRows /\ Saved' = Saved
  BY DEF Saved
<1>2. /\ applied' \subseteq UrlRows \X TagRows \X Copies
      /\ \A x \in applied' \ applied : x[1] = r /\ x[2] \in S
      /\ IsFiniteSet(applied')
  BY <1>1, AppliesShape DEF Rows
<1>3. AppliedExists'
  BY <1>1, <1>2 DEF Rows, AppliedExists
<1>4. EachOnce'
  BY <1>1 DEF Rows, EachOnce
<1>5. QED BY <1>2, <1>3, <1>4 DEF Rows

LEMMA ApplyFits ==
  ASSUME IInv, NEW w \in Workers, ApplyCommit(w)
  PROVE  Rows'
<1>0. Rows /\ TypeOK
  BY Parts DEF IInv, RowsFit
<1> DEFINE t == request[w].tag
<1>1. /\ t \in TagRows /\ t \in Vocabulary /\ request[w].row \in Saved /\ exists
      /\ UNCHANGED <<exists, catalog, url, tag>> /\ Applies(request[w].row, {t})
  BY <1>0, CarriedShape DEF ApplyCommit, Commits, Finish
<1>2. Vocabulary' = Vocabulary /\ IsFiniteSet({t})
  BY <1>1, FS_Singleton DEF Vocabulary
<1> HIDE DEF t
<1>3. /\ tag' \in [TagRows -> Names \union {Null}]
      /\ \A y, x \in Vocabulary' : tag'[y] = tag'[x] => y = x
  BY <1>0, <1>1, <1>2 DEF Rows, EachOnce
<1>4. QED BY <1>0, <1>1, <1>2, <1>3, AppliesFits

LEMMA BatchFits ==
  ASSUME IInv, NEW w \in Workers, BatchCommit(w)
  PROVE  Rows'
<1>0. Rows /\ TypeOK
  BY Parts DEF IInv, RowsFit
<1> DEFINE q == request[w]
<1>1. /\ q.row \in Saved /\ q.names \in SUBSET Names /\ exists
      /\ UNCHANGED <<exists, catalog, url>>
  BY <1>0, CarriedShape DEF BatchCommit, Commits, Finish
<1>2. PICK f \in [q.names -> TagRows] :
         /\ RowFor(f, q.names)
         /\ tag' = TagsAfter(f, q.names)
         /\ Applies(q.row, {f[s] : s \in q.names} \ q.present)
  BY DEF BatchCommit
<1> HIDE DEF q
<1> DEFINE S == {f[s] : s \in q.names} \ q.present
<1>3. /\ tag' \in [TagRows -> Names \union {Null}]
      /\ Vocabulary \subseteq Vocabulary'
      /\ \A s \in q.names : f[s] \in Vocabulary'
      /\ \A t, x \in Vocabulary' : tag'[t] = tag'[x] => t = x
  BY <1>0, <1>1, <1>2, TagsAfterOnce DEF Rows, EachOnce
<1>4. S \in SUBSET TagRows /\ IsFiniteSet(S) /\ S \subseteq Vocabulary'
  <2>1. S \in SUBSET TagRows /\ IsFiniteSet(S)
    BY <1>1, RowsOfNames, Zenon
  <2>2. S \subseteq Vocabulary'
    BY <1>3
  <2>3. QED BY <2>1, <2>2
<1>5. Applies(q.row, S)
  BY <1>2
<1> HIDE DEF S
<1>6. QED BY <1>0, <1>1, <1>3, <1>4, <1>5, AppliesFits

\* A tag that only joins the vocabulary.
LEMMA CoinFits ==
  ASSUME TypeOK, Rows, exists, UNCHANGED <<exists, catalog, url, applied>>,
         NEW s \in Names, NEW f \in [{s} -> TagRows], RowFor(f, {s}),
         tag' = TagsAfter(f, {s})
  PROVE  Rows'
<1>1. /\ tag' \in [TagRows -> Names \union {Null}]
      /\ Vocabulary \subseteq Vocabulary'
      /\ \A t, x \in Vocabulary' : tag'[t] = tag'[x] => t = x
  BY TagsAfterOnce DEF Rows, EachOnce
<1>2. Saved' = Saved
  BY DEF Saved
<1>3. QED BY <1>1, <1>2 DEF Rows, AppliedExists, EachOnce

LEMMA UntagFits ==
  ASSUME Rows, UNCHANGED <<exists, catalog, url, tag>>, NEW x, applied' = applied \ {x}
  PROVE  Rows'
<1>1. IsFiniteSet(applied')
  BY FS_Difference DEF Rows
<1>2. Saved' = Saved /\ Vocabulary' = Vocabulary
  BY DEF Saved, Vocabulary
<1>3. QED BY <1>1, <1>2 DEF Rows, AppliedExists, EachOnce

-----------------------------------------------------------------------------
\* Looking for a URL leaves it in the catalog.
LEMMA FoundUrl ==
  ASSUME NEW a \in Urls, FindUrl(a), catalog \subseteq Urls
  PROVE  a \in catalog' /\ catalog \subseteq catalog' /\ catalog' \subseteq Urls
BY DEF FindUrl

\* A request that begins or ends leaves the rest in order.
LEMMA RestBegins ==
  ASSUME Rest, NEW w \in Workers, NEW q \in Request, Begin(w, q), UNCHANGED <<exists, locked>>,
         catalog \subseteq catalog', catalog' \subseteq Urls,
         q.op \in {"save", "move"} => q.url \in catalog'
  PROVE  Rest'
<1>1. \A x \in Workers : request'[x] = IF x = w THEN q ELSE request[x]
  BY DEF Rest, Begin
<1>2. request' \in [Workers -> Request]
  BY DEF Rest, Begin
<1>3. Catalogued'
  BY <1>1 DEF Rest, Catalogued
<1>4. QED BY <1>2, <1>3 DEF Rest

LEMMA RestEnds ==
  ASSUME Rest, NEW w \in Workers, Finish(w), UNCHANGED exists
  PROVE  Rest'
<1>1. \A x \in Workers : request'[x] = IF x = w THEN Idle ELSE request[x]
  BY DEF Rest, Finish
<1>2. request' \in [Workers -> Request]
  BY DEF Rest, Finish, Request
<1>3. Catalogued'
  BY <1>1 DEF Rest, Catalogued, Finish, Idle
<1>4. QED BY <1>2, <1>3 DEF Rest, Finish

LEMMA RestKept ==
  ASSUME Rest, request' = request, catalog \subseteq catalog', catalog' \subseteq Urls,
         exists' \in BOOLEAN, locked' \in BOOLEAN, locked' => exists'
  PROVE  Rest'
BY DEF Rest, Catalogued

\* The counts that a deletion reports are numbers.
LEMMA CountsAreNumbers ==
  ASSUME Rows, NEW r \in UrlRows
  PROVE  {<<t, (Cardinality(RowsOf(t)) - 1) - 1>> : t \in TagsOn(r)} \in SUBSET (TagRows \X Int)
<1>1. ASSUME NEW t \in TagsOn(r)
      PROVE  t \in TagRows /\ (Cardinality(RowsOf(t)) - 1) - 1 \in Int
  <2>1. RowsOf(t) \in SUBSET applied
    BY DEF RowsOf
  <2>2. Cardinality(RowsOf(t)) \in Nat
    BY <2>1, FS_Subset, FS_CardinalityType DEF Rows
  <2>3. QED BY <2>2 DEF TagsOn
<1>2. QED BY <1>1

LEMMA ArriveStep ==
  ASSUME IInv, NEW w \in Workers, Arrive(w)
  PROVE  Rows' /\ Rest'
<1>0. Rows /\ Rest /\ TypeOK
  BY Parts DEF IInv, RowsFit
<1>1. ASSUME NEW q \in Request, Begin(w, q), q.op \notin {"save", "move"},
             UNCHANGED <<exists, locked, catalog, contents>>
      PROVE  Rows' /\ Rest'
  BY <1>0, <1>1, RowsKept, RestBegins DEF Rest
<1>2. ASSUME NEW a \in Urls, NEW S \in SUBSET Names, SaveRead(w, a, S)
      PROVE  Rows' /\ Rest'
  <2>1. [op |-> "save", url |-> a, names |-> S] \in Request
    BY DEF Request
  <2>2. a \in catalog' /\ catalog \subseteq catalog' /\ catalog' \subseteq Urls
    BY <1>0, <1>2, FoundUrl DEF SaveRead, Rest
  <2>3. QED BY <1>0, <1>2, <2>1, <2>2, RowsKept, RestBegins DEF SaveRead
<1>3. ASSUME NEW r \in UrlRows, NEW a \in Urls, MoveRead(w, r, a)
      PROVE  Rows' /\ Rest'
  <2>1. [op |-> "move", row |-> r, url |-> a] \in Request
    BY DEF Request
  <2>2. a \in catalog' /\ catalog \subseteq catalog' /\ catalog' \subseteq Urls
    BY <1>0, <1>3, FoundUrl DEF MoveRead, Rest
  <2>3. QED BY <1>0, <1>3, <2>1, <2>2, RowsKept, RestBegins DEF MoveRead
<1>4. ASSUME NEW r \in UrlRows, DropRead(w, r) PROVE Rows' /\ Rest'
  <2> DEFINE c == {<<t, (Cardinality(RowsOf(t)) - 1) - 1>> : t \in TagsOn(r)}
             q == [op |-> "drop", row |-> r, counts |-> c]
  <2>1. c \in SUBSET (TagRows \X Int)
    BY <1>0, CountsAreNumbers
  <2> HIDE DEF c
  <2>2. q \in Request
    BY <2>1 DEF Request
  <2>3. Read(w, q)
    BY <1>4 DEF DropRead, c
  <2>4. QED BY <1>1, <2>2, <2>3 DEF Read
<1>5. ASSUME NEW r \in UrlRows, PurgeRead(w, r) PROVE Rows' /\ Rest'
  <2>1. [op |-> "purge", row |-> r] \in Request
    BY DEF Request
  <2>2. QED BY <1>1, <1>5, <2>1 DEF PurgeRead
<1>6. ASSUME NEW r \in UrlRows, NEW s \in Names, ApplyRead(w, r, s)
      PROVE  Rows' /\ Rest'
  <2>1. PICK t \in TagRows :
           /\ RowFor([x \in {s} |-> t], {s})
           /\ tag' = [tag EXCEPT ![t] = s]
           /\ Begin(w, [op |-> "apply", row |-> r, tag |-> t])
    BY <1>6 DEF ApplyRead
  <2> DEFINE f == [x \in {s} |-> t]
  <2>2. f \in [{s} -> TagRows] /\ f[s] = t
    OBVIOUS
  <2>3. tag' = TagsAfter(f, {s})
    <3>1. \A x \in TagRows : (\E y \in {s} : f[y] = x) <=> x = t
      BY <2>2
    <3>2. (CHOOSE y \in {s} : f[y] = t) = s
      BY <2>2
    <3>3. \A x \in TagRows : (IF \E y \in {s} : f[y] = x THEN CHOOSE y \in {s} : f[y] = x
                              ELSE tag[x]) = (IF x = t THEN s ELSE tag[x])
      BY <3>1, <3>2
    <3>4. tag' = [x \in TagRows |-> IF x = t THEN s ELSE tag[x]]
      BY <1>0, <2>1 DEF Rows
    <3>5. QED BY <3>3, <3>4 DEF TagsAfter
  <2>4. Rows'
    BY <1>0, <1>6, <2>1, <2>2, <2>3, CoinFits DEF ApplyRead, Open
  <2>5. [op |-> "apply", row |-> r, tag |-> t] \in Request
    BY DEF Request
  <2>6. Rest'
    BY <1>0, <1>6, <2>1, <2>5, RestBegins DEF ApplyRead, Rest
  <2>7. QED BY <2>4, <2>6
<1>7. ASSUME NEW r \in UrlRows, NEW S \in SUBSET Names, BatchRead(w, r, S)
      PROVE  Rows' /\ Rest'
  <2>1. [op |-> "batch", row |-> r, names |-> S, present |-> TagsOn(r)] \in Request
    BY DEF Request, TagsOn
  <2>2. QED BY <1>1, <1>7, <2>1 DEF BatchRead, Read
<1>8. ASSUME NEW s \in Names, CoinRead(w, s) PROVE Rows' /\ Rest'
  <2>1. [op |-> "coin", name |-> s] \in Request
    BY DEF Request
  <2>2. QED BY <1>1, <1>8, <2>1 DEF CoinRead, Read
<1>9. ASSUME NEW r \in UrlRows, NEW t \in TagRows, UntagRead(w, r, t) PROVE Rows' /\ Rest'
  <2>1. PICK n \in Copies : Read(w, [op |-> "untag", row |-> r, tag |-> t, copy |-> n])
    BY <1>9 DEF UntagRead
  <2>2. [op |-> "untag", row |-> r, tag |-> t, copy |-> n] \in Request
    BY DEF Request
  <2>3. QED BY <1>1, <2>1, <2>2 DEF Read
<1>10. ASSUME NEW t \in TagRows, RetireRead(w, t) PROVE Rows' /\ Rest'
  <2>1. [op |-> "retire", tag |-> t] \in Request
    BY DEF Request
  <2>2. QED BY <1>1, <1>10, <2>1 DEF RetireRead, Read
<1>11. QED BY <1>2, <1>3, <1>4, <1>5, <1>6, <1>7, <1>8, <1>9, <1>10 DEF Arrive

LEMMA CompleteStep ==
  ASSUME IInv, NEW w \in Workers, Complete(w)
  PROVE  Rows' /\ Rest'
<1>0. Rows /\ Rest /\ TypeOK
  BY Parts DEF IInv, RowsFit
<1>1. Rest'
  <2>1. Finish(w) /\ UNCHANGED exists
    BY DEF Complete, SaveCommit, MoveCommit, DropCommit, PurgeCommit, ApplyCommit,
       BatchCommit, CoinCommit, UntagCommit, RetireCommit, Fail, Commits
  <2>2. QED BY <1>0, <2>1, RestEnds
<1> SUFFICES Rows'
  BY <1>1
<1>2. CASE SaveCommit(w)
  BY <1>2, SaveFits
<1>3. CASE MoveCommit(w)
  BY <1>3, MoveFits
<1>4. CASE DropCommit(w) \/ PurgeCommit(w)
  <2>1. /\ request[w].op \in {"drop", "purge"}
        /\ UNCHANGED <<exists, catalog>> /\ Drop(request[w].row)
    BY <1>4 DEF DropCommit, PurgeCommit, Commits, Finish
  <2>2. QED BY <1>0, <2>1, CarriedShape, DropFits
<1>5. CASE ApplyCommit(w)
  BY <1>5, ApplyFits
<1>6. CASE BatchCommit(w)
  BY <1>6, BatchFits
<1>7. CASE CoinCommit(w)
  <2>1. /\ request[w].op = "coin" /\ exists
        /\ UNCHANGED <<exists, catalog, url, applied>>
    BY <1>7 DEF CoinCommit, Commits, Finish
  <2>2. PICK s \in Names : s = request[w].name
    BY <1>0, <2>1, CarriedShape
  <2>3. PICK f \in [{s} -> TagRows] : RowFor(f, {s}) /\ tag' = TagsAfter(f, {s})
    BY <1>7, <2>2 DEF CoinCommit
  <2>4. QED BY <1>0, <2>1, <2>3, CoinFits
<1>8. CASE UntagCommit(w)
  BY <1>0, <1>8, UntagFits DEF UntagCommit, Commits, Finish
<1>9. CASE RetireCommit(w)
  <2>1. /\ request[w].op = "retire"
        /\ UNCHANGED <<exists, catalog>> /\ Retire(request[w].tag)
    BY <1>9 DEF RetireCommit, Commits, Finish
  <2>2. QED BY <1>0, <2>1, CarriedShape, RetireFits
<1>10. CASE Fail(w)
  BY <1>0, <1>10, RowsKept DEF Fail, Finish
<1>11. QED BY <1>2, <1>3, <1>4, <1>5, <1>6, <1>7, <1>8, <1>9, <1>10 DEF Complete

LEMMA AtOnceStep ==
  ASSUME IInv, AtOnce
  PROVE  Rows' /\ Rest'
<1>0. Rows /\ Rest
  BY Parts
<1>1. CASE \E r \in UrlRows : AdminDrop(r)
  BY <1>0, <1>1, DropFits, RestKept DEF AdminDrop, Admin, Rest
<1>2. CASE \E t \in TagRows : AdminRetire(t)
  BY <1>0, <1>2, RetireFits, RestKept DEF AdminRetire, Admin, Rest
<1>3. CASE Lock \/ Unlock \/ \E a \in Urls : Catalogue(a)
  <2>1. /\ UNCHANGED <<exists, contents, request>>
        /\ catalog \subseteq catalog' /\ catalog' \subseteq Urls
        /\ locked' \in BOOLEAN /\ (locked' => exists)
    <3>1. CASE Lock
      BY <1>0, <3>1 DEF Lock, Rest
    <3>2. CASE Unlock
      BY <1>0, <3>2 DEF Unlock, Rest
    <3>3. CASE \E a \in Urls : Catalogue(a)
      BY <1>0, <3>3 DEF Catalogue, Rest
    <3>4. QED BY <1>3, <3>1, <3>2, <3>3
  <2>2. exists \in BOOLEAN
    BY <1>0 DEF Rest
  <2>3. QED BY <1>0, <2>1, <2>2, RowsKept, RestKept
<1>4. CASE DeleteUtub
  <2>1. Rest'
    BY <1>0, <1>4, RestKept DEF DeleteUtub, Rest
  <2>2. Saved' = {} /\ Vocabulary' = {} /\ applied' = {}
    BY <1>4 DEF DeleteUtub, Saved, Vocabulary
  <2>3. /\ url' \in [UrlRows -> Urls \union {Null}]
        /\ tag' \in [TagRows -> Names \union {Null}]
    BY <1>4 DEF DeleteUtub
  <2>4. QED BY <2>1, <2>2, <2>3, FS_EmptySet DEF Rows, AppliedExists, EachOnce
<1>5. QED BY <1>1, <1>2, <1>3, <1>4 DEF AtOnce

LEMMA IInvStep == IInv /\ [Next]_vars => IInv'
<1> SUFFICES ASSUME IInv, [Next]_vars PROVE IInv'
  OBVIOUS
<1>1. CASE Next
  <2>1. Rows' /\ Rest'
    BY <1>1, ArriveStep, CompleteStep, AtOnceStep DEF Next
  <2>2. QED BY <2>1 DEF IInv, RowsFit, TypeOK, Rows, Rest
<1>2. CASE UNCHANGED vars
  BY <1>2 DEF vars, contents, IInv, RowsFit, TypeOK, AppliedExists, EachOnce,
     Saved, Vocabulary, Catalogued
<1>3. QED BY <1>1, <1>2

LEMMA Invariance == Spec => []IInv
BY InitIInv, IInvStep, PTL DEF Spec

\* RowsFit is an invariant: whatever requests overlap, what is applied is
\* there, no URL or tag is in the UTub twice, and a UTub that is gone holds
\* nothing (utub_url_tags.py:29-46, create_urls.py:143-156).
THEOREM RowsAlwaysFit == Spec => []RowsFit
<1>1. IInv => RowsFit
  BY DEF IInv
<1>2. QED BY Invariance, <1>1, PTL

-----------------------------------------------------------------------------
\* Only its own commit ends a batch and changes anything.
LEMMA BatchStep ==
  ASSUME IInv, [Next]_vars, NEW w \in Workers, NEW r \in UrlRows,
         request[w].op = "batch", request[w].row = r,
         request'[w] = Idle, contents' # contents
  PROVE  \A s \in request[w].names : \E t \in TagRows :
            tag'[t] = s /\ (t \in request[w].present \/ t \in TagsOn(r)')
<1>0. Rows /\ TypeOK
  BY Parts DEF IInv, RowsFit
<1>1. request[w] # Idle /\ request'[w] # request[w]
  BY DEF Idle
<1>2. ASSUME NEW x \in Workers, Arrive(x) PROVE request[w] = Idle \/ request'[w] = request[w]
  <2>1. PICK q : Begin(x, q)
    BY <1>2 DEF Arrive, SaveRead, MoveRead, DropRead, PurgeRead, ApplyRead, BatchRead,
       CoinRead, UntagRead, RetireRead, Read
  <2>2. QED BY <1>0, <2>1 DEF Begin, TypeOK
<1>3. ASSUME AtOnce PROVE request' = request
  BY <1>3 DEF AtOnce, AdminDrop, AdminRetire, Admin, Catalogue, Lock, Unlock, DeleteUtub
<1>4. PICK x \in Workers : Complete(x)
  BY <1>1, <1>2, <1>3 DEF Next, vars
<1>5. x = w
  <2>1. Finish(x)
    BY <1>4 DEF Complete, SaveCommit, MoveCommit, DropCommit, PurgeCommit, ApplyCommit,
       BatchCommit, CoinCommit, UntagCommit, RetireCommit, Fail, Commits
  <2>2. QED BY <1>0, <1>1, <2>1 DEF Finish, TypeOK
<1>6. BatchCommit(w)
  BY <1>4, <1>5 DEF Complete, SaveCommit, MoveCommit, DropCommit, PurgeCommit, ApplyCommit,
     CoinCommit, UntagCommit, RetireCommit, Fail, Commits
<1> DEFINE q == request[w]
<1>7. q.names \in SUBSET Names /\ q.row = r
  BY <1>0, CarriedShape
<1>8. PICK f \in [q.names -> TagRows] :
         /\ RowFor(f, q.names)
         /\ tag' = TagsAfter(f, q.names)
         /\ Applies(r, {f[s] : s \in q.names} \ q.present)
  BY <1>6, <1>7 DEF BatchCommit
<1> HIDE DEF q
<1> DEFINE S == {f[s] : s \in q.names} \ q.present
<1>9. S \in SUBSET TagRows /\ IsFiniteSet(S) /\ Applies(r, S)
  BY <1>7, <1>8, RowsOfNames
<1> HIDE DEF S
<1>10. \A t \in S : t \in TagsOn(r)'
  BY <1>0, <1>9, AppliesShape DEF Rows
<1>11. \A s \in q.names : tag'[f[s]] = s
  BY <1>0, <1>7, <1>8, TagsAfterShape
<1>12. ASSUME NEW s \in q.names
       PROVE  \E t \in TagRows : tag'[t] = s /\ (t \in q.present \/ t \in TagsOn(r)')
  BY <1>10, <1>11 DEF S
<1>13. QED BY <1>12 DEF q

\* BatchIsAtomic holds of every step: a batch applies each tag it still has
\* to, or nothing (create_url_tag.py:197-199).
THEOREM BatchesAreAtomic == Spec => BatchIsAtomic
<1>1. IInv /\ [Next]_vars
      => [\A w \in Workers, r \in UrlRows :
             /\ request[w].op = "batch" /\ request[w].row = r
             /\ request'[w] = Idle /\ contents' # contents
             => \A s \in request[w].names : \E t \in TagRows :
                   tag'[t] = s /\ (t \in request[w].present \/ t \in TagsOn(r)')]_vars
  BY BatchStep
<1>2. QED BY Invariance, <1>1, PTL DEF Spec, BatchIsAtomic

-----------------------------------------------------------------------------
(* Requests served one at a time: the limit of tags.  What a request has   *)
(* found at its read is still so at its commit, since nothing runs in      *)
(* between.                                                                *)

Lone == \A v, w \in Workers : request[v] # Idle /\ request[w] # Idle => v = w

\* What the read of a request has found, and its commit relies on.
StillTrue(q) ==
    /\ exists
    /\ q.op = "save" => Cardinality(q.names) <= MAX_URL_TAGS
    /\ q.op \in {"drop", "purge", "apply", "batch"} => q.row \in Saved
    /\ q.op = "apply" => /\ q.tag \in Vocabulary \ TagsOn(q.row)
                         /\ Cardinality(RowsOn(q.row)) < MAX_URL_TAGS
    /\ q.op = "batch" => /\ q.present = TagsOn(q.row)
                         /\ Cardinality(TagsOn(q.row)) + Cardinality(NetNew(q.row, q.names))
                               <= MAX_URL_TAGS
    /\ q.op = "untag" => <<q.row, q.tag, q.copy>> \in applied
    /\ q.op = "retire" => q.tag \in Vocabulary

CarriedStillTrue == \A w \in Workers : request[w] = Idle \/ StillTrue(request[w])

SInv == IInv /\ Lone /\ CarriedStillTrue /\ WithinTagLimit

LEMMA InitSInv == Init => SInv
<1> SUFFICES ASSUME Init PROVE SInv
  OBVIOUS
<1>1. \A w \in Workers : request[w] = Idle
  BY DEF Init
<1>2. Lone /\ CarriedStillTrue
  BY <1>1 DEF Lone, CarriedStillTrue
<1>3. \A r : RowsOn(r) = {}
  BY DEF Init, RowsOn
<1>4. WithinTagLimit
  BY <1>3, FS_EmptySet, LimitAssumption DEF Init, WithinTagLimit
<1>5. QED BY InitIInv, <1>2, <1>4 DEF SInv

\* A serial step is a step.
LEMMA SerialIsNext == [SerialNext]_vars => [Next]_vars
BY DEF SerialNext, Next

LEMMA ArrivalBegins ==
  ASSUME NEW w \in Workers, Arrive(w)
  PROVE  \E q : Begin(w, q)
BY DEF Arrive, SaveRead, MoveRead, DropRead, PurgeRead, ApplyRead, BatchRead, CoinRead,
   UntagRead, RetireRead, Read

LEMMA CompletionFinishes ==
  ASSUME TypeOK, NEW w \in Workers, Complete(w)
  PROVE  Finish(w) /\ request[w] # Idle
<1>1. CASE Fail(w)
  BY <1>1 DEF Fail
<1>2. CASE \E op \in {"save", "move", "drop", "purge", "apply", "batch", "coin", "untag",
                      "retire"} : Commits(w, op)
  BY <1>2 DEF Commits, Idle
<1>3. QED BY <1>1, <1>2 DEF Complete, SaveCommit, MoveCommit, DropCommit, PurgeCommit,
      ApplyCommit, BatchCommit, CoinCommit, UntagCommit, RetireCommit

LEMMA LoneStep == TypeOK /\ Lone /\ [SerialNext]_vars => Lone' 
<1> SUFFICES ASSUME TypeOK, Lone, [SerialNext]_vars PROVE Lone'
  OBVIOUS
<1> USE DEF TypeOK, Lone
<1>1. ASSUME Quiet, NEW w \in Workers, Arrive(w) PROVE Lone'
  BY <1>1, ArrivalBegins DEF Quiet, Begin
<1>2. ASSUME NEW w \in Workers, Complete(w) PROVE Lone'
  BY <1>2, CompletionFinishes DEF Finish
<1>3. CASE AtOnce \/ UNCHANGED vars
  BY <1>3 DEF AtOnce, AdminDrop, AdminRetire, Admin, Catalogue, Lock, Unlock, DeleteUtub, vars
<1>4. QED BY <1>1, <1>2, <1>3 DEF SerialNext

LEMMA QuietAfter ==
  ASSUME TypeOK, Lone, NEW w \in Workers, Complete(w)
  PROVE  \A v \in Workers : request'[v] = Idle
BY CompletionFinishes DEF TypeOK, Lone, Finish

LEMMA StillTrueStays ==
  ASSUME UNCHANGED <<exists, contents>>, NEW q, StillTrue(q)
  PROVE  StillTrue(q)'
BY DEF contents, StillTrue, Saved, Vocabulary, TagsOn, RowsOn, NetNew

\* What each read finds.
LEMMA ReadFinds ==
  ASSUME IInv, Quiet, NEW w \in Workers, Arrive(w)
  PROVE  \E q : Begin(w, q) /\ StillTrue(q)'
<1>0. Rows
  BY Parts
<1>1. ASSUME NEW q, Begin(w, q), StillTrue(q), UNCHANGED <<exists, contents>>
      PROVE  Begin(w, q) /\ StillTrue(q)'
  BY <1>1, StillTrueStays
<1>2. ASSUME NEW a \in Urls, NEW S \in SUBSET Names, SaveRead(w, a, S)
      PROVE  \E q : Begin(w, q) /\ StillTrue(q)'
  <2> DEFINE q == [op |-> "save", url |-> a, names |-> S]
  <2>1. Begin(w, q) /\ StillTrue(q) /\ UNCHANGED <<exists, contents>>
    BY <1>2 DEF SaveRead, Open, StillTrue
  <2> HIDE DEF q
  <2>2. QED BY <1>1, <2>1
<1>3. ASSUME NEW r \in UrlRows, NEW a \in Urls, MoveRead(w, r, a)
      PROVE  \E q : Begin(w, q) /\ StillTrue(q)'
  <2> DEFINE q == [op |-> "move", row |-> r, url |-> a]
  <2>1. Begin(w, q) /\ StillTrue(q) /\ UNCHANGED <<exists, contents>>
    BY <1>3 DEF MoveRead, Open, StillTrue
  <2> HIDE DEF q
  <2>2. QED BY <1>1, <2>1
<1>4. ASSUME NEW r \in UrlRows, DropRead(w, r)
      PROVE  \E q : Begin(w, q) /\ StillTrue(q)'
  <2>1. PICK c : Begin(w, [op |-> "drop", row |-> r, counts |-> c])
    BY <1>4 DEF DropRead, Read
  <2> DEFINE q == [op |-> "drop", row |-> r, counts |-> c]
  <2>2. Begin(w, q) /\ StillTrue(q) /\ UNCHANGED <<exists, contents>>
    BY <1>4, <2>1 DEF DropRead, Read, Open, StillTrue
  <2> HIDE DEF q
  <2>3. QED BY <1>1, <2>2
<1>5. ASSUME NEW r \in UrlRows, PurgeRead(w, r)
      PROVE  \E q : Begin(w, q) /\ StillTrue(q)'
  <2> DEFINE q == [op |-> "purge", row |-> r]
  <2>1. Begin(w, q) /\ StillTrue(q) /\ UNCHANGED <<exists, contents>>
    BY <1>5 DEF PurgeRead, StillTrue
  <2> HIDE DEF q
  <2>2. QED BY <1>1, <2>1
<1>6. ASSUME NEW r \in UrlRows, NEW s \in Names, ApplyRead(w, r, s)
      PROVE  \E q : Begin(w, q) /\ StillTrue(q)'
  <2>1. PICK t \in TagRows :
           /\ tag' = [tag EXCEPT ![t] = s]
           /\ t \notin TagsOn(r)
           /\ Begin(w, [op |-> "apply", row |-> r, tag |-> t])
    BY <1>6 DEF ApplyRead
  <2>2. /\ exists /\ r \in Saved /\ Cardinality(RowsOn(r)) < MAX_URL_TAGS
        /\ UNCHANGED <<exists, url, applied>>
    BY <1>6 DEF ApplyRead, Open
  <2>3. tag'[t] # Null
    BY <1>0, <2>1, NullAssumption DEF Rows
  <2>4. exists' /\ Saved' = Saved /\ t \in Vocabulary'
        /\ TagsOn(r)' = TagsOn(r) /\ RowsOn(r)' = RowsOn(r)
    BY <2>2, <2>3 DEF Saved, Vocabulary, TagsOn, RowsOn
  <2> DEFINE q == [op |-> "apply", row |-> r, tag |-> t]
  <2>5. StillTrue(q)'
    BY <2>1, <2>2, <2>4 DEF StillTrue
  <2>6. QED BY <2>1, <2>5
<1>7. ASSUME NEW r \in UrlRows, NEW S \in SUBSET Names, BatchRead(w, r, S)
      PROVE  \E q : Begin(w, q) /\ StillTrue(q)'
  <2> DEFINE q == [op |-> "batch", row |-> r, names |-> S, present |-> TagsOn(r)]
  <2>1. Begin(w, q) /\ StillTrue(q) /\ UNCHANGED <<exists, contents>>
    BY <1>7 DEF BatchRead, Read, Open, StillTrue
  <2>2. PICK x : x = q
    OBVIOUS
  <2> HIDE DEF q
  <2>3. Begin(w, x) /\ StillTrue(x)
    BY <2>1, <2>2
  <2>4. QED BY <1>1, <2>1, <2>3
<1>8. ASSUME NEW s \in Names, CoinRead(w, s)
      PROVE  \E q : Begin(w, q) /\ StillTrue(q)'
  <2> DEFINE q == [op |-> "coin", name |-> s]
  <2>1. Begin(w, q) /\ StillTrue(q) /\ UNCHANGED <<exists, contents>>
    BY <1>8 DEF CoinRead, Read, Open, StillTrue
  <2> HIDE DEF q
  <2>2. QED BY <1>1, <2>1
<1>9. ASSUME NEW r \in UrlRows, NEW t \in TagRows, UntagRead(w, r, t)
      PROVE  \E q : Begin(w, q) /\ StillTrue(q)'
  <2>1. PICK n \in Copies : /\ <<r, t, n>> \in applied
                            /\ Read(w, [op |-> "untag", row |-> r, tag |-> t, copy |-> n])
    BY <1>9 DEF UntagRead
  <2> DEFINE q == [op |-> "untag", row |-> r, tag |-> t, copy |-> n]
  <2>2. Begin(w, q) /\ StillTrue(q) /\ UNCHANGED <<exists, contents>>
    BY <2>1 DEF Read, Open, StillTrue
  <2> HIDE DEF q
  <2>3. QED BY <1>1, <2>2
<1>10. ASSUME NEW t \in TagRows, RetireRead(w, t)
       PROVE  \E q : Begin(w, q) /\ StillTrue(q)'
  <2> DEFINE q == [op |-> "retire", tag |-> t]
  <2>1. Begin(w, q) /\ StillTrue(q) /\ UNCHANGED <<exists, contents>>
    BY <1>10 DEF RetireRead, Read, Open, StillTrue
  <2> HIDE DEF q
  <2>2. QED BY <1>1, <2>1
<1>11. QED BY <1>2, <1>3, <1>4, <1>5, <1>6, <1>7, <1>8, <1>9, <1>10 DEF Arrive

LEMMA CarriedTrueStep == SInv /\ [SerialNext]_vars => CarriedStillTrue'
<1> SUFFICES ASSUME SInv, [SerialNext]_vars PROVE CarriedStillTrue'
  OBVIOUS
<1>0. IInv /\ TypeOK /\ Lone /\ CarriedStillTrue
  BY DEF SInv, IInv, RowsFit
<1>1. ASSUME Quiet, NEW w \in Workers, Arrive(w) PROVE CarriedStillTrue'
  <2>1. PICK q : Begin(w, q) /\ StillTrue(q)'
    BY <1>0, <1>1, ReadFinds
  <2>2. request'[w] = q /\ \A x \in Workers \ {w} : request'[x] = Idle
    BY <1>0, <1>1, <2>1 DEF Begin, Quiet, TypeOK
  <2>3. QED BY <2>1, <2>2 DEF CarriedStillTrue
<1>2. ASSUME NEW w \in Workers, Complete(w) PROVE CarriedStillTrue'
  BY <1>0, <1>2, QuietAfter DEF CarriedStillTrue
<1>3. CASE Quiet /\ AtOnce
  <2>1. request' = request
    BY <1>3 DEF AtOnce, AdminDrop, AdminRetire, Admin, Catalogue, Lock, Unlock, DeleteUtub
  <2>2. QED BY <1>3, <2>1 DEF Quiet, CarriedStillTrue
<1>4. CASE UNCHANGED vars
  <2>1. ASSUME NEW q, StillTrue(q) PROVE StillTrue(q)'
    BY <1>4, <2>1, StillTrueStays DEF vars
  <2>2. ASSUME NEW w \in Workers, NEW q, q = request[w]
        PROVE  q = request'[w] /\ (q = Idle \/ StillTrue(q)')
    BY <1>0, <1>4, <2>1, <2>2 DEF CarriedStillTrue, vars
  <2>3. QED BY <2>2 DEF CarriedStillTrue
<1>5. QED BY <1>1, <1>2, <1>3, <1>4 DEF SerialNext

-----------------------------------------------------------------------------
\* What f makes of a finite set is no larger.
LEMMA ImageBound ==
  ASSUME NEW S, IsFiniteSet(S), NEW f, DOMAIN f = S, NEW T, T \subseteq {f[s] : s \in S}
  PROVE  IsFiniteSet(T) /\ Cardinality(T) \in Nat /\ Cardinality(S) \in Nat
         /\ Cardinality(T) <= Cardinality(S)
<1> DEFINE I == {f[s] : s \in S}
           g == [s \in S |-> f[s]]
<1>1. g \in Surjection(S, I)
  BY Fun_IsSurj
<1>2. IsFiniteSet(I) /\ Cardinality(I) <= Cardinality(S)
  BY <1>1, FS_Surjection
<1> HIDE DEF I
<1>3. T \in SUBSET I
  BY DEF I
<1>4. IsFiniteSet(T) /\ Cardinality(T) <= Cardinality(I)
  BY <1>2, <1>3, FS_Subset
<1>5. Cardinality(T) \in Nat /\ Cardinality(I) \in Nat /\ Cardinality(S) \in Nat
  BY <1>2, <1>4, FS_CardinalityType
<1>6. QED BY <1>2, <1>4, <1>5

LEMMA RowsOnFinite ==
  ASSUME Rows, NEW r \in UrlRows
  PROVE  /\ IsFiniteSet(RowsOn(r)) /\ Cardinality(RowsOn(r)) \in Nat
         /\ IsFiniteSet(TagsOn(r)) /\ Cardinality(TagsOn(r)) \in Nat
<1>1. RowsOn(r) \in SUBSET applied
  BY DEF RowsOn
<1>2. IsFiniteSet(RowsOn(r))
  BY <1>1, FS_Subset DEF Rows
<1> DEFINE f == [x \in RowsOn(r) |-> x[2]]
<1>3. TagsOn(r) \subseteq {f[x] : x \in RowsOn(r)}
  <2>1. ASSUME NEW t \in TagsOn(r) PROVE \E x \in RowsOn(r) : f[x] = t
    <3>1. PICK n \in Copies : <<r, t, n>> \in applied
      BY DEF TagsOn
    <3>2. <<r, t, n>> \in RowsOn(r)
      BY <3>1 DEF RowsOn
    <3>3. f[<<r, t, n>>] = t
      BY <3>2
    <3>4. QED BY <3>2, <3>3
  <2>2. QED BY <2>1
<1>4. QED BY <1>2, <1>3, ImageBound, FS_CardinalityType

\* Where no tag is on a URL twice, its rows are as many as its tags.
LEMMA RowsAreTags ==
  ASSUME Rows, WithinTagLimit, NEW r \in UrlRows
  PROVE  Cardinality(RowsOn(r)) = Cardinality(TagsOn(r))
<1> DEFINE f == [x \in RowsOn(r) |-> x[2]]
<1>1. ASSUME NEW x \in RowsOn(r) PROVE x[2] \in TagsOn(r) /\ x[1] = r /\ x \in applied
  <2>1. x \in UrlRows \X TagRows \X Copies /\ x \in applied /\ x[1] = r
    BY DEF Rows, RowsOn
  <2>2. x = <<r, x[2], x[3]>> /\ x[2] \in TagRows /\ x[3] \in Copies
    BY <2>1
  <2>3. QED BY <2>1, <2>2 DEF TagsOn
<1>2. ASSUME NEW t \in TagsOn(r) PROVE \E x \in RowsOn(r) : f[x] = t
  <2>1. PICK n \in Copies : <<r, t, n>> \in applied
    BY DEF TagsOn
  <2>2. <<r, t, n>> \in RowsOn(r)
    BY <2>1 DEF RowsOn
  <2>3. f[<<r, t, n>>] = t
    BY <2>2
  <2>4. QED BY <2>2, <2>3
<1>3. \A x, y \in RowsOn(r) : f[x] = f[y] => x = y
  BY <1>1 DEF WithinTagLimit
<1>4. f \in [RowsOn(r) -> TagsOn(r)]
  BY <1>1
<1>5. f \in Bijection(RowsOn(r), TagsOn(r))
  BY <1>2, <1>3, <1>4, Fun_IsBij
<1>6. ExistsBijection(RowsOn(r), TagsOn(r))
  BY <1>5 DEF ExistsBijection
<1>7. QED BY <1>6, RowsOnFinite, FS_Bijection

\* Whoever only takes tags away stays within the limit.
LEMMA FewerRows ==
  ASSUME Rows, WithinTagLimit, applied' \subseteq applied
  PROVE  WithinTagLimit'
<1>1. ASSUME NEW r \in UrlRows PROVE Cardinality(RowsOn(r)') <= MAX_URL_TAGS
  <2>1. RowsOn(r)' \in SUBSET RowsOn(r)
    BY DEF RowsOn
  <2>2. IsFiniteSet(RowsOn(r)') /\ Cardinality(RowsOn(r)') <= Cardinality(RowsOn(r))
    BY <2>1, RowsOnFinite, FS_Subset
  <2>3. Cardinality(RowsOn(r)') \in Nat /\ Cardinality(RowsOn(r)) \in Nat
    BY <2>2, RowsOnFinite, FS_CardinalityType
  <2>4. QED BY <2>2, <2>3, LimitAssumption DEF WithinTagLimit
<1>2. QED BY <1>1 DEF WithinTagLimit

\* New tags on a URL, within the limit and not there before.
LEMMA MoreRows ==
  ASSUME Rows, WithinTagLimit, NEW r \in UrlRows, NEW S \in SUBSET TagRows, IsFiniteSet(S),
         Applies(r, S), S \cap TagsOn(r) = {},
         Cardinality(RowsOn(r)) + Cardinality(S) <= MAX_URL_TAGS
  PROVE  WithinTagLimit'
<1>1. PICK copy \in [S -> Copies] :
         applied' = applied \union {<<r, t, copy[t]>> : t \in S}
  BY DEF Applies
<1> DEFINE f == [t \in S |-> <<r, t, copy[t]>>]
           New == {f[t] : t \in S}
<1>2. applied' = applied \union New
  BY <1>1
<1>3. IsFiniteSet(New) /\ Cardinality(New) <= Cardinality(S)
      /\ Cardinality(New) \in Nat /\ Cardinality(S) \in Nat
  BY ImageBound
<1>4. \A x \in New : x[1] = r /\ x[2] \in S /\ x = f[x[2]]
  OBVIOUS
<1> HIDE DEF New, f
<1>5. ASSUME NEW q \in UrlRows PROVE Cardinality(RowsOn(q)') <= MAX_URL_TAGS
  <2>1. CASE q # r
    <3>1. RowsOn(q)' = RowsOn(q)
      BY <1>2, <1>4, <2>1 DEF RowsOn
    <3>2. QED BY <3>1 DEF WithinTagLimit
  <2>2. CASE q = r
    <3>1. RowsOn(r)' = RowsOn(r) \union New
      BY <1>2, <1>4 DEF RowsOn
    <3>2. /\ Cardinality(RowsOn(r) \union New)
                = Cardinality(RowsOn(r)) + Cardinality(New) - Cardinality(RowsOn(r) \cap New)
          /\ IsFiniteSet(RowsOn(r) \cap New)
      BY <1>3, RowsOnFinite, FS_Union, FS_Intersection
    <3>3. Cardinality(RowsOn(r) \cap New) \in Nat /\ Cardinality(RowsOn(r)) \in Nat
      BY <3>2, RowsOnFinite, FS_CardinalityType
    <3>4. QED BY <1>3, <2>2, <3>1, <3>2, <3>3, LimitAssumption
  <2>3. QED BY <2>1, <2>2
<1>6. ASSUME NEW x \in applied', NEW y \in applied', x[1] = y[1], x[2] = y[2]
      PROVE  x = y
  <2>1. ASSUME NEW z \in applied, z[1] = r, z[2] \in S PROVE FALSE
    <3>1. z = <<r, z[2], z[3]>> /\ z[3] \in Copies
      BY <2>1 DEF Rows
    <3>2. z[2] \in TagsOn(r)
      BY <2>1, <3>1 DEF TagsOn
    <3>3. QED BY <2>1, <3>2
  <2>2. CASE x \in New /\ y \in New
    BY <1>4, <1>6, <2>2
  <2>3. CASE x \in applied /\ y \in applied
    BY <1>6, <2>3 DEF WithinTagLimit
  <2>4. CASE (x \in New /\ y \in applied) \/ (x \in applied /\ y \in New)
    BY <1>4, <1>6, <2>1, <2>4
  <2>5. QED BY <1>2, <2>2, <2>3, <2>4
<1>7. QED BY <1>5, <1>6 DEF WithinTagLimit

\* What a request at work still carries.
LEMMA Carried ==
  ASSUME CarriedStillTrue, NEW w \in Workers, request[w].op # "idle"
  PROVE  StillTrue(request[w])
<1>1. request[w] # Idle
  BY DEF Idle
<1>2. QED BY <1>1 DEF CarriedStillTrue

LEMMA SaveWithin ==
  ASSUME SInv, NEW w \in Workers, SaveCommit(w)
  PROVE  WithinTagLimit'
<1>0. Rows /\ TypeOK /\ WithinTagLimit /\ CarriedStillTrue
  BY Parts DEF SInv, IInv, RowsFit
<1> DEFINE q == request[w]
<1>1. q.op = "save" /\ q.names \in SUBSET Names
  BY <1>0, CarriedShape DEF SaveCommit, Commits
<1>2. Cardinality(q.names) <= MAX_URL_TAGS
  <2>1. StillTrue(q)
    BY <1>0, <1>1, Carried
  <2>2. QED BY <1>1, <2>1 DEF StillTrue
<1>3. PICK r \in UrlRows, f \in [q.names -> TagRows] :
         r \notin Saved /\ Applies(r, {f[s] : s \in q.names})
  BY DEF SaveCommit, FreeRow
<1> HIDE DEF q
<1> DEFINE S == {f[s] : s \in q.names}
<1>4. RowsOn(r) = {} /\ TagsOn(r) = {}
  <2>1. \A x \in applied : x[1] # r
    BY <1>0, <1>3 DEF Rows, AppliedExists
  <2>2. QED BY <2>1 DEF RowsOn, TagsOn
<1>5. IsFiniteSet(q.names)
  BY <1>1, NamesAssumption, FS_Subset
<1>6. /\ S \in SUBSET TagRows /\ IsFiniteSet(S) /\ Cardinality(S) <= Cardinality(q.names)
      /\ Cardinality(S) \in Nat /\ Cardinality(q.names) \in Nat
  BY <1>5, ImageBound
<1>7. Applies(r, S)
  BY <1>3
<1> HIDE DEF S
<1>8. Cardinality(RowsOn(r)) + Cardinality(S) <= MAX_URL_TAGS
  BY <1>2, <1>4, <1>6, FS_EmptySet, LimitAssumption
<1>9. QED BY <1>0, <1>4, <1>6, <1>7, <1>8, MoreRows

LEMMA ApplyWithin ==
  ASSUME SInv, NEW w \in Workers, ApplyCommit(w)
  PROVE  WithinTagLimit'
<1>0. Rows /\ TypeOK /\ WithinTagLimit /\ CarriedStillTrue
  BY Parts DEF SInv, IInv, RowsFit
<1>1. PICK r \in UrlRows, t \in TagRows : r = request[w].row /\ t = request[w].tag
  BY <1>0, CarriedShape DEF ApplyCommit, Commits
<1>2. Applies(r, {t}) /\ t \notin TagsOn(r) /\ Cardinality(RowsOn(r)) < MAX_URL_TAGS
  <2>1. request[w].op = "apply" /\ Applies(r, {t})
    BY <1>1 DEF ApplyCommit, Commits
  <2>2. StillTrue(request[w])
    BY <1>0, <2>1, Carried
  <2>3. QED BY <1>1, <2>1, <2>2 DEF StillTrue
<1>3. IsFiniteSet({t}) /\ Cardinality({t}) = 1
  BY FS_Singleton
<1>4. Cardinality(RowsOn(r)) + Cardinality({t}) <= MAX_URL_TAGS
  BY <1>0, <1>2, <1>3, RowsOnFinite, LimitAssumption
<1>5. QED BY <1>0, <1>2, <1>3, <1>4, MoreRows

\* A batch adds rows for its net new names at most.
LEMMA BatchAddsNetNew ==
  ASSUME Rows, NEW r \in Saved, NEW N \in SUBSET Names, NEW f \in [N -> TagRows], RowFor(f, N)
  PROVE  LET S == {f[s] : s \in N} \ TagsOn(r) IN
         /\ S \in SUBSET TagRows /\ IsFiniteSet(S) /\ Cardinality(S) \in Nat
         /\ S \subseteq {f[s] : s \in NetNew(r, N)}
         /\ Cardinality(NetNew(r, N)) \in Nat
         /\ Cardinality(S) <= Cardinality(NetNew(r, N))
<1> DEFINE S == {f[s] : s \in N} \ TagsOn(r)
           M == NetNew(r, N)
           g == [s \in M |-> f[s]]
<1>1. M \in SUBSET N
  BY DEF NetNew
<1>2. IsFiniteSet(M)
  BY <1>1, NamesAssumption, FS_Subset
<1>3. ASSUME NEW s \in N, f[s] \notin TagsOn(r) PROVE s \in M
  <2>1. ASSUME NEW t \in TagsOn(r), tag[t] = s PROVE FALSE
    <3>1. t \in TagRows /\ t \in Vocabulary
      BY <2>1, NullAssumption DEF TagsOn, Vocabulary
    <3>2. tag[f[s]] = s /\ f[s] \in Vocabulary
      BY <2>1, <3>1, NullAssumption DEF RowFor, Vocabulary
    <3>3. f[s] = t
      BY <2>1, <3>1, <3>2 DEF Rows, EachOnce
    <3>4. QED BY <1>3, <3>3
  <2>2. QED BY <2>1 DEF NetNew
<1>4. S \subseteq {g[s] : s \in M}
  BY <1>3
<1>5. S \in SUBSET TagRows /\ S \subseteq {f[s] : s \in M}
  BY <1>3
<1> HIDE DEF S, M
<1>6. IsFiniteSet(S) /\ Cardinality(S) \in Nat /\ Cardinality(M) \in Nat
      /\ Cardinality(S) <= Cardinality(M)
  BY <1>2, <1>4, ImageBound
<1>7. QED BY <1>5, <1>6 DEF S, M

LEMMA BatchWithin ==
  ASSUME SInv, NEW w \in Workers, BatchCommit(w)
  PROVE  WithinTagLimit'
<1>0. Rows /\ TypeOK /\ WithinTagLimit /\ CarriedStillTrue
  BY Parts DEF SInv, IInv, RowsFit
<1> DEFINE q == request[w]
<1>1. PICK r \in Saved, N \in SUBSET Names : r = q.row /\ N = q.names
  BY <1>0, CarriedShape DEF BatchCommit, Commits
<1>2. /\ q.present = TagsOn(r)
      /\ Cardinality(TagsOn(r)) + Cardinality(NetNew(r, N)) <= MAX_URL_TAGS
  <2>1. q.op = "batch"
    BY DEF BatchCommit, Commits
  <2>2. StillTrue(q)
    BY <1>0, <2>1, Carried
  <2>3. QED BY <1>1, <2>1, <2>2 DEF StillTrue
<1>3. PICK f \in [N -> TagRows] : /\ RowFor(f, N)
                                  /\ Applies(r, {f[s] : s \in N} \ TagsOn(r))
  BY <1>1, <1>2 DEF BatchCommit
<1> DEFINE S == {f[s] : s \in N} \ TagsOn(r)
<1>4. /\ S \in SUBSET TagRows /\ IsFiniteSet(S) /\ Cardinality(S) \in Nat
      /\ Cardinality(NetNew(r, N)) \in Nat
      /\ Cardinality(S) <= Cardinality(NetNew(r, N))
  BY <1>0, <1>3, BatchAddsNetNew
<1>5. Applies(r, S) /\ S \cap TagsOn(r) = {}
  BY <1>3
<1> HIDE DEF S, q
<1>6. r \in UrlRows
  BY DEF Saved
<1>7. Cardinality(RowsOn(r)) + Cardinality(S) <= MAX_URL_TAGS
  BY <1>0, <1>2, <1>4, <1>6, RowsAreTags, RowsOnFinite, LimitAssumption
<1>8. QED BY <1>0, <1>4, <1>5, <1>6, <1>7, MoreRows

LEMMA LimitStep == SInv /\ [SerialNext]_vars => WithinTagLimit'
<1> SUFFICES ASSUME SInv, [SerialNext]_vars PROVE WithinTagLimit'
  OBVIOUS
<1>0. Rows /\ TypeOK /\ WithinTagLimit
  BY Parts DEF SInv, IInv, RowsFit
<1>1. ASSUME NEW w \in Workers, Arrive(w) PROVE applied' \subseteq applied
  BY <1>1 DEF Arrive, SaveRead, MoveRead, DropRead, PurgeRead, ApplyRead, BatchRead,
     CoinRead, UntagRead, RetireRead, Read, contents
<1>2. CASE AtOnce
  BY <1>0, <1>2, FewerRows DEF AtOnce, AdminDrop, AdminRetire, Catalogue, Lock, Unlock,
     DeleteUtub, Drop, Retire, contents
<1>3. ASSUME NEW w \in Workers, Complete(w) PROVE WithinTagLimit'
  <2>1. CASE \/ MoveCommit(w) \/ DropCommit(w) \/ PurgeCommit(w) \/ CoinCommit(w)
             \/ UntagCommit(w) \/ RetireCommit(w) \/ Fail(w)
    <3>1. applied' \subseteq applied
      BY <2>1 DEF MoveCommit, DropCommit, PurgeCommit, CoinCommit, UntagCommit,
         RetireCommit, Fail, Drop, Retire, contents
    <3>2. QED BY <1>0, <3>1, FewerRows
  <2>2. QED BY <1>3, <2>1, SaveWithin, ApplyWithin, BatchWithin DEF Complete
<1>4. CASE UNCHANGED vars
  BY <1>0, <1>4, FewerRows DEF vars, contents
<1>5. QED BY <1>0, <1>1, <1>2, <1>3, <1>4, FewerRows DEF SerialNext

LEMMA SerialInvariance == SerialSpec => []SInv
<1>1. SInv /\ [SerialNext]_vars => SInv'
  BY SerialIsNext, IInvStep, LoneStep, CarriedTrueStep, LimitStep DEF SInv, IInv, RowsFit
<1>2. QED BY InitSInv, <1>1, PTL DEF SerialSpec

\* WithinTagLimit is an invariant when requests do not overlap: neither one
\* tag, nor a batch, nor a new URL exceeds the limit or repeats a tag.
THEOREM SerialWithinLimit == SerialSpec => []WithinTagLimit
<1>1. SInv => WithinTagLimit
  BY DEF SInv
<1>2. QED BY SerialInvariance, <1>1, PTL

-----------------------------------------------------------------------------
(* Served one at a time, the requests implement Bookmarks. What Promise    *)
(* sees of the rows: the names known, the URLs saved, the names on each.   *)
Known    == {tag[t] : t \in Vocabulary}
Pages    == {url[r] : r \in Saved}
Marks(r) == {tag[t] : t \in TagsOn(r)}
Held     == [a \in {url[r] : r \in Saved} |->
               {tag[t] : t \in UNION {TagsOn(r) : r \in {x \in Saved : url[x] = a}}}]

LEMMA PromiseSaved == Promise!Saved = DOMAIN Held
BY DEF Promise!Saved, Held

LEMMA PromiseSize == \A S : Promise!Cardinality(S) = Cardinality(S)
BY DEF Promise!Cardinality, Cardinality

\* The steps of Bookmarks, in these terms.
LEMMA SaveSeen ==
  ASSUME NEW a, NEW S, a \notin DOMAIN Held, Cardinality(S) <= MAX_URL_TAGS,
         Held' = [x \in DOMAIN Held \union {a} |-> IF x = a THEN S ELSE Held[x]],
         Known' = Known \union S
  PROVE  Promise!Save(a, S)
<1>1. /\ Held' = [x \in Promise!Saved \union {a} |-> IF x = a THEN S ELSE Held[x]]
      /\ a \notin Promise!Saved /\ Promise!Cardinality(S) <= MAX_URL_TAGS
  BY PromiseSaved, PromiseSize
<1>2. QED BY <1>1 DEF Promise!Save, Held, Known

LEMMA MoveSeen ==
  ASSUME NEW a, NEW b, a \in DOMAIN Held, b \notin DOMAIN Held, Known' = Known,
         Held' = [x \in (DOMAIN Held \ {a}) \union {b} |-> IF x = b THEN Held[a] ELSE Held[x]]
  PROVE  Promise!Move(a, b)
<1>1. /\ Held' = [x \in (Promise!Saved \ {a}) \union {b} |-> IF x = b THEN Held[a] ELSE Held[x]]
      /\ a \in Promise!Saved /\ b \notin Promise!Saved
  BY PromiseSaved
<1>2. QED BY <1>1 DEF Promise!Move, Held, Known

LEMMA ForgetSeen ==
  ASSUME NEW a, Held' = [x \in DOMAIN Held \ {a} |-> Held[x]], Known' = Known
  PROVE  Promise!Forget(a)
<1>1. Held' = [x \in Promise!Saved \ {a} |-> Held[x]]
  BY PromiseSaved
<1>2. QED BY <1>1 DEF Promise!Forget, Held, Known

LEMMA TagSeen ==
  ASSUME NEW a, NEW S, a \in DOMAIN Held, Cardinality(Held[a] \union S) <= MAX_URL_TAGS,
         Held' = [Held EXCEPT ![a] = @ \union S], Known' = Known \union S
  PROVE  Promise!Tag(a, S)
<1>1. a \in Promise!Saved /\ Promise!Cardinality(Held[a] \union S) <= MAX_URL_TAGS
  BY PromiseSaved, PromiseSize
<1>2. QED BY <1>1 DEF Promise!Tag, Held, Known

LEMMA UntagSeen ==
  ASSUME NEW a, NEW s, a \in DOMAIN Held, Held' = [Held EXCEPT ![a] = @ \ {s}], Known' = Known
  PROVE  Promise!Untag(a, s)
<1>1. a \in Promise!Saved
  BY PromiseSaved
<1>2. QED BY <1>1 DEF Promise!Untag, Held, Known

LEMMA CoinSeen ==
  ASSUME NEW s, Known' = Known \union {s}, Held' = Held
  PROVE  Promise!Coin(s)
BY DEF Promise!Coin, Held, Known

LEMMA RetireSeen ==
  ASSUME NEW s, Known' = Known \ {s}, Held' = [a \in DOMAIN Held |-> Held[a] \ {s}]
  PROVE  Promise!Retire(s)
<1>1. Held' = [a \in Promise!Saved |-> Held[a] \ {s}]
  BY PromiseSaved
<1>2. QED BY <1>1 DEF Promise!Retire, Held, Known

LEMMA ClearSeen ==
  ASSUME Known' = {}, Held' = [a \in {} |-> {}]
  PROVE  Promise!Clear
BY DEF Promise!Clear, Held, Known

\* A URL is saved once, so that its names are those on its only row.
View == /\ Held = [a \in Pages |-> Held[a]] /\ DOMAIN Held = Pages
        /\ \A r \in Saved : url[r] \in Pages /\ Held[url[r]] = Marks(r)
        /\ \A a \in Pages : \E r \in Saved : a = url[r]
        /\ \A r, x \in Saved : url[r] = url[x] => r = x
        /\ Pages \subseteq Urls

LEMMA RowsView == Rows => View
<1> SUFFICES ASSUME Rows PROVE View
  OBVIOUS
<1>1. \A r, x \in Saved : url[r] = url[x] => r = x
  BY DEF Rows, EachOnce
<1>2. ASSUME NEW r \in Saved PROVE url[r] \in Pages /\ Held[url[r]] = Marks(r)
  <2>1. {x \in Saved : url[x] = url[r]} = {r}
    BY <1>1
  <2>2. UNION {TagsOn(x) : x \in {y \in Saved : url[y] = url[r]}} = TagsOn(r)
    BY <2>1
  <2>3. url[r] \in Pages
    BY DEF Pages
  <2>4. QED BY <2>2, <2>3 DEF Held, Marks, Pages
<1>3. Held = [a \in Pages |-> Held[a]] /\ DOMAIN Held = Pages
  BY DEF Held, Pages
<1>4. Pages \subseteq Urls
  BY DEF Pages, Rows, Saved
<1>5. QED BY <1>1, <1>2, <1>3, <1>4 DEF View, Pages

LEMMA RowsViewNext == Rows' => View'
BY RowsView, PTL

\* A step that Promise does not see.
LEMMA PromiseStutter ==
  ASSUME Rows, Rows', Saved' = Saved, Known' = Known,
         \A r \in Saved : url'[r] = url[r] /\ Marks(r)' = Marks(r)
  PROVE  UNCHANGED Promise!vars
<1>1. View /\ View'
  BY RowsView, RowsViewNext
<1>2. Pages' = Pages
  BY DEF Pages
<1>3. \A a \in Pages : Held'[a] = Held[a]
  BY <1>1, <1>2 DEF View
<1>4. Held' = Held
  BY <1>1, <1>2, <1>3 DEF View
<1>5. QED BY <1>4 DEF Promise!vars, Held, Known

\* The same rows with the same names on them.
LEMMA SameMarks ==
  ASSUME Rows, Rows', url' = url, \A r : Marks(r)' = Marks(r)
  PROVE  Held' = Held
<1>1. View /\ View' /\ Pages' = Pages /\ Saved' = Saved
  BY RowsView, RowsViewNext DEF Pages, Saved
<1>2. \A a \in Pages : Held'[a] = Held[a]
  BY <1>1 DEF View
<1>3. QED BY <1>1, <1>2 DEF View

LEMMA PartsNext == IInv' => Rows'
BY Parts, PTL

\* The step of a change to the row r.
LEMMA RowChanged ==
  ASSUME Rows, Rows', NEW r \in Saved', Saved' = Saved \union {r},
         \A x \in Saved \ {r} : url'[x] = url[x] /\ Marks(x)' = Marks(x)
  PROVE  /\ DOMAIN Held = Pages /\ DOMAIN Held' = Pages'
         /\ Held' = [a \in Pages' |-> IF a = url'[r] THEN Marks(r)' ELSE Held[a]]
         /\ r \notin Saved => Pages' = Pages \union {url'[r]} /\ url'[r] \notin Pages
         /\ r \in Saved => /\ Pages' = (Pages \ {url[r]}) \union {url'[r]}
                           /\ url[r] \in Pages /\ Held[url[r]] = Marks(r)
                           /\ url'[r] # url[r] => url'[r] \notin Pages
<1>1. View /\ View'
  BY RowsView, RowsViewNext
<1>2. \A x \in Saved \ {r} : url'[x] # url'[r]
  BY <1>1 DEF View
<1>3. \A x \in Saved \ {r} : r \in Saved => url[x] # url[r]
  BY <1>1 DEF View
<1>4. ASSUME NEW a \in Pages' PROVE Held'[a] = IF a = url'[r] THEN Marks(r)' ELSE Held[a]
  <2>1. PICK x \in Saved' : a = url'[x]
    BY <1>1 DEF View
  <2>2. CASE x = r
    BY <1>1, <2>1, <2>2 DEF View
  <2>3. CASE x # r
    <3>1. x \in Saved /\ a = url[x] /\ a # url'[r] /\ Marks(x)' = Marks(x)
      BY <1>2, <2>1, <2>3
    <3>2. Held'[a] = Marks(x)' /\ Held[a] = Marks(x)
      BY <1>1, <2>1, <3>1 DEF View
    <3>3. QED BY <3>1, <3>2
  <2>4. QED BY <2>2, <2>3
<1>5. DOMAIN Held = Pages /\ DOMAIN Held' = Pages' /\ Held' = [a \in Pages' |-> Held'[a]]
  BY <1>1 DEF View
<1>6. r \notin Saved => Pages' = Pages \union {url'[r]} /\ url'[r] \notin Pages
  BY <1>2 DEF Pages
<1>7. r \in Saved => /\ Pages' = (Pages \ {url[r]}) \union {url'[r]}
                     /\ url'[r] # url[r] => url'[r] \notin Pages
  BY <1>2, <1>3 DEF Pages
<1>8. r \in Saved => url[r] \in Pages /\ Held[url[r]] = Marks(r)
  BY <1>1 DEF View
<1>9. QED BY <1>4, <1>5, <1>6, <1>7, <1>8

\* A step that only changes the names on r.
LEMMA MarksChanged ==
  ASSUME Rows, Rows', UNCHANGED url, NEW r \in Saved,
         \A x \in Saved \ {r} : Marks(x)' = Marks(x)
  PROVE  /\ url[r] \in DOMAIN Held /\ Held[url[r]] = Marks(r)
         /\ Held' = [Held EXCEPT ![url[r]] = Marks(r)']
<1>1. Saved' = Saved
  BY DEF Saved
<1>2. /\ Pages' = (Pages \ {url[r]}) \union {url[r]} /\ url[r] \in Pages
      /\ DOMAIN Held = Pages /\ Held[url[r]] = Marks(r)
      /\ Held' = [a \in Pages' |-> IF a = url[r] THEN Marks(r)' ELSE Held[a]]
  BY <1>1, RowChanged
<1>3. Pages' = Pages
  BY <1>2
<1>4. Held = [a \in Pages |-> Held[a]]
  BY RowsView DEF View
<1>5. QED BY <1>2, <1>3, <1>4

\* New applications to r leave the other rows alone.
LEMMA AppliesTo ==
  ASSUME Rows, NEW r \in UrlRows, NEW S \in SUBSET TagRows, Applies(r, S)
  PROVE  /\ TagsOn(r)' = TagsOn(r) \union S
         /\ \A x \in UrlRows \ {r} : TagsOn(x)' = TagsOn(x)
<1>1. PICK copy \in [S -> Copies] : applied' = applied \union {<<r, t, copy[t]>> : t \in S}
  BY DEF Applies
<1>2. \A x \in UrlRows, t \in TagRows, n \in Copies :
         <<x, t, n>> \in applied' <=> \/ <<x, t, n>> \in applied
                                      \/ x = r /\ t \in S /\ n = copy[t]
  BY <1>1
<1>3. QED BY <1>2 DEF TagsOn

LEMMA OnVocabulary ==
  ASSUME Rows, NEW r, NEW t \in TagsOn(r)
  PROVE  t \in Vocabulary /\ t \in TagRows
BY DEF TagsOn, Rows, AppliedExists

\* The names of a batch, after their rows are there.
LEMMA NamesAfter ==
  ASSUME Rows, TypeOK, NEW N \in SUBSET Names, NEW f \in [N -> TagRows], RowFor(f, N),
         tag' = TagsAfter(f, N)
  PROVE  /\ \A t \in Vocabulary : tag'[t] = tag[t]
         /\ {tag'[t] : t \in {f[s] : s \in N}} = N
         /\ Known' = Known \union N
<1>1. /\ \A s \in N : tag'[f[s]] = s
      /\ \A t \in TagRows : (\A s \in N : f[s] # t) => tag'[t] = tag[t]
      /\ \A t \in TagRows : tag[t] # Null => tag'[t] = tag[t]
  BY TagsAfterShape
<1>2. \A t \in Vocabulary : tag'[t] = tag[t]
  BY <1>1 DEF Vocabulary
<1>3. \A s \in N : f[s] \in Vocabulary'
  BY <1>1, NullAssumption DEF Vocabulary
<1>4. \A t \in Vocabulary' : t \in Vocabulary \/ \E s \in N : f[s] = t
  BY <1>1 DEF Vocabulary
<1>5. Vocabulary \subseteq Vocabulary'
  BY <1>1 DEF Vocabulary
<1>6. {tag'[t] : t \in {f[s] : s \in N}} = N
  BY <1>1
<1>7. Known' = Known \union N
  BY <1>1, <1>2, <1>3, <1>4, <1>5 DEF Known
<1>8. QED BY <1>2, <1>6, <1>7

\* No URL has more names than the limit.
LEMMA FewMarks ==
  ASSUME Rows, WithinTagLimit, NEW r \in Saved
  PROVE  Cardinality(Marks(r)) <= MAX_URL_TAGS
<1>1. r \in UrlRows
  BY DEF Saved
<1>2. /\ Cardinality(TagsOn(r)) <= MAX_URL_TAGS /\ Cardinality(TagsOn(r)) \in Nat
      /\ IsFiniteSet(TagsOn(r))
  BY <1>1, RowsAreTags, RowsOnFinite DEF WithinTagLimit
<1> DEFINE f == [t \in TagsOn(r) |-> tag[t]]
<1>3. Marks(r) \subseteq {f[t] : t \in TagsOn(r)}
  BY DEF Marks
<1>4. Cardinality(Marks(r)) \in Nat /\ Cardinality(Marks(r)) <= Cardinality(TagsOn(r))
  BY <1>2, <1>3, ImageBound
<1>5. QED BY <1>2, <1>4, LimitAssumption

Limited == \A r \in Saved : Cardinality(Marks(r)) <= MAX_URL_TAGS

LEMMA AllLimited == Rows /\ WithinTagLimit => Limited
BY FewMarks DEF Limited

LEMMA AllLimitedNext == Rows' /\ WithinTagLimit' => Limited'
BY AllLimited, PTL
-----------------------------------------------------------------------------
(* Each commit is a step of Bookmarks.                                     *)
LEMMA SaveIsSave ==
  ASSUME SInv, Rows', Limited', NEW w \in Workers, SaveCommit(w)
  PROVE  \E a \in Urls, S \in SUBSET Names : Promise!Save(a, S)
<1>0. Rows /\ TypeOK
  BY Parts DEF SInv, IInv, RowsFit
<1>1. PICK a \in Urls, N \in SUBSET Names : a = request[w].url /\ N = request[w].names
  BY <1>0, CarriedShape DEF SaveCommit, Commits
<1>2. PICK r \in UrlRows, f \in [N -> TagRows] :
         /\ r \notin Saved /\ RowFor(f, N)
         /\ \A x \in Saved : url[x] # a
         /\ url' = [url EXCEPT ![r] = a]
         /\ tag' = TagsAfter(f, N)
         /\ Applies(r, {f[s] : s \in N})
  BY <1>1 DEF SaveCommit, FreeRow
<1>3. /\ url'[r] = a /\ Saved' = Saved \union {r}
      /\ \A x \in Saved : url'[x] = url[x] /\ x # r /\ x \in UrlRows
  BY <1>0, <1>2, NullAssumption DEF Rows, Saved
<1>4. /\ \A t \in Vocabulary : tag'[t] = tag[t]
      /\ {tag'[t] : t \in {f[s] : s \in N}} = N /\ Known' = Known \union N
  BY <1>0, <1>2, NamesAfter
<1>5. TagsOn(r)' = {f[s] : s \in N} /\ \A x \in UrlRows \ {r} : TagsOn(x)' = TagsOn(x)
  <2>1. TagsOn(r) = {}
    BY <1>0, <1>2 DEF TagsOn, Rows, AppliedExists
  <2> DEFINE S == {f[s] : s \in N}
  <2>2. S \in SUBSET TagRows /\ Applies(r, S)
    BY <1>2
  <2> HIDE DEF S
  <2>3. TagsOn(r)' = S /\ \A x \in UrlRows \ {r} : TagsOn(x)' = TagsOn(x)
    BY <1>0, <2>1, <2>2, AppliesTo
  <2>4. QED BY <2>3 DEF S
<1>6. Marks(r)' = N
  BY <1>4, <1>5 DEF Marks
<1>7. ASSUME NEW x \in Saved PROVE Marks(x)' = Marks(x)
  <2>1. TagsOn(x)' = TagsOn(x)
    BY <1>3, <1>5
  <2>2. \A t \in TagsOn(x) : tag'[t] = tag[t]
    BY <1>0, <1>4, OnVocabulary
  <2>3. QED BY <2>1, <2>2 DEF Marks
<1>8. /\ DOMAIN Held = Pages /\ Pages' = Pages \union {a} /\ a \notin Pages
      /\ Held' = [x \in Pages' |-> IF x = a THEN N ELSE Held[x]]
  BY <1>0, <1>2, <1>3, <1>6, <1>7, RowChanged
<1>9. Cardinality(N) <= MAX_URL_TAGS
  BY <1>3, <1>6 DEF Limited
<1>10. /\ a \notin DOMAIN Held
       /\ Held' = [x \in DOMAIN Held \union {a} |-> IF x = a THEN N ELSE Held[x]]
  BY <1>8
<1>11. Promise!Save(a, N)
  BY <1>4, <1>9, <1>10, SaveSeen
<1>12. QED BY <1>11

LEMMA MoveIsMove ==
  ASSUME SInv, Rows', NEW w \in Workers, MoveCommit(w)
  PROVE  (\E a, b \in Urls : Promise!Move(a, b)) \/ UNCHANGED Promise!vars
<1>0. Rows /\ TypeOK
  BY Parts DEF SInv, IInv, RowsFit
<1>1. PICK r \in Saved, b \in Urls : r = request[w].row /\ b = request[w].url
  BY <1>0, CarriedShape DEF MoveCommit, Commits
<1>2. /\ r \in UrlRows /\ url' = [url EXCEPT ![r] = b] /\ UNCHANGED <<tag, applied>>
      /\ url[r] \in Urls
  BY <1>0, <1>1 DEF MoveCommit, Saved, Rows
<1>3. /\ url'[r] = b /\ Saved' = Saved
      /\ \A x \in Saved \ {r} : url'[x] = url[x]
  BY <1>0, <1>2, NullAssumption DEF Rows, Saved
<1>4. Known' = Known /\ \A x : Marks(x)' = Marks(x)
  BY <1>2 DEF Known, Vocabulary, Marks, TagsOn
<1>5. CASE url[r] = b
  BY <1>0, <1>3, <1>4, <1>5, PromiseStutter
<1>6. CASE url[r] # b
  <2>1. /\ DOMAIN Held = Pages /\ Pages' = (Pages \ {url[r]}) \union {b}
        /\ url[r] \in Pages /\ b \notin Pages /\ Held[url[r]] = Marks(r)
        /\ Held' = [x \in Pages' |-> IF x = b THEN Marks(r) ELSE Held[x]]
    BY <1>0, <1>3, <1>4, <1>6, RowChanged
  <2>2. PICK a \in Urls : a = url[r]
    BY <1>2
  <2>3. /\ a \in DOMAIN Held /\ b \notin DOMAIN Held
        /\ Held' = [x \in (DOMAIN Held \ {a}) \union {b} |->
                      IF x = b THEN Held[a] ELSE Held[x]]
    BY <2>1, <2>2
  <2>4. Promise!Move(a, b)
    BY <1>4, <2>3, MoveSeen
  <2>5. QED BY <2>4
<1>7. QED BY <1>5, <1>6

LEMMA DropIsForget ==
  ASSUME Rows, Rows', NEW r \in UrlRows, Drop(r)
  PROVE  (\E a \in Urls : Promise!Forget(a)) \/ UNCHANGED Promise!vars
<1>1. /\ Saved' = Saved \ {r} /\ \A x \in Saved \ {r} : url'[x] = url[x]
      /\ tag' = tag /\ applied' = applied \ RowsOn(r)
  BY DEF Drop, Rows, Saved
<1>2. Known' = Known
  BY <1>1 DEF Known, Vocabulary
<1>3. ASSUME NEW x \in Saved, x # r PROVE Marks(x)' = Marks(x)
  <2>1. TagsOn(x)' = TagsOn(x)
    BY <1>1, <1>3 DEF TagsOn, RowsOn
  <2>2. QED BY <1>1, <2>1 DEF Marks
<1>4. CASE r \notin Saved
  BY <1>1, <1>2, <1>3, <1>4, PromiseStutter
<1>5. CASE r \in Saved
  <2>1. View /\ View'
    BY RowsView, RowsViewNext
  <2>2. Pages' = Pages \ {url[r]}
    BY <1>1, <1>5, <2>1 DEF View, Pages
  <2>3. ASSUME NEW a \in Pages' PROVE Held'[a] = Held[a]
    <3>1. PICK x \in Saved' : a = url'[x]
      BY <2>1 DEF View
    <3>2. x \in Saved /\ x # r /\ a = url[x]
      BY <1>1, <3>1
    <3>3. Held'[a] = Marks(x)' /\ Held[a] = Marks(x)
      BY <2>1, <3>1, <3>2 DEF View
    <3>4. QED BY <1>3, <3>2, <3>3
  <2>4. PICK a \in Urls : a = url[r]
    BY <1>5 DEF Rows, Saved
  <2>5. Held' = [x \in DOMAIN Held \ {a} |-> Held[x]]
    BY <2>1, <2>2, <2>3, <2>4 DEF View
  <2>6. Promise!Forget(a)
    BY <1>2, <2>5, ForgetSeen
  <2>7. QED BY <2>6
<1>6. QED BY <1>4, <1>5

\* One tag more, or a batch of them: the names of S on r.
LEMMA TaggedIsTag ==
  ASSUME Rows, Rows', Limited', UNCHANGED url, NEW r \in Saved, NEW S \in SUBSET Names,
         Known' = Known \union S, Marks(r)' = Marks(r) \union S,
         \A x \in Saved \ {r} : Marks(x)' = Marks(x)
  PROVE  \E a \in Urls, T \in SUBSET Names : Promise!Tag(a, T)
<1>1. /\ url[r] \in DOMAIN Held /\ Held[url[r]] = Marks(r)
      /\ Held' = [Held EXCEPT ![url[r]] = Marks(r)']
  BY MarksChanged
<1>2. Cardinality(Marks(r)') <= MAX_URL_TAGS /\ url[r] \in Urls
  BY DEF Limited, Saved, Rows
<1>3. PICK a \in Urls : a = url[r]
  BY <1>2
<1>4. Cardinality(Held[a] \union S) <= MAX_URL_TAGS
  BY <1>1, <1>2, <1>3
<1>5. a \in DOMAIN Held /\ Held' = [Held EXCEPT ![a] = @ \union S]
  BY <1>1, <1>3
<1>6. Promise!Tag(a, S)
  BY <1>4, <1>5, TagSeen
<1>7. QED BY <1>6

LEMMA ApplyIsTag ==
  ASSUME SInv, Rows', Limited', NEW w \in Workers, ApplyCommit(w)
  PROVE  \E a \in Urls, S \in SUBSET Names : Promise!Tag(a, S)
<1>0. Rows /\ TypeOK
  BY Parts DEF SInv, IInv, RowsFit
<1>1. PICK r \in Saved, t \in Vocabulary :
         /\ Applies(r, {t}) /\ UNCHANGED <<url, tag>> /\ r \in UrlRows /\ t \in TagRows
  BY DEF ApplyCommit, Saved, Vocabulary
<1>2. /\ TagsOn(r)' = TagsOn(r) \union {t}
      /\ \A x \in UrlRows \ {r} : TagsOn(x)' = TagsOn(x)
  BY <1>0, <1>1, AppliesTo
<1>3. Marks(r)' = Marks(r) \union {tag[t]} /\ \A x \in Saved \ {r} : Marks(x)' = Marks(x)
  BY <1>1, <1>2 DEF Marks, Saved
<1>4. tag[t] \in Names /\ Known' = Known \union {tag[t]}
  BY <1>0, <1>1 DEF Rows, Vocabulary, Known
<1>5. QED BY <1>0, <1>1, <1>3, <1>4, TaggedIsTag

LEMMA BatchIsTag ==
  ASSUME SInv, Rows', Limited', NEW w \in Workers, BatchCommit(w)
  PROVE  \E a \in Urls, S \in SUBSET Names : Promise!Tag(a, S)
<1>0. Rows /\ TypeOK /\ CarriedStillTrue
  BY Parts DEF SInv, IInv, RowsFit
<1>1. PICK r \in Saved, N \in SUBSET Names : r = request[w].row /\ N = request[w].names
  BY <1>0, CarriedShape DEF BatchCommit, Commits
<1>2. request[w].present = TagsOn(r)
  <2>1. request[w].op = "batch"
    BY DEF BatchCommit, Commits
  <2>2. StillTrue(request[w])
    BY <1>0, <2>1, Carried
  <2>3. QED BY <1>1, <2>1, <2>2 DEF StillTrue
<1>3. PICK f \in [N -> TagRows] :
         /\ RowFor(f, N) /\ tag' = TagsAfter(f, N)
         /\ Applies(r, {f[s] : s \in N} \ TagsOn(r)) /\ url' = url
  BY <1>1, <1>2 DEF BatchCommit
<1>4. /\ \A t \in Vocabulary : tag'[t] = tag[t]
      /\ {tag'[t] : t \in {f[s] : s \in N}} = N /\ Known' = Known \union N
  BY <1>0, <1>3, NamesAfter
<1> DEFINE S == {f[s] : s \in N}
<1>5. r \in UrlRows /\ S \in SUBSET TagRows
  BY DEF Saved
<1>6. Applies(r, S \ TagsOn(r)) /\ {tag'[t] : t \in S} = N
  BY <1>3, <1>4
<1> HIDE DEF S
<1>7. /\ TagsOn(r)' = TagsOn(r) \union (S \ TagsOn(r))
      /\ \A x \in UrlRows \ {r} : TagsOn(x)' = TagsOn(x)
  BY <1>0, <1>5, <1>6, AppliesTo
<1>8. TagsOn(r)' = TagsOn(r) \union S
  BY <1>7
<1>9. \A x : \A t \in TagsOn(x) : tag'[t] = tag[t]
  BY <1>0, <1>4, OnVocabulary
<1>10. Marks(r)' = Marks(r) \union N
  <2>1. {tag'[t] : t \in TagsOn(r)} = Marks(r)
    BY <1>9 DEF Marks
  <2>2. Marks(r)' = {tag'[t] : t \in TagsOn(r)} \union {tag'[t] : t \in S}
    BY <1>8 DEF Marks
  <2>3. QED BY <1>6, <2>1, <2>2
<1>11. ASSUME NEW x \in Saved \ {r} PROVE Marks(x)' = Marks(x)
  BY <1>7, <1>9 DEF Marks, Saved
<1>12. QED BY <1>0, <1>3, <1>4, <1>10, <1>11, TaggedIsTag

LEMMA CoinIsCoin ==
  ASSUME SInv, Rows', NEW w \in Workers, CoinCommit(w)
  PROVE  \E s \in Names : Promise!Coin(s)
<1>0. Rows /\ TypeOK
  BY Parts DEF SInv, IInv, RowsFit
<1>1. PICK s \in Names : s = request[w].name
  BY <1>0, CarriedShape DEF CoinCommit, Commits
<1>2. PICK f \in [{s} -> TagRows] :
         RowFor(f, {s}) /\ tag' = TagsAfter(f, {s}) /\ UNCHANGED <<url, applied>>
  BY <1>1 DEF CoinCommit
<1>3. Known' = Known \union {s} /\ \A t \in Vocabulary : tag'[t] = tag[t]
  BY <1>0, <1>2, NamesAfter
<1>4. \A x : Marks(x)' = Marks(x)
  BY <1>0, <1>2, <1>3, OnVocabulary DEF Marks, TagsOn
<1>5. Held' = Held
  BY <1>0, <1>2, <1>4, SameMarks
<1>6. QED BY <1>3, <1>5, CoinSeen

\* Part of the read of a single tag: its name is coined, unless it is known.
LEMMA ApplyReadIsCoin ==
  ASSUME SInv, Rows', NEW w \in Workers, NEW r \in UrlRows, NEW s \in Names, ApplyRead(w, r, s)
  PROVE  \E x \in Names : Promise!Coin(x)
<1>0. Rows /\ TypeOK
  BY Parts DEF SInv, IInv, RowsFit
<1>1. PICK t \in TagRows : /\ tag[t] = s \/ tag[t] = Null
                           /\ tag' = [tag EXCEPT ![t] = s] /\ UNCHANGED <<url, applied>>
  BY DEF ApplyRead, RowFor, FreeTag, Vocabulary
<1>2. /\ \A x \in TagRows : tag'[x] = IF x = t THEN s ELSE tag[x]
      /\ s # Null
  BY <1>0, <1>1, NullAssumption DEF Rows
<1>3. /\ Known' = Known \union {s} /\ \A x \in Vocabulary : tag'[x] = tag[x]
  BY <1>1, <1>2 DEF Known, Vocabulary
<1>4. \A x : Marks(x)' = Marks(x)
  BY <1>0, <1>1, <1>3, OnVocabulary DEF Marks, TagsOn
<1>5. Held' = Held
  BY <1>0, <1>1, <1>4, SameMarks
<1>6. QED BY <1>3, <1>5, CoinSeen

LEMMA UntagIsUntag ==
  ASSUME SInv, Rows', NEW w \in Workers, UntagCommit(w)
  PROVE  \E a \in Urls, s \in Names : Promise!Untag(a, s)
<1>0. Rows /\ TypeOK /\ CarriedStillTrue /\ WithinTagLimit
  BY Parts DEF SInv, IInv, RowsFit
<1>1. PICK r \in UrlRows, t \in TagRows, n \in Copies :
         r = request[w].row /\ t = request[w].tag /\ n = request[w].copy
  BY <1>0, CarriedShape DEF UntagCommit, Commits
<1>2. <<r, t, n>> \in applied
  <2>1. request[w].op = "untag"
    BY DEF UntagCommit, Commits
  <2>2. StillTrue(request[w])
    BY <1>0, <2>1, Carried
  <2>3. QED BY <1>1, <2>1, <2>2 DEF StillTrue
<1>3. r \in Saved /\ t \in Vocabulary /\ t \in TagsOn(r)
  BY <1>0, <1>2 DEF Rows, AppliedExists, TagsOn
<1>4. applied' = applied \ {<<r, t, n>>} /\ UNCHANGED <<url, tag>>
  BY <1>1 DEF UntagCommit
<1>5. ASSUME NEW m \in Copies, <<r, t, m>> \in applied PROVE m = n
  <2>1. <<r, t, m>> = <<r, t, n>>
    BY <1>0, <1>2, <1>5 DEF WithinTagLimit
  <2>2. QED BY <2>1
<1>6. TagsOn(r)' = TagsOn(r) \ {t} /\ \A x \in UrlRows \ {r} : TagsOn(x)' = TagsOn(x)
  BY <1>4, <1>5 DEF TagsOn
<1>7. \A x \in TagsOn(r) : tag[x] = tag[t] => x = t
  BY <1>0, <1>3, OnVocabulary DEF Rows, EachOnce
<1>8. Marks(r)' = Marks(r) \ {tag[t]} /\ \A x \in Saved \ {r} : Marks(x)' = Marks(x)
  BY <1>4, <1>6, <1>7 DEF Marks, Saved
<1>9. /\ url[r] \in DOMAIN Held /\ Held[url[r]] = Marks(r)
      /\ Held' = [Held EXCEPT ![url[r]] = Marks(r)']
  BY <1>0, <1>3, <1>4, <1>8, MarksChanged
<1>10. PICK a \in Urls, s \in Names : a = url[r] /\ s = tag[t]
  BY <1>0, <1>3 DEF Rows, Saved, Vocabulary
<1>11. a \in DOMAIN Held /\ Held' = [Held EXCEPT ![a] = @ \ {s}]
  BY <1>8, <1>9, <1>10
<1>12. Known' = Known
  BY <1>4 DEF Known, Vocabulary
<1>13. QED BY <1>11, <1>12, UntagSeen

LEMMA RetireIsRetire ==
  ASSUME Rows, Rows', NEW t \in TagRows, Retire(t)
  PROVE  (\E s \in Names : Promise!Retire(s)) \/ UNCHANGED Promise!vars
<1>1. /\ \A x \in TagRows : tag'[x] = IF x = t THEN Null ELSE tag[x]
      /\ Vocabulary' = Vocabulary \ {t} /\ Saved' = Saved /\ url' = url
      /\ applied' = applied \ RowsOf(t)
  BY DEF Retire, Rows, Saved, Vocabulary
<1>2. \A x : TagsOn(x)' = TagsOn(x) \ {t}
  BY <1>1 DEF TagsOn, RowsOf
<1>3. \A x \in TagRows \ {t} : tag'[x] = tag[x]
  BY <1>1
<1>4. ASSUME NEW x PROVE Marks(x)' = {tag[y] : y \in TagsOn(x) \ {t}}
  <2>1. \A y \in TagsOn(x) \ {t} : tag'[y] = tag[y]
    BY <1>3 DEF TagsOn
  <2>2. QED BY <1>2, <2>1 DEF Marks
<1>5. Known' = {tag[y] : y \in Vocabulary \ {t}}
  <2>1. \A y \in Vocabulary \ {t} : tag'[y] = tag[y]
    BY <1>3 DEF Vocabulary
  <2>2. QED BY <1>1, <2>1 DEF Known
<1>6. CASE t \notin Vocabulary
  <2>1. Known' = Known
    BY <1>5, <1>6 DEF Known
  <2>2. ASSUME NEW x \in Saved PROVE url'[x] = url[x] /\ Marks(x)' = Marks(x)
    <3>1. TagsOn(x) \ {t} = TagsOn(x)
      BY <1>6, OnVocabulary
    <3>2. QED BY <1>1, <1>4, <3>1 DEF Marks
  <2>3. QED BY <1>1, <2>1, <2>2, PromiseStutter
<1>7. CASE t \in Vocabulary
  <2>1. PICK s \in Names : s = tag[t]
    BY <1>7 DEF Rows, Vocabulary
  <2>2. \A y \in Vocabulary : tag[y] = s => y = t
    BY <1>7, <2>1 DEF Rows, EachOnce
  <2>3. Known' = Known \ {s}
    BY <1>5, <2>1, <2>2 DEF Known
  <2>4. ASSUME NEW x \in Saved PROVE Marks(x)' = Marks(x) \ {s}
    <3>1. \A y \in TagsOn(x) : tag[y] = s <=> y = t
      BY <2>1, <2>2, OnVocabulary
    <3>2. QED BY <1>4, <3>1 DEF Marks
  <2>5. View /\ View'
    BY RowsView, RowsViewNext
  <2>6. Pages' = Pages
    BY <1>1 DEF Pages
  <2>7. ASSUME NEW a \in Pages PROVE Held'[a] = Held[a] \ {s}
    <3>1. PICK x \in Saved : a = url[x]
      BY <2>5 DEF View
    <3>2. x \in Saved' /\ a = url'[x]
      BY <1>1, <3>1
    <3>3. Held'[a] = Marks(x)' /\ Held[a] = Marks(x)
      BY <2>5, <3>1, <3>2 DEF View
    <3>4. QED BY <2>4, <3>3
  <2>8. Held' = [a \in DOMAIN Held |-> Held[a] \ {s}]
    BY <2>5, <2>6, <2>7 DEF View
  <2>9. QED BY <2>3, <2>8, RetireSeen
<1>8. QED BY <1>6, <1>7

LEMMA DeletionIsClear == ASSUME DeleteUtub PROVE Promise!Clear
<1>1. Saved' = {} /\ Vocabulary' = {}
  BY DEF DeleteUtub, Saved, Vocabulary
<1>2. Known' = {} /\ Held' = [a \in {} |-> {}]
  BY <1>1 DEF Known, Held
<1>3. QED BY <1>2, ClearSeen

-----------------------------------------------------------------------------
LEMMA InitPromise == Init => Promise!Init
<1> SUFFICES ASSUME Init PROVE Promise!Init
  OBVIOUS
<1>1. Saved = {} /\ Vocabulary = {}
  BY DEF Init, Saved, Vocabulary
<1>2. Known = {} /\ Held = [a \in {} |-> {}]
  BY <1>1 DEF Known, Held
<1>3. QED BY <1>2 DEF Promise!Init, Known, Held

LEMMA StepPromise == SInv /\ SInv' /\ [SerialNext]_vars => [Promise!Next]_(Promise!vars)
<1> SUFFICES ASSUME SInv, SInv', [SerialNext]_vars
             PROVE  Promise!Next \/ UNCHANGED Promise!vars
  OBVIOUS
<1>0. Rows /\ TypeOK
  BY Parts DEF SInv, IInv, RowsFit
<1>a. Rows'
  BY PartsNext DEF SInv
<1>b. Limited'
  BY <1>a, AllLimitedNext DEF SInv
<1>1. ASSUME UNCHANGED contents PROVE UNCHANGED Promise!vars
  <2>1. /\ Saved' = Saved /\ Known' = Known
        /\ \A r \in Saved : url'[r] = url[r] /\ Marks(r)' = Marks(r)
    BY <1>1 DEF contents, Saved, Known, Vocabulary, Marks, TagsOn
  <2>2. QED BY <1>0, <1>a, <2>1, PromiseStutter
<1>2. ASSUME NEW w \in Workers, Arrive(w) PROVE Promise!Next \/ UNCHANGED Promise!vars
  <2>1. CASE \E r \in UrlRows, s \in Names : ApplyRead(w, r, s)
    BY <1>a, <2>1, ApplyReadIsCoin DEF Promise!Next
  <2>2. CASE ~\E r \in UrlRows, s \in Names : ApplyRead(w, r, s)
    <3>1. UNCHANGED contents
      BY <1>2, <2>2 DEF Arrive, SaveRead, MoveRead, DropRead, PurgeRead, BatchRead,
         CoinRead, UntagRead, RetireRead, Read
    <3>2. QED BY <1>1, <3>1
  <2>3. QED BY <2>1, <2>2
<1>3. ASSUME NEW w \in Workers, Complete(w) PROVE Promise!Next \/ UNCHANGED Promise!vars
  <2>1. CASE SaveCommit(w)
    BY <1>a, <1>b, <2>1, SaveIsSave DEF Promise!Next
  <2>2. CASE MoveCommit(w)
    BY <1>a, <2>2, MoveIsMove DEF Promise!Next
  <2>3. CASE DropCommit(w) \/ PurgeCommit(w)
    <3>1. PICK r \in UrlRows : r = request[w].row
      BY <1>0, <2>3, CarriedShape DEF DropCommit, PurgeCommit, Commits
    <3>2. Drop(r)
      BY <2>3, <3>1 DEF DropCommit, PurgeCommit, Drop
    <3>3. QED BY <1>0, <1>a, <3>2, DropIsForget DEF Promise!Next
  <2>4. CASE ApplyCommit(w) \/ BatchCommit(w)
    BY <1>a, <1>b, <2>4, ApplyIsTag, BatchIsTag DEF Promise!Next
  <2>5. CASE CoinCommit(w)
    BY <1>a, <2>5, CoinIsCoin DEF Promise!Next
  <2>6. CASE UntagCommit(w)
    BY <1>a, <2>6, UntagIsUntag DEF Promise!Next
  <2>7. CASE RetireCommit(w)
    <3>1. PICK t \in TagRows : t = request[w].tag
      BY <1>0, <2>7, CarriedShape DEF RetireCommit, Commits
    <3>2. Retire(t)
      BY <2>7, <3>1 DEF RetireCommit, Retire
    <3>3. QED BY <1>0, <1>a, <3>2, RetireIsRetire DEF Promise!Next
  <2>8. CASE Fail(w)
    BY <1>1, <2>8 DEF Fail
  <2>9. QED BY <1>3, <2>1, <2>2, <2>3, <2>4, <2>5, <2>6, <2>7, <2>8 DEF Complete
<1>4. CASE AtOnce
  <2>1. ASSUME NEW r \in UrlRows, AdminDrop(r) PROVE Promise!Next \/ UNCHANGED Promise!vars
    <3>1. Drop(r)
      BY <2>1 DEF AdminDrop
    <3>2. QED BY <1>0, <1>a, <3>1, DropIsForget DEF Promise!Next
  <2>2. ASSUME NEW t \in TagRows, AdminRetire(t) PROVE Promise!Next \/ UNCHANGED Promise!vars
    <3>1. Retire(t)
      BY <2>2 DEF AdminRetire
    <3>2. QED BY <1>0, <1>a, <3>1, RetireIsRetire DEF Promise!Next
  <2>3. CASE DeleteUtub
    BY <2>3, DeletionIsClear DEF Promise!Next
  <2>4. CASE Lock \/ Unlock \/ \E a \in Urls : Catalogue(a)
    BY <1>1, <2>4 DEF Lock, Unlock, Catalogue
  <2>5. QED BY <1>4, <2>1, <2>2, <2>3, <2>4 DEF AtOnce
<1>5. CASE UNCHANGED vars
  BY <1>1, <1>5 DEF vars
<1>6. QED BY <1>2, <1>3, <1>4, <1>5 DEF SerialNext

\* Served one at a time, the requests implement Bookmarks: a set of URLs, each
\* once, each with at most so many of the tags the UTub knows.
THEOREM SerialKeepsPromise == SerialSpec => KeepsPromise
<1>1. SerialSpec => Promise!Spec
  BY InitPromise, StepPromise, SerialInvariance, PTL DEF SerialSpec, Promise!Spec
<1>2. QED BY <1>1 DEF KeepsPromise
=============================================================================
