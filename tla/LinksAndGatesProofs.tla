------------------------ MODULE LinksAndGatesProofs -------------------------
(***************************************************************************)
(* Theorems about EmailLinks, for any number of tokens and any waits and   *)
(* limits with Minute < Hour < Day, and about RequestGates.                *)
(*                                                                         *)
(* IInv says that the token in a row is none of the dead, and that the     *)
(* attempts in a row of EmailValidations are not fewer than the e-mails of *)
(* the last hour, none of which is younger than its last attempt.          *)
(*                                                                         *)
(* A decorator is a sequence of tests.  The lemmas about the gates say     *)
(* what a sequence built of others lets through and how it refuses; the    *)
(* decorators of both surfaces are then built of the same tests, and the   *)
(* table of the routes pairs them.  GatesInv says that the stored answer   *)
(* is "yes" for a validated address only, and that a gate would give its   *)
(* last answer again.                                                      *)
(***************************************************************************)
EXTENDS EmailLinks, RequestGates, FiniteSetTheorems, WellFoundedInduction, TLAPS

RowsAlive ==
    /\ confirm.token \notin dead /\ forgot.token \notin dead
    /\ confirm.token = forgot.token => confirm.token = None

\* What is counted, and since when.  The time of the last attempt is read
\* modulo a Day, but by then no e-mail of the last hour is left.
Counting ==
    /\ HourlyLimit
    /\ confirm # NoRow =>
          /\ confirm.last = None => confirm.attempts = 0 /\ recent = {}
          /\ confirm.last # None => /\ Cardinality(recent) <= confirm.attempts
                                    /\ \A a \in recent : confirm.last <= a

IInv == EmailTypeOK /\ RowsAlive /\ LinksWorkOnce /\ Counting

-----------------------------------------------------------------------------
LEMMA Numbers ==
  /\ Minute \in Nat /\ Hour \in Nat /\ Day \in Nat /\ MaxMails \in Nat /\ MaxResets \in Nat
  /\ MaxMails > 0 /\ MaxResets > 0 /\ Hour > 0 /\ Hour < Day /\ None \notin Nat /\ None \notin Tokens
BY WaitsAssumption

LEMMA RowShape ==
  ASSUME EmailTypeOK
  PROVE  /\ confirm # NoRow => confirm \in EmailValidation /\ confirm.token \in Tokens
         /\ forgot # NoRow => forgot \in ForgotPassword /\ forgot.token \in Tokens
         /\ NoRow.token = None /\ None \notin Tokens /\ None \notin dead
         /\ confirm.token = None <=> confirm = NoRow
         /\ forgot.token = None <=> forgot = NoRow
BY Numbers DEF EmailTypeOK, EmailValidation, ForgotPassword, NoRow

LEMMA RecentFinite ==
  ASSUME NEW S, S \subseteq 0 .. Hour - 1
  PROVE  IsFiniteSet(S) /\ Cardinality(S) \in Nat /\ Cardinality({}) = 0
<1>1. IsFiniteSet(0 .. Hour - 1)
  BY Numbers, FS_Interval
<1>2. IsFiniteSet(S)
  BY <1>1, FS_Subset
<1>3. QED BY <1>2, FS_CardinalityType, FS_EmptySet

\* Where nothing is counted afresh, a count only goes with its row.
LEMMA CountingKept ==
  ASSUME Counting, recent' = recent, confirm' = confirm \/ confirm' = NoRow
  PROVE  Counting'
BY DEF Counting, HourlyLimit

\* A row begins with nothing counted.
LEMMA CountingBegins ==
  ASSUME recent' = {}, NEW t, confirm' = [token |-> t, attempts |-> 0, last |-> None]
  PROVE  Counting'
<1>1. Cardinality({}) = 0
  BY FS_EmptySet
<1>2. QED BY <1>1, Numbers DEF Counting, HourlyLimit

LEMMA LinkType ==
  ASSUME link \in [Tokens -> Link], NEW t \in Tokens, NEW kind \in {"validate", "reset"}
  PROVE  [link EXCEPT ![t] = FreshLink(kind)] \in [Tokens -> Link]
BY Numbers DEF Link, FreshLink

\* What writing to a row leaves of it.
LEMMA AttemptRecorded ==
  ASSUME NEW r \in EmailValidation, NEW n \in 0 .. MaxMails, NEW x \in Ages \union {None}
  PROVE  LET q == [r EXCEPT !.attempts = n, !.last = x] IN
         q \in EmailValidation /\ q.token = r.token
BY DEF EmailValidation

LEMMA ResetRecorded ==
  ASSUME NEW r \in ForgotPassword, NEW n \in 0 .. MaxResets, NEW x \in Ages \union {None}
  PROVE  LET q == [r EXCEPT !.attempts = n, !.last = x] IN
         q \in ForgotPassword /\ q.token = r.token
BY DEF ForgotPassword

LEMMA Zero ==
  /\ 0 \in Ages /\ 0 \in Ages \union {None} /\ 0 \in 0 .. MaxResets /\ 1 \in 0 .. MaxResets /\ 1 \in 0 .. MaxMails
  /\ \A t \in Tokens : NewRow(t) \in ForgotPassword /\ NewRow(t).token = t
BY Numbers DEF Ages, NewRow, ForgotPassword

LEMMA InitIInv == EmailInit => IInv
<1> SUFFICES ASSUME EmailInit PROVE IInv
  OBVIOUS
<1> USE Numbers
<1>1. PICK t \in Tokens : confirm = [token |-> t, attempts |-> 0, last |-> None]
  BY DEF EmailInit
<1>2. confirm \in EmailValidation
  BY <1>1 DEF EmailValidation
<1>3. link \in [Tokens -> Link]
  BY DEF EmailInit, Link, FreshLink
<1>4. EmailTypeOK
  BY <1>2, <1>3 DEF EmailInit, EmailTypeOK
<1>5. RowsAlive /\ LinksWorkOnce
  BY <1>1 DEF EmailInit, RowsAlive, LinksWorkOnce, NoRow
<1>6. Counting
  BY <1>1, FS_EmptySet DEF EmailInit, Counting, HourlyLimit
<1>7. QED BY <1>4, <1>5, <1>6 DEF IInv

-----------------------------------------------------------------------------
(* The links to validate an address.                                       *)
LEMMA SendKeeps == ASSUME IInv, SendValidation PROVE IInv'
<1> USE Numbers
<1>0. /\ confirm \in EmailValidation /\ confirm.token \in Tokens /\ confirm # NoRow
      /\ recent \subseteq 0 .. Hour - 1 /\ recent' = recent \union {0}
      /\ UNCHANGED <<status, validated, forgot, link, dead, misused>>
      /\ inbox' \in {inbox, inbox \union {confirm.token}}
  BY RowShape DEF IInv, SendValidation, EmailTypeOK, Delivery
<1>1. /\ confirm.attempts \in 0 .. MaxMails /\ confirm.last \in Ages \union {None}
      /\ confirm.last = None => confirm.attempts = 0 /\ recent = {}
      /\ confirm.last # None => /\ Cardinality(recent) <= confirm.attempts
                                /\ \A a \in recent : confirm.last <= a
  BY <1>0 DEF IInv, Counting, EmailValidation
<1>a. confirm' = [Counted(confirm) EXCEPT !.attempts = @ + 1, !.last = 0]
  BY DEF SendValidation
<1>b. ~TooMany(confirm)
  BY DEF SendValidation
<1> DEFINE n == Counted(confirm).attempts + 1
<1>2. /\ confirm' \in EmailValidation /\ confirm'.token = confirm.token /\ confirm'.last = 0
      /\ confirm'.attempts = n /\ n \in 1 .. MaxMails /\ Cardinality(recent) < n
  <2>1. CASE confirm.last # None /\ confirm.attempts >= MaxMails
    <3>1. confirm.last \in Nat /\ confirm.last >= Hour
      BY <1>1, <1>b, <2>1 DEF TooMany, Ages
    <3>2. recent = {}
      BY <1>0, <1>1, <2>1, <3>1
    <3>3. Counted(confirm) = [confirm EXCEPT !.attempts = 0]
      BY <2>1, <3>1 DEF Counted
    <3> DEFINE r == Counted(confirm)
    <3>4. r \in EmailValidation /\ r.token = confirm.token /\ r.attempts = 0
      BY <1>0, <3>3 DEF EmailValidation
    <3>5. confirm' = [r EXCEPT !.attempts = r.attempts + 1, !.last = 0] /\ n = r.attempts + 1
      BY <1>a
    <3> HIDE DEF r, n
    <3>6. confirm' = [r EXCEPT !.attempts = 1, !.last = 0] /\ n = 1
      BY <3>4, <3>5
    <3>7. /\ confirm' \in EmailValidation /\ confirm'.token = confirm.token
          /\ confirm'.last = 0 /\ confirm'.attempts = 1
      <4>1. r \in EmailValidation /\ r.token = confirm.token
        BY <3>4
      <4>2. confirm' \in EmailValidation /\ confirm'.token = r.token
        BY <3>6, <4>1, AttemptRecorded, Zero
      <4>3. confirm'.attempts = 1 /\ confirm'.last = 0
        BY <3>6, <4>1 DEF EmailValidation
      <4>4. QED BY <4>1, <4>2, <4>3
    <3>8. Cardinality(recent) = 0
      BY <3>2, FS_EmptySet
    <3>9. QED BY <3>6, <3>7, <3>8
  <2>2. CASE ~(confirm.last # None /\ confirm.attempts >= MaxMails)
    <3>1. Counted(confirm) = confirm
      BY <2>2 DEF Counted
    <3>2. confirm' = [confirm EXCEPT !.attempts = @ + 1, !.last = 0]
      BY <1>a, <3>1
    <3>3. confirm.attempts < MaxMails
      BY <1>1, <2>2
    <3> DEFINE m == confirm.attempts + 1
    <3>a. m \in 0 .. MaxMails /\ confirm' = [confirm EXCEPT !.attempts = m, !.last = 0]
      BY <1>1, <3>2, <3>3
    <3> HIDE DEF m
    <3>b. /\ confirm' \in EmailValidation /\ confirm'.token = confirm.token
          /\ confirm'.last = 0 /\ confirm'.attempts = m
      <4>1. confirm \in EmailValidation
        BY <1>0
      <4>2. confirm' \in EmailValidation /\ confirm'.token = confirm.token
        BY <3>a, <4>1, AttemptRecorded, Zero
      <4>3. confirm'.attempts = m /\ confirm'.last = 0
        BY <3>a, <4>1 DEF EmailValidation
      <4>4. QED BY <4>2, <4>3
    <3>4. /\ confirm' \in EmailValidation /\ confirm'.token = confirm.token
          /\ confirm'.last = 0 /\ confirm'.attempts = confirm.attempts + 1
      BY <3>b DEF m
    <3>5. Cardinality(recent) \in Nat /\ Cardinality({}) = 0
      BY <1>0, RecentFinite
    <3>6. Cardinality(recent) <= confirm.attempts
      BY <1>1, <3>5
    <3>7. QED BY <1>1, <3>1, <3>3, <3>4, <3>5, <3>6
  <2>3. QED BY <2>1, <2>2
<1> HIDE DEF n
<1>3. recent' \subseteq 0 .. Hour - 1
  BY <1>0
<1>4. EmailTypeOK'
  BY <1>0, <1>2, <1>3 DEF IInv, EmailTypeOK
<1>5. RowsAlive' /\ LinksWorkOnce'
  BY <1>0, <1>2 DEF IInv, RowsAlive, LinksWorkOnce
<1>6. Cardinality(recent') <= n
  <2>1. IsFiniteSet(recent) /\ Cardinality(recent) \in Nat
    BY <1>0, RecentFinite
  <2>2. Cardinality(recent') <= Cardinality(recent) + 1
    <3>1. recent' = recent \union {0}
      BY <1>0
    <3>2. Cardinality(recent \union {0}) \in {Cardinality(recent), Cardinality(recent) + 1}
      BY <2>1, FS_AddElement
    <3>3. QED BY <2>1, <3>1, <3>2
  <2>3. Cardinality(recent') \in Nat
    BY <1>3, RecentFinite
  <2>4. QED BY <1>2, <2>1, <2>2, <2>3
<1>7. Counting'
  <2>1. Cardinality(recent') \in Nat
    BY <1>3, RecentFinite
  <2>2. HourlyLimit'
    BY <1>2, <1>6, <2>1 DEF HourlyLimit
  <2>3. \A a \in recent' : 0 <= a
    BY <1>3
  <2>4. QED BY <1>2, <1>6, <2>2, <2>3 DEF Counting
<1>8. QED BY <1>4, <1>5, <1>7 DEF IInv

LEMMA OpenValidationKeeps ==
  ASSUME IInv, NEW t \in Tokens, RemoveUser(t) \/ ValidateEmail(t) \/ OpenExpiredLink(t)
  PROVE  IInv'
<1> USE Numbers, RowShape
<1>0. confirm.token = t /\ t \notin dead /\ forgot.token # t
  BY DEF RemoveUser, ValidateEmail, OpenExpiredLink, IInv, RowsAlive
<1>1. CASE RemoveUser(t) \/ ValidateEmail(t)
  <2>1. /\ confirm' = NoRow /\ dead' = dead \union {t} /\ misused' = misused
        /\ UNCHANGED <<forgot, link, inbox, recent>>
        /\ status' \in {"live", "erased", "removed"} /\ validated' \in BOOLEAN
    BY <1>0, <1>1 DEF RemoveUser, ValidateEmail, IInv, LinksWorkOnce, EmailTypeOK
  <2>2. EmailTypeOK'
    BY <2>1 DEF IInv, EmailTypeOK
  <2>3. RowsAlive' /\ LinksWorkOnce'
    BY <1>0, <2>1 DEF IInv, RowsAlive, LinksWorkOnce, NoRow
  <2>4. QED BY <2>1, <2>2, <2>3, CountingKept DEF IInv
<1>2. CASE OpenExpiredLink(t)
  <2>1. PICK fresh \in Tokens :
           /\ Signs(fresh, "validate", confirm)
           /\ confirm' = [token |-> fresh, attempts |-> 0, last |-> None]
           /\ recent' = {} /\ UNCHANGED <<status, validated, forgot, inbox, misused>>
    BY <1>2 DEF OpenExpiredLink
  <2>2. /\ fresh # confirm.token /\ fresh # forgot.token
        /\ link' = [link EXCEPT ![fresh] = FreshLink("validate")]
        /\ dead' = (dead \union {confirm.token}) \ {fresh, None}
    BY <2>1 DEF Signs, Unused
  <2>3. EmailTypeOK'
    <3>1. confirm' \in EmailValidation
      BY <2>1 DEF EmailValidation
    <3>2. link' \in [Tokens -> Link]
      BY <2>2, LinkType DEF IInv, EmailTypeOK
    <3>3. dead' \subseteq Tokens
      BY <1>0, <2>2 DEF IInv, EmailTypeOK
    <3>4. QED BY <2>1, <3>1, <3>2, <3>3 DEF IInv, EmailTypeOK
  <2>4. RowsAlive' /\ LinksWorkOnce'
    BY <1>0, <2>1, <2>2 DEF IInv, RowsAlive, LinksWorkOnce
  <2>5. QED BY <2>1, <2>3, <2>4, CountingBegins DEF IInv
<1>3. QED BY <1>1, <1>2

-----------------------------------------------------------------------------
(* The links to reset a password.                                          *)

\* A step that takes a row of ForgotPasswords away, or leaves it.
LEMMA DropKeeps ==
  ASSUME IInv, NEW t \in Tokens, forgot.token = t,
         forgot' = NoRow, dead' = dead \union {t}, misused' = misused,
         UNCHANGED <<status, validated, confirm, link, inbox, recent>>
  PROVE  IInv'
<1>1. EmailTypeOK'
  BY DEF IInv, EmailTypeOK
<1>2. RowsAlive' /\ LinksWorkOnce'
  BY RowShape DEF IInv, RowsAlive, LinksWorkOnce, NoRow
<1>3. QED BY <1>1, <1>2, CountingKept DEF IInv

LEMMA OpenResetKeeps ==
  ASSUME IInv, NEW t \in Tokens, DropExpired(t) \/ DropUnvalidated(t) \/ ResetPassword(t)
  PROVE  IInv'
<1>1. t \notin dead
  BY DEF DropExpired, DropUnvalidated, ResetPassword, IInv, RowsAlive
<1>2. misused' = misused
  BY <1>1 DEF DropExpired, DropUnvalidated, ResetPassword, IInv, LinksWorkOnce, EmailTypeOK
<1>3. QED BY <1>2, DropKeeps DEF DropExpired, DropUnvalidated, ResetPassword

\* A step that signs a new token t for the row of ForgotPasswords.
LEMMA ForgotSigned ==
  ASSUME IInv, NEW t \in Tokens, Signs(t, "reset", forgot),
         forgot' \in ForgotPassword, forgot'.token = t,
         inbox' \in {inbox, inbox \union {t}},
         UNCHANGED <<status, validated, confirm, misused, recent>>
  PROVE  IInv'
<1> USE RowShape
<1>1. /\ t # confirm.token /\ t # forgot.token /\ t # None
      /\ link' = [link EXCEPT ![t] = FreshLink("reset")]
      /\ dead' = (dead \union {forgot.token}) \ {t, None}
  BY Numbers DEF Signs, Unused
<1>2. link' \in [Tokens -> Link]
  BY <1>1, LinkType DEF IInv, EmailTypeOK
<1>3. dead' \subseteq Tokens
  BY <1>1 DEF IInv, EmailTypeOK
<1>4. EmailTypeOK'
  BY <1>2, <1>3 DEF IInv, EmailTypeOK
<1>5. RowsAlive' /\ LinksWorkOnce'
  BY <1>1 DEF IInv, RowsAlive, LinksWorkOnce
<1>6. QED BY <1>4, <1>5, CountingKept DEF IInv

LEMMA ForgotKeeps == ASSUME IInv, ForgotPasswordRequest PROVE IInv'
<1> USE Numbers
<1>1. /\ UNCHANGED <<status, validated, confirm, misused, recent>>
      /\ inbox' \in {inbox, inbox \union {forgot'.token}}
  BY DEF ForgotPasswordRequest, Delivery
<1>2. CASE forgot = NoRow \/ (~Limited(forgot) /\ HourOld(forgot))
  <2>1. PICK t \in Tokens : /\ Signs(t, "reset", forgot)
                            /\ forgot' = [NewRow(t) EXCEPT !.attempts = 1, !.last = 0]
    BY <1>2 DEF ForgotPasswordRequest, CreateOrReset
  <2>2. forgot' \in ForgotPassword /\ forgot'.token = t
    BY <2>1, Zero, ResetRecorded
  <2>3. QED BY <1>1, <2>1, <2>2, ForgotSigned
<1>3. CASE ~(forgot = NoRow \/ (~Limited(forgot) /\ HourOld(forgot)))
  <2>1. /\ ~Limited(forgot) /\ UNCHANGED <<link, dead>>
        /\ forgot' = [forgot EXCEPT !.attempts = @ + 1, !.last = 0]
    BY <1>3 DEF ForgotPasswordRequest, CreateOrReset
  <2>2. forgot \in ForgotPassword /\ forgot.token \in Tokens
    BY <1>3, RowShape DEF IInv
  <2>3. forgot.attempts \in 0 .. MaxResets /\ forgot.attempts < MaxResets
    BY <2>1, <2>2 DEF Limited, ForgotPassword
  <2>4. forgot' \in ForgotPassword /\ forgot'.token = forgot.token
    <3> DEFINE m == forgot.attempts + 1
    <3>1. m \in 0 .. MaxResets /\ forgot' = [forgot EXCEPT !.attempts = m, !.last = 0]
      BY <2>1, <2>3
    <3> HIDE DEF m
    <3>2. QED BY <2>2, <3>1, ResetRecorded, Zero
  <2>5. EmailTypeOK'
    BY <1>1, <2>1, <2>2, <2>4 DEF IInv, EmailTypeOK
  <2>6. RowsAlive' /\ LinksWorkOnce'
    BY <1>1, <2>1, <2>4 DEF IInv, RowsAlive, LinksWorkOnce
  <2>7. QED BY <1>1, <2>5, <2>6, CountingKept DEF IInv
<1>4. QED BY <1>2, <1>3

-----------------------------------------------------------------------------
(* The admin's buttons.                                                    *)
LEMMA ForceResetKeeps ==
  ASSUME IInv, NEW t \in Tokens, ForcePasswordReset(t)
  PROVE  IInv'
<1> USE Numbers
<1>1. forgot' \in ForgotPassword /\ forgot'.token = t
  <2>1. CASE forgot = NoRow
    <3>1. forgot' = NewRow(t)
      BY <2>1 DEF ForcePasswordReset
    <3>2. QED BY <3>1, Zero
  <2>2. CASE forgot # NoRow
    <3>1. forgot' = [forgot EXCEPT !.token = t, !.attempts = 0, !.initial = 0]
      BY <2>2 DEF ForcePasswordReset
    <3>2. forgot \in ForgotPassword
      BY <2>2, RowShape DEF IInv
    <3> DEFINE n == 0  x == 0
    <3>3. n \in 0 .. MaxResets /\ x \in Ages
      BY Zero
    <3>4. forgot' = [forgot EXCEPT !.token = t, !.attempts = n, !.initial = x]
      BY <3>1
    <3> HIDE DEF n, x
    <3>5. QED BY <3>2, <3>3, <3>4 DEF ForgotPassword
  <2>3. QED BY <2>1, <2>2
<1>2. QED BY <1>1, ForgotSigned DEF ForcePasswordReset, Delivery

LEMMA ResendKeeps ==
  ASSUME IInv, NEW t \in Tokens, ResendVerificationEmail(t)
  PROVE  IInv'
<1> USE Numbers, RowShape
<1>1. /\ t # confirm.token /\ t # forgot.token /\ t # None
      /\ link' = [link EXCEPT ![t] = FreshLink("validate")]
      /\ dead' = (dead \union {confirm.token}) \ {t, None}
      /\ confirm' = [token |-> t, attempts |-> 0, last |-> None]
      /\ recent' = {} /\ inbox' \in {inbox, inbox \union {t}}
      /\ UNCHANGED <<status, validated, forgot, misused>>
  BY DEF ResendVerificationEmail, Signs, Unused, Delivery
<1>2. confirm' \in EmailValidation
  BY <1>1 DEF EmailValidation
<1>3. link' \in [Tokens -> Link]
  BY <1>1, LinkType DEF IInv, EmailTypeOK
<1>4. dead' \subseteq Tokens
  BY <1>1 DEF IInv, EmailTypeOK
<1>5. EmailTypeOK'
  BY <1>1, <1>2, <1>3, <1>4 DEF IInv, EmailTypeOK
<1>6. RowsAlive' /\ LinksWorkOnce'
  BY <1>1 DEF IInv, RowsAlive, LinksWorkOnce
<1>7. QED BY <1>1, <1>5, <1>6, CountingBegins DEF IInv

LEMMA LostCommitKeeps ==
  ASSUME IInv, NEW t \in Tokens, NEW kind \in {"validate", "reset"}, LostCommit(t, kind)
  PROVE  IInv'
<1>1. /\ link' = [link EXCEPT ![t] = FreshLink(kind)]
      /\ inbox' = inbox \union {t} /\ dead' = dead \ {t}
      /\ UNCHANGED <<status, validated, confirm, forgot, misused, recent>>
  BY DEF LostCommit
<1>2. link' \in [Tokens -> Link]
  BY <1>1, LinkType DEF IInv, EmailTypeOK
<1>3. EmailTypeOK'
  BY <1>1, <1>2 DEF IInv, EmailTypeOK
<1>4. RowsAlive' /\ LinksWorkOnce'
  BY <1>1 DEF IInv, RowsAlive, LinksWorkOnce
<1>5. QED BY <1>1, <1>3, <1>4, CountingKept DEF IInv

\* Both buttons that settle the matter without a link.
LEMMA SettledKeeps == ASSUME IInv, MarkEmailVerified \/ EraseUser PROVE IInv'
<1> USE RowShape
<1>1. /\ confirm' = NoRow /\ forgot' \in {forgot, NoRow}
      /\ status' \in {status, "erased"} /\ validated' \in BOOLEAN
      /\ dead' \subseteq (dead \union {confirm.token, forgot.token}) \ {None}
      /\ forgot' # NoRow => dead' \subseteq dead \union {confirm.token}
      /\ UNCHANGED <<link, inbox, misused, recent>>
  BY DEF MarkEmailVerified, EraseUser, IInv, EmailTypeOK
<1>2. EmailTypeOK'
  BY <1>1 DEF IInv, EmailTypeOK
<1>3. RowsAlive' /\ LinksWorkOnce'
  BY <1>1 DEF IInv, RowsAlive, LinksWorkOnce
<1>4. QED BY <1>1, <1>2, <1>3, CountingKept DEF IInv

-----------------------------------------------------------------------------
(* The world.                                                              *)
LEMMA WaitKeeps == ASSUME IInv, Wait PROVE IInv'
<1> USE Numbers
<1>1. \A x \in Ages : (x + 1) % Day \in Ages /\ (x + 1 < Day => (x + 1) % Day = x + 1)
  BY DEF Ages
<1>2. /\ confirm' = IF confirm = NoRow THEN confirm ELSE Older(confirm)
      /\ forgot' = IF forgot = NoRow THEN forgot
                   ELSE [Older(forgot) EXCEPT !.initial = (@ + 1) % Day]
      /\ link' = [t \in Tokens |-> [link[t] EXCEPT !.age = IF @ = Hour THEN Hour ELSE @ + 1]]
      /\ recent' = {a + 1 : a \in recent} \ {Hour}
      /\ UNCHANGED <<status, validated, inbox, dead, misused>>
  BY DEF Wait
<1>3. recent \subseteq 0 .. Hour - 1 /\ recent' \subseteq 0 .. Hour - 1
  BY <1>2 DEF IInv, EmailTypeOK
<1>4. link' \in [Tokens -> Link]
  BY <1>2 DEF IInv, EmailTypeOK, Link
<1>5. confirm # NoRow =>
         /\ confirm' \in EmailValidation /\ confirm'.token = confirm.token
         /\ confirm'.attempts = confirm.attempts
         /\ IF confirm.last = None THEN confirm'.last = None
            ELSE confirm.last \in Ages /\ confirm'.last = (confirm.last + 1) % Day
  <2> SUFFICES ASSUME confirm # NoRow
               PROVE  /\ confirm' \in EmailValidation /\ confirm'.token = confirm.token
                      /\ confirm'.attempts = confirm.attempts
                      /\ IF confirm.last = None THEN confirm'.last = None
                         ELSE /\ confirm.last \in Ages
                              /\ confirm'.last = (confirm.last + 1) % Day
    OBVIOUS
  <2>1. confirm \in EmailValidation /\ confirm' = Older(confirm)
    BY <1>2, RowShape DEF IInv
  <2>2. CASE confirm.last = None
    BY <2>1, <2>2 DEF Older
  <2>3. CASE confirm.last # None
    <3>1. confirm.last \in Ages /\ confirm' = [confirm EXCEPT !.last = (confirm.last + 1) % Day]
      BY <2>1, <2>3 DEF Older, EmailValidation
    <3> DEFINE x == (confirm.last + 1) % Day
    <3>2. x \in Ages /\ confirm' = [confirm EXCEPT !.last = x]
      BY <1>1, <3>1
    <3> HIDE DEF x
    <3>3. confirm' \in EmailValidation /\ confirm'.token = confirm.token
          /\ confirm'.attempts = confirm.attempts /\ confirm'.last = x
      BY <2>1, <3>2 DEF EmailValidation
    <3>4. QED BY <2>3, <3>1, <3>3 DEF x
  <2>4. QED BY <2>2, <2>3
<1>6. forgot # NoRow => forgot' \in ForgotPassword /\ forgot'.token = forgot.token
  <2> SUFFICES ASSUME forgot # NoRow
               PROVE  forgot' \in ForgotPassword /\ forgot'.token = forgot.token
    OBVIOUS
  <2>1. /\ forgot \in ForgotPassword
        /\ forgot' = [Older(forgot) EXCEPT !.initial = (@ + 1) % Day]
    BY <1>2, RowShape DEF IInv
  <2>2. Older(forgot) \in ForgotPassword /\ Older(forgot).token = forgot.token
    <3>1. CASE forgot.last = None
      BY <2>1, <3>1 DEF Older
    <3>2. CASE forgot.last # None
      <4> DEFINE x == (forgot.last + 1) % Day
      <4>1. x \in Ages /\ Older(forgot) = [forgot EXCEPT !.last = x]
        BY <1>1, <2>1, <3>2 DEF Older, ForgotPassword
      <4> HIDE DEF x
      <4>2. QED BY <2>1, <4>1 DEF ForgotPassword
    <3>3. QED BY <3>1, <3>2
  <2> DEFINE o == Older(forgot)  y == (o.initial + 1) % Day
  <2>3. y \in Ages /\ forgot' = [o EXCEPT !.initial = y]
    BY <1>1, <2>1, <2>2 DEF ForgotPassword
  <2> HIDE DEF o, y
  <2>4. o \in ForgotPassword /\ o.token = forgot.token
    BY <2>2 DEF o
  <2>5. QED BY <2>3, <2>4 DEF ForgotPassword
<1>7. EmailTypeOK'
  BY <1>2, <1>3, <1>4, <1>5, <1>6 DEF IInv, EmailTypeOK
<1>8. RowsAlive' /\ LinksWorkOnce'
  BY <1>2, <1>5, <1>6 DEF IInv, RowsAlive, LinksWorkOnce
<1>9. /\ Cardinality(recent') \in Nat /\ Cardinality(recent) \in Nat
      /\ Cardinality(recent') <= Cardinality(recent)
  <2> DEFINE S == {a + 1 : a \in recent}  f == [a \in recent |-> a + 1]
  <2>1. IsFiniteSet(recent) /\ Cardinality(recent) \in Nat
    BY <1>3, RecentFinite
  <2>2. f \in Surjection(recent, S)
    BY DEF Surjection
  <2> HIDE DEF f
  <2>3. IsFiniteSet(S) /\ Cardinality(S) <= Cardinality(recent)
    BY <2>1, <2>2, FS_Surjection
  <2>4. recent' \subseteq S
    BY <1>2
  <2>5. Cardinality(recent') <= Cardinality(S) /\ Cardinality(S) \in Nat
    BY <2>3, <2>4, FS_Subset, FS_CardinalityType
  <2> HIDE DEF S
  <2>6. Cardinality(recent') \in Nat
    BY <1>3, RecentFinite
  <2>7. Cardinality(S) <= Cardinality(recent)
    BY <2>3
  <2>8. QED BY <2>1, <2>5, <2>6, <2>7
<1>10. Counting'
  <2>1. HourlyLimit'
    BY <1>9 DEF IInv, Counting, HourlyLimit
  <2>2. confirm' # NoRow => confirm # NoRow
    BY <1>2
  <2>3. ASSUME confirm # NoRow, confirm.last = None
        PROVE  confirm'.last = None /\ confirm'.attempts = 0 /\ recent' = {}
    BY <1>2, <1>5, <2>3 DEF IInv, Counting
  <2>4. ASSUME confirm # NoRow, confirm.last # None
        PROVE  /\ confirm'.last # None /\ Cardinality(recent') <= confirm'.attempts
               /\ \A a \in recent' : confirm'.last <= a
    <3>1. /\ confirm'.last \in Ages /\ confirm.last \in Ages
          /\ confirm'.last = (confirm.last + 1) % Day
      BY <1>1, <1>5, <2>4
    <3>2. /\ confirm.attempts \in Nat /\ confirm'.attempts = confirm.attempts
          /\ Cardinality(recent) <= confirm.attempts
          /\ \A a \in recent : confirm.last <= a
      BY <1>5, <2>4, RowShape DEF IInv, Counting, EmailValidation
    <3>3. ASSUME NEW a \in recent PROVE confirm'.last <= a + 1
      <4>1. a \in Nat /\ a < Hour /\ confirm.last <= a /\ confirm.last \in Nat
        BY <1>3, <3>1, <3>2 DEF Ages
      <4>2. confirm.last + 1 < Day
        BY <4>1
      <4>3. confirm'.last = confirm.last + 1
        BY <1>1, <3>1, <4>2
      <4>4. QED BY <4>1, <4>3
    <3>4. QED BY <1>2, <1>9, <3>1, <3>2, <3>3 DEF Ages
  <2>5. QED BY <2>1, <2>2, <2>3, <2>4 DEF Counting
<1>11. QED BY <1>7, <1>8, <1>10 DEF IInv

LEMMA WorldKeeps ==
  ASSUME IInv, ChangeSecretKey \/ (\E t \in Tokens : DeleteMail(t)) \/ UNCHANGED emailVars
  PROVE  IInv'
<1>1. /\ link' \in [Tokens -> Link] /\ inbox' \subseteq inbox
      /\ UNCHANGED <<status, validated, confirm, forgot, dead, misused, recent>>
  BY DEF ChangeSecretKey, DeleteMail, emailVars, IInv, EmailTypeOK, Link
<1>2. EmailTypeOK'
  BY <1>1 DEF IInv, EmailTypeOK
<1>3. RowsAlive' /\ LinksWorkOnce'
  BY <1>1 DEF IInv, RowsAlive, LinksWorkOnce
<1>4. QED BY <1>1, <1>2, <1>3, CountingKept DEF IInv

-----------------------------------------------------------------------------
LEMMA NextIInv == IInv /\ [EmailNext]_emailVars => IInv'
<1> SUFFICES ASSUME IInv, [EmailNext]_emailVars PROVE IInv'
  OBVIOUS
<1>1. CASE SendValidation
  BY <1>1, SendKeeps
<1>2. CASE ForgotPasswordRequest
  BY <1>2, ForgotKeeps
<1>3. CASE MarkEmailVerified \/ EraseUser
  BY <1>3, SettledKeeps
<1>4. CASE Wait
  BY <1>4, WaitKeeps
<1>5. CASE ChangeSecretKey \/ (\E t \in Tokens : DeleteMail(t)) \/ UNCHANGED emailVars
  BY <1>5, WorldKeeps
<1>6. ASSUME NEW t \in Tokens, OpenValidationLink(t) PROVE IInv'
  BY <1>6, OpenValidationKeeps DEF OpenValidationLink
<1>7. ASSUME NEW t \in Tokens, OpenResetLink(t) PROVE IInv'
  BY <1>7, OpenResetKeeps DEF OpenResetLink
<1>8. ASSUME NEW t \in Tokens, ForcePasswordReset(t) \/ ResendVerificationEmail(t) PROVE IInv'
  BY <1>8, ForceResetKeeps, ResendKeeps
<1>9. ASSUME NEW t \in Tokens, NEW kind \in {"validate", "reset"}, LostCommit(t, kind)
      PROVE  IInv'
  BY <1>9, LostCommitKeeps
<1>10. QED BY <1>1, <1>2, <1>3, <1>4, <1>5, <1>6, <1>7, <1>8, <1>9 DEF EmailNext

\* IInv holds in every reachable state.
THEOREM Invariance == EmailSpec => []IInv
BY InitIInv, NextIInv, PTL DEF EmailSpec

\* No link works twice, or after another took its place or was given up,
\* however many are sent, lost, kept and opened, in any order.
THEOREM LinksOnce == EmailSpec => []LinksWorkOnce
<1>1. IInv => LinksWorkOnce
  BY DEF IInv
<1>2. QED BY <1>1, Invariance, PTL

\* No more than MaxMails validation e-mails are asked for within an hour,
\* although the time of the last one is read modulo a day.
THEOREM MailsLimited == EmailSpec => []HourlyLimit
<1>1. IInv => HourlyLimit
  BY DEF IInv, Counting
<1>2. QED BY <1>1, Invariance, PTL

-----------------------------------------------------------------------------
(***************************************************************************)
(* The first test of a sequence that fails                                 *)
(***************************************************************************)
Passes(t)  == \A i \in DOMAIN t : t[i].ok
Refusal(t) == t[CHOOSE i \in {j \in DOMAIN t : ~t[j].ok} :
                    \A k \in {j \in DOMAIN t : ~t[j].ok} : i <= k].otherwise

Answers  == [status : Nat, form : Pages \union {"json", "html", "handler", "none"}]
Outcomes == [ok : BOOLEAN, otherwise : Answers]

\* A set of numbers that is not empty has a smallest one.
LEMMA SmallestNumber ==
  ASSUME NEW S \in SUBSET Nat, S # {}
  PROVE  \E v \in S : \A x \in S : v <= x
<1> DEFINE Less == {p \in Nat \X Nat : p[1] < p[2]}
<1>1. IsWellFoundedOn(Less, Nat)
  BY NatLessThanWellFounded DEF OpToRel
<1> HIDE DEF Less
<1>2. PICK v \in S : \A x \in S : <<x, v>> \notin Less
  BY <1>1, WFMin
<1>3. ASSUME NEW x \in S PROVE v <= x
  <2>1. <<x, v>> \in Nat \X Nat
    OBVIOUS
  <2>2. ~ (x < v)
    BY <1>2, <2>1 DEF Less
  <2>3. QED BY <2>2
<1>4. QED BY <1>3

\* What refuses is the first test that fails.
LEMMA FirstFailure ==
  ASSUME NEW t \in Seq(Outcomes), ~Passes(t)
  PROVE  \E i \in DOMAIN t : /\ ~t[i].ok /\ Refusal(t) = t[i].otherwise
                             /\ \A j \in DOMAIN t : j < i => t[j].ok
<1> DEFINE failed == {j \in DOMAIN t : ~t[j].ok}
           i == CHOOSE i \in failed : \A k \in failed : i <= k
<1>1. failed \in SUBSET Nat /\ failed # {}
  BY DEF Passes
<1>2. i \in failed /\ \A k \in failed : i <= k
  BY <1>1, SmallestNumber
<1>3. Refusal(t) = t[i].otherwise
  BY DEF Refusal
<1> HIDE DEF i
<1>4. ASSUME NEW j \in DOMAIN t, j < i PROVE t[j].ok
  <2>1. j \in Nat /\ i \in Nat
    BY <1>2
  <2>2. ~(i <= j)
    BY <1>4, <2>1
  <2>3. QED BY <1>2, <2>2
<1>5. QED BY <1>2, <1>3, <1>4

\* A test that fails after none that does is what refuses.
LEMMA FailureIs ==
  ASSUME NEW t \in Seq(Outcomes), NEW i \in DOMAIN t,
         ~t[i].ok, \A j \in DOMAIN t : j < i => t[j].ok
  PROVE  ~Passes(t) /\ Refusal(t) = t[i].otherwise
<1>1. ~Passes(t)
  BY DEF Passes
<1>2. PICK k \in DOMAIN t : /\ ~t[k].ok /\ Refusal(t) = t[k].otherwise
                            /\ \A j \in DOMAIN t : j < k => t[j].ok
  BY <1>1, FirstFailure
<1>3. k = i
  <2>1. k \in Nat /\ i \in Nat
    OBVIOUS
  <2>2. ~(k < i) /\ ~(i < k)
    BY <1>2
  <2>3. QED BY <2>1, <2>2
<1>4. QED BY <1>1, <1>2, <1>3

\* One sequence of tests after another: the second is asked what the first lets pass.
LEMMA InTurn ==
  ASSUME NEW a \in Seq(Outcomes), NEW b \in Seq(Outcomes)
  PROVE  /\ a \o b \in Seq(Outcomes)
         /\ Passes(a \o b) <=> Passes(a) /\ Passes(b)
         /\ ~Passes(a) => Refusal(a \o b) = Refusal(a)
         /\ Passes(a) /\ ~Passes(b) => Refusal(a \o b) = Refusal(b)
<1> DEFINE c == a \o b
<1>1. /\ c \in Seq(Outcomes) /\ Len(a) \in Nat /\ Len(b) \in Nat /\ Len(c) = Len(a) + Len(b)
      /\ \A i \in 1 .. Len(a) : c[i] = a[i]
      /\ \A i \in 1 .. Len(b) : c[Len(a) + i] = b[i]
  OBVIOUS
<1>2. DOMAIN a = 1 .. Len(a) /\ DOMAIN b = 1 .. Len(b) /\ DOMAIN c = 1 .. Len(c)
  BY <1>1
<1> HIDE DEF c
<1>3. \A i \in DOMAIN c : i \in DOMAIN a \/ \E j \in DOMAIN b : i = Len(a) + j
  <2> SUFFICES ASSUME NEW i \in DOMAIN c, i \notin DOMAIN a
               PROVE  \E j \in DOMAIN b : i = Len(a) + j
    OBVIOUS
  <2>1. i - Len(a) \in 1 .. Len(b) /\ i = Len(a) + (i - Len(a))
    BY <1>1, <1>2
  <2>2. QED BY <1>2, <2>1
<1>4. Passes(c) <=> Passes(a) /\ Passes(b)
  <2>1. ASSUME Passes(c), NEW i \in DOMAIN a PROVE a[i].ok
    <3>1. i \in DOMAIN c
      BY <1>1, <1>2
    <3>2. QED BY <1>1, <1>2, <2>1, <3>1 DEF Passes
  <2>2. ASSUME Passes(c), NEW i \in DOMAIN b PROVE b[i].ok
    <3>1. Len(a) + i \in DOMAIN c
      BY <1>1, <1>2
    <3>2. QED BY <1>1, <1>2, <2>2, <3>1 DEF Passes
  <2>3. ASSUME Passes(a), Passes(b), NEW i \in DOMAIN c PROVE c[i].ok
    BY <1>1, <1>2, <1>3, <2>3 DEF Passes
  <2>4. QED BY <2>1, <2>2, <2>3 DEF Passes
<1>5. ASSUME ~Passes(a) PROVE Refusal(c) = Refusal(a)
  <2>1. PICK i \in DOMAIN a : /\ ~a[i].ok /\ Refusal(a) = a[i].otherwise
                              /\ \A j \in DOMAIN a : j < i => a[j].ok
    BY <1>5, FirstFailure
  <2>2. i \in DOMAIN c /\ c[i] = a[i]
    BY <1>1, <1>2
  <2>3. ASSUME NEW j \in DOMAIN c, j < i PROVE c[j].ok
    <3>1. j \in DOMAIN a
      BY <1>1, <1>2, <2>3
    <3>2. QED BY <1>1, <1>2, <2>1, <2>3, <3>1
  <2>4. QED BY <1>1, <2>1, <2>2, <2>3, FailureIs
<1>6. ASSUME Passes(a), ~Passes(b) PROVE Refusal(c) = Refusal(b)
  <2>1. PICK i \in DOMAIN b : /\ ~b[i].ok /\ Refusal(b) = b[i].otherwise
                              /\ \A j \in DOMAIN b : j < i => b[j].ok
    BY <1>6, FirstFailure
  <2>2. Len(a) + i \in DOMAIN c /\ c[Len(a) + i] = b[i]
    BY <1>1, <1>2
  <2>3. ASSUME NEW j \in DOMAIN c, j < Len(a) + i PROVE c[j].ok
    <3>1. CASE j \in DOMAIN a
      BY <1>1, <1>2, <1>6, <3>1 DEF Passes
    <3>2. CASE \E k \in DOMAIN b : j = Len(a) + k
      <4>1. PICK k \in DOMAIN b : j = Len(a) + k
        BY <3>2
      <4>2. k < i
        BY <1>1, <1>2, <2>3, <4>1
      <4>3. QED BY <1>1, <1>2, <2>1, <4>1, <4>2
    <3>3. QED BY <1>3, <3>1, <3>2
  <2>4. QED BY <1>1, <2>1, <2>2, <2>3, FailureIs
<1>7. QED BY <1>1, <1>4, <1>5, <1>6 DEF c

LEMMA OneTest ==
  ASSUME NEW ok \in BOOLEAN, NEW otherwise \in Answers
  PROVE  /\ <<Test(ok, otherwise)>> \in Seq(Outcomes)
         /\ Passes(<<Test(ok, otherwise)>>) <=> ok
         /\ ~ok => Refusal(<<Test(ok, otherwise)>>) = otherwise
<1> DEFINE t == <<Test(ok, otherwise)>>
<1>1. t[1] \in Outcomes /\ (t[1].ok <=> ok) /\ t[1].otherwise = otherwise
  BY DEF Test, Outcomes
<1>2. t \in Seq(Outcomes) /\ DOMAIN t = {1}
  BY <1>1
<1> HIDE DEF t
<1>3. Passes(t) <=> ok
  BY <1>1, <1>2 DEF Passes
<1>4. ASSUME ~ok PROVE Refusal(t) = otherwise
  BY <1>1, <1>2, <1>4, FailureIs
<1>5. QED BY <1>2, <1>3, <1>4 DEF t

LEMMA TwoTests ==
  ASSUME NEW ok \in BOOLEAN, NEW otherwise \in Answers,
         NEW ok2 \in BOOLEAN, NEW otherwise2 \in Answers
  PROVE  /\ <<Test(ok, otherwise), Test(ok2, otherwise2)>> \in Seq(Outcomes)
         /\ Passes(<<Test(ok, otherwise), Test(ok2, otherwise2)>>) <=> ok /\ ok2
         /\ ~ok => Refusal(<<Test(ok, otherwise), Test(ok2, otherwise2)>>) = otherwise
         /\ ok /\ ~ok2 => Refusal(<<Test(ok, otherwise), Test(ok2, otherwise2)>>) = otherwise2
<1> DEFINE a == <<Test(ok, otherwise)>>
           b == <<Test(ok2, otherwise2)>>
           t == <<Test(ok, otherwise), Test(ok2, otherwise2)>>
<1>1. /\ a \in Seq(Outcomes) /\ (Passes(a) <=> ok) /\ (~ok => Refusal(a) = otherwise)
      /\ b \in Seq(Outcomes) /\ (Passes(b) <=> ok2) /\ (~ok2 => Refusal(b) = otherwise2)
  BY OneTest
<1>2. t = a \o b
  BY <1>1
<1> HIDE DEF a, b, t
<1>3. /\ t \in Seq(Outcomes) /\ (Passes(t) <=> Passes(a) /\ Passes(b))
      /\ (~Passes(a) => Refusal(t) = Refusal(a))
      /\ (Passes(a) /\ ~Passes(b) => Refusal(t) = Refusal(b))
  BY <1>1, <1>2, InTurn
<1>4. QED BY <1>1, <1>3 DEF t

\* Two sequences of tests that let the same through, or refuse it with one status
Alike(a, b) ==
    /\ a \in Seq(Outcomes) /\ b \in Seq(Outcomes)
    /\ Passes(a) <=> Passes(b)
    /\ ~Passes(a) => Refusal(a).status = Refusal(b).status

\* Two sequences of tests that refuse, with one answer
BothRefuse(a, b) ==
    /\ a \in Seq(Outcomes) /\ b \in Seq(Outcomes)
    /\ ~Passes(a) /\ ~Passes(b) /\ Refusal(a) = Refusal(b)

LEMMA AlikeInTurn ==
  ASSUME NEW a, NEW b, NEW c, NEW d, Alike(a, b), Alike(c, d)
  PROVE  Alike(a \o c, b \o d)
BY InTurn DEF Alike

LEMMA RefusedBefore ==
  ASSUME NEW a, NEW b, BothRefuse(a, b), NEW c \in Seq(Outcomes), NEW d \in Seq(Outcomes)
  PROVE  BothRefuse(a \o c, b \o d)
BY InTurn DEF BothRefuse

LEMMA RefusedAfter ==
  ASSUME NEW a \in Seq(Outcomes), NEW b, NEW c, BothRefuse(b, c)
  PROVE  BothRefuse(a \o b, a \o c)
<1>1. CASE Passes(a)
  BY <1>1, InTurn DEF BothRefuse
<1>2. CASE ~Passes(a)
  BY <1>2, InTurn DEF BothRefuse
<1>3. QED BY <1>1, <1>2

-----------------------------------------------------------------------------
(* The table of routes                                                     *)

\* Operations that look at the session themselves, and those of the mobile
\* surface alone; the operations of both, by what they ask for.
HandlesSession == {"splash_page", "login", "confirm_email", "logout", "validate_email",
                   "validate_email_expired"}
ApiOnly     == {"get_me", "auth_login", "auth_refresh", "auth_logout", "auth_logout_all",
                "auth_resend_validation", "auth_google"}
EmailOps    == {"create_utub", "get_utubs", "search_across_utubs"}
MemberOps   == {"get_single_utub", "create_url", "create_utub_tag", "remove_member"}
CreatorOps  == {"update_utub_name", "update_utub_desc", "delete_utub", "create_member"}
UrlOps      == {"get_url", "create_utub_url_tag", "create_utub_url_tags"}
EditOps     == {"update_url", "update_url_title", "delete_url"}

WebApt(op, gate) ==
    /\ op \in HandlesSession => gate \notin EmailGates \union UtubGates
    /\ op \notin ApiOnly
    /\ op \in EmailOps   => gate = "email_validation_required"
    /\ op \in MemberOps  => gate = "utub_membership_required"
    /\ op \in CreatorOps => gate = "utub_creator_required"
    /\ op \in UrlOps     => gate = "url_in_utub_required"
    /\ op \in EditOps    => gate = "url_adder_or_creator_required"
    /\ op = "delete_utub_tag"     => gate = "valid_utub_tag"
    /\ op = "delete_utub_url_tag" => gate = "valid_url_tag"
    /\ op = "home"       => gate = "email_validation_required"

ApiApt(op, gate) ==
    \/ op \in ApiOnly /\ gate \notin EmailGates \union UtubGates
    \/ op \in EmailOps   /\ gate = "api_email_validation_required"
    \/ op \in MemberOps  /\ gate = "api_utub_membership_required"
    \/ op \in CreatorOps /\ gate = "api_utub_creator_required"
    \/ op \in UrlOps     /\ gate = "api_url_in_utub_required"
    \/ op \in EditOps    /\ gate = "api_url_adder_or_creator_required"
    \/ op = "delete_utub_tag"     /\ gate = "api_valid_utub_tag"
    \/ op = "delete_utub_url_tag" /\ gate = "api_valid_url_tag"

WebRow(r) == /\ r.api = FALSE /\ r.ajax \in BOOLEAN /\ r.exempt \in BOOLEAN
             /\ WebApt(r.op, r.gate)
ApiRow(r) == /\ r.api = TRUE /\ r.ajax = FALSE /\ r.exempt = TRUE
             /\ ApiApt(r.op, r.gate)

LEMMA PageMade ==
  ASSUME NEW op, NEW gate, WebApt(op, gate)
  PROVE  WebRow(Page(op, gate)) /\ WebRow([Page(op, gate) EXCEPT !.exempt = TRUE])
BY DEF WebRow, Route, Page

LEMMA FormMade ==
  ASSUME NEW op, NEW gate, NEW input, WebApt(op, gate)
  PROVE  /\ WebRow(Form(op, gate, input))
         /\ WebRow([Form(op, gate, input) EXCEPT !.exempt = TRUE])
BY DEF WebRow, Route, Form

LEMMA WebOpMade ==
  ASSUME NEW op, NEW gate, NEW method, NEW input, WebApt(op, gate)
  PROVE  WebRow(WebOp(op, gate, method, input))
BY DEF WebRow, Route, WebOp

LEMMA ApiOpMade ==
  ASSUME NEW op, NEW gate, NEW method, NEW input, ApiApt(op, gate)
  PROVE  ApiRow(ApiOp(op, gate, method, input))
BY DEF ApiRow, Route, ApiOp

\* Each row of the table of web routes, and of that under /api/v1, is apt.
LEMMA WebTable == \A r \in WebRoutes : WebRow(r)
<1> USE DEF WebApt, HandlesSession, ApiOnly, EmailOps, MemberOps, CreatorOps, UrlOps, EditOps,
           EmailGates, UtubGates
<1>1. \A r \in UtubReads : WebRow(r)
  <2>1. WebRow(Page("home", "email_validation_required"))
    BY PageMade
  <2>2. /\ WebRow(WebOp("create_utub", "email_validation_required", "POST", TRUE))
        /\ WebRow(WebOp("get_single_utub", "utub_membership_required", "GET", FALSE))
        /\ WebRow(WebOp("get_utubs", "email_validation_required", "GET", FALSE))
    BY WebOpMade
  <2> QED BY <2>1, <2>2 DEF UtubReads
<1>2. \A r \in UtubChanges : WebRow(r)
  BY WebOpMade DEF UtubChanges
<1>3. \A r \in UrlRoutes : WebRow(r)
  BY WebOpMade DEF UrlRoutes
<1>4. \A r \in UrlTitleRoutes : WebRow(r)
  BY WebOpMade DEF UrlTitleRoutes
<1>5. \A r \in UrlTagRoutes : WebRow(r)
  BY WebOpMade DEF UrlTagRoutes
<1>6. \A r \in UtubTagRoutes : WebRow(r)
  BY WebOpMade DEF UtubTagRoutes
<1>7. \A r \in MemberRoutes : WebRow(r)
  BY WebOpMade DEF MemberRoutes
<1>8. \A r \in SearchRoutes : WebRow(r)
  BY WebOpMade DEF SearchRoutes
<1>9. \A r \in SplashRoutes : WebRow(r)
  <2>1. /\ WebRow(Page("error_page", "none"))
        /\ WebRow(Page("splash_page", "none"))
        /\ WebRow(Page("confirm_email", "none"))
        /\ WebRow(Page("validate_email_expired", "none"))
        /\ WebRow(Page("validate_email", "none"))
    BY PageMade
  <2>2. /\ WebRow(Form("register_user", "no_authenticated_users_allowed", TRUE))
        /\ WebRow(Form("login", "no_authenticated_users_allowed", TRUE))
        /\ WebRow(Form("send_validation_email", "none", FALSE))
        /\ WebRow(Form("forgot_password", "no_authenticated_users_allowed", TRUE))
    BY FormMade
  <2> QED BY <2>1, <2>2 DEF SplashRoutes
<1>10. \A r \in SplashOauthRoutes : WebRow(r)
  <2>1. /\ WebRow(Page("google_login", "no_authenticated_users_allowed"))
        /\ WebRow([Page("google_callback", "none") EXCEPT !.exempt = TRUE])
        /\ WebRow(Page("github_login", "no_authenticated_users_allowed"))
        /\ WebRow([Page("github_callback", "none") EXCEPT !.exempt = TRUE])
        /\ WebRow(Page("oauth_link", "email_validation_required"))
        /\ WebRow(Page("oauth_confirm_link_page", "no_authenticated_users_allowed"))
    BY PageMade
  <2>2. WebRow(Form("oauth_confirm_link", "no_authenticated_users_allowed", TRUE))
    BY FormMade
  <2> QED BY <2>1, <2>2 DEF SplashOauthRoutes
<1>11. \A r \in ResetRoutes : WebRow(r)
  <2>1. WebRow(Page("reset_password_page", "none"))
    BY PageMade
  <2>2. WebRow(Form("reset_password", "none", TRUE))
    BY FormMade
  <2> QED BY <2>1, <2>2 DEF ResetRoutes
<1>12. \A r \in UserRoutes : WebRow(r)
  <2>1. /\ WebRow(Page("logout", "none"))
        /\ WebRow(Page("privacy_policy", "none"))
        /\ WebRow(Page("terms_and_conditions", "none"))
        /\ WebRow(Page("settings", "email_validation_required"))
    BY PageMade
  <2>2. /\ WebRow(WebOp("link_oauth_provider", "email_validation_required", "POST", TRUE))
        /\ WebRow(WebOp("unlink_oauth_provider", "email_validation_required", "DELETE", FALSE))
    BY WebOpMade
  <2> QED BY <2>1, <2>2 DEF UserRoutes
<1>13. \A r \in ContactRoutes : WebRow(r)
  <2>1. WebRow(Page("contact_us", "none"))
    BY PageMade
  <2>2. WebRow(Form("submit_contact_us", "none", TRUE))
    BY FormMade
  <2> QED BY <2>1, <2>2 DEF ContactRoutes
<1>14. \A r \in SystemRoutes : WebRow(r)
  BY PageMade DEF SystemRoutes
<1>15. \A r \in AdminPages : WebRow(r)
  BY PageMade DEF AdminPages, AdminPage
<1>16. \A r \in AdminUtubPages : WebRow(r)
  BY PageMade DEF AdminUtubPages, AdminPage
<1>17. \A r \in AdminBrowserPages : WebRow(r)
  BY PageMade DEF AdminBrowserPages, AdminPage
<1>18. \A r \in AdminOps : WebRow(r)
  BY WebOpMade DEF AdminOps, AdminPost
<1>19. \A r \in AdminUtubActions : WebRow(r)
  BY WebOpMade DEF AdminUtubActions, AdminPost
<1>20. \A r \in AdminUrlActions : WebRow(r)
  BY WebOpMade DEF AdminUrlActions, AdminPost
<1>21. \A r \in AdminUserActions : WebRow(r)
  BY WebOpMade DEF AdminUserActions, AdminPost
<1>22. \A r \in AdminUserRepairs : WebRow(r)
  BY WebOpMade DEF AdminUserRepairs, AdminPost
<1>23. \A r \in MetricsIngest : WebRow(r)
  <2>1. WebRow([Form("ingest", "none", TRUE) EXCEPT !.exempt = TRUE])
    BY FormMade
  <2> QED BY <2>1 DEF MetricsIngest
<1>24. \A r \in MetricsQueries : WebRow(r)
  BY WebOpMade DEF MetricsQueries, MetricsQuery
<1> QED BY <1>1, <1>2, <1>3, <1>4, <1>5, <1>6, <1>7, <1>8, <1>9, <1>10, <1>11, <1>12,
           <1>13, <1>14, <1>15, <1>16, <1>17, <1>18, <1>19, <1>20, <1>21, <1>22, <1>23,
           <1>24 DEF WebRoutes

LEMMA ApiTable == \A r \in ApiRoutes : ApiRow(r)
<1> USE DEF ApiApt, HandlesSession, ApiOnly, EmailOps, MemberOps, CreatorOps, UrlOps, EditOps,
           EmailGates, UtubGates
<1>1. \A r \in ApiAuthRoutes : ApiRow(r)
  BY ApiOpMade DEF ApiAuthRoutes
<1>2. \A r \in ApiUtubRoutes : ApiRow(r)
  BY ApiOpMade DEF ApiUtubRoutes
<1>3. \A r \in ApiMemberRoutes : ApiRow(r)
  BY ApiOpMade DEF ApiMemberRoutes
<1>4. \A r \in ApiUrlRoutes : ApiRow(r)
  BY ApiOpMade DEF ApiUrlRoutes
<1>5. \A r \in ApiSearchRoutes : ApiRow(r)
  BY ApiOpMade DEF ApiSearchRoutes
<1>6. \A r \in ApiTagRoutes : ApiRow(r)
  BY ApiOpMade DEF ApiTagRoutes
<1>7. \A r \in ApiUtubTagRoutes : ApiRow(r)
  BY ApiOpMade DEF ApiUtubTagRoutes
<1>8. QED BY <1>1, <1>2, <1>3, <1>4, <1>5, <1>6, <1>7 DEF ApiRoutes

-----------------------------------------------------------------------------
(* Requests, and what their tests say                                      *)

Routes == WebRoutes \union ApiRoutes

Request == {q \in [route : Routes, utub : Roles \union {"malformed", "none"},
                   url : {"none", "missing", "elsewhere", "others", "own"},
                   tag : {"none", "missing", "elsewhere", "here", "applied"},
                   xhr : BOOLEAN, csrf : BOOLEAN, input : BOOLEAN, spent : BOOLEAN] :
              /\ q.url # "none" => q.route.gate \in UrlGates
              /\ q.tag # "none" => q.route.gate \in TagGates}

\* What every route of the two tables keeps to.
LEMMA TheTable ==
  ASSUME NEW r \in Routes
  PROVE  /\ r.api \in BOOLEAN /\ r.ajax \in BOOLEAN /\ r.exempt \in BOOLEAN
         /\ r.op \in HandlesSession => r.gate \notin EmailGates \union UtubGates
         /\ r.op = "home" => r.gate = "email_validation_required"
<1>1. CASE r \in WebRoutes
  BY <1>1, WebTable DEF WebRow, WebApt
<1>2. CASE r \in ApiRoutes
  <2>1. r.api = TRUE /\ r.ajax = FALSE /\ r.exempt = TRUE /\ ApiApt(r.op, r.gate)
    BY <1>2, ApiTable DEF ApiRow
  <2>2. r.op \notin HandlesSession \/ r.gate \notin EmailGates \union UtubGates
    BY <2>1 DEF ApiApt, HandlesSession, ApiOnly, EmailOps, MemberOps, CreatorOps, UrlOps,
       EditOps
  <2>3. r.op # "home"
    BY <2>1 DEF ApiApt, ApiOnly, EmailOps, MemberOps, CreatorOps, UrlOps, EditOps
  <2>4. QED BY <2>1, <2>2, <2>3
<1>3. QED BY <1>1, <1>2 DEF Routes

LEMMA AnswersAre ==
  /\ \A page \in Pages : Redirect(page) \in Answers /\ Redirect(page).status = 302
  /\ \A code \in Nat : /\ Json(code) \in Answers /\ Html(code) \in Answers
                       /\ Json(code).status = code /\ Html(code).status = code
  /\ \A q : NotFound(q) \in Answers /\ NotFound(q).status = 404
BY DEF Redirect, Json, Html, NotFound, Answers

\* The answer is that of the first test that fails, or else of the handler.
LEMMA AnswerIs ==
  ASSUME NEW s, NEW q
  PROVE  /\ Passes(Tests(s, q)) => Answer(s, q) = Handler(s, q) /\ Failed(s, q) = {}
         /\ ~Passes(Tests(s, q)) => Answer(s, q) = Refusal(Tests(s, q)) /\ Failed(s, q) # {}
<1>1. Failed(s, q) = {i \in DOMAIN Tests(s, q) : ~Tests(s, q)[i].ok}
  BY DEF Failed
<1>2. Passes(Tests(s, q)) <=> Failed(s, q) = {}
  BY <1>1 DEF Passes
<1>3. Answer(s, q) = IF Failed(s, q) = {} THEN Handler(s, q) ELSE Refusal(Tests(s, q))
  BY <1>1 DEF Answer, Refusal
<1>4. QED BY <1>2, <1>3

\* What the tests before the gate and after it say.
LEMMA AroundTheGate ==
  ASSUME NEW q \in Request
  PROVE  /\ Csrf(q) \in Seq(Outcomes) /\ Limits(q) \in Seq(Outcomes)
         /\ ApiRoute(q) \in Seq(Outcomes)
         /\ Passes(Csrf(q)) <=> q.route.exempt \/ q.route.method = "GET" \/ q.csrf
         /\ Passes(Limits(q)) <=> ~q.spent \/ q.route.op = "health"
         /\ ~Passes(Limits(q)) => Refusal(Limits(q)).status = 429
         /\ Passes(ApiRoute(q)) <=> (~q.route.ajax \/ q.xhr) /\ q.input
         /\ (~q.route.ajax \/ q.xhr) /\ ~q.input => Refusal(ApiRoute(q)) = Json(400)
<1>1. /\ q.route.api \in BOOLEAN /\ q.route.ajax \in BOOLEAN /\ q.route.exempt \in BOOLEAN
      /\ q.xhr \in BOOLEAN /\ q.csrf \in BOOLEAN /\ q.input \in BOOLEAN /\ q.spent \in BOOLEAN
  BY TheTable DEF Request
<1> DEFINE safe == q.route.exempt \/ q.route.method = "GET" \/ q.csrf
           free == ~q.spent \/ q.route.op = "health"
           full == IF q.route.api THEN Json(429) ELSE Html(429)
           asked == ~q.route.ajax \/ q.xhr
<1>2. safe \in BOOLEAN /\ free \in BOOLEAN /\ asked \in BOOLEAN
  BY <1>1
<1>3. /\ Csrf(q) = <<Test(safe, Html(403))>> /\ Limits(q) = <<Test(free, full)>>
      /\ ApiRoute(q) = <<Test(asked, Redirect("/home")), Test(q.input, Json(400))>>
  BY DEF Csrf, Limits, ApiRoute
<1>4. /\ Html(403) \in Answers /\ full \in Answers /\ full.status = 429
      /\ Redirect("/home") \in Answers /\ Json(400) \in Answers
  BY AnswersAre DEF Pages
<1> HIDE DEF safe, free, full, asked
<1>5. Csrf(q) \in Seq(Outcomes) /\ (Passes(Csrf(q)) <=> safe)
  BY <1>2, <1>3, <1>4, OneTest
<1>6. /\ Limits(q) \in Seq(Outcomes) /\ (Passes(Limits(q)) <=> free)
      /\ ~free => Refusal(Limits(q)) = full
  BY <1>2, <1>3, <1>4, OneTest
<1>7. /\ ApiRoute(q) \in Seq(Outcomes) /\ (Passes(ApiRoute(q)) <=> asked /\ q.input)
      /\ asked /\ ~q.input => Refusal(ApiRoute(q)) = Json(400)
  BY <1>1, <1>2, <1>3, <1>4, TwoTests
<1>8. QED BY <1>4, <1>5, <1>6, <1>7 DEF safe, free, asked

\* The gate decides as far as the tests before it pass.
LEMMA GateDecides ==
  ASSUME NEW s, NEW q \in Request, Gate(s, q) \in Seq(Outcomes)
  PROVE  /\ ~Passes(Csrf(q)) => Answer(s, q) = Refusal(Csrf(q))
         /\ Passes(Csrf(q)) /\ ~Passes(Limits(q)) => Answer(s, q) = Refusal(Limits(q))
         /\ Passes(Csrf(q)) /\ Passes(Limits(q)) =>
              /\ ~Passes(Gate(s, q)) => Answer(s, q) = Refusal(Gate(s, q))
              /\ Passes(Gate(s, q)) /\ ~Passes(ApiRoute(q)) =>
                     Answer(s, q) = Refusal(ApiRoute(q))
              /\ Passes(Gate(s, q)) /\ Passes(ApiRoute(q)) => Answer(s, q) = Handler(s, q)
<1> DEFINE a == Csrf(q) \o Limits(q)
           b == a \o Gate(s, q)
<1>1. Csrf(q) \in Seq(Outcomes) /\ Limits(q) \in Seq(Outcomes) /\ ApiRoute(q) \in Seq(Outcomes)
  BY AroundTheGate
<1>2. /\ a \in Seq(Outcomes) /\ (Passes(a) <=> Passes(Csrf(q)) /\ Passes(Limits(q)))
      /\ ~Passes(Csrf(q)) => Refusal(a) = Refusal(Csrf(q))
      /\ Passes(Csrf(q)) /\ ~Passes(Limits(q)) => Refusal(a) = Refusal(Limits(q))
  BY <1>1, InTurn
<1>3. Tests(s, q) = b \o ApiRoute(q)
  BY DEF Tests
<1> HIDE DEF a
<1>4. /\ b \in Seq(Outcomes) /\ (Passes(b) <=> Passes(a) /\ Passes(Gate(s, q)))
      /\ ~Passes(a) => Refusal(b) = Refusal(a)
      /\ Passes(a) /\ ~Passes(Gate(s, q)) => Refusal(b) = Refusal(Gate(s, q))
  BY <1>2, InTurn
<1> HIDE DEF b
<1>5. /\ Passes(Tests(s, q)) <=> Passes(b) /\ Passes(ApiRoute(q))
      /\ ~Passes(b) => Refusal(Tests(s, q)) = Refusal(b)
      /\ Passes(b) /\ ~Passes(ApiRoute(q)) => Refusal(Tests(s, q)) = Refusal(ApiRoute(q))
  BY <1>1, <1>3, <1>4, InTurn
<1>6. QED BY <1>2, <1>4, <1>5, AnswerIs

\* Which tests a decorator's name stands for.
LEMMA GateIs ==
  ASSUME NEW s, NEW q
  PROVE  /\ q.route.gate = "email_validation_required" =>
                Gate(s, q) = EmailValidationRequired(s, q)
         /\ q.route.gate = "utub_membership_required" =>
                Gate(s, q) = UtubMembershipRequired(s, q)
         /\ q.route.gate = "utub_creator_required" =>
                Gate(s, q) = UtubCreatorRequired(s, q)
         /\ q.route.gate = "url_in_utub_required" =>
                Gate(s, q) = UrlInUtubRequired(s, q)
         /\ q.route.gate = "url_adder_or_creator_required" =>
                Gate(s, q) = UrlAdderOrCreatorRequired(s, q)
         /\ q.route.gate = "valid_utub_tag" =>
                Gate(s, q) = ValidUtubTag(s, q)
         /\ q.route.gate = "valid_url_tag" =>
                Gate(s, q) = ValidUrlTag(s, q)
         /\ q.route.gate = "api_email_validation_required" =>
                Gate(s, q) = ApiEmailValidationRequired(s, q)
         /\ q.route.gate = "api_utub_membership_required" =>
                Gate(s, q) = ApiUtubMembershipRequired(s, q)
         /\ q.route.gate = "api_utub_creator_required" =>
                Gate(s, q) = ApiUtubCreatorRequired(s, q)
         /\ q.route.gate = "api_url_in_utub_required" =>
                Gate(s, q) = ApiUrlInUtubRequired(s, q)
         /\ q.route.gate = "api_url_adder_or_creator_required" =>
                Gate(s, q) = ApiUrlAdderOrCreatorRequired(s, q)
         /\ q.route.gate = "api_valid_utub_tag" =>
                Gate(s, q) = ApiValidUtubTag(s, q)
         /\ q.route.gate = "api_valid_url_tag" =>
                Gate(s, q) = ApiValidUrlTag(s, q)
BY DEF Gate

-----------------------------------------------------------------------------
(* What the decorators of both surfaces ask, on top of who asks            *)

MemberTest(q)  == << Test(IsMember(q), NotFound(q)) >>
CreatorTest(q) == << Test(IsCreator(q), Json(403)) >>
UrlTests(q)    == << Test(q.url # "missing", NotFound(q)), Test(UrlHere(q), NotFound(q)) >>
EditTest(q)    == << Test(MayEdit(q), Json(403)) >>
AppliedTest(q) == << Test(q.tag = "applied", NotFound(q)) >>

Member(base, q)  == base \o MemberTest(q)
Creator(base, q) == Member(base, q) \o CreatorTest(q)
Url(base, q)     == Member(base, q) \o UrlTests(q)
Edit(base, q)    == Url(base, q) \o EditTest(q)
UtubTag(base, q) == Member(base, q) \o VerifyUtubTag(q)
UrlTag(base, q)  == Url(base, q) \o VerifyUtubTag(q) \o AppliedTest(q)

Base(s, q) == IF q.route.gate \in EmailGates THEN EmailValidationRequired(s, q)
              ELSE ApiEmailValidationRequired(s, q)

LEMMA GateBuilt ==
  ASSUME NEW s, NEW q
  PROVE  /\ q.route.gate \in {"email_validation_required", "api_email_validation_required"} =>
                Gate(s, q) = Base(s, q)
         /\ q.route.gate \in {"utub_membership_required", "api_utub_membership_required"} =>
                Gate(s, q) = Member(Base(s, q), q)
         /\ q.route.gate \in {"utub_creator_required", "api_utub_creator_required"} =>
                Gate(s, q) = Creator(Base(s, q), q)
         /\ q.route.gate \in {"url_in_utub_required", "api_url_in_utub_required"} =>
                Gate(s, q) = Url(Base(s, q), q)
         /\ q.route.gate \in {"url_adder_or_creator_required", "api_url_adder_or_creator_required"} =>
                Gate(s, q) = Edit(Base(s, q), q)
         /\ q.route.gate \in {"valid_utub_tag", "api_valid_utub_tag"} =>
                Gate(s, q) = UtubTag(Base(s, q), q)
         /\ q.route.gate \in {"valid_url_tag", "api_valid_url_tag"} =>
                Gate(s, q) = UrlTag(Base(s, q), q)
<1>1. /\ UtubMembershipRequired(s, q) = Member(EmailValidationRequired(s, q), q)
      /\ ApiUtubMembershipRequired(s, q) = Member(ApiEmailValidationRequired(s, q), q)
  BY DEF UtubMembershipRequired, ApiUtubMembershipRequired, Member, MemberTest
<1>2. /\ UtubCreatorRequired(s, q) = Creator(EmailValidationRequired(s, q), q)
      /\ ApiUtubCreatorRequired(s, q) = Creator(ApiEmailValidationRequired(s, q), q)
  BY <1>1 DEF UtubCreatorRequired, ApiUtubCreatorRequired, Creator, CreatorTest
<1>3. /\ UrlInUtubRequired(s, q) = Url(EmailValidationRequired(s, q), q)
      /\ ApiUrlInUtubRequired(s, q) = Url(ApiEmailValidationRequired(s, q), q)
  BY <1>1 DEF UrlInUtubRequired, ApiUrlInUtubRequired, Url, UrlTests
<1>4. /\ UrlAdderOrCreatorRequired(s, q) = Edit(EmailValidationRequired(s, q), q)
      /\ ApiUrlAdderOrCreatorRequired(s, q) = Edit(ApiEmailValidationRequired(s, q), q)
  BY <1>3 DEF UrlAdderOrCreatorRequired, ApiUrlAdderOrCreatorRequired, Edit, EditTest
<1>5. /\ ValidUtubTag(s, q) = UtubTag(EmailValidationRequired(s, q), q)
      /\ ApiValidUtubTag(s, q) = UtubTag(ApiEmailValidationRequired(s, q), q)
  BY <1>1 DEF ValidUtubTag, ApiValidUtubTag, UtubTag
<1>6. /\ ValidUrlTag(s, q) = UrlTag(EmailValidationRequired(s, q), q)
      /\ ApiValidUrlTag(s, q) = UrlTag(ApiEmailValidationRequired(s, q), q)
  BY <1>3 DEF ValidUrlTag, ApiValidUrlTag, UrlTag, AppliedTest
<1>7. QED
  BY GateIs, <1>1, <1>2, <1>3, <1>4, <1>5, <1>6 DEF Base, EmailGates

\* The tests one by one.
LEMMA TestsAre ==
  ASSUME NEW q \in Request
  PROVE  /\ MemberTest(q) \in Seq(Outcomes)
         /\ Passes(MemberTest(q)) <=> IsMember(q)
         /\ ~IsMember(q) => Refusal(MemberTest(q)) = NotFound(q)
         /\ CreatorTest(q) \in Seq(Outcomes)
         /\ Passes(CreatorTest(q)) <=> IsCreator(q)
         /\ ~IsCreator(q) => Refusal(CreatorTest(q)) = Json(403)
         /\ UrlTests(q) \in Seq(Outcomes)
         /\ Passes(UrlTests(q)) <=> UrlHere(q)
         /\ ~UrlHere(q) => Refusal(UrlTests(q)) = NotFound(q)
         /\ EditTest(q) \in Seq(Outcomes)
         /\ Passes(EditTest(q)) <=> MayEdit(q)
         /\ ~MayEdit(q) => Refusal(EditTest(q)) = Json(403)
         /\ VerifyUtubTag(q) \in Seq(Outcomes)
         /\ Passes(VerifyUtubTag(q)) <=> TagHere(q)
         /\ ~TagHere(q) => Refusal(VerifyUtubTag(q)) = NotFound(q)
         /\ AppliedTest(q) \in Seq(Outcomes)
         /\ Passes(AppliedTest(q)) <=> q.tag = "applied"
         /\ q.tag # "applied" => Refusal(AppliedTest(q)) = NotFound(q)
<1> DEFINE member == IsMember(q)
           creator == IsCreator(q)
           url == q.url # "missing"
           here == UrlHere(q)
           edit == MayEdit(q)
           tag == q.tag # "missing"
           tagged == TagHere(q)
           applied == q.tag = "applied"
<1>1. /\ member \in BOOLEAN /\ creator \in BOOLEAN /\ url \in BOOLEAN /\ here \in BOOLEAN
      /\ edit \in BOOLEAN /\ tag \in BOOLEAN /\ tagged \in BOOLEAN /\ applied \in BOOLEAN
  BY DEF IsMember, IsCreator, UrlHere, MayEdit, TagHere
<1>2. (here => url) /\ (tagged => tag)
  BY DEF UrlHere, TagHere
<1>3. /\ MemberTest(q) = << Test(member, NotFound(q)) >>
      /\ CreatorTest(q) = << Test(creator, Json(403)) >>
      /\ UrlTests(q) = << Test(url, NotFound(q)), Test(here, NotFound(q)) >>
      /\ EditTest(q) = << Test(edit, Json(403)) >>
      /\ VerifyUtubTag(q) = << Test(tag, NotFound(q)), Test(tagged, NotFound(q)) >>
      /\ AppliedTest(q) = << Test(applied, NotFound(q)) >>
  BY DEF MemberTest, CreatorTest, UrlTests, EditTest, VerifyUtubTag, AppliedTest
<1>4. NotFound(q) \in Answers /\ Json(403) \in Answers
  BY AnswersAre
<1> HIDE DEF member, creator, url, here, edit, tag, tagged, applied
<1>5. /\ MemberTest(q) \in Seq(Outcomes)
      /\ Passes(MemberTest(q)) <=> member
      /\ ~member => Refusal(MemberTest(q)) = NotFound(q)
  BY <1>1, <1>3, <1>4, OneTest
<1>6. /\ CreatorTest(q) \in Seq(Outcomes)
      /\ Passes(CreatorTest(q)) <=> creator
      /\ ~creator => Refusal(CreatorTest(q)) = Json(403)
  BY <1>1, <1>3, <1>4, OneTest
<1>7. /\ UrlTests(q) \in Seq(Outcomes)
      /\ Passes(UrlTests(q)) <=> here
      /\ ~here => Refusal(UrlTests(q)) = NotFound(q)
  BY <1>1, <1>2, <1>3, <1>4, TwoTests
<1>8. /\ EditTest(q) \in Seq(Outcomes)
      /\ Passes(EditTest(q)) <=> edit
      /\ ~edit => Refusal(EditTest(q)) = Json(403)
  BY <1>1, <1>3, <1>4, OneTest
<1>9. /\ VerifyUtubTag(q) \in Seq(Outcomes)
      /\ Passes(VerifyUtubTag(q)) <=> tagged
      /\ ~tagged => Refusal(VerifyUtubTag(q)) = NotFound(q)
  BY <1>1, <1>2, <1>3, <1>4, TwoTests
<1>10. /\ AppliedTest(q) \in Seq(Outcomes)
       /\ Passes(AppliedTest(q)) <=> applied
       /\ ~applied => Refusal(AppliedTest(q)) = NotFound(q)
  BY <1>1, <1>3, <1>4, OneTest
<1>11. QED BY <1>5, <1>6, <1>7, <1>8, <1>9, <1>10 DEF member, creator, url, here, edit,
              tagged, applied

\* Who asks: a session of a validated account, or a bearer of one.
LEMMA BasesAre ==
  ASSUME NEW s \in Session, NEW q \in Request
  PROVE  /\ EmailValidationRequired(s, q) \in Seq(Outcomes)
         /\ Passes(EmailValidationRequired(s, q)) <=> LoggedIn(s, q) /\ CachedAnswer(s) = "yes"
         /\ ~Passes(EmailValidationRequired(s, q)) =>
                Refusal(EmailValidationRequired(s, q)) = Redirect("/")
         /\ ApiEmailValidationRequired(s, q) \in Seq(Outcomes)
         /\ Passes(ApiEmailValidationRequired(s, q)) <=> BearerUser(s, q) /\ s.validated
<1> DEFINE logged == LoggedIn(s, q)
           cached == CachedAnswer(s) = "yes"
           bearer == LoggedIn(s, q) /\ BearerUser(s, q)
           valid == s.validated
           api == ApiAuthenticationRequired(s, q)
           checked == << Test(valid, Json(403)) >>
<1>1. /\ logged \in BOOLEAN /\ cached \in BOOLEAN /\ bearer \in BOOLEAN /\ valid \in BOOLEAN
      /\ bearer <=> BearerUser(s, q)
  BY DEF LoggedIn, Session
<1>2. /\ EmailValidationRequired(s, q) =
             << Test(logged, Redirect("/")), Test(cached, Redirect("/")) >>
      /\ api = << Test(bearer, Json(401)) >>
      /\ ApiEmailValidationRequired(s, q) = api \o checked
  BY DEF EmailValidationRequired, ApiAuthenticationRequired, ApiEmailValidationRequired
<1>3. Redirect("/") \in Answers /\ Json(401) \in Answers /\ Json(403) \in Answers
  BY AnswersAre DEF Pages
<1> HIDE DEF logged, cached, bearer, valid, api
<1>4. /\ EmailValidationRequired(s, q) \in Seq(Outcomes)
      /\ Passes(EmailValidationRequired(s, q)) <=> logged /\ cached
      /\ ~logged \/ ~cached => Refusal(EmailValidationRequired(s, q)) = Redirect("/")
  BY <1>1, <1>2, <1>3, TwoTests
<1>5. api \in Seq(Outcomes) /\ (Passes(api) <=> bearer)
  BY <1>1, <1>2, <1>3, OneTest
<1>6. checked \in Seq(Outcomes) /\ (Passes(checked) <=> valid)
  BY <1>1, <1>3, OneTest
<1> HIDE DEF checked
<1>7. /\ ApiEmailValidationRequired(s, q) \in Seq(Outcomes)
      /\ Passes(ApiEmailValidationRequired(s, q)) <=> bearer /\ valid
  <2>1. /\ api \o checked \in Seq(Outcomes)
        /\ Passes(api \o checked) <=> Passes(api) /\ Passes(checked)
    BY <1>5, <1>6, InTurn
  <2>2. QED BY <1>2, <1>5, <1>6, <2>1
<1>8. QED BY <1>1, <1>4, <1>7 DEF logged, cached, valid

LEMMA BuiltOfTests ==
  ASSUME NEW base \in Seq(Outcomes), NEW q \in Request
  PROVE  /\ Member(base, q) \in Seq(Outcomes) /\ Creator(base, q) \in Seq(Outcomes)
         /\ Url(base, q) \in Seq(Outcomes) /\ Edit(base, q) \in Seq(Outcomes)
         /\ UtubTag(base, q) \in Seq(Outcomes) /\ UrlTag(base, q) \in Seq(Outcomes)
<1>1. Member(base, q) \in Seq(Outcomes)
  BY TestsAre, InTurn DEF Member
<1>2. Creator(base, q) \in Seq(Outcomes)
  BY <1>1, TestsAre, InTurn DEF Creator
<1>3. Url(base, q) \in Seq(Outcomes)
  BY <1>1, TestsAre, InTurn DEF Url
<1>4. Edit(base, q) \in Seq(Outcomes)
  BY <1>3, TestsAre, InTurn DEF Edit
<1>5. UtubTag(base, q) \in Seq(Outcomes)
  BY <1>1, TestsAre, InTurn DEF UtubTag
<1>6. Url(base, q) \o VerifyUtubTag(q) \in Seq(Outcomes)
  BY <1>3, TestsAre, InTurn
<1>7. UrlTag(base, q) \in Seq(Outcomes)
  BY <1>6, TestsAre, InTurn DEF UrlTag
<1>8. QED BY <1>1, <1>2, <1>3, <1>4, <1>5, <1>7

\* Who is refused by the base is refused by all that is built on it.
LEMMA RefusedAtTheBase ==
  ASSUME NEW base \in Seq(Outcomes), ~Passes(base), NEW q \in Request
  PROVE  /\ ~Passes(Member(base, q)) /\ Refusal(Member(base, q)) = Refusal(base)
         /\ ~Passes(Creator(base, q)) /\ Refusal(Creator(base, q)) = Refusal(base)
         /\ ~Passes(Url(base, q)) /\ Refusal(Url(base, q)) = Refusal(base)
         /\ ~Passes(Edit(base, q)) /\ Refusal(Edit(base, q)) = Refusal(base)
         /\ ~Passes(UtubTag(base, q)) /\ Refusal(UtubTag(base, q)) = Refusal(base)
         /\ ~Passes(UrlTag(base, q)) /\ Refusal(UrlTag(base, q)) = Refusal(base)
<1> DEFINE Refuses(t) == t \in Seq(Outcomes) /\ ~Passes(t) /\ Refusal(t) = Refusal(base)
<1>1. ASSUME NEW t, Refuses(t), NEW u \in Seq(Outcomes) PROVE Refuses(t \o u)
  BY <1>1, InTurn
<1>2. Refuses(base)
  OBVIOUS
<1> HIDE DEF Refuses
<1>3. Refuses(Member(base, q))
  BY <1>1, <1>2, TestsAre DEF Member
<1>4. Refuses(Creator(base, q))
  BY <1>1, <1>3, TestsAre DEF Creator
<1>5. Refuses(Url(base, q))
  BY <1>1, <1>3, TestsAre DEF Url
<1>6. Refuses(Edit(base, q))
  BY <1>1, <1>5, TestsAre DEF Edit
<1>7. Refuses(UtubTag(base, q))
  BY <1>1, <1>3, TestsAre DEF UtubTag
<1>8. Refuses(Url(base, q) \o VerifyUtubTag(q))
  BY <1>1, <1>5, TestsAre
<1>9. Refuses(UrlTag(base, q))
  BY <1>1, <1>8, TestsAre DEF UrlTag
<1>10. QED BY <1>3, <1>4, <1>5, <1>6, <1>7, <1>9 DEF Refuses

LEMMA GateTyped ==
  ASSUME NEW s \in Session, NEW q \in Request,
         q.route.gate \in UtubGates \union {"email_validation_required",
                                            "api_email_validation_required"}
  PROVE  Gate(s, q) \in Seq(Outcomes)
<1>1. Base(s, q) \in Seq(Outcomes)
  BY BasesAre DEF Base
<1>2. QED BY <1>1, GateBuilt, BuiltOfTests DEF UtubGates

-----------------------------------------------------------------------------
(* What is not the user's, and what is not there                           *)

\* Refused at the gate alike, two requests that differ in nothing the tests
\* before it look at are answered alike.
LEMMA RefusedAlike ==
  ASSUME NEW s \in Session, NEW q \in Request, NEW p \in Request,
         p.route = q.route, p.csrf = q.csrf, p.spent = q.spent,
         BothRefuse(Gate(s, q), Gate(s, p))
  PROVE  Answer(s, q) = Answer(s, p)
<1>1. Csrf(q) = Csrf(p) /\ Limits(q) = Limits(p)
  BY DEF Csrf, Limits
<1>2. QED BY <1>1, GateDecides DEF BothRefuse

\* Outside the UTub, no request gets beyond the test of membership.
LEMMA OutsideTheUtub ==
  ASSUME NEW base \in Seq(Outcomes), NEW q \in Request, NEW p \in Request,
         ~IsMember(q), ~IsMember(p), NotFound(q) = NotFound(p)
  PROVE  /\ BothRefuse(Member(base, q), Member(base, p))
         /\ BothRefuse(Creator(base, q), Creator(base, p))
         /\ BothRefuse(Url(base, q), Url(base, p)) /\ BothRefuse(Edit(base, q), Edit(base, p))
         /\ BothRefuse(UtubTag(base, q), UtubTag(base, p))
         /\ BothRefuse(UrlTag(base, q), UrlTag(base, p))
<1>1. BothRefuse(MemberTest(q), MemberTest(p))
  BY TestsAre DEF BothRefuse
<1>2. BothRefuse(Member(base, q), Member(base, p))
  BY <1>1, RefusedAfter DEF Member
<1>3. BothRefuse(Creator(base, q), Creator(base, p))
  BY <1>2, RefusedBefore, TestsAre DEF Creator
<1>4. BothRefuse(Url(base, q), Url(base, p))
  BY <1>2, RefusedBefore, TestsAre DEF Url
<1>5. BothRefuse(Edit(base, q), Edit(base, p))
  BY <1>4, RefusedBefore, TestsAre DEF Edit
<1>6. BothRefuse(UtubTag(base, q), UtubTag(base, p))
  BY <1>2, RefusedBefore, TestsAre DEF UtubTag
<1>7. BothRefuse(Url(base, q) \o VerifyUtubTag(q), Url(base, p) \o VerifyUtubTag(p))
  BY <1>4, RefusedBefore, TestsAre
<1>8. BothRefuse(UrlTag(base, q), UrlTag(base, p))
  BY <1>7, RefusedBefore, TestsAre DEF UrlTag
<1>9. QED BY <1>2, <1>3, <1>4, <1>5, <1>6, <1>8

\* Without the URL in the UTub, none gets beyond the test of the URL.
LEMMA UrlElsewhere ==
  ASSUME NEW base \in Seq(Outcomes), NEW q \in Request, NEW p \in Request,
         ~UrlHere(q), ~UrlHere(p), NotFound(q) = NotFound(p), p.utub = q.utub
  PROVE  /\ BothRefuse(Url(base, q), Url(base, p)) /\ BothRefuse(Edit(base, q), Edit(base, p))
         /\ BothRefuse(UrlTag(base, q), UrlTag(base, p))
<1>1. BothRefuse(UrlTests(q), UrlTests(p))
  BY TestsAre DEF BothRefuse
<1>2. Member(base, q) = Member(base, p) /\ Member(base, q) \in Seq(Outcomes)
  <2>1. MemberTest(q) = MemberTest(p)
    BY DEF MemberTest, IsMember
  <2>2. QED BY <2>1, BuiltOfTests DEF Member
<1>3. BothRefuse(Url(base, q), Url(base, p))
  BY <1>1, <1>2, RefusedAfter DEF Url
<1>4. BothRefuse(Edit(base, q), Edit(base, p))
  BY <1>3, RefusedBefore, TestsAre DEF Edit
<1>5. BothRefuse(Url(base, q) \o VerifyUtubTag(q), Url(base, p) \o VerifyUtubTag(p))
  BY <1>3, RefusedBefore, TestsAre
<1>6. BothRefuse(UrlTag(base, q), UrlTag(base, p))
  BY <1>5, RefusedBefore, TestsAre DEF UrlTag
<1>7. QED BY <1>3, <1>4, <1>6

\* Without the tag in the UTub, none gets beyond the test of the tag.
LEMMA TagElsewhere ==
  ASSUME NEW base \in Seq(Outcomes), NEW q \in Request, NEW p \in Request,
         ~TagHere(q), ~TagHere(p), NotFound(q) = NotFound(p), p.utub = q.utub, p.url = q.url
  PROVE  /\ BothRefuse(UtubTag(base, q), UtubTag(base, p))
         /\ BothRefuse(UrlTag(base, q), UrlTag(base, p))
<1>1. BothRefuse(VerifyUtubTag(q), VerifyUtubTag(p))
  BY TestsAre DEF BothRefuse
<1>2. /\ Member(base, q) = Member(base, p) /\ Url(base, q) = Url(base, p)
      /\ Member(base, q) \in Seq(Outcomes) /\ Url(base, q) \in Seq(Outcomes)
  <2>1. MemberTest(q) = MemberTest(p) /\ UrlTests(q) = UrlTests(p)
    BY DEF MemberTest, UrlTests, IsMember, UrlHere
  <2>2. QED BY <2>1, BuiltOfTests DEF Member, Url
<1>3. BothRefuse(UtubTag(base, q), UtubTag(base, p))
  BY <1>1, <1>2, RefusedAfter DEF UtubTag
<1>4. BothRefuse(Url(base, q) \o VerifyUtubTag(q), Url(base, p) \o VerifyUtubTag(p))
  BY <1>1, <1>2, RefusedAfter
<1>5. BothRefuse(UrlTag(base, q), UrlTag(base, p))
  BY <1>4, RefusedBefore, TestsAre DEF UrlTag
<1>6. QED BY <1>3, <1>5

\* What is elsewhere answers what is missing answers.
LEMMA Hidden ==
  ASSUME NEW s \in Session, NEW q \in Request, q.route.gate \in UtubGates
  PROVE  /\ q.utub = "stranger" =>
                Answer(s, q) = Answer(s, [q EXCEPT !.utub = "missing", !.input = ~@])
         /\ q.url = "elsewhere" => Answer(s, q) = Answer(s, [q EXCEPT !.url = "missing"])
         /\ q.tag = "elsewhere" => Answer(s, q) = Answer(s, [q EXCEPT !.tag = "missing"])
<1> DEFINE Twin(p) == /\ p \in Request /\ p.route = q.route /\ p.csrf = q.csrf
                      /\ p.spent = q.spent /\ p.xhr = q.xhr
<1>1. ASSUME NEW p, Twin(p)
      PROVE  Base(s, p) = Base(s, q) /\ Base(s, q) \in Seq(Outcomes) /\ NotFound(p) = NotFound(q)
  <2>1. Base(s, q) \in Seq(Outcomes)
    BY BasesAre DEF Base
  <2>2. /\ LoggedIn(s, p) = LoggedIn(s, q) /\ BearerUser(s, p) = BearerUser(s, q)
        /\ NotFound(p) = NotFound(q)
    BY <1>1 DEF LoggedIn, BearerUser, NotFound
  <2>3. Base(s, p) = Base(s, q)
    BY <1>1, <2>2 DEF Base, EmailValidationRequired, ApiEmailValidationRequired,
                      ApiAuthenticationRequired
  <2>4. QED BY <2>1, <2>2, <2>3
<1>2. ASSUME q.utub = "stranger"
      PROVE  Answer(s, q) = Answer(s, [q EXCEPT !.utub = "missing", !.input = ~@])
  <2> DEFINE p == [q EXCEPT !.utub = "missing", !.input = ~@]
  <2>1. Twin(p) /\ ~IsMember(p) /\ ~IsMember(q)
    BY <1>2 DEF Request, IsMember, Roles
  <2> HIDE DEF p
  <2>2. BothRefuse(Gate(s, q), Gate(s, p))
    BY <1>1, <2>1, OutsideTheUtub, GateBuilt DEF UtubGates
  <2>3. Answer(s, q) = Answer(s, p)
    BY <2>1, <2>2, RefusedAlike
  <2>4. QED BY <2>3 DEF p
<1>3. ASSUME q.url = "elsewhere" PROVE Answer(s, q) = Answer(s, [q EXCEPT !.url = "missing"])
  <2> DEFINE p == [q EXCEPT !.url = "missing"]
  <2>1. Twin(p) /\ ~UrlHere(p) /\ ~UrlHere(q) /\ p.utub = q.utub /\ q.route.gate \in UrlGates
    BY <1>3 DEF Request, UrlHere
  <2> HIDE DEF p
  <2>2. BothRefuse(Gate(s, q), Gate(s, p))
    BY <1>1, <2>1, UrlElsewhere, GateBuilt DEF UrlGates
  <2>3. Answer(s, q) = Answer(s, p)
    BY <2>1, <2>2, RefusedAlike
  <2>4. QED BY <2>3 DEF p
<1>4. ASSUME q.tag = "elsewhere" PROVE Answer(s, q) = Answer(s, [q EXCEPT !.tag = "missing"])
  <2> DEFINE p == [q EXCEPT !.tag = "missing"]
  <2>1. /\ Twin(p) /\ ~TagHere(p) /\ ~TagHere(q) /\ p.utub = q.utub /\ p.url = q.url
        /\ q.route.gate \in TagGates
    BY <1>4 DEF Request, TagHere
  <2> HIDE DEF p
  <2>2. BothRefuse(Gate(s, q), Gate(s, p))
    BY <1>1, <2>1, TagElsewhere, GateBuilt DEF TagGates
  <2>3. Answer(s, q) = Answer(s, p)
    BY <2>1, <2>2, RefusedAlike
  <2>4. QED BY <2>3 DEF p
<1>5. QED BY <1>2, <1>3, <1>4

\* What home answers a stranger of a UTub, and who asks for a missing one:
\* the same, unless both reach the handler.
LEMMA HomeTells ==
  ASSUME NEW s \in Session, NEW q \in Request, q.route.op = "home", q.utub = "stranger"
  PROVE  LET missing == Answer(s, [q EXCEPT !.utub = "missing"])
         IN  \/ Answer(s, q) = missing
             \/ Answer(s, q) = Redirect("/home") /\ missing = Html(404)
<1> DEFINE p == [q EXCEPT !.utub = "missing"]
<1>1. /\ p.route = q.route /\ p.csrf = q.csrf /\ p.spent = q.spent /\ p.xhr = q.xhr
      /\ p.input = q.input /\ p.utub = "missing"
  BY DEF Request
<1>2. Answer(s, q) = Answer(s, p) \/ (Answer(s, q) = Redirect("/home") /\ Answer(s, p) = Html(404))
  <2> HIDE DEF p
  <2>1. q.route.gate = "email_validation_required"
    BY TheTable DEF Request
  <2>2. Gate(s, q) = EmailValidationRequired(s, q) /\ Gate(s, p) = EmailValidationRequired(s, p)
    BY <1>1, <2>1, GateIs
  <2>3. EmailValidationRequired(s, q) = EmailValidationRequired(s, p)
    BY <1>1 DEF EmailValidationRequired, LoggedIn, BearerUser
  <2>4. Tests(s, q) = Tests(s, p) /\ Failed(s, q) = Failed(s, p)
    BY <1>1, <2>2, <2>3 DEF Tests, Csrf, Limits, ApiRoute, Failed
  <2>5. Handler(s, q) = Redirect("/home") /\ Handler(s, p) = Html(404)
    BY <1>1 DEF Handler, HomeHandler
  <2>6. QED BY <2>4, <2>5 DEF Answer
<1>3. QED BY <1>2

-----------------------------------------------------------------------------
(* A web route and its twin                                                *)

\* The same operation asks the same of both surfaces, but for who asks.
LEMMA BuiltAlike ==
  ASSUME NEW a, NEW b, Alike(a, b), NEW q \in Request, NEW t \in Request,
         t.utub = q.utub, t.url = q.url, t.tag = q.tag
  PROVE  /\ Alike(Member(a, q), Member(b, t)) /\ Alike(Creator(a, q), Creator(b, t))
         /\ Alike(Url(a, q), Url(b, t)) /\ Alike(Edit(a, q), Edit(b, t))
         /\ Alike(UtubTag(a, q), UtubTag(b, t)) /\ Alike(UrlTag(a, q), UrlTag(b, t))
<1>1. /\ IsMember(t) <=> IsMember(q)
      /\ IsCreator(t) <=> IsCreator(q)
      /\ UrlHere(t) <=> UrlHere(q)
      /\ MayEdit(t) <=> MayEdit(q)
      /\ TagHere(t) <=> TagHere(q)
  BY DEF IsMember, IsCreator, UrlHere, MayEdit, TagHere
<1>2. NotFound(q).status = 404 /\ NotFound(t).status = 404
  BY AnswersAre
<1>3. /\ Alike(MemberTest(q), MemberTest(t)) /\ Alike(CreatorTest(q), CreatorTest(t))
      /\ Alike(UrlTests(q), UrlTests(t)) /\ Alike(EditTest(q), EditTest(t))
      /\ Alike(VerifyUtubTag(q), VerifyUtubTag(t)) /\ Alike(AppliedTest(q), AppliedTest(t))
  <2>1. Alike(MemberTest(q), MemberTest(t))
    BY <1>1, <1>2, TestsAre DEF Alike
  <2>2. Alike(CreatorTest(q), CreatorTest(t))
    BY <1>1, TestsAre DEF Alike
  <2>3. Alike(UrlTests(q), UrlTests(t))
    BY <1>1, <1>2, TestsAre DEF Alike
  <2>4. Alike(EditTest(q), EditTest(t))
    BY <1>1, TestsAre DEF Alike
  <2>5. Alike(VerifyUtubTag(q), VerifyUtubTag(t))
    BY <1>1, <1>2, TestsAre DEF Alike
  <2>6. Alike(AppliedTest(q), AppliedTest(t))
    BY <1>2, TestsAre DEF Alike
  <2>7. QED BY <2>1, <2>2, <2>3, <2>4, <2>5, <2>6
<1>4. Alike(Member(a, q), Member(b, t))
  BY <1>3, AlikeInTurn DEF Member
<1>5. Alike(Creator(a, q), Creator(b, t))
  BY <1>3, <1>4, AlikeInTurn DEF Creator
<1>6. Alike(Url(a, q), Url(b, t))
  BY <1>3, <1>4, AlikeInTurn DEF Url
<1>7. Alike(Edit(a, q), Edit(b, t))
  BY <1>3, <1>6, AlikeInTurn DEF Edit
<1>8. Alike(UtubTag(a, q), UtubTag(b, t))
  BY <1>3, <1>4, AlikeInTurn DEF UtubTag
<1>9. Alike(Url(a, q) \o VerifyUtubTag(q), Url(b, t) \o VerifyUtubTag(t))
  BY <1>3, <1>6, AlikeInTurn
<1>10. Alike(UrlTag(a, q), UrlTag(b, t))
  BY <1>3, <1>9, AlikeInTurn DEF UrlTag
<1>11. QED BY <1>4, <1>5, <1>6, <1>7, <1>8, <1>10

\* The rows of one operation in the two tables.
Paired(web, api) ==
    \/ web = "email_validation_required"     /\ api = "api_email_validation_required"
    \/ web = "utub_membership_required"      /\ api = "api_utub_membership_required"
    \/ web = "utub_creator_required"         /\ api = "api_utub_creator_required"
    \/ web = "url_in_utub_required"          /\ api = "api_url_in_utub_required"
    \/ web = "url_adder_or_creator_required" /\ api = "api_url_adder_or_creator_required"
    \/ web = "valid_utub_tag"                /\ api = "api_valid_utub_tag"
    \/ web = "valid_url_tag"                 /\ api = "api_valid_url_tag"

\* A web route and the mobile route of its operation.
LEMMA TwinRows ==
  ASSUME NEW r \in Routes, r.api = FALSE, NEW t \in ApiRoutes, t.op = r.op
  PROVE  /\ t \in Routes /\ t.api = TRUE /\ t.ajax = FALSE /\ t.exempt = TRUE
         /\ Paired(r.gate, t.gate)
         /\ r.op \notin HandlesSession \union {"home", "error_page"}
<1>1. t.api = TRUE /\ t.ajax = FALSE /\ t.exempt = TRUE /\ ApiApt(t.op, t.gate)
  BY ApiTable DEF ApiRow
<1>2. WebApt(r.op, r.gate)
  <2>1. r \in WebRoutes
    BY ApiTable DEF Routes, ApiRow
  <2>2. QED BY <2>1, WebTable DEF WebRow
<1>3. Paired(r.gate, t.gate)
  BY <1>1, <1>2 DEF Paired, WebApt, ApiApt
<1>4. r.op \notin HandlesSession \union {"home", "error_page"}
  BY <1>1 DEF ApiApt, HandlesSession, ApiOnly, EmailOps, MemberOps, CreatorOps, UrlOps,
     EditOps
<1>5. QED BY <1>1, <1>3, <1>4 DEF Routes

\* A request let in on the web and its twin are answered alike.
LEMMA TwinsAgree ==
  ASSUME NEW s \in Session, s.cached = "yes" => s.validated, NEW q \in Request,
         q.route.api = FALSE, q.xhr, q.csrf, Answer(s, q).status # 302, NEW t \in Mirror(q)
  PROVE  Answer(OnPhone(s), t).status = Answer(s, q).status
<1> DEFINE phone == OnPhone(s)
<1>1. PICK r \in ApiRoutes : t = [q EXCEPT !.route = r] /\ r.op = q.route.op
  BY DEF Mirror
<1>2. /\ r \in Routes /\ r.api = TRUE /\ r.ajax = FALSE /\ r.exempt = TRUE
      /\ Paired(q.route.gate, r.gate)
      /\ q.route.op \notin HandlesSession \union {"home", "error_page"} /\ q.route \in Routes
  <2>1. q.route \in Routes
    BY DEF Request
  <2>2. /\ r \in Routes /\ r.api = TRUE /\ r.ajax = FALSE /\ r.exempt = TRUE
        /\ Paired(q.route.gate, r.gate)
        /\ q.route.op \notin HandlesSession \union {"home", "error_page"}
    <3> DEFINE web == q.route
    <3>1. web \in Routes /\ web.api = FALSE /\ r.op = web.op
      BY <1>1, <2>1
    <3> HIDE DEF web
    <3>2. /\ r \in Routes /\ r.api = TRUE /\ r.ajax = FALSE /\ r.exempt = TRUE
          /\ Paired(web.gate, r.gate)
          /\ web.op \notin HandlesSession \union {"home", "error_page"}
      BY <3>1, TwinRows
    <3>3. QED BY <3>2 DEF web
  <2>3. QED BY <2>1, <2>2
<1>3. /\ t.route = r /\ t.utub = q.utub /\ t.url = q.url /\ t.tag = q.tag /\ t.xhr = q.xhr
      /\ t.csrf = q.csrf /\ t.input = q.input /\ t.spent = q.spent
  BY <1>1 DEF Request
<1>4. t \in Request
  <2>1. /\ q.url # "none" => r.gate \in UrlGates
        /\ q.tag # "none" => r.gate \in TagGates
    BY <1>2 DEF Request, Paired, UrlGates, TagGates
  <2>2. QED BY <1>1, <1>2, <2>1 DEF Request
<1>5. /\ phone \in Session /\ BearerUser(phone, t) /\ phone.validated = s.validated
  BY <1>2, <1>3 DEF OnPhone, Session, BearerUser, SessionUser
<1> HIDE DEF phone
<1>6. /\ q.route.gate \in EmailGates /\ r.gate \notin EmailGates
      /\ Gate(s, q) \in Seq(Outcomes) /\ Gate(phone, t) \in Seq(Outcomes)
  <2>1. q.route.gate \in EmailGates /\ r.gate \notin EmailGates
    BY <1>2 DEF Paired, EmailGates
  <2>2. /\ q.route.gate \in UtubGates \union {"email_validation_required",
                                            "api_email_validation_required"}
        /\ t.route.gate \in UtubGates \union {"email_validation_required",
                                            "api_email_validation_required"}
    BY <1>2, <1>3 DEF Paired, UtubGates
  <2>3. QED BY <1>4, <1>5, <2>1, <2>2, GateTyped
<1>7. Passes(Csrf(q)) /\ Passes(Csrf(t)) /\ (Passes(Limits(q)) <=> Passes(Limits(t)))
  <2>1. Passes(Csrf(q))
    BY AroundTheGate
  <2>2. Passes(Csrf(t))
    BY <1>2, <1>3, <1>4, AroundTheGate
  <2>3. Passes(Limits(q)) <=> Passes(Limits(t))
    <3>1. t.route.op = q.route.op /\ t.spent = q.spent
      BY <1>1, <1>3
    <3>2. /\ Passes(Limits(q)) <=> ~q.spent \/ q.route.op = "health"
          /\ Passes(Limits(t)) <=> ~t.spent \/ t.route.op = "health"
      BY <1>4, AroundTheGate
    <3>3. QED BY <3>1, <3>2
  <2>4. QED BY <2>1, <2>2, <2>3
<1>8. CASE ~Passes(Limits(q))
  BY <1>4, <1>6, <1>7, <1>8, GateDecides, AroundTheGate DEF phone
<1>9. CASE Passes(Limits(q))
  <2>1. LoggedIn(s, q) /\ CachedAnswer(s) = "yes"
    <3>1. Passes(Base(s, q))
      <4>1. SUFFICES ASSUME ~Passes(Base(s, q)) PROVE FALSE
        OBVIOUS
      <4>2. Base(s, q) \in Seq(Outcomes) /\ Refusal(Base(s, q)) = Redirect("/")
        BY <1>6, <4>1, BasesAre DEF Base
      <4>3. ~Passes(Gate(s, q)) /\ Refusal(Gate(s, q)) = Redirect("/")
        BY <4>1, <4>2, RefusedAtTheBase, GateBuilt, <1>2 DEF Paired
      <4>4. QED BY <1>6, <1>7, <1>9, <4>3, GateDecides, AnswersAre DEF Pages
    <3>2. QED BY <1>6, <3>1, BasesAre DEF Base
  <2>2. s.validated
    BY <2>1 DEF CachedAnswer, Session
  <2>3. Alike(Base(s, q), Base(phone, t))
    BY <1>3, <1>4, <1>5, <1>6, <2>1, <2>2, BasesAre DEF Base, Alike
  <2>4. Alike(Gate(s, q), Gate(phone, t))
    <3>1. /\ Alike(Member(Base(s, q), q), Member(Base(phone, t), t))
          /\ Alike(Creator(Base(s, q), q), Creator(Base(phone, t), t))
          /\ Alike(Url(Base(s, q), q), Url(Base(phone, t), t))
          /\ Alike(Edit(Base(s, q), q), Edit(Base(phone, t), t))
          /\ Alike(UtubTag(Base(s, q), q), UtubTag(Base(phone, t), t))
          /\ Alike(UrlTag(Base(s, q), q), UrlTag(Base(phone, t), t))
      BY <1>3, <1>4, <2>3, BuiltAlike
    <3>2. Paired(q.route.gate, t.route.gate)
      BY <1>2, <1>3
    <3>3. QED BY <2>3, <3>1, <3>2, GateBuilt DEF Paired
  <2>5. /\ Passes(ApiRoute(q)) <=> Passes(ApiRoute(t))
        /\ ~Passes(ApiRoute(q)) => Refusal(ApiRoute(q)) = Refusal(ApiRoute(t))
    BY <1>2, <1>3, <1>4, AroundTheGate
  <2>6. Handler(s, q) = Handler(phone, t)
    BY <1>1, <1>2, <1>3 DEF Handler, HandlesSession
  <2>7. QED BY <1>4, <1>6, <1>7, <1>9, <2>4, <2>5, <2>6, GateDecides DEF Alike, phone
<1>10. QED BY <1>8, <1>9

-----------------------------------------------------------------------------
(* The steps                                                               *)

\* The key in the session is only "yes" for a validated address, and what
\* an e-mail gate answered it would answer again.
GatesInv ==
    /\ session \in Session /\ request \in Request
    /\ session.cached = "yes" => session.validated
    /\ Answered /\ request.route.gate \in EmailGates \union UtubGates =>
           answer = Answer(session, request)

\* Every request that is asked, or follows a redirect, is well formed.
LEMMA AllAreRequests ==
  /\ AllRequests \subseteq Request
  /\ \A page \in Pages, utub \in Roles \union {"malformed", "none"} :
         Visit(page, utub) \in Request
<1>1. ASSUME NEW r \in Routes, NEW q \in Requests(r) PROVE q \in Request
  <2>1. /\ q \in [route : {r},
              utub  : When(r.gate \in UtubGates, Roles)
                        \union When(r.op \in {"home", "login"}, Roles \union {"malformed"}),
              url   : When(r.gate \in UrlGates, {"missing", "elsewhere", "others", "own"}),
              tag   : When(r.gate \in TagGates, {"missing", "elsewhere", "here", "applied"}),
              xhr   : BOOLEAN, csrf : Varies(~r.exempt /\ r.method # "GET"),
              input : Varies(r.input), spent : BOOLEAN]
    BY <1>1 DEF Requests
  <2>2. /\ q.route = r /\ q.utub \in Roles \union {"malformed", "none"}
        /\ q.url \in {"none", "missing", "elsewhere", "others", "own"}
        /\ q.tag \in {"none", "missing", "elsewhere", "here", "applied"}
        /\ q.xhr \in BOOLEAN /\ q.csrf \in BOOLEAN /\ q.input \in BOOLEAN /\ q.spent \in BOOLEAN
        /\ q.url # "none" => r.gate \in UrlGates
        /\ q.tag # "none" => r.gate \in TagGates
    BY <2>1 DEF When, Varies
  <2>3. QED BY <2>1, <2>2 DEF Request
<1>2. AllRequests \subseteq Request
  BY <1>1 DEF AllRequests, Routes
<1>3. ASSUME NEW page \in Pages PROVE Target(page) \in Routes
  <2>1. /\ Page("splash_page", "none") \in WebRoutes
        /\ Page("confirm_email", "none") \in WebRoutes
        /\ Page("home", "email_validation_required") \in WebRoutes
    BY DEF WebRoutes, SplashRoutes, UtubReads
  <2>2. QED BY <2>1 DEF Target, Routes
<1>4. ASSUME NEW page \in Pages, NEW utub \in Roles \union {"malformed", "none"}
      PROVE  Visit(page, utub) \in Request
  BY <1>3, <1>4 DEF Visit, Request
<1>5. QED BY <1>2, <1>4

\* Storing the answer of the gate changes nothing that a test looks at.
LEMMA CacheAnswersAlike ==
  ASSUME NEW s \in Session, s.cached = "yes" => s.validated, NEW q \in Request
  PROVE  /\ Cache(s, q) \in Session /\ Cache(s, q).validated = s.validated
         /\ Cache(s, q).cached = "yes" => s.validated
         /\ q.route.op \notin HandlesSession => Answer(Cache(s, q), q) = Answer(s, q)
<1> DEFINE c == [s EXCEPT !.cached = CachedAnswer(s)]
<1>1. /\ c \in Session /\ c.validated = s.validated /\ c.admin = s.admin
      /\ c.cached = "yes" => s.validated
      /\ CachedAnswer(c) = CachedAnswer(s)
  BY DEF Session, CachedAnswer
<1>2. LoggedIn(c, q) = LoggedIn(s, q) /\ BearerUser(c, q) = BearerUser(s, q)
  BY DEF LoggedIn, BearerUser, SessionUser, Session
<1> HIDE DEF c
<1>3. /\ EmailValidationRequired(c, q) = EmailValidationRequired(s, q)
      /\ ApiAuthenticationRequired(c, q) = ApiAuthenticationRequired(s, q)
      /\ NoAuthenticatedUsersAllowed(c, q) = NoAuthenticatedUsersAllowed(s, q)
      /\ AdminRequired(c, q) = AdminRequired(s, q)
      /\ AdminLoginRequired(c, q) = AdminLoginRequired(s, q)
  BY <1>1, <1>2 DEF EmailValidationRequired, ApiAuthenticationRequired,
       NoAuthenticatedUsersAllowed, AdminRequired, AdminLoginRequired
<1>4. ApiEmailValidationRequired(c, q) = ApiEmailValidationRequired(s, q)
  BY <1>1, <1>3 DEF ApiEmailValidationRequired
<1>5. Gate(c, q) = Gate(s, q)
  BY <1>3, <1>4 DEF Gate, UtubMembershipRequired, UtubCreatorRequired, UrlInUtubRequired,
       UrlAdderOrCreatorRequired, ValidUtubTag, ValidUrlTag, ApiUtubMembershipRequired,
       ApiUtubCreatorRequired, ApiUrlInUtubRequired, ApiUrlAdderOrCreatorRequired,
       ApiValidUtubTag, ApiValidUrlTag
<1>6. Tests(c, q) = Tests(s, q)
  BY <1>5 DEF Tests
<1>7. ASSUME q.route.op \notin HandlesSession PROVE Handler(c, q) = Handler(s, q)
  BY <1>7 DEF Handler, HandlesSession
<1>8. ASSUME q.route.op \notin HandlesSession PROVE Answer(c, q) = Answer(s, q)
  BY <1>6, <1>7, <1>8 DEF Answer, Failed
<1>9. Cache(s, q) = c \/ Cache(s, q) = s
  BY DEF Cache, c
<1>10. QED BY <1>1, <1>8, <1>9

LEMMA ServeKeeps ==
  ASSUME GatesInv, NEW q \in Request, Serve(q)
  PROVE  GatesInv'
<1> DEFINE c == Cache(session, q)
<1>1. /\ request' = q /\ answer' = Answer(session, q) /\ session' = Signed(c, q)
  BY DEF Serve
<1>2. /\ c \in Session /\ (c.cached = "yes" => c.validated)
      /\ q.route.op \notin HandlesSession => Answer(c, q) = Answer(session, q)
  BY CacheAnswersAlike DEF GatesInv
<1> HIDE DEF c
<1>3. session' \in Session /\ (session'.cached = "yes" => session'.validated)
  <2>1. \/ Signed(c, q) = c
        \/ Signed(c, q) = [c EXCEPT !.cookie = "live"]
        \/ Signed(c, q) = [c EXCEPT !.cookie = "none", !.cached = "unset"]
        \/ Signed(c, q) = [c EXCEPT !.cookie = "live", !.validated = TRUE, !.cached = "yes"]
    BY DEF Signed
  <2>2. QED BY <1>1, <1>2, <2>1 DEF Session
<1>4. ASSUME q.route.gate \in EmailGates \union UtubGates
      PROVE  answer' = Answer(session', request')
  <2>1. q.route.op \notin HandlesSession
    BY <1>4, TheTable DEF Request
  <2>2. Signed(c, q) = c
    BY <2>1 DEF Signed, HandlesSession
  <2>3. QED BY <1>1, <1>2, <2>1, <2>2
<1>5. QED BY <1>1, <1>3, <1>4 DEF GatesInv

LEMMA GatesStep == GatesInv /\ [GatesNext]_gatesVars => GatesInv'
<1> SUFFICES ASSUME GatesInv, [GatesNext]_gatesVars PROVE GatesInv'
  OBVIOUS
<1>1. ASSUME Ask PROVE GatesInv'
  BY <1>1, ServeKeeps, AllAreRequests DEF Ask
<1>2. ASSUME Follow PROVE GatesInv'
  <2>1. answer.form \in Pages /\ request.utub \in Roles \union {"malformed", "none"}
    BY <1>2 DEF Follow, Leads, GatesInv, Request
  <2>2. Visit(answer.form, request.utub) \in Request
    BY <2>1, AllAreRequests
  <2>3. QED BY <1>2, <2>2, ServeKeeps DEF Follow
<1>3. ASSUME Waits, session' \in Session, session'.cached = "yes" => session'.validated
      PROVE  GatesInv'
  <2>1. request' \in Request /\ answer' = Pending
    BY <1>3, AllAreRequests DEF Waits, Pages
  <2>2. QED BY <1>3, <2>1 DEF GatesInv, Answered, Pending
<1>4. ASSUME Read PROVE GatesInv'
  BY <1>3, <1>4 DEF Read, GatesInv
<1>5. ASSUME ValidateElsewhere PROVE GatesInv'
  BY <1>3, <1>5 DEF ValidateElsewhere, GatesInv, Session
<1>6. ASSUME KillSessions PROVE GatesInv'
  BY <1>3, <1>6 DEF KillSessions, GatesInv, Session
<1>7. ASSUME UNCHANGED gatesVars PROVE GatesInv'
  BY <1>7 DEF gatesVars, GatesInv, Answered
<1>8. QED BY <1>1, <1>2, <1>4, <1>5, <1>6, <1>7 DEF GatesNext

\* GatesInv holds in every reachable state.
THEOREM GatesInvariance == GatesSpec => []GatesInv
<1>1. GatesInit => GatesInv
  BY AllAreRequests DEF GatesInit, GatesInv, Session, Pages, Answered
<1>2. QED BY <1>1, GatesStep, PTL DEF GatesSpec

\* HidesTheRest is an invariant: a UTub of others, a URL or a tag of another
\* UTub answers what a missing one answers, by every route that has it in its
\* path (auth_decorators.py); home alone tells the two apart, and only in
\* its handler (home_page.py:78).
THEOREM RestHidden == GatesSpec => []HidesTheRest
<1>1. ASSUME GatesInv PROVE HidesTheRest
  <2>1. request \in Request /\ session \in Session
    BY <1>1 DEF GatesInv
  <2>2. request.route.op = "home" => request.route.gate \in EmailGates
    BY <2>1, TheTable DEF Request, EmailGates
  <2>3. CASE Answered /\ request.route.gate \in EmailGates \union UtubGates
    <3>1. answer = Answer(session, request)
      BY <1>1, <2>3 DEF GatesInv
    <3>2. request.route.gate \in UtubGates =>
            /\ request.utub = "stranger" =>
                  answer = Answer(session, [request EXCEPT !.utub = "missing", !.input = ~@])
            /\ request.url = "elsewhere" => answer = Answer(session, [request EXCEPT !.url = "missing"])
            /\ request.tag = "elsewhere" => answer = Answer(session, [request EXCEPT !.tag = "missing"])
      BY <2>1, <3>1, Hidden, Zenon
    <3>3. request.route.op = "home" /\ request.utub = "stranger" =>
            LET missing == Answer(session, [request EXCEPT !.utub = "missing"])
            IN  answer = missing \/ (answer = Redirect("/home") /\ missing = Html(404))
      BY <2>1, <3>1, HomeTells, Zenon
    <3>4. QED BY <3>2, <3>3, Zenon DEF HidesTheRest
  <2>4. CASE ~(Answered /\ request.route.gate \in EmailGates \union UtubGates)
    BY <2>2, <2>4 DEF HidesTheRest
  <2>5. QED BY <2>3, <2>4
<1>2. QED BY <1>1, GatesInvariance, PTL

\* A request in a browser and its twin under /api/v1 are let through or
\* refused alike, whatever the row of the table they came in by.
THEOREM MirrorsAlike == GatesSpec => []MirrorsAgree
<1>1. GatesInv => MirrorsAgree
  <2> SUFFICES ASSUME GatesInv, NEW q \in {request}, NEW t \in Mirror(q), Answered,
                      ~request.route.api, request.xhr, request.csrf, answer.status # 302
               PROVE  Answer(OnPhone(session), t).status = answer.status
    BY DEF MirrorsAgree
  <2>1. request \in Request /\ request.route.api = FALSE
    BY TheTable DEF GatesInv, Request
  <2>2. request.route.gate \in EmailGates
    <3>1. PICK r \in ApiRoutes : r.op = request.route.op
      BY DEF Mirror
    <3>2. QED BY <2>1, <3>1, TwinRows DEF Request, Paired, EmailGates
  <2>3. answer = Answer(session, request)
    BY <2>2 DEF GatesInv
  <2>4. QED BY <2>1, <2>3, TwinsAgree DEF GatesInv
<1>2. QED BY <1>1, GatesInvariance, PTL
=============================================================================
