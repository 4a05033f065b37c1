----------------------------- MODULE EmailLinks -----------------------------
(***************************************************************************)
(* The links one account is sent by e-mail: to validate its address        *)
(* (splash/services/validate_email.py, the table EmailValidations) and to  *)
(* reset its password (forgot_password.py, reset_password.py, the table    *)
(* ForgotPasswords), with the counters and waits that limit the e-mails,   *)
(* and the admin's buttons that send them (admin/account_service.py,       *)
(* admin/account_data_service.py).                                         *)
(*                                                                         *)
(* A link is a JWT with an expiry of an hour; a row stores the one that is *)
(* current. Times are kept as ages: Wait lets all of them grow, those that *)
(* the code reads with timedelta.seconds modulo a Day, that of a token up  *)
(* to an Hour, when it is expired. Minute, Hour and Day are scaled down    *)
(* together, the number of attempts likewise. Requests are one step each;  *)
(* the account has a password, as the ones registered here do.             *)
(*                                                                         *)
(* An e-mail that is sent may not arrive: Mailjet answers below 500, or    *)
(* with an error, or (an admin's button) the worker dies after sending.    *)
(***************************************************************************)
EXTENDS Naturals, FiniteSets

CONSTANTS
    Tokens,     \* names of JWTs; one that no row or inbox holds is reused
    None,       \* NULL
    Minute,     \* WAIT_TO_RETRY_..., 60 s
    Hour,       \* WAIT_TO_ATTEMPT_AFTER_MAX_ATTEMPTS and expiry, 3600 s
    Day,        \* where timedelta.seconds starts again
    MaxMails,   \* MAX_EMAIL_ATTEMPTS_IN_HOUR
    MaxResets   \* PASSWORD_RESET_ATTEMPTS

ASSUME WaitsAssumption ==
    /\ {Minute, Hour, Day, MaxMails, MaxResets} \subseteq Nat \ {0}
    /\ Minute < Hour /\ Hour < Day /\ None \notin Nat \union Tokens

VARIABLES
    status,     \* live, erased by an admin, or removed with its rows
    validated,  \* Users.email_validated
    confirm,    \* the row of EmailValidations
    forgot,     \* the row of ForgotPasswords
    link,       \* what each token says
    inbox,      \* tokens of the e-mails that arrived and are kept
    \* history
    dead,       \* tokens replaced, used, or given up with their row
    misused,    \* a token worked that was dead or expired
    recent      \* ages of the validation e-mails requested in the last hour

emailVars == <<status, validated, confirm, forgot, link, inbox, dead, misused, recent>>

-----------------------------------------------------------------------------
NoRow == [token |-> None]
Ages  == 0 .. Day - 1

EmailValidation == [token : Tokens, attempts : 0 .. MaxMails, last : Ages \union {None}]
ForgotPassword  == [token : Tokens, attempts : 0 .. MaxResets,
                    initial : Ages, last : Ages \union {None}]
Link == [kind : {"validate", "reset"}, age : 0 .. Hour, readable : BOOLEAN]

EmailTypeOK ==
    /\ status \in {"live", "erased", "removed"} /\ validated \in BOOLEAN
    /\ confirm \in {NoRow} \union EmailValidation
    /\ forgot \in {NoRow} \union ForgotPassword
    /\ link \in [Tokens -> Link]
    /\ inbox \subseteq Tokens /\ dead \subseteq Tokens
    /\ misused \in BOOLEAN
    /\ recent \subseteq 0 .. Hour - 1

FreshLink(kind) == [kind |-> kind, age |-> 0, readable |-> TRUE]

\* Just registered: the row is there, no e-mail has been asked for.
EmailInit ==
    /\ status = "live" /\ validated = FALSE
    /\ \E t \in Tokens : confirm = [token |-> t, attempts |-> 0, last |-> None]
    /\ forgot = NoRow
    /\ link = [t \in Tokens |-> FreshLink("validate")]
    /\ inbox = {} /\ dead = {} /\ misused = FALSE /\ recent = {}

-----------------------------------------------------------------------------
Unused == Tokens \ (inbox \union {confirm.token, forgot.token})

\* A fresh JWT t takes the place of the one in a row.
Signs(t, kind, row) ==
    /\ t \in Unused
    /\ link' = [link EXCEPT ![t] = FreshLink(kind)]
    /\ dead' = (dead \union {row.token}) \ {t, None}

Delivery(t) == inbox' \in {inbox, inbox \union {t}}

Expired(t) == link[t].readable /\ link[t].age = Hour
Works(t)   == link[t].readable /\ link[t].age < Hour

-----------------------------------------------------------------------------
(* Asking for the validation e-mail, on the web or on /api/v1.             *)

\* has_too_many_email_attempts, which resets the counter but not its time.
TooMany(c) == c.last # None /\ c.attempts >= MaxMails /\ c.last < Hour

CountedAfresh(c) == [c EXCEPT !.attempts = 0]      \* mutant: it always is
Counted(c) ==
    IF c.last # None /\ c.attempts >= MaxMails /\ c.last >= Hour
    THEN [c EXCEPT !.attempts = 0] ELSE c

TooSoon(c) == c.last # None /\ c.last <= Minute

SendValidation ==
    /\ status = "live" /\ confirm # NoRow /\ ~validated
    /\ ~TooMany(confirm) /\ ~TooSoon(confirm)
    /\ confirm' = [Counted(confirm) EXCEPT !.attempts = @ + 1, !.last = 0]
    /\ recent' = recent \union {0}
    /\ Delivery(confirm.token)
    /\ UNCHANGED <<status, validated, forgot, link, dead, misused>>

-----------------------------------------------------------------------------
(* Opening the validation link.                                            *)

\* A token the key does not fit: the account that has it is deleted (a row of
\* ForgotPasswords stays without its user).
RemoveUser(t) ==
    /\ confirm.token = t /\ ~link[t].readable
    /\ status' = "removed" /\ confirm' = NoRow /\ dead' = dead \union {t}
    /\ UNCHANGED <<validated, forgot, link, inbox, misused, recent>>

ValidateAnyToken(t) ==                    \* mutant: any token with the username
    /\ status = "live" /\ Works(t) /\ confirm # NoRow
    /\ validated' = TRUE /\ confirm' = NoRow
    /\ misused' = (misused \/ t \in dead) /\ dead' = dead \union {t}
    /\ UNCHANGED <<status, forgot, link, inbox, recent>>

ValidateEmail(t) ==
    /\ status = "live" /\ Works(t) /\ confirm.token = t
    /\ validated' = TRUE /\ confirm' = NoRow
    /\ misused' = (misused \/ t \in dead) /\ dead' = dead \union {t}
    /\ UNCHANGED <<status, forgot, link, inbox, recent>>

\* The page of expired links does not ask whether the token is expired.
OpenExpiredLink(t) ==
    /\ confirm.token = t
    /\ \E fresh \in Tokens :
        /\ Signs(fresh, "validate", confirm)
        /\ confirm' = [token |-> fresh, attempts |-> 0, last |-> None]
    /\ recent' = {}
    /\ UNCHANGED <<status, validated, forgot, inbox, misused>>

OpenValidationLink(t) ==
    /\ t \in inbox /\ link[t].kind = "validate"
    /\ RemoveUser(t) \/ ValidateEmail(t) \/ OpenExpiredLink(t)

-----------------------------------------------------------------------------
(* Forgotten passwords. The answer is the same whatever happens.           *)

Limited(f)  == f.attempts >= MaxResets \/ (f.last # None /\ f.last < Minute)
HourOld(f)  == f.initial >= Hour

NewRow(t) == [token |-> t, attempts |-> 0, initial |-> 0, last |-> None]

\* The row as _create_or_reset_... leaves it; a limited one is not reset.
CreateOrReset ==
    IF forgot = NoRow \/ (~Limited(forgot) /\ HourOld(forgot))
    THEN \E t \in Tokens :
            /\ Signs(t, "reset", forgot)
            /\ forgot' = [NewRow(t) EXCEPT !.attempts = 1, !.last = 0]
    ELSE /\ ~Limited(forgot)
         /\ forgot' = [forgot EXCEPT !.attempts = @ + 1, !.last = 0]
         /\ UNCHANGED <<link, dead>>

\* The reset keeps last, which is at least a Minute ago: the e-mail is sent.
\* It is counted before it is sent.
ForgotPasswordRequest ==
    /\ status = "live" /\ validated
    /\ CreateOrReset
    /\ Delivery(forgot'.token)
    /\ UNCHANGED <<status, validated, confirm, misused, recent>>

\* An expired token takes its row along; no other row is touched.
DropKeepingRow(t) ==                      \* mutant: the expired link only redirects
    /\ forgot.token = t /\ Expired(t)
    /\ dead' = dead \union {t}
    /\ UNCHANGED <<status, validated, confirm, forgot, link, inbox, misused, recent>>

DropExpired(t) ==
    /\ forgot.token = t /\ Expired(t)
    /\ forgot' = NoRow /\ dead' = dead \union {t}
    /\ UNCHANGED <<status, validated, confirm, link, inbox, misused, recent>>

ResetPassword(t) ==
    /\ status = "live" /\ validated /\ Works(t)
    /\ forgot.token = t /\ ~HourOld(forgot)
    /\ forgot' = NoRow
    /\ misused' = (misused \/ t \in dead) /\ dead' = dead \union {t}
    /\ UNCHANGED <<status, validated, confirm, link, inbox, recent>>

\* An admin may have forced a reset before the address was validated.
DropUnvalidated(t) ==
    /\ status = "live" /\ ~validated /\ Works(t) /\ forgot.token = t
    /\ forgot' = NoRow /\ dead' = dead \union {t}
    /\ UNCHANGED <<status, validated, confirm, link, inbox, misused, recent>>

OpenResetLink(t) ==
    /\ t \in inbox /\ link[t].kind = "reset"
    /\ DropExpired(t) \/ DropUnvalidated(t) \/ ResetPassword(t)

-----------------------------------------------------------------------------
(* The admin's buttons. The e-mail goes out before the commit: if it fails *)
(* nothing is written; if the worker dies it arrives with a token no row   *)
(* has (LostCommit). An answer below 500 is taken for success.             *)

ForcePasswordReset(t) ==
    /\ status = "live"
    /\ Signs(t, "reset", forgot)
    /\ forgot' = IF forgot = NoRow THEN NewRow(t)
                 ELSE [forgot EXCEPT !.token = t, !.attempts = 0, !.initial = 0]
    /\ Delivery(t)
    /\ UNCHANGED <<status, validated, confirm, misused, recent>>

ResendVerificationEmail(t) ==
    /\ status = "live" /\ ~validated
    /\ Signs(t, "validate", confirm)
    /\ confirm' = [token |-> t, attempts |-> 0, last |-> None]
    /\ recent' = {}
    /\ Delivery(t)
    /\ UNCHANGED <<status, validated, forgot, misused>>

LostCommit(t, kind) ==
    /\ status = "live" /\ (kind = "validate" => ~validated)
    /\ t \in Unused
    /\ link' = [link EXCEPT ![t] = FreshLink(kind)]
    /\ inbox' = inbox \union {t} /\ dead' = dead \ {t}
    /\ UNCHANGED <<status, validated, confirm, forgot, misused, recent>>

MarkEmailVerified ==
    /\ status = "live" /\ ~validated
    /\ validated' = TRUE /\ confirm' = NoRow
    /\ dead' = (dead \union {confirm.token}) \ {None}
    /\ UNCHANGED <<status, forgot, link, inbox, misused, recent>>

EraseUser ==
    /\ status = "live"
    /\ status' = "erased" /\ validated' = FALSE
    /\ confirm' = NoRow /\ forgot' = NoRow
    /\ dead' = (dead \union {confirm.token, forgot.token}) \ {None}
    /\ UNCHANGED <<link, inbox, misused, recent>>

-----------------------------------------------------------------------------
(* The world: time passes, the application restarts with another secret    *)
(* key, an old e-mail is deleted.                                          *)

Older(row) == IF row.last = None THEN row ELSE [row EXCEPT !.last = (@ + 1) % Day]

Wait ==
    /\ confirm' = IF confirm = NoRow THEN confirm ELSE Older(confirm)
    /\ forgot' = IF forgot = NoRow THEN forgot
                 ELSE [Older(forgot) EXCEPT !.initial = (@ + 1) % Day]
    /\ link' = [t \in Tokens |-> [link[t] EXCEPT !.age = IF @ = Hour THEN Hour ELSE @ + 1]]
    /\ recent' = {a + 1 : a \in recent} \ {Hour}
    /\ UNCHANGED <<status, validated, inbox, dead, misused>>

ChangeSecretKey ==
    /\ link' = [t \in Tokens |-> [link[t] EXCEPT !.readable = FALSE]]
    /\ UNCHANGED <<status, validated, confirm, forgot, inbox, dead, misused, recent>>

DeleteMail(t) ==
    /\ t \in inbox \ {confirm.token, forgot.token}
    /\ inbox' = inbox \ {t}
    /\ UNCHANGED <<status, validated, confirm, forgot, link, dead, misused, recent>>

EmailNext ==
    \/ SendValidation \/ ForgotPasswordRequest \/ MarkEmailVerified \/ EraseUser
    \/ Wait \/ ChangeSecretKey
    \/ \E t \in Tokens : \/ OpenValidationLink(t) \/ OpenResetLink(t) \/ DeleteMail(t)
                         \/ ForcePasswordReset(t) \/ ResendVerificationEmail(t)
                         \/ \E kind \in {"validate", "reset"} : LostCommit(t, kind)

EmailSpec == EmailInit /\ [][EmailNext]_emailVars

-----------------------------------------------------------------------------
(* A link works once, while it is the newest of its kind and less than an  *)
(* hour old: not again after it was used, nor after another took its place *)
(* or an admin settled the matter without it.                              *)
LinksWorkOnce == ~misused

(* At most MaxMails validation e-mails go out at the user's request within *)
(* an hour, unless the counter is reset by opening the link (expired or    *)
(* not) or by an admin: whatever the sequence of waits and refusals.       *)
HourlyLimit == Cardinality(recent) <= MaxMails

(* Whoever used up the attempts at a new password can get out again once   *)
(* any of the e-mails arrived: the link in it is the one in the row, and   *)
(* opening it resets the password or, expired, drops the row with the      *)
(* counter. (If none arrives, or the secret key changes, only an admin can *)
(* help.)                                                                  *)
Exhausted == forgot # NoRow /\ forgot.attempts >= MaxResets
WayOut == (Exhausted /\ forgot.token \in inbox) ~> (~Exhausted \/ ~link[forgot.token].readable)
=============================================================================
