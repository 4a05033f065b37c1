-------------------------- MODULE MCLinksAndGates ---------------------------
(***************************************************************************)
(* Two ways to an account, side by side, for TLC: the links in e-mails,    *)
(* and the gates with their redirects.  They share no state, so that each  *)
(* behaviour is about one of them and the other rests.  There is no        *)
(* symmetry: the run checks liveness.                                      *)
(***************************************************************************)
EXTENDS EmailLinks, RequestGates

VARIABLE part

vars == <<emailVars, gatesVars, part>>

\* The part that rests needs one of its initial states only.
Init == /\ EmailInit /\ GatesInit /\ part \in {"emails", "gates"}
        /\ part # "emails" => confirm.token = CHOOSE t \in Tokens : TRUE
        /\ part # "gates" => ~session.bearer /\ ~session.validated /\ ~session.admin

OfEmails(action) == part = "emails" /\ action /\ UNCHANGED <<gatesVars, part>>
OfGates(action)  == part = "gates" /\ action /\ UNCHANGED <<emailVars, part>>

Next == OfEmails(EmailNext) \/ OfGates(GatesNext)

----------------------------------------------------------------------------
(* Fairness: what the rest of the world does in time.                      *)

\* Time passes, and the owner opens a current reset link that is still kept.
OwnerOpensLinks == /\ WF_vars(OfEmails(Wait))
                   /\ \A t \in Tokens : WF_vars(OfEmails(OpenResetLink(t)))

\* A browser follows a redirect.
BrowserFollows == WF_vars(OfGates(Follow))

Spec == Init /\ [][Next]_vars /\ OwnerOpensLinks /\ BrowserFollows
=============================================================================
