--------------------------- MODULE MCSignInMethods ---------------------------
(***************************************************************************)
(* An instance of SignInMethods for TLC: two subjects at one provider and  *)
(* one at the other.                                                       *)
(***************************************************************************)
EXTENDS SignInMethods, TLC

CONSTANTS google, github, g1, g2, h1, e1, e2

MCProviders == {google, github}
MCSubjects  == {g1, g2, h1}
MCProviderOf == g1 :> google @@ g2 :> google @@ h1 :> github
MCEmails     == {e1, e2}
MCReports    == g1 :> {e1} @@ g2 :> {e2} @@ h1 :> {e1, e2}

Symmetry == Permutations(Users)
=============================================================================
