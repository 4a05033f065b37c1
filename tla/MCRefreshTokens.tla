--------------------------- MODULE MCRefreshTokens ---------------------------
(***************************************************************************)
(* Instances of RefreshTokens for TLC.  Tokens, users and workers are      *)
(* interchangeable: no definition chooses one of them.                     *)
(***************************************************************************)
EXTENDS RefreshTokens, TLC

Symmetry == Permutations(Tokens) \union Permutations(Users)
            \union Permutations(Workers)
=============================================================================
