-------------------------- MODULE MCUtubMembership ---------------------------
(***************************************************************************)
(* Instances of UtubMembership for TLC.  UTubs and workers are             *)
(* interchangeable; users are not, since the smallest inherits.            *)
(***************************************************************************)
EXTENDS UtubMembership, TLC

Symmetry == Permutations(Utubs) \union Permutations(Workers)
=============================================================================
