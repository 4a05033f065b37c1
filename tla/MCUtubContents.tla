--------------------------- MODULE MCUtubContents ---------------------------
(***************************************************************************)
(* Instances of UtubContents for TLC: everything is interchangeable.       *)
(***************************************************************************)
EXTENDS UtubContents, TLC

Symmetry == Permutations(Urls) \union Permutations(Names)
            \union Permutations(UrlRows) \union Permutations(TagRows)
            \union Permutations(Copies) \union Permutations(Workers)
=============================================================================
