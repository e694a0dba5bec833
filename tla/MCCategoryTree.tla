--------------------------- MODULE MCCategoryTree ---------------------------
(***************************************************************************)
(* TLC instance of CategoryTree.  Tags are interchangeable.                *)
(***************************************************************************)
EXTENDS CategoryTree, TLC

TagSymmetry == Permutations(Tags)
=============================================================================
