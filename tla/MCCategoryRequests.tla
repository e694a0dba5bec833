------------------------- MODULE MCCategoryRequests -------------------------
(***************************************************************************)
(* TLC instances of CategoryRequests.                                      *)
(***************************************************************************)
EXTENDS CategoryRequests, TLC

Symmetry == Permutations(Tags) \cup Permutations(Workers)
=============================================================================
