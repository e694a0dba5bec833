------------------------ MODULE MCTransactionSplit ------------------------
(***************************************************************************)
(* TLC instances of TransactionSplit.  A cent is 3.                        *)
(***************************************************************************)
EXTENDS TransactionSplit, TLC

(* Two parents' amounts, 2 and 3 cents, and their divisions into two or     *)
(* three children, one with a negative child.                               *)
WholeCents == {6, 9}
Divisions  == {<<3, 3>>, <<3, 6>>, <<3, 3, 3>>, <<9, -3>>}

(* Four thirds of a cent twice: within half a cent of 3 cents. *)
FractionalDivisions == {<<3, 3>>, <<4, 4>>}

Symmetry == Permutations(KidIds) \cup Permutations(Workers)
=============================================================================
