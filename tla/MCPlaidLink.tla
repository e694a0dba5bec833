---------------------------- MODULE MCPlaidLink ----------------------------
(***************************************************************************)
(* TLC instances of PlaidLink: the bank of a1 is connected through k1; a2  *)
(* is that account again, or another one, as a second item would show it.  *)
(***************************************************************************)
EXTENDS PlaidLink, TLC

CONSTANTS k1, k2, k3, a1, a2, a3, t1, t2, t3

MC_ItemOf == [a \in Accts |-> CASE a = a1 -> k1 [] a = a2 -> k2 [] OTHER -> IF k3 \in Items THEN k3 ELSE k2]
MC_AcctOf == [t \in Txns |-> CASE t = t1 -> a1 [] t = t2 -> a2 [] OTHER -> a3]

(* a2 is a1 again, a3 another account *)
Again_RealOf == [a \in Accts |-> IF a = a3 THEN 2 ELSE 1]

(* Workers are interchangeable. *)
Symmetry == Permutations(Workers)
=============================================================================
