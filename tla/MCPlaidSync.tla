---------------------------- MODULE MCPlaidSync ----------------------------
(***************************************************************************)
(* TLC instances of PlaidSync: one item with two accounts, or two items    *)
(* with one account each.  t1 and t3 belong to a1, t2 to a2.               *)
(***************************************************************************)
EXTENDS PlaidSync, TLC

CONSTANTS k1, k2, a1, a2, t1, t2, t3

MC_ItemOf == [a \in Accts |-> IF a = a2 /\ k2 \in Items THEN k2 ELSE k1]
MC_AcctOf == [t \in Txns |-> IF t = t2 THEN a2 ELSE a1]

(* Workers are interchangeable. *)
Symmetry == Permutations(Workers)
=============================================================================
