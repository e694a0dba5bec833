------------------------- MODULE MCTransactionList -------------------------
(* The TLC instance of TransactionList alone. *)
EXTENDS TransactionList

TwoTransactions ==
  <<[review |-> FALSE, tagged |-> FALSE], [review |-> TRUE, tagged |-> FALSE]>>
=============================================================================
