----------------------------- MODULE MCWebLists -----------------------------
(* The TLC instance of WebLists: its constants are in WebLists_one.cfg.  Of *)
(* two transactions the newer one needs a review.                           *)
EXTENDS WebLists

TwoTransactions ==
  <<[review |-> FALSE, tagged |-> FALSE], [review |-> TRUE, tagged |-> FALSE]>>
=============================================================================
