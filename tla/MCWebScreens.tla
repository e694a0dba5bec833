---------------------------- MODULE MCWebScreens ----------------------------
(* The TLC instance of WebScreens: the page of categories is first drawn   *)
(* over a chain of three, or over two of them with the third still to be   *)
(* created; of two streams one is there, not decided on.  Nothing tells    *)
(* one decision from the other, or one bank account.                       *)
EXTENDS WebScreens

CONSTANTS a, b, c, s1

ThreeDeepOrTwo == {(a :> None) @@ (b :> a) @@ (c :> b), (a :> None) @@ (b :> a)}

OneSuggested == {[s \in Streams |-> IF s = s1 THEN "suggested" ELSE "none"]}

Alike == Permutations(Decisions) \cup Permutations(BankAccounts)
=============================================================================
