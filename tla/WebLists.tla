------------------------------ MODULE WebLists ------------------------------
(***************************************************************************)
(* The pages of the web UI that list and search, and its session.  The     *)
(* router draws one page at a time; what each keeps in the browser has     *)
(* keys of its own.  A behaviour stays with the page it begins on, and     *)
(* what the modules say of each page holds in their composition.           *)
(***************************************************************************)
EXTENDS TransactionList, MerchantList, TagSpend, WebSession

VARIABLE page

ListPages == {"transactions", "merchants", "spend", "session"}

webVars == <<tlVars, mlVars, tsVars, wsVars, page>>

WebInit ==
  /\ page \in ListPages
  /\ TLInit /\ MLInit /\ TSInit /\ WSInit

WebNext ==
  /\ UNCHANGED page
  /\ \/ page = "transactions" /\ TLNext /\ UNCHANGED <<mlVars, tsVars, wsVars>>
     \/ page = "merchants"    /\ MLNext /\ UNCHANGED <<tlVars, tsVars, wsVars>>
     \/ page = "spend"        /\ TSNext /\ UNCHANGED <<tlVars, mlVars, wsVars>>
     \/ page = "session"      /\ WSNext /\ UNCHANGED <<tlVars, mlVars, tsVars>>

\* A page that is not open has no timer, and no request under way.
WebSpec ==
  /\ WebInit /\ [][WebNext]_webVars
  /\ TLFairness /\ MLFairness /\ WSFairness

-----------------------------------------------------------------------------
(* The type invariants of the pages. *)
WebTypeOK == TLTypeOK /\ MLTypeOK /\ TSTypeOK /\ WSTypeOK

(* No transaction is listed twice, at any time.  A page at rest shows what   *)
(* the server has for what is chosen on it: the result of the search from    *)
(* its top, each row as edited, the statistics of the selection.  So long as *)
(* all came in order.                                                        *)
ListsSettled == RowsOnce /\ SettledPrefix /\ RowsFresh /\ MerchantsSettled /\ SpendSettled

(* On both lists the search shown is the one last fetched for.               *)
SearchesAsked == AskedForShown /\ MerchantSearchAsked

(* No tag is on both sides of a report or of the selection, and the active   *)
(* report is the one selected, whatever was loaded or deleted meanwhile.     *)
ReportsSound == TagsApart /\ ActiveIsSelected

(* The user on screen is the one requests are sent for, and pages of the     *)
(* layout have one, unless the browser's history led back to them in a       *)
(* program that was started on a form.                                       *)
SessionSound == UserIsTokens /\ PagesHaveUser

(* Every page comes to show what it has: no late timer leaves a table empty, *)
(* no overlap of searches and updates leaves it loading, and the spinner in  *)
(* place of the program ends unless a request failed.                        *)
PagesAppear == ShownSettles /\ MerchantsShown /\ SpinnerEnds
=============================================================================
