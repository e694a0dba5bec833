----------------------------- MODULE WebScreens -----------------------------
(***************************************************************************)
(* The pages of the web UI that show and change one thing of the server's: *)
(* a merchant, the forest of categories, the bank accounts, a transaction, *)
(* the recurring streams.                                                  *)
(* As in WebLists a behaviour stays with the page it begins on; of the     *)
(* others one start is enough.                                             *)
(***************************************************************************)
EXTENDS MerchantPage, CategoryScreen, AccountScreen, TransactionScreen, RecurringScreen

VARIABLE page

ScreenPages == {"merchant", "categories", "accounts", "transaction", "recurring"}

screenVars == <<mpVars, csVars, acVars, txVars, rcVars, page>>

ScreenInit ==
  /\ page \in ScreenPages
  /\ MPInit /\ CSInit /\ ACInit /\ TXInit /\ RCInit
  /\ page # "categories"  => Cardinality(tree.tags) = 3
  /\ page # "accounts"    => acStore.linked = {}
  /\ page # "transaction" => ~txStore.pending
  /\ page # "recurring"   => rsRecurring = {}

ScreenNext ==
  /\ UNCHANGED page
  /\ \/ page = "merchant"    /\ MPNext /\ UNCHANGED <<csVars, acVars, txVars, rcVars>>
     \/ page = "categories"  /\ CSNext /\ UNCHANGED <<mpVars, acVars, txVars, rcVars>>
     \/ page = "accounts"    /\ ACNext /\ UNCHANGED <<mpVars, csVars, txVars, rcVars>>
     \/ page = "transaction" /\ TXNext /\ UNCHANGED <<mpVars, csVars, acVars, rcVars>>
     \/ page = "recurring"   /\ RCNext /\ UNCHANGED <<mpVars, csVars, acVars, txVars>>

ScreenSpec == ScreenInit /\ [][ScreenNext]_screenVars

-----------------------------------------------------------------------------
(* The type invariants of the pages. *)
ScreenTypeOK ==
  CASE page = "merchant"    -> MPTypeOK
    [] page = "categories"  -> CSTypeOK
    [] page = "accounts"    -> ACTypeOK
    [] page = "transaction" -> TXTypeOK
    [] page = "recurring"   -> RCTypeOK

(* A page at rest shows what the server has: the merchant of its path with   *)
(* its group's statistics, the forest for the range chosen, the accounts     *)
(* with their access and a net worth of the active ones, the transaction but *)
(* for default tags applied to all behind its back, the streams as decided   *)
(* on.  So long as all came in order and nothing failed, and what else each  *)
(* page's own property excepts.                                              *)
ScreensSettled ==
  CASE page = "merchant"    -> PageSettled
    [] page = "categories"  -> CategoriesSettled
    [] page = "accounts"    -> AccountsSettled /\ NetWorthActive /\ BoxesTruthful
    [] page = "transaction" -> TransactionSettled
    [] page = "recurring"   -> StreamsSettled

(* The defaults of a merchant and of its group are those the user meant:     *)
(* what "no" would send is what "yes" would, and no edit of the whole list   *)
(* undoes another.                                                           *)
MerchantEditsKept == PendingTogether /\ DefaultsAsMeant

(* No category and no budget is missing from the page or counted twice; no   *)
(* Plaid dialog is open without its button and no link waits in vain; no two *)
(* rows of a split are one.                                                  *)
DrawnSound ==
  CASE page = "categories"  -> EveryCategoryDrawn /\ BudgetsOnce
    [] page = "accounts"    -> LinksAnswered
    [] page = "transaction" -> RowKeysApart
    [] OTHER                -> TRUE
=============================================================================
