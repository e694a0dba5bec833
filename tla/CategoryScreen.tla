--------------------------- MODULE CategoryScreen ---------------------------
(***************************************************************************)
(* The categories page of the web UI over the server's category forest:    *)
(* the hook useCategorySpendData, the tree that View draws, its drag and   *)
(* drop, its dialogs and the budget editor of a row.  The server is the    *)
(* module CategoryTree, except that it takes any parent for a category:    *)
(* that none is moved below itself is left to this page.                   *)
(*                                                                         *)
(* A load is the two requests of refresh together (the second one only     *)
(* feeds the sparklines).  Requests are served and answered in any order,  *)
(* and may fail.  csNet keeps them in the order sent.                      *)
(***************************************************************************)
EXTENDS CategoryTree, Sequences, SequencesExt

CONSTANTS
  Ranges,      \* the date ranges that can be chosen
  StartForests,\* forests the server may hold at first: the parent of each category
  Closed,      \* no dialog, nothing dragged, no change
  MaxAsked     \* bound: the requests of a behaviour

ASSUME RangesAssumption == Ranges # {}

(* The server's forest is one: of finitely many categories, none above      *)
(* itself.                                                                   *)
ASSUME StartForestsAssumption ==
  \A above \in StartForests :
    /\ IsFiniteSet(DOMAIN above) /\ DOMAIN above \subseteq Tags
    /\ Range(above) \subseteq DOMAIN above \cup {None}
    /\ \A S \in SUBSET DOMAIN above : S # {} => \E s \in S : above[s] \notin S

VARIABLES
  csRange,    \* the range chosen
  csFlat,     \* the categories as last loaded, and the range they were loaded for
  csLoading, csSaving,
  csModal,    \* the category in the edit dialog with the tree it was opened on, or Closed
  csErrors,   \* the dialog shows errors
  csDrag,     \* the category dragged, or Closed
  csConfirm,  \* the move or deletion waiting to be confirmed, or Closed
  csNet,      \* requests under way
  csSent,     \* the number of requests sent
  csFresh,    \* ids the server has not yet given
  csCalm,     \* history: all came in order, nothing failed, no range was
              \* chosen during a save
  csAsSeen    \* history: what was changed still was as the page had shown it

csPage    == <<csRange, csFlat, csLoading, csSaving>>
csDialogs == <<csModal, csErrors, csDrag, csConfirm>>
csServer  == <<treeVars, csFresh>>
csHistory == <<csCalm, csAsSeen>>
csVars    == <<csPage, csDialogs, csNet, csSent, csServer, csHistory>>

-----------------------------------------------------------------------------
(* The tree that is drawn (formatMerchantCategoriesAsTree): the categories   *)
(* without a parent, or whose parent is not in the list, and below each its  *)
(* children.                                                                 *)

Roots(d) == {t \in d.tags : d.parent[t] \notin d.tags}

(* getDescendantIds *)
Descendants(d, t) == {t} \cup Below(d, t)

DrawnTags(d) == UNION {Descendants(d, t) : t \in Roots(d)}

(* Mutant: every budget of the tree is added, whatever the leaf flags say. *)
BudgetOfAll(d, t) ==
  LET total[u \in Tags] == (IF d.budget[u] \/ d.leaf[u] THEN 1 ELSE 0)
                             + FoldSet(LAMBDA c, n : total[c] + n, 0, Children(d, u))
  IN total[t]

(* totalBudgetForChildren: a leaf's budget, or the sum of the children's.    *)
(* Every budget counts one here.                                             *)
TotalBudget(d, t) ==
  LET total[u \in Tags] == IF d.leaf[u] THEN (IF d.budget[u] THEN 1 ELSE 0)
                                        ELSE FoldSet(LAMBDA c, n : total[c] + n, 0, Children(d, u))
  IN total[t]

(* SummaryStrip: the budgets of the trees of a type. *)
Budgeted(d, type) ==
  FoldSet(LAMBDA t, n : TotalBudget(d, t) + n, 0, {t \in Roots(d) : d.type[t] = type})

-----------------------------------------------------------------------------
CSRequest(kind, range, then, change) ==
  [kind |-> kind, range |-> range, then |-> then, change |-> change, served |-> FALSE, answer |-> EmptyTree]

(* refresh, for the range the caller was made with; then says who waits. *)
CSLoad(range, then) == CSRequest("load", range, then, Closed)

CSSend(q) ==
  /\ csSent < MaxAsked
  /\ csSent' = csSent + 1
  /\ csNet' = Append(csNet, q)

CSInit ==
  /\ \E above \in StartForests :
       tree = [EmptyTree EXCEPT
                 !.tags   = DOMAIN above,
                 !.parent = [t \in Tags |-> IF t \in DOMAIN above THEN above[t] ELSE None],
                 !.leaf   = [t \in Tags |-> t \notin Range(above)],
                 !.budget = [t \in Tags |-> t \in DOMAIN above /\ t \notin Range(above)]]
  /\ label = [x \in Things |-> None]
  /\ csFresh = Tags \ tree.tags
  /\ csRange = CHOOSE range \in Ranges : TRUE
  /\ csFlat = [d |-> EmptyTree, range |-> csRange]
  /\ csLoading = TRUE /\ csSaving = FALSE
  /\ csModal = Closed /\ csErrors = FALSE /\ csDrag = Closed /\ csConfirm = Closed
  /\ csNet = <<CSLoad(csRange, "effect")>>
  /\ csSent = 1
  /\ csCalm = TRUE /\ csAsSeen = TRUE

\* An open dialog covers the page.
Uncovered == csModal = Closed /\ csConfirm = Closed /\ csDrag = Closed

\* While it loads the page draws no tree.
TreeThere == ~csLoading /\ Uncovered

(* DateRangeControl, and the effect on a new range. *)
SetRange ==
  /\ Uncovered
  /\ \E range \in Ranges \ {csRange} :
       csRange' = range /\ CSSend(CSLoad(range, "effect"))
  /\ csLoading' = TRUE
  /\ csCalm' = (csCalm /\ \A i \in DOMAIN csNet : csNet[i].then = "effect")
  /\ UNCHANGED <<csFlat, csSaving, csDialogs, csServer, csAsSeen>>

(* mutate; the field seen is the tree on which the change was chosen. *)
Mutate(change, then) ==
  /\ csSaving' = TRUE
  /\ CSSend(CSRequest("change", csRange, then, change))

-----------------------------------------------------------------------------
(* Dragging a category. *)

StartDrag ==
  /\ TreeThere
  /\ \E t \in DrawnTags(csFlat.d) : csDrag' = t
  /\ UNCHANGED <<csPage, csModal, csErrors, csConfirm, csNet, csSent, csServer, csHistory>>

EndDrag ==
  /\ csDrag # Closed
  /\ csDrag' = Closed
  /\ UNCHANGED <<csPage, csModal, csErrors, csConfirm, csNet, csSent, csServer, csHistory>>

(* Mutant: only the children of the dragged category are no targets. *)
CanDropOnGrandchild(target) ==
  LET d == csFlat.d IN
  /\ csDrag \in DrawnTags(d)
  /\ target # d.parent[csDrag]
  /\ target # None => target \notin {csDrag} \cup Children(d, csDrag)

(* The tree may have been loaded anew during the drag, without the category. *)
CanDropOn(target) ==
  LET d == csFlat.d IN
  /\ csDrag \in DrawnTags(d)
  /\ target # d.parent[csDrag]
  /\ target # None => target \notin Descendants(d, csDrag)

(* Dropped, the category is to be moved once that is confirmed. *)
DropOn ==
  /\ csDrag # Closed /\ ~csLoading
  /\ \E target \in DrawnTags(csFlat.d) \cup {None} :
       /\ CanDropOn(target)
       /\ csConfirm' = [do |-> "move", id |-> csDrag, parent |-> target, seen |-> csFlat.d]
  /\ csDrag' = Closed
  /\ UNCHANGED <<csPage, csModal, csErrors, csNet, csSent, csServer, csHistory>>

AskDelete ==
  /\ TreeThere
  /\ \E t \in DrawnTags(csFlat.d) :
       csConfirm' = [do |-> "delete", id |-> t, parent |-> None, seen |-> csFlat.d]
  /\ UNCHANGED <<csPage, csModal, csErrors, csDrag, csNet, csSent, csServer, csHistory>>

CSConfirm ==
  /\ csConfirm # Closed
  /\ Mutate(csConfirm, "note")
  /\ csConfirm' = Closed
  /\ UNCHANGED <<csRange, csFlat, csLoading, csModal, csErrors, csDrag, csServer, csHistory>>

CSCancel ==
  /\ csConfirm # Closed
  /\ csConfirm' = Closed
  /\ UNCHANGED <<csPage, csModal, csErrors, csDrag, csNet, csSent, csServer, csHistory>>

-----------------------------------------------------------------------------
(* The edit dialog and the budget of a row. *)

(* The dialog keeps the category as it was drawn then; the new-category      *)
(* button is there also while the page loads.                                *)
OpenModal ==
  /\ Uncovered
  /\ \/ \E t \in DrawnTags(csFlat.d) : ~csLoading /\ csModal' = [id |-> t, seen |-> csFlat.d]
     \/ csModal' = [id |-> None, seen |-> csFlat.d]
  /\ csErrors' = FALSE
  /\ UNCHANGED <<csPage, csDrag, csConfirm, csNet, csSent, csServer, csHistory>>

(* By its cross or the escape key, also while its own save is under way. *)
CSCloseModal ==
  /\ csModal # Closed
  /\ csModal' = Closed /\ csErrors' = FALSE
  /\ UNCHANGED <<csPage, csDrag, csConfirm, csNet, csSent, csServer, csHistory>>

(* Mutant: only the category itself is no parent of its own. *)
ParentOptionsButSelf == csFlat.d.tags \ {csModal.id}

(* A category may go below any of the list but itself and those below it. *)
ParentOptions ==
  csFlat.d.tags \ (IF csModal.id = None THEN {} ELSE Descendants(csModal.seen, csModal.id))

(* A new category gets a budget; of another the dialog sends the one it has,  *)
(* SaveBudget changes it.                                                    *)
SaveModal ==
  /\ csModal # Closed /\ ~csSaving
  /\ \E parent \in ParentOptions \cup {None}, type \in TagTypes :
       Mutate([do |-> IF csModal.id = None THEN "create" ELSE "edit", id |-> csModal.id,
               parent |-> parent, type |-> type,
               budget |-> csModal.id = None \/ csModal.seen.budget[csModal.id], seen |-> csModal.seen],
              "modal")
  /\ csErrors' = FALSE
  /\ UNCHANGED <<csRange, csFlat, csLoading, csModal, csDrag, csConfirm, csServer, csHistory>>

(* InlineBudget: of a leaf, if it was changed. *)
SaveBudget ==
  /\ TreeThere
  /\ \E t \in DrawnTags(csFlat.d) :
       /\ csFlat.d.leaf[t]
       /\ Mutate([do |-> "budget", id |-> t, budget |-> ~csFlat.d.budget[t], seen |-> csFlat.d], "note")
  /\ UNCHANGED <<csRange, csFlat, csLoading, csDialogs, csServer, csHistory>>

-----------------------------------------------------------------------------
(* Requests. *)

(* The server's update (external to the page): the columns that were sent. *)
Updated(q) ==
  LET d == CASE q.do = "move"   -> [tree EXCEPT !.parent[q.id] = q.parent]
             [] q.do = "budget" -> [tree EXCEPT !.budget[q.id] = q.budget]
             [] OTHER           -> [tree EXCEPT !.parent[q.id] = q.parent, !.type[q.id] = q.type,
                                                !.budget[q.id] = q.budget]
  IN Save(d, q.id, Loaded(tree, q.id))

Acts(q) ==
  \/ /\ q.do = "create"
     /\ \E t \in csFresh : Create(t, q.parent, q.type, q.budget) /\ csFresh' = csFresh \ {t}
  \/ q.do = "delete" /\ Destroy(q.id) /\ UNCHANGED csFresh
  \/ /\ q.do \in {"move", "budget", "edit"} /\ q.id \in tree.tags
     /\ q.do # "budget" => q.parent \in tree.tags \cup {None}
     /\ tree' = Updated(q)
     /\ UNCHANGED <<label, csFresh>>

CSServe(i) ==
  LET q == csNet[i] IN
  /\ ~q.served
  /\ IF q.kind = "load" THEN UNCHANGED <<csServer, csAsSeen>>
     ELSE Acts(q.change) /\ csAsSeen' = (csAsSeen /\ q.change.seen = tree)
  /\ csNet' = [csNet EXCEPT ![i].served = TRUE, ![i].answer = tree]
  /\ csCalm' = (csCalm /\ \A j \in 1..(i - 1) : csNet[j].served)
  /\ UNCHANGED <<csPage, csDialogs, csSent>>

(* The end of refresh: for the effect it ends the loading; for a change the  *)
(* saving, and closeEditModal closes the dialog, be it another one by now.   *)
EffectDone(q) ==
  /\ csLoading' = (csLoading /\ q.then # "effect")
  /\ csSaving' = (csSaving /\ q.then = "effect")

(* Mutant: only the effect shows what was loaded. *)
RefreshedByEffect(q) ==
  /\ csFlat' = IF q.then = "effect" THEN [d |-> q.answer, range |-> q.range] ELSE csFlat
  /\ EffectDone(q)
  /\ csModal' = IF q.then = "modal" THEN Closed ELSE csModal
  /\ csErrors' = (csErrors /\ q.then # "modal")

Refreshed(q) ==
  /\ csFlat' = [d |-> q.answer, range |-> q.range]
  /\ EffectDone(q)
  /\ csModal' = IF q.then = "modal" THEN Closed ELSE csModal
  /\ csErrors' = (csErrors /\ q.then # "modal")

(* The answer to a change is followed by a load. *)
CSAnswer(i) ==
  LET q == csNet[i] IN
  /\ q.served
  /\ IF q.kind = "load"
     THEN Refreshed(q) /\ csNet' = RemoveAt(csNet, i) /\ UNCHANGED csSent
     ELSE /\ csNet' = Append(RemoveAt(csNet, i), CSLoad(q.range, q.then))
          /\ csSent' = csSent + 1
          /\ UNCHANGED <<csFlat, csLoading, csSaving, csModal, csErrors>>
  /\ csCalm' = (csCalm /\ i = 1)
  /\ UNCHANGED <<csRange, csDrag, csConfirm, csServer, csAsSeen>>

(* The change or the load after it fails: both show as a failed change. *)
CSFail(i) ==
  LET q == csNet[i] IN
  /\ EffectDone(q)
  /\ csErrors' = (csErrors \/ q.then = "modal")
  /\ csNet' = RemoveAt(csNet, i)
  /\ csCalm' = FALSE
  /\ UNCHANGED <<csRange, csFlat, csModal, csDrag, csConfirm, csSent, csServer, csAsSeen>>

CSNext ==
  \/ SetRange \/ StartDrag \/ EndDrag \/ DropOn \/ AskDelete \/ CSConfirm \/ CSCancel
  \/ OpenModal \/ CSCloseModal \/ SaveModal \/ SaveBudget
  \/ \E i \in DOMAIN csNet : CSServe(i) \/ CSAnswer(i) \/ CSFail(i)

CSSpec == CSInit /\ [][CSNext]_csVars

-----------------------------------------------------------------------------
CSTypeOK ==
  /\ TreeTypeOK
  /\ csRange \in Ranges /\ csFlat.d.tags \subseteq Tags /\ csFlat.range \in Ranges
  /\ csLoading \in BOOLEAN /\ csSaving \in BOOLEAN /\ csErrors \in BOOLEAN
  /\ csModal # Closed => csModal.id \in Tags \cup {None}
  /\ csDrag \in Tags \cup {Closed}
  /\ csConfirm # Closed => csConfirm.do \in {"move", "delete"} /\ csConfirm.id \in Tags
  /\ csSent >= Len(csNet) /\ csFresh \subseteq Tags

(* "Every mutation refetches: leafness, budgets, and spend rollups all       *)
(* change server-side": once nothing is under way the page shows the         *)
(* server's forest, for the range that is chosen, also after changes that    *)
(* were under way together.  So long as all came in order, nothing failed,   *)
(* and no range was chosen during a save.                                    *)
CategoriesSettled ==
  csNet = << >> /\ csCalm => csFlat = [d |-> tree, range |-> csRange]

(* The server takes any parent; the page asks for none that would break the  *)
(* forest.  Every change that still meets the tree it was chosen on is a     *)
(* step of CategoryTree, whose theorems assume as much.                      *)
ChangesAsProved == [][csAsSeen' /\ tree' # tree => TreeNext]_treeVars

(* No category disappears from the page: each one loaded is drawn.           *)
EveryCategoryDrawn == csAsSeen => DrawnTags(csFlat.d) = csFlat.d.tags

(* The budgets of the summary are those of the categories, each once, for    *)
(* all the leaf flags that the server keeps.                                 *)
BudgetsOnce ==
  csAsSeen =>
    Budgeted(csFlat.d, "expense") + Budgeted(csFlat.d, "income")
      = Cardinality({t \in csFlat.d.tags : csFlat.d.budget[t]})
=============================================================================
