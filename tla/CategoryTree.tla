---------------------------- MODULE CategoryTree ----------------------------
(***************************************************************************)
(* The category forest of an account: app/models/merchant_tag.rb and the   *)
(* requests of merchant_tags_controller.rb, one request at a time.  Saving *)
(* or destroying a tag runs callbacks that save its parents and retype its *)
(* descendants, all in one database transaction, so a request is one       *)
(* action, composed of the operators that stand for the callbacks.         *)
(*                                                                         *)
(* Left out: names, colours, audits, deleted_at (never set) and the amount *)
(* of a budget.  Things are the rows that refer to a tag: transactions     *)
(* (merchant_tag_id) and merchants (default_merchant_tag_id).              *)
(***************************************************************************)
EXTENDS Naturals, FiniteSets

CONSTANTS Tags, Things, None

ASSUME TagsAssumption == None \notin Tags

VARIABLES
  tree,   \* the merchant_tags rows, a function per column
  label   \* the tag a transaction or merchant refers to

treeVars == <<tree, label>>

TagTypes == {"expense", "income"}

Tree == [tags   : SUBSET Tags,
         parent : [Tags -> Tags \cup {None}],
         type   : [Tags -> TagTypes],
         leaf   : [Tags -> BOOLEAN],
         budget : [Tags -> BOOLEAN]]   \* has a target_budget

TreeTypeOK ==
  /\ tree \in Tree
  /\ label \in [Things -> Tags \cup {None}]

EmptyTree == [tags   |-> {},
              parent |-> [t \in Tags |-> None],
              type   |-> [t \in Tags |-> "expense"],
              leaf   |-> [t \in Tags |-> TRUE],
              budget |-> [t \in Tags |-> FALSE]]

TreeInit ==
  /\ tree = EmptyTree
  /\ label = [x \in Things |-> None]

-----------------------------------------------------------------------------
(* Reading the table d. *)

Children(d, t) == {c \in d.tags : d.parent[c] = t}

(* child_ids without the tag itself: the least set with the children of t    *)
(* and the children of its members.                                          *)
Below(d, t) ==
  {u \in d.tags : \A S \in SUBSET d.tags :
     (Children(d, t) \subseteq S /\ \A s \in S : Children(d, s) \subseteq S) => u \in S}

-----------------------------------------------------------------------------
(* The callbacks of a save. *)

(* Mutant: a blank parent is not guarded against. *)
BeforeSaveUnguarded(d, t) ==
  LET p == d.parent[t]
      isLeaf == Children(d, t) = {}
  IN [d EXCEPT !.leaf[t] = isLeaf, !.budget[t] = @ /\ isLeaf,
               !.type[t] = IF p = None THEN None ELSE d.type[p]]

(* before_save: set_is_leaf, validate_target_budget, then                   *)
(* inherit_tag_type_from_parent.                                            *)
BeforeSave(d, t) ==
  LET p == d.parent[t]
      isLeaf == Children(d, t) = {}
  IN [d EXCEPT !.leaf[t] = isLeaf,
               !.budget[t] = @ /\ isLeaf,
               !.type[t] = IF p = None THEN @ ELSE d.type[p]]

(* Mutant: the type cascades to the children only. *)
CascadeOneLevel(d, t, oldType) ==
  IF d.type[t] = oldType
    THEN d
    ELSE [d EXCEPT !.type = [u \in Tags |-> IF u \in Children(d, t) THEN d.type[t] ELSE @[u]]]

(* after_save: cascade_tag_type_to_descendants, when the save has changed    *)
(* the type.                                                                 *)
Cascade(d, t, oldType) ==
  IF d.type[t] = oldType
    THEN d
    ELSE [d EXCEPT !.type = [u \in Tags |-> IF u \in Below(d, t) THEN d.type[t] ELSE @[u]]]

(* MerchantTag.find_by(id: p)&.save! *)
Resave(d, p) == IF p \in d.tags THEN Cascade(BeforeSave(d, p), p, d.type[p]) ELSE d

(* Mutant: the parent that loses a child is not saved. *)
SyncNewParent(d, old, new) == IF old = new THEN d ELSE Resave(d, new)

(* after_save: sync_parent_leafness, when the save has changed the parent *)
SyncParents(d, old, new) == IF old = new THEN d ELSE Resave(Resave(d, old), new)

(* The row t of d holds the assigned attributes; from is the row as loaded. *)
Save(d, t, from) ==
  Cascade(SyncParents(BeforeSave(d, t), from.parent, d.parent[t]), t, from.type)

Loaded(d, t) == [parent |-> d.parent[t], type |-> d.type[t]]

-----------------------------------------------------------------------------
(* The requests. *)

(* POST /api/merchant_tags *)
Create(t, p, type, b) ==
  /\ t \notin tree.tags
  /\ p \in tree.tags \cup {None}
  /\ tree' = Save([tree EXCEPT !.tags = @ \cup {t}, !.parent[t] = p, !.type[t] = type, !.budget[t] = b],
                  t, [parent |-> None, type |-> type])
  /\ UNCHANGED label

(* Mutant: any parent is accepted. *)
UpdateAnywhere(t, p, type, b) ==
  /\ t \in tree.tags
  /\ p \in tree.tags \cup {None}
  /\ tree' = Save([tree EXCEPT !.parent[t] = p, !.type[t] = type, !.budget[t] = b],
                  t, Loaded(tree, t))
  /\ UNCHANGED label

(* PUT /api/merchant_tags/:id with any of the permitted attributes.  The     *)
(* client offers no parent among the tag and its descendants (View.tsx       *)
(* canDropOn, EditCategoryModal.tsx excludedIds).                            *)
Update(t, p, type, b) ==
  /\ t \in tree.tags
  /\ p \in (tree.tags \cup {None}) \ (Below(tree, t) \cup {t})
  /\ tree' = Save([tree EXCEPT !.parent[t] = p, !.type[t] = type, !.budget[t] = b],
                  t, Loaded(tree, t))
  /\ UNCHANGED label

(* Mutant: the children become top-level. *)
PromoteToTop(d, t) ==
  [d EXCEPT !.parent = [u \in Tags |-> IF u \in Children(d, t) THEN None ELSE @[u]]]

(* before_destroy: detach_dependents promotes the children *)
Promote(d, t) ==
  [d EXCEPT !.parent = [u \in Tags |-> IF u \in Children(d, t) THEN d.parent[t] ELSE @[u]]]

Erase(d, t) == [d EXCEPT !.tags = @ \ {t}, !.parent[t] = None]

(* Mutant: only transactions lose the tag. *)
UnlabelSome(t) == [x \in Things |-> IF label[x] = t /\ x # (CHOOSE y \in Things : TRUE) THEN None ELSE label[x]]

(* and takes the tag off the transactions and merchants that have it. *)
Unlabel(t) == [x \in Things |-> IF label[x] = t THEN None ELSE label[x]]

(* DELETE /api/merchant_tags/:id *)
Destroy(t) ==
  /\ t \in tree.tags
  /\ tree' = Resave(Erase(Promote(tree, t), t), tree.parent[t])
  /\ label' = Unlabel(t)

(* Categorising a transaction, or setting a merchant's default. *)
Assign(x, t) ==
  /\ t \in tree.tags \cup {None}
  /\ label' = [label EXCEPT ![x] = t]
  /\ UNCHANGED tree

TreeNext ==
  \/ \E t \in Tags, p \in Tags \cup {None}, type \in TagTypes, b \in BOOLEAN :
       Create(t, p, type, b) \/ Update(t, p, type, b)
  \/ \E t \in Tags : Destroy(t)
  \/ \E x \in Things, t \in Tags \cup {None} : Assign(x, t)

TreeSpec == TreeInit /\ [][TreeNext]_treeVars

-----------------------------------------------------------------------------
(* Properties of a table d, and of the table. *)

ParentsExist(d) == \A t \in d.tags : d.parent[t] # None => d.parent[t] \in d.tags

(* Every set of tags has one whose parent is outside it. *)
Rooted(d) == \A S \in SUBSET d.tags : S # {} => \E s \in S : d.parent[s] \notin S

Typed(d) == \A t \in d.tags : d.parent[t] # None => d.type[t] = d.type[d.parent[t]]

LeafFlags(d) == \A t \in d.tags : d.leaf[t] <=> Children(d, t) = {}

(* The parent links form a forest: following them ends at a root (parent_ids *)
(* and child_ids, merchant_tag.rb:45-64, do not terminate otherwise).        *)
Forest == ParentsExist(tree) /\ Rooted(tree)

(* "every tag in a connected tree has the root's tag_type. Children inherit  *)
(* on save; changing a tag's type cascades to its descendants."              *)
(* (merchant_tag.rb:5-6)                                                     *)
OneTypePerTree == Typed(tree)

(* is_leaf says whether a tag has children, although it is only computed     *)
(* when the tag itself is saved (merchant_tag.rb:98-107, 117-119), and a tag *)
(* with children holds no budget, so that budgets are not counted twice.     *)
LeafTruthful ==
  /\ LeafFlags(tree)
  /\ \A t \in tree.tags : tree.budget[t] => Children(tree, t) = {}

(* No transaction or merchant refers to a tag that is gone, which the foreign *)
(* keys would turn into a failure of the request (merchant_tag.rb:109-115).   *)
LabelsExist == \A x \in Things : label[x] # None => label[x] \in tree.tags

(* Destroying a tag moves no other tag to another type, and no tag out of its *)
(* tree: every other tag keeps its type and its ancestors, less the one gone  *)
(* ("promoted one level up ... and keep their tag type", API.md:978).         *)
DestroyKeepsTheRest ==
  [][\A t \in Tags : Destroy(t) =>
       \A u \in tree.tags \ {t} :
         /\ tree'.type[u] = tree.type[u]
         /\ Below(tree', u) = Below(tree, u) \ {t}]_treeVars
=============================================================================
