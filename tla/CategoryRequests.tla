-------------------------- MODULE CategoryRequests --------------------------
(***************************************************************************)
(* The requests of CategoryTree statement by statement, several at once.   *)
(*                                                                         *)
(* A request loads its record, then saves or destroys it in one database   *)
(* transaction.  The database is Postgres at READ COMMITTED (external): a  *)
(* statement sees the committed tables and what its own transaction wrote; *)
(* a row written or deleted is locked until the transaction ends; a row    *)
(* that becomes the target of a foreign key cannot be deleted meanwhile.   *)
(* ActiveRecord computes what a save writes from the columns that differ   *)
(* from the record it loaded.                                              *)
(***************************************************************************)
EXTENDS CategoryTree, Sequences, Functions

CONSTANTS
  Workers,               \* the threads that serve requests
  TypeInputs, BudgetInputs   \* bounds: the types and budgets that requests ask for

(* The type is validated (merchant_tag.rb:18). *)
ASSUME InputsAssumption == TypeInputs \subseteq TagTypes /\ BudgetInputs \subseteq BOOLEAN

VARIABLES
  rpc,     \* "idle", "run" (next task) or "write" (a statement waits for its locks)
  todo,    \* the callbacks still to run
  cols,    \* what the waiting statement writes
  pend     \* what the transaction has written

reqVars == <<rpc, todo, cols, pend>>
crVars  == <<treeVars, reqVars>>

Columns == {"parent", "type", "leaf", "budget"}

(* Written rows: a partial function per column, rows added and deleted. *)
NoWrites == [parent |-> << >>, type |-> << >>, leaf |-> << >>, budget |-> << >>,
             label |-> << >>, add |-> {}, del |-> {}]

(* f where it is defined, g elsewhere. *)
Over(f, g) == [x \in DOMAIN f \cup DOMAIN g |-> IF x \in DOMAIN f THEN f[x] ELSE g[x]]

Onto(c, d) == [tags   |-> (d.tags \cup c.add) \ c.del,
               parent |-> [t \in Tags |-> IF t \in c.del THEN None ELSE Over(c.parent, d.parent)[t]],
               type   |-> Over(c.type, d.type),
               leaf   |-> Over(c.leaf, d.leaf),
               budget |-> Over(c.budget, d.budget)]

(* What the statements of w see. *)
View(w)      == Onto(pend[w], tree)
ViewLabel(w) == Over(pend[w].label, label)

Rows(c) == c.add \cup c.del \cup UNION {DOMAIN c[f] : f \in Columns}

(* The rows another transaction has locked, and those it refers to. *)
Locked(w)   == UNION {Rows(pend[v]) : v \in Workers \ {w}}
Deleted(w)  == UNION {pend[v].del : v \in Workers \ {w}}
Referred(w) == UNION {Range(pend[v].parent) : v \in Workers \ {w}}

CRInit ==
  /\ TreeInit
  /\ rpc = [w \in Workers |-> "idle"]
  /\ todo = [w \in Workers |-> << >>]
  /\ cols = [w \in Workers |-> NoWrites]
  /\ pend = [w \in Workers |-> NoWrites]

-----------------------------------------------------------------------------
(* Tasks: save the record of a tag; save the parent a tag has left or        *)
(* joined; retype the descendants; detach and delete a tag.                  *)

SaveTask(t, assigned, from) == [op |-> "save", tag |-> t, row |-> assigned, from |-> from]
ResaveTask(p)               == [op |-> "resave", tag |-> p]
CascadeTask(t, type, kids)  == [op |-> "cascade", tag |-> t, type |-> type, kids |-> kids]

RowOf(d, t) == [parent |-> d.parent[t], type |-> d.type[t], leaf |-> d.leaf[t], budget |-> d.budget[t]]

Run(w, tasks) ==
  /\ rpc' = [rpc EXCEPT ![w] = "run"]
  /\ todo' = [todo EXCEPT ![w] = tasks]

(* The sequence of the table gives every row an id of its own. *)
Fresh(t) ==
  /\ t \notin tree.tags
  /\ \A v \in Workers : t \notin pend[v].add \cup cols[v].add /\ \A i \in DOMAIN todo[v] : todo[v][i].tag # t

StartCreate(w, t, p, type, b) ==
  /\ rpc[w] = "idle"
  /\ Fresh(t)
  /\ p \in tree.tags \cup {None}
  /\ Run(w, <<[op |-> "insert", tag |-> t, row |-> [parent |-> p, type |-> type, leaf |-> TRUE, budget |-> b]]>>)
  /\ UNCHANGED <<treeVars, cols, pend>>

(* find, and the parent the client chose from the tree it shows *)
StartUpdate(w, t, p, type, b) ==
  /\ rpc[w] = "idle"
  /\ t \in tree.tags
  /\ p \in (tree.tags \cup {None}) \ (Below(tree, t) \cup {t})
  /\ LET from == RowOf(tree, t)
     IN Run(w, <<SaveTask(t, [from EXCEPT !.parent = p, !.type = type, !.budget = b], from)>>)
  /\ UNCHANGED <<treeVars, cols, pend>>

StartDestroy(w, t) ==
  /\ rpc[w] = "idle"
  /\ t \in tree.tags
  /\ Run(w, <<[op |-> "detach", tag |-> t, parent |-> tree.parent[t]],
              [op |-> "delete", tag |-> t],
              ResaveTask(tree.parent[t])>>)
  /\ UNCHANGED <<treeVars, cols, pend>>

-----------------------------------------------------------------------------
(* A task reads what the transaction sees and prepares a statement. *)

Prepare(w, writes, after) ==
  /\ rpc' = [rpc EXCEPT ![w] = "write"]
  /\ cols' = [cols EXCEPT ![w] = writes]
  /\ todo' = [todo EXCEPT ![w] = after \o Tail(todo[w])]
  /\ UNCHANGED <<treeVars, pend>>

Is(w, op) == rpc[w] = "run" /\ todo[w] # << >> /\ Head(todo[w]).op = op

Put(t, now, was) == IF now = was THEN << >> ELSE [x \in {t} |-> now]

(* The columns of a row now that differ from the row as it was loaded. *)
Dirty(t, now, was) ==
  [NoWrites EXCEPT !.parent = Put(t, now.parent, was.parent),
                   !.type   = Put(t, now.type, was.type),
                   !.leaf   = Put(t, now.leaf, was.leaf),
                   !.budget = Put(t, now.budget, was.budget)]

(* The callbacks before a save, on the assigned row of t, as d shows the rest. *)
Assigned(d, t, row) ==
  [d EXCEPT !.parent[t] = row.parent, !.type[t] = row.type, !.leaf[t] = row.leaf, !.budget[t] = row.budget]

AfterSave(t, now, was, kids) ==
  (IF now.parent = was.parent THEN << >> ELSE <<ResaveTask(was.parent), ResaveTask(now.parent)>>)
    \o (IF now.type = was.type THEN << >> ELSE <<CascadeTask(t, now.type, kids)>>)

SaveRow(w) ==
  /\ Is(w, "save")
  /\ LET task == Head(todo[w])
         t    == task.tag
         d    == BeforeSave(Assigned(View(w), t, task.row), t)
         now  == RowOf(d, t)
     IN /\ task.row.parent \in View(w).tags \cup {None}
        /\ Prepare(w, Dirty(t, now, task.from), AfterSave(t, now, task.from, Children(View(w), t)))

InsertRow(w) ==
  /\ Is(w, "insert")
  /\ LET task == Head(todo[w])
         t    == task.tag
         row  == task.row
         type == IF row.parent = None THEN row.type ELSE View(w).type[row.parent]
     IN /\ row.parent \in View(w).tags \cup {None}
        /\ Prepare(w, [NoWrites EXCEPT !.add = {t}, !.parent = [x \in {t} |-> row.parent],
                                       !.type = [x \in {t} |-> type], !.leaf = [x \in {t} |-> TRUE],
                                       !.budget = [x \in {t} |-> row.budget]],
                   IF row.parent = None THEN << >> ELSE <<ResaveTask(row.parent)>>)

(* MerchantTag.find_by(id: p)&.save! *)
ResaveRow(w) ==
  /\ Is(w, "resave")
  /\ LET p   == Head(todo[w]).tag
         d   == View(w)
         was == RowOf(d, p)
         now == RowOf(BeforeSave(d, p), p)
     IN IF p \in d.tags
          THEN Prepare(w, Dirty(p, now, was), AfterSave(p, now, was, Children(d, p)))
          ELSE Prepare(w, NoWrites, << >>)

(* Mutant: the children, and not what is below them. *)
CascadeKids(w) ==
  /\ Is(w, "cascade")
  /\ LET task == Head(todo[w])
     IN Prepare(w, [NoWrites EXCEPT !.type = [u \in task.kids |-> task.type]], << >>)

(* child_ids starts from the children the record had when it was saved *)
CascadeRows(w) ==
  /\ Is(w, "cascade")
  /\ LET task == Head(todo[w])
         ids  == task.kids \cup UNION {Below(View(w), k) : k \in task.kids}
     IN /\ \A u \in ids : u \notin Below(View(w), u)
        /\ Prepare(w, [NoWrites EXCEPT !.type = [u \in ids |-> task.type]], << >>)

(* An UPDATE of a row that is gone does nothing. *)
Hit(w, c, f) == Restrict(f, DOMAIN f \cap (View(w).tags \cup c.add))

(* Mutant: no foreign key on the category of a transaction or merchant. *)
ParentKeysHold(w, c) ==
  /\ Range(Hit(w, c, c.parent)) \subseteq (View(w).tags \cup {None}) \ Deleted(w)
  /\ c.del \cap Referred(w) = {}
  /\ \A t \in c.del : Children(View(w), t) = {}

(* A parent exists and no other transaction deletes it; a row that is deleted *)
(* is nobody's parent and nobody's tag, nor about to become one.              *)
ForeignKeysHold(w, c) ==
  /\ Range(Hit(w, c, c.parent)) \subseteq (View(w).tags \cup {None}) \ Deleted(w)
  /\ c.del \cap Referred(w) = {}
  /\ \A t \in c.del : Children(View(w), t) = {} /\ \A x \in Things : ViewLabel(w)[x] # t

(* A statement runs when it has its locks and its foreign keys hold. *)
Write(w, c) ==
  /\ Rows(c) \cap Locked(w) = {}
  /\ DOMAIN c.label \cap UNION {DOMAIN pend[v].label : v \in Workers \ {w}} = {}
  /\ ForeignKeysHold(w, c)
  /\ pend' = [pend EXCEPT ![w] =
       [parent |-> Over(Hit(w, c, c.parent), @.parent), type |-> Over(Hit(w, c, c.type), @.type),
        leaf |-> Over(Hit(w, c, c.leaf), @.leaf), budget |-> Over(Hit(w, c, c.budget), @.budget),
        label |-> Over(c.label, @.label), add |-> @.add \cup c.add, del |-> @.del \cup c.del]]
  /\ rpc' = [rpc EXCEPT ![w] = "run"]
  /\ cols' = [cols EXCEPT ![w] = NoWrites]
  /\ UNCHANGED treeVars

(* The UPDATE prepared from an earlier read. *)
Execute(w) == rpc[w] = "write" /\ Write(w, cols[w]) /\ UNCHANGED todo

(* detach_dependents and the DELETE read and write in one statement each. *)
Detach(w) ==
  /\ Is(w, "detach")
  /\ LET task == Head(todo[w])
     IN Write(w, [NoWrites EXCEPT
                    !.parent = [u \in Children(View(w), task.tag) |-> task.parent],
                    !.label = [x \in {y \in Things : ViewLabel(w)[y] = task.tag} |-> None]])
  /\ todo' = [todo EXCEPT ![w] = Tail(@)]

Delete(w) ==
  /\ Is(w, "delete")
  /\ Write(w, [NoWrites EXCEPT !.del = {Head(todo[w]).tag}])
  /\ todo' = [todo EXCEPT ![w] = Tail(@)]

EndRequest(w) ==
  /\ rpc' = [rpc EXCEPT ![w] = "idle"]
  /\ todo' = [todo EXCEPT ![w] = << >>]
  /\ cols' = [cols EXCEPT ![w] = NoWrites]
  /\ pend' = [pend EXCEPT ![w] = NoWrites]

Commit(w) ==
  /\ rpc[w] = "run" /\ todo[w] = << >>
  /\ tree' = Onto(pend[w], tree)
  /\ label' = Over(pend[w].label, label)
  /\ EndRequest(w)

(* An exception, a foreign key violation, a deadlock victim or a crash: the  *)
(* transaction is rolled back.                                               *)
Rollback(w) ==
  /\ rpc[w] # "idle"
  /\ EndRequest(w)
  /\ UNCHANGED treeVars

(* One UPDATE of a transaction or merchant, checked against the foreign key. *)
AssignNow(x, t) ==
  /\ Assign(x, t)
  /\ \A v \in Workers : t \notin pend[v].del /\ x \notin DOMAIN pend[v].label
  /\ UNCHANGED reqVars

Request(w) ==
  \/ \E t \in Tags, p \in Tags \cup {None}, type \in TypeInputs, b \in BudgetInputs :
       StartCreate(w, t, p, type, b) \/ StartUpdate(w, t, p, type, b)
  \/ \E t \in Tags : StartDestroy(w, t)
  \/ SaveRow(w) \/ InsertRow(w) \/ ResaveRow(w) \/ CascadeRows(w) \/ Execute(w)
  \/ Detach(w) \/ Delete(w) \/ Commit(w) \/ Rollback(w)

CRNext == (\E w \in Workers : Request(w)) \/ \E x \in Things, t \in Tags \cup {None} : AssignNow(x, t)

CRSpec == CRInit /\ [][CRNext]_crVars

-----------------------------------------------------------------------------
(* Properties. *)

(* Whatever runs at the same time, no category has a parent that is gone and *)
(* no transaction or merchant a category that is gone, although a destroy    *)
(* detaches what it finds before it deletes (merchant_tag.rb:109-115).       *)
LinksExist == ParentsExist(tree) /\ LabelsExist

(* Requests served one after another have the effect of the atomic ones: the *)
(* order of the callbacks, the records they loaded earlier and the columns   *)
(* ActiveRecord therefore leaves out make no difference to the forest        *)
(* (merchant_tag.rb:24-31, 86-107).                                          *)
OneAtATime == TreeSpec
=============================================================================
