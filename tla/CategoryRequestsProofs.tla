----------------------- MODULE CategoryRequestsProofs -----------------------
(***************************************************************************)
(* The requests of CategoryRequests, several at a time: for any number of  *)
(* them, and requests that fail at any statement, no category and nothing  *)
(* categorised refers to a category that is gone; and requests served one  *)
(* after another, each a sequence of statements, implement CategoryTree.   *)
(***************************************************************************)
EXTENDS CategoryRequests, CategoryProofs, SequenceTheorems

-----------------------------------------------------------------------------
(* The inductive invariant.  The committed tables are sound as long as every *)
(* transaction that may still commit is: what it wrote of the parents refers *)
(* to rows that will be there, and nothing that will be there refers to what *)
(* it deleted.  The locks keep two transactions from spoiling each other.    *)

(* Written with its links: rows added with their parent, labels only taken   *)
(* off.                                                                      *)
WritesOK(c) ==
  /\ c.add \subseteq Tags \cap DOMAIN c.parent
  /\ c.del \subseteq Tags
  /\ \A x \in DOMAIN c.label : c.label[x] = None

(* One statement deletes or links, not both. *)
StatementOK(c) == WritesOK(c) /\ (c.del = {} \/ DOMAIN c.parent = {})

(* The tasks that add and delete rows name tags. *)
GoodTask(task) == task.op \in {"insert", "delete"} => task.tag \in Tags
TodoOK(s) == s \in Seq(Range(s)) /\ \A task \in Range(s) : GoodTask(task)

Shape ==
  /\ tree.tags \subseteq Tags /\ DOMAIN tree.parent = Tags
  /\ Things \subseteq DOMAIN label
  /\ DOMAIN rpc = Workers /\ DOMAIN todo = Workers /\ DOMAIN cols = Workers /\ DOMAIN pend = Workers
  /\ \A w \in Workers : TodoOK(todo[w]) /\ StatementOK(cols[w]) /\ WritesOK(pend[w])

(* A row whose parent a transaction wrote is there, and so is the parent. *)
ParentsWritten(c) ==
  \A u \in DOMAIN c.parent :
    /\ u \in tree.tags \cup c.add
    /\ u \notin c.del => c.parent[u] \in ((tree.tags \cup c.add) \ c.del) \cup {None}

(* What refers to a row that a transaction deleted, it rewrote or deleted.   *)
DeletesDetached(c) ==
  \A t \in c.del :
    /\ \A u \in tree.tags : tree.parent[u] = t => u \in DOMAIN c.parent \cup c.del
    /\ \A x \in Things : label[x] = t => x \in DOMAIN c.label

LinkRows(c) == c.add \cup c.del \cup DOMAIN c.parent

(* d deletes no row that c wrote or refers to. *)
Apart(c, d) ==
  /\ LinkRows(c) \cap LinkRows(d) = {}
  /\ Range(c.parent) \cap d.del = {}

CommitsSound ==
  /\ \A w \in Workers : ParentsWritten(pend[w]) /\ DeletesDetached(pend[w])
  /\ \A v, w \in Workers : v # w => Apart(pend[v], pend[w])

CRInv == Shape /\ LinksExist /\ CommitsSound

-----------------------------------------------------------------------------
(* What a transaction wrote. *)

LEMMA NoWritesIs ==
  /\ NoWrites.add = {} /\ NoWrites.del = {}
  /\ DOMAIN NoWrites.parent = {} /\ DOMAIN NoWrites.label = {}
BY DEF NoWrites

LEMMA NoWritesOK ==
  /\ StatementOK(NoWrites) /\ ParentsWritten(NoWrites) /\ DeletesDetached(NoWrites)
  /\ \A c : Apart(c, NoWrites) /\ (Range(NoWrites.parent) = {})
BY NoWritesIs DEF StatementOK, WritesOK, ParentsWritten, DeletesDetached, Apart, LinkRows, Range

LEMMA ViewIs ==
  ASSUME NEW w, DOMAIN tree.parent = Tags
  PROVE  /\ View(w).tags = (tree.tags \cup pend[w].add) \ pend[w].del
         /\ \A t \in Tags : View(w).parent[t] =
              IF t \in pend[w].del THEN None
              ELSE IF t \in DOMAIN pend[w].parent THEN pend[w].parent[t] ELSE tree.parent[t]
BY DEF View, Onto, Over

-----------------------------------------------------------------------------
(* The tasks. *)

LEMMA TodoFrom ==
  ASSUME NEW S, NEW s \in Seq(S), \A task \in S : GoodTask(task)
  PROVE  TodoOK(s)
BY DEF TodoOK, Range

LEMMA TodoTail ==
  ASSUME NEW s, TodoOK(s), s # << >>, NEW after, TodoOK(after)
  PROVE  TodoOK(after \o Tail(s)) /\ TodoOK(Tail(s)) /\ GoodTask(Head(s))
<1>. DEFINE S == Range(s) \cup Range(after)
<1>1. s \in Seq(S) /\ after \in Seq(S) /\ \A task \in S : GoodTask(task)
  BY DEF TodoOK
<1>. HIDE DEF S
<1>2. Tail(s) \in Seq(S) /\ after \o Tail(s) \in Seq(S) /\ Head(s) \in S
  BY <1>1
<1>3. QED
  BY <1>1, <1>2, TodoFrom

LEMMA EmptyTodo == TodoOK(<< >>)
BY DEF TodoOK, Range

LEMMA OneTask ==
  ASSUME NEW task, GoodTask(task)
  PROVE  TodoOK(<<task>>)
<1>. DEFINE S == {task}
<1>1. task \in S /\ \A x \in S : GoodTask(x)
  OBVIOUS
<1>. HIDE DEF S
<1>2. <<task>> \in Seq(S)
  BY <1>1
<1>3. QED
  BY <1>1, <1>2, TodoFrom

LEMMA ThreeTasks ==
  ASSUME NEW a, NEW b, NEW c, GoodTask(a), GoodTask(b), GoodTask(c)
  PROVE  TodoOK(<<a, b, c>>)
<1>. DEFINE S == {a, b, c}
<1>1. a \in S /\ b \in S /\ c \in S /\ \A task \in S : GoodTask(task)
  OBVIOUS
<1>. HIDE DEF S
<1>2. <<a, b, c>> \in Seq(S)
  BY <1>1
<1>3. QED
  BY <1>1, <1>2, TodoFrom

LEMMA AfterSaveTasks ==
  ASSUME NEW t, NEW now, NEW was, NEW kids
  PROVE  TodoOK(AfterSave(t, now, was, kids))
<1>. DEFINE S == {ResaveTask(was.parent), ResaveTask(now.parent), CascadeTask(t, now.type, kids)}
<1>1. \A task \in S : GoodTask(task)
  BY DEF GoodTask, ResaveTask, CascadeTask
<1>2. <<ResaveTask(was.parent), ResaveTask(now.parent)>> \in Seq(S) /\ << >> \in Seq(S)
      /\ <<CascadeTask(t, now.type, kids)>> \in Seq(S)
  OBVIOUS
<1>. HIDE DEF S
<1>3. AfterSave(t, now, was, kids) \in Seq(S)
  BY <1>2 DEF AfterSave
<1>4. QED
  BY <1>1, <1>3, TodoFrom

-----------------------------------------------------------------------------
(* A statement that has its locks and its foreign keys. *)

(* The transaction's writes after a statement. *)
LEMMA WrittenIs ==
  ASSUME NEW w \in Workers, NEW c, Write(w, c), DOMAIN pend = Workers
  PROVE  /\ pend'[w].add = pend[w].add \cup c.add
         /\ pend'[w].del = pend[w].del \cup c.del
         /\ pend'[w].parent = Over(Hit(w, c, c.parent), pend[w].parent)
         /\ pend'[w].label = Over(c.label, pend[w].label)
         /\ \A v \in Workers : v # w => pend'[v] = pend[v]
         /\ DOMAIN pend' = Workers
BY DEF Write

LEMMA WriteStep ==
  ASSUME CRInv, NEW w \in Workers, NEW c, StatementOK(c), Write(w, c)
  PROVE  LinksExist' /\ CommitsSound' /\ \A v \in Workers : WritesOK(pend'[v])
<1>. DEFINE old == pend[w]
            new == pend'[w]
            hit == DOMAIN c.parent \cap (View(w).tags \cup c.add)
<1>1. /\ new.add = old.add \cup c.add /\ new.del = old.del \cup c.del
      /\ new.label = Over(c.label, old.label)
      /\ \A v \in Workers : v # w => pend'[v] = pend[v]
  BY WrittenIs DEF CRInv, Shape
<1>2. /\ DOMAIN new.parent = hit \cup DOMAIN old.parent
      /\ \A u \in hit : new.parent[u] = c.parent[u]
      /\ \A u \in DOMAIN old.parent : u \notin hit => new.parent[u] = old.parent[u]
  <2>1. new.parent = Over(Hit(w, c, c.parent), old.parent)
    BY WrittenIs DEF CRInv, Shape
  <2>2. DOMAIN Hit(w, c, c.parent) = hit /\ \A u \in hit : Hit(w, c, c.parent)[u] = c.parent[u]
    BY DEF hit, Hit, Restrict
  <2>3. QED
    BY <2>1, <2>2 DEF Over
<1>3. UNCHANGED <<tree, label>>
  BY DEF Write, treeVars
<1>4. /\ View(w).tags = (tree.tags \cup old.add) \ old.del
      /\ \A t \in Tags : View(w).parent[t] =
           IF t \in old.del THEN None
           ELSE IF t \in DOMAIN old.parent THEN old.parent[t] ELSE tree.parent[t]
  BY ViewIs DEF CRInv, Shape
<1>5. /\ WritesOK(old) /\ WritesOK(c) /\ (c.del = {} \/ DOMAIN c.parent = {})
      /\ ParentsWritten(old) /\ DeletesDetached(old) /\ tree.tags \subseteq Tags
  BY DEF StatementOK, CRInv, Shape, CommitsSound
\* The foreign keys of the statement.
<1>6. \A u \in hit : c.parent[u] \in View(w).tags \cup {None} /\ c.parent[u] \notin Deleted(w)
  BY DEF Write, ForeignKeysHold, Range, Hit, Restrict
<1>7. ASSUME NEW t \in c.del
      PROVE  /\ \A u \in View(w).tags : View(w).parent[u] # t
             /\ \A x \in Things : ViewLabel(w)[x] # t
  BY DEF Write, ForeignKeysHold, Children
<1>8. \A v \in Workers \ {w} : Range(pend[v].parent) \cap c.del = {}
  BY DEF Write, ForeignKeysHold, Referred
<1>9. \A v \in Workers \ {w} : LinkRows(c) \cap LinkRows(pend[v]) = {}
  <2>1. \A d : LinkRows(d) \subseteq Rows(d)
    BY DEF LinkRows, Rows, Columns
  <2>2. \A v \in Workers \ {w} : Rows(c) \cap Rows(pend[v]) = {}
    BY DEF Write, Locked
  <2>3. QED
    BY <2>1, <2>2
<1>. HIDE DEF hit
<1>10. WritesOK(new)
  <2>1. c.add \subseteq hit
    BY <1>5 DEF WritesOK, hit
  <2>2. \A x \in DOMAIN new.label : new.label[x] = None
    BY <1>1, <1>5 DEF WritesOK, Over
  <2>3. QED
    BY <1>1, <1>2, <1>5, <2>1, <2>2 DEF WritesOK
<1>11. ParentsWritten(new)
  <2>1. ASSUME NEW u \in hit
        PROVE  /\ u \in tree.tags \cup new.add
               /\ u \notin new.del =>
                    new.parent[u] \in ((tree.tags \cup new.add) \ new.del) \cup {None}
    <3>1. u \in DOMAIN c.parent /\ u \in View(w).tags \cup c.add
      BY DEF hit
    <3>2. c.del = {}
      BY <1>5, <3>1
    <3>3. QED
      BY <1>1, <1>2, <1>4, <1>6, <3>1, <3>2
  <2>2. ASSUME NEW u \in DOMAIN old.parent, u \notin hit
        PROVE  /\ u \in tree.tags \cup new.add
               /\ u \notin new.del =>
                    new.parent[u] \in ((tree.tags \cup new.add) \ new.del) \cup {None}
    <3>1. u \in tree.tags \cup old.add /\ u \in Tags
      BY <1>5 DEF ParentsWritten, WritesOK
    <3>2. SUFFICES ASSUME u \notin new.del
                   PROVE  old.parent[u] \in ((tree.tags \cup new.add) \ new.del) \cup {None}
      BY <1>1, <1>2, <2>2, <3>1
    <3>3. old.parent[u] \in ((tree.tags \cup old.add) \ old.del) \cup {None}
      BY <1>1, <1>5, <3>2 DEF ParentsWritten
    <3>4. u \in View(w).tags /\ View(w).parent[u] = old.parent[u]
      BY <1>1, <1>4, <3>1, <3>2
    <3>5. old.parent[u] \notin c.del
      BY <1>7, <3>4
    <3>6. QED
      BY <1>1, <3>3, <3>5
  <2>3. QED
    BY <1>2, <2>1, <2>2, <1>3 DEF ParentsWritten
<1>12. DeletesDetached(new)
  <2>1. ASSUME NEW t \in old.del
        PROVE  /\ \A u \in tree.tags : tree.parent[u] = t => u \in DOMAIN new.parent \cup new.del
               /\ \A x \in Things : label[x] = t => x \in DOMAIN new.label
    BY <1>1, <1>2, <1>5 DEF DeletesDetached, Over
  <2>2. ASSUME NEW t \in c.del
        PROVE  /\ \A u \in tree.tags : tree.parent[u] = t => u \in DOMAIN new.parent \cup new.del
               /\ \A x \in Things : label[x] = t => x \in DOMAIN new.label
    <3>1. ASSUME NEW u \in tree.tags, tree.parent[u] = t, u \notin DOMAIN old.parent \cup old.del
          PROVE  FALSE
      <4>1. u \in View(w).tags /\ View(w).parent[u] = t
        BY <1>4, <1>5, <3>1
      <4>2. QED
        BY <1>7, <4>1
    <3>2. ASSUME NEW x \in Things, label[x] = t, x \notin DOMAIN old.label
          PROVE  FALSE
      <4>1. ViewLabel(w)[x] = t
        BY <3>2 DEF ViewLabel, CRInv, Shape, Over
      <4>2. QED
        BY <1>7, <4>1
    <3>3. DOMAIN new.label = DOMAIN c.label \cup DOMAIN old.label
      BY <1>1 DEF Over
    <3>4. QED
      BY <1>1, <1>2, <3>1, <3>2, <3>3
  <2>3. QED
    BY <1>1, <2>1, <2>2 DEF DeletesDetached
<1>13. ASSUME NEW v \in Workers, v # w
       PROVE  Apart(new, pend[v]) /\ Apart(pend[v], new)
  <2>1. Apart(old, pend[v]) /\ Apart(pend[v], old)
    BY <1>13 DEF CRInv, CommitsSound
  <2>2. LinkRows(new) \subseteq LinkRows(old) \cup LinkRows(c)
    BY <1>1, <1>2 DEF LinkRows, hit
  <2>3. LinkRows(new) \cap LinkRows(pend[v]) = {}
    BY <1>9, <1>13, <2>1, <2>2 DEF Apart
  <2>4. Range(pend[v].parent) \cap new.del = {}
    BY <1>1, <1>8, <1>13, <2>1 DEF Apart
  <2>5. ASSUME NEW u \in DOMAIN new.parent PROVE new.parent[u] \notin pend[v].del
    <3>1. CASE u \in hit
      BY <1>2, <1>6, <1>13, <3>1 DEF Deleted
    <3>2. CASE u \notin hit
      BY <1>2, <2>1, <3>2 DEF Apart, Range
    <3>3. QED
      BY <3>1, <3>2
  <2>6. QED
    BY <2>3, <2>4, <2>5 DEF Apart, Range
<1>14. LinksExist'
  BY <1>3 DEF CRInv, LinksExist, ParentsExist, LabelsExist
<1>15. ASSUME NEW v \in Workers PROVE ParentsWritten(pend[v])' /\ DeletesDetached(pend[v])'
  <2>1. CASE v = w
    BY <1>3, <1>11, <1>12, <2>1 DEF ParentsWritten, DeletesDetached
  <2>2. CASE v # w
    BY <1>1, <1>3, <2>2 DEF CRInv, CommitsSound, ParentsWritten, DeletesDetached
  <2>3. QED
    BY <2>1, <2>2
<1>16. ASSUME NEW u \in Workers, NEW v \in Workers, u # v PROVE Apart(pend[u], pend[v])'
  <2>1. CASE u = w \/ v = w
    BY <1>1, <1>13, <1>16, <2>1 DEF Apart, LinkRows, Range
  <2>2. CASE u # w /\ v # w
    BY <1>1, <1>16, <2>2 DEF CRInv, CommitsSound, Apart, LinkRows, Range
  <2>3. QED
    BY <2>1, <2>2
<1>17. \A v \in Workers : WritesOK(pend'[v])
  BY <1>1, <1>10 DEF CRInv, Shape
<1>18. QED
  BY <1>14, <1>15, <1>16, <1>17 DEF CommitsSound

-----------------------------------------------------------------------------
(* The steps of a request. *)

TreePart == LinksExist /\ CommitsSound

LEMMA TreePartKept ==
  ASSUME CRInv, UNCHANGED <<treeVars, pend>>
  PROVE  TreePart'
<1>1. UNCHANGED <<tree, label, pend>>
  BY DEF treeVars
<1>2. LinksExist'
  BY <1>1 DEF CRInv, LinksExist, ParentsExist, LabelsExist
<1>3. CommitsSound'
  BY <1>1 DEF CRInv, CommitsSound, ParentsWritten, DeletesDetached, Apart, LinkRows, Range
<1>4. QED
  BY <1>2, <1>3 DEF TreePart

(* A request that starts. *)
LEMMA RunStep ==
  ASSUME CRInv, NEW w \in Workers, NEW tasks, TodoOK(tasks), Run(w, tasks),
         UNCHANGED <<treeVars, cols, pend>>
  PROVE  CRInv'
<1>1. UNCHANGED <<tree, label, cols, pend>>
  BY DEF treeVars
<1>2. /\ DOMAIN rpc' = Workers /\ DOMAIN todo' = Workers
      /\ todo'[w] = tasks /\ \A v \in Workers : v # w => todo'[v] = todo[v]
  BY DEF Run, CRInv, Shape
<1>3. ASSUME NEW v \in Workers PROVE TodoOK(todo[v])'
  <2>1. CASE v = w
    BY <1>2, <2>1 DEF TodoOK, GoodTask, Range
  <2>2. CASE v # w
    BY <1>2, <2>2 DEF CRInv, Shape, TodoOK, GoodTask, Range
  <2>3. QED
    BY <2>1, <2>2
<1>4. \A v \in Workers : StatementOK(cols[v])' /\ WritesOK(pend[v])'
  BY <1>1 DEF CRInv, Shape, StatementOK, WritesOK
<1>5. Shape'
  BY <1>1, <1>2, <1>3, <1>4 DEF CRInv, Shape
<1>6. QED
  BY <1>5, TreePartKept DEF TreePart, CRInv

(* A statement that is prepared. *)
LEMMA PrepareStep ==
  ASSUME CRInv, NEW w \in Workers, NEW writes, StatementOK(writes), NEW after, TodoOK(after),
         todo[w] # << >>, Prepare(w, writes, after)
  PROVE  CRInv'
<1>1. UNCHANGED <<tree, label, pend>> /\ UNCHANGED <<treeVars, pend>>
  BY DEF treeVars, Prepare
<1>2. /\ DOMAIN rpc' = Workers /\ DOMAIN todo' = Workers /\ DOMAIN cols' = Workers
      /\ todo'[w] = after \o Tail(todo[w]) /\ \A v \in Workers : v # w => todo'[v] = todo[v]
      /\ cols'[w] = writes /\ \A v \in Workers : v # w => cols'[v] = cols[v]
  BY DEF Prepare, CRInv, Shape
<1>3. TodoOK(after \o Tail(todo[w]))
  BY TodoTail DEF CRInv, Shape
<1>4. ASSUME NEW v \in Workers PROVE TodoOK(todo[v])'
  <2>1. CASE v = w
    BY <1>2, <1>3, <2>1 DEF TodoOK, GoodTask, Range
  <2>2. CASE v # w
    BY <1>2, <2>2 DEF CRInv, Shape, TodoOK, GoodTask, Range
  <2>3. QED
    BY <2>1, <2>2
<1>5. ASSUME NEW v \in Workers PROVE StatementOK(cols[v])' /\ WritesOK(pend[v])'
  <2>1. CASE v = w
    BY <1>1, <1>2, <2>1 DEF CRInv, Shape, StatementOK, WritesOK
  <2>2. CASE v # w
    BY <1>1, <1>2, <2>2 DEF CRInv, Shape, StatementOK, WritesOK
  <2>3. QED
    BY <2>1, <2>2
<1>6. Shape'
  BY <1>1, <1>2, <1>4, <1>5 DEF CRInv, Shape
<1>7. QED
  BY <1>1, <1>6, TreePartKept DEF TreePart, CRInv

(* A statement that runs; Execute leaves the tasks, Detach and Delete go on. *)
LEMMA WriteKeeps ==
  ASSUME CRInv, NEW w \in Workers, NEW c, StatementOK(c), Write(w, c),
         NEW s, TodoOK(s), DOMAIN todo' = Workers, todo'[w] = s,
         \A v \in Workers : v # w => todo'[v] = todo[v]
  PROVE  CRInv'
<1>1. UNCHANGED <<tree, label>>
  BY DEF treeVars, Write
<1>2. /\ DOMAIN rpc' = Workers /\ DOMAIN todo' = Workers /\ DOMAIN cols' = Workers /\ DOMAIN pend' = Workers
      /\ todo'[w] = s /\ \A v \in Workers : v # w => todo'[v] = todo[v]
      /\ cols'[w] = NoWrites /\ \A v \in Workers : v # w => cols'[v] = cols[v]
  BY DEF Write, CRInv, Shape
<1>3. LinksExist' /\ CommitsSound' /\ \A v \in Workers : WritesOK(pend'[v])
  BY WriteStep
<1>4. ASSUME NEW v \in Workers PROVE TodoOK(todo[v])' /\ StatementOK(cols[v])'
  <2>1. CASE v = w
    <3>1. TodoOK(todo[v])'
      BY <1>2, <2>1 DEF TodoOK, GoodTask, Range
    <3>2. PICK c0 : c0 = cols'[v] /\ c0 = NoWrites
      BY <1>2, <2>1
    <3>3. StatementOK(c0)
      BY <3>2, NoWritesOK
    <3>4. QED
      BY <3>1, <3>2, <3>3 DEF StatementOK, WritesOK
  <2>2. CASE v # w
    <3>1. TodoOK(todo[v]) /\ StatementOK(cols[v])
      BY DEF CRInv, Shape
    <3>2. TodoOK(todo[v])'
      BY <1>2, <2>2, <3>1 DEF TodoOK, GoodTask, Range
    <3>3. StatementOK(cols[v])'
      BY <1>2, <2>2, <3>1 DEF StatementOK, WritesOK
    <3>4. QED
      BY <3>2, <3>3
  <2>3. QED
    BY <2>1, <2>2
<1>5. \A v \in Workers : WritesOK(pend[v])'
  BY <1>3 DEF WritesOK
<1>6. Shape'
  BY <1>1, <1>2, <1>4, <1>5 DEF CRInv, Shape
<1>7. QED
  BY <1>3, <1>6 DEF CRInv

(* A request that ends: its tasks and writes are forgotten, and the tables are *)
(* sound without it.                                                           *)
LEMMA EndStep ==
  ASSUME CRInv, NEW w \in Workers, EndRequest(w),
         tree.tags' \subseteq Tags, DOMAIN tree.parent' = Tags, Things \subseteq DOMAIN label',
         LinksExist',
         \A v \in Workers \ {w} : ParentsWritten(pend[v])' /\ DeletesDetached(pend[v])'
  PROVE  CRInv'
<1>1. /\ DOMAIN rpc' = Workers /\ DOMAIN todo' = Workers /\ DOMAIN cols' = Workers /\ DOMAIN pend' = Workers
      /\ todo'[w] = << >> /\ cols'[w] = NoWrites /\ pend'[w] = NoWrites
      /\ \A v \in Workers : v # w => todo'[v] = todo[v] /\ cols'[v] = cols[v] /\ pend'[v] = pend[v]
  BY DEF EndRequest, CRInv, Shape
<1>2. PICK e, n : e = << >> /\ n = NoWrites /\ todo'[w] = e /\ cols'[w] = n /\ pend'[w] = n
  BY <1>1
<1>3. /\ TodoOK(e) /\ StatementOK(n) /\ WritesOK(n) /\ Range(n.parent) = {}
      /\ n.add = {} /\ n.del = {} /\ DOMAIN n.parent = {}
  BY <1>2, EmptyTodo, NoWritesOK, NoWritesIs DEF StatementOK
<1>4. ASSUME NEW v \in Workers PROVE TodoOK(todo[v])' /\ StatementOK(cols[v])' /\ WritesOK(pend[v])'
  <2>1. CASE v = w
    BY <1>2, <1>3, <2>1 DEF TodoOK, GoodTask, Range, StatementOK, WritesOK
  <2>2. CASE v # w
    <3>1. TodoOK(todo[v]) /\ StatementOK(cols[v]) /\ WritesOK(pend[v])
      BY DEF CRInv, Shape
    <3>2. TodoOK(todo[v])'
      BY <1>1, <2>2, <3>1 DEF TodoOK, GoodTask, Range
    <3>3. StatementOK(cols[v])' /\ WritesOK(pend[v])'
      BY <1>1, <2>2, <3>1 DEF StatementOK, WritesOK
    <3>4. QED
      BY <3>2, <3>3
  <2>3. QED
    BY <2>1, <2>2
<1>5. Shape'
  BY <1>1, <1>4 DEF Shape
<1>6. ASSUME NEW v \in Workers PROVE ParentsWritten(pend[v])' /\ DeletesDetached(pend[v])'
  <2>1. CASE v = w
    BY <1>2, <1>3, <2>1 DEF ParentsWritten, DeletesDetached
  <2>2. CASE v # w
    BY <2>2
  <2>3. QED
    BY <2>1, <2>2
<1>7. ASSUME NEW u \in Workers, NEW v \in Workers, u # v PROVE Apart(pend[u], pend[v])'
  <2>1. CASE u = w \/ v = w
    BY <1>2, <1>3, <1>7, <2>1 DEF Apart, LinkRows, Range
  <2>2. CASE u # w /\ v # w
    BY <1>1, <1>7, <2>2 DEF CRInv, CommitsSound, Apart, LinkRows, Range
  <2>3. QED
    BY <2>1, <2>2
<1>8. QED
  BY <1>5, <1>6, <1>7 DEF CRInv, CommitsSound

LEMMA RollbackStep ==
  ASSUME CRInv, NEW w \in Workers, Rollback(w)
  PROVE  CRInv'
<1>1. UNCHANGED <<tree, label>> /\ EndRequest(w)
  BY DEF treeVars, Rollback
<1>2. \A v \in Workers \ {w} : pend'[v] = pend[v]
  BY <1>1 DEF EndRequest, CRInv, Shape
<1>3. \A v \in Workers \ {w} : ParentsWritten(pend[v])' /\ DeletesDetached(pend[v])'
  BY <1>1, <1>2 DEF CRInv, CommitsSound, ParentsWritten, DeletesDetached
<1>4. LinksExist'
  BY <1>1 DEF CRInv, LinksExist, ParentsExist, LabelsExist
<1>5. tree.tags' \subseteq Tags /\ DOMAIN tree.parent' = Tags /\ Things \subseteq DOMAIN label'
  BY <1>1 DEF CRInv, Shape
<1>6. QED
  BY <1>1, <1>3, <1>4, <1>5, EndStep

(* The transaction's writes become the tables'. *)
LEMMA CommitStep ==
  ASSUME CRInv, NEW w \in Workers, Commit(w)
  PROVE  CRInv'
<1>. DEFINE P == pend[w]
<1>1. /\ tree.tags' = (tree.tags \cup P.add) \ P.del
      /\ DOMAIN tree.parent' = Tags
      /\ \A t \in Tags : t \notin P.del =>
           tree.parent'[t] = IF t \in DOMAIN P.parent THEN P.parent[t] ELSE tree.parent[t]
      /\ DOMAIN label' = DOMAIN label \cup DOMAIN P.label
      /\ \A x \in Things : label'[x] = IF x \in DOMAIN P.label THEN P.label[x] ELSE label[x]
  BY DEF Commit, Onto, Over, CRInv, Shape
<1>2. EndRequest(w) /\ \A v \in Workers \ {w} : pend'[v] = pend[v]
  BY DEF Commit, EndRequest, CRInv, Shape
<1>3. /\ WritesOK(P) /\ ParentsWritten(P) /\ DeletesDetached(P)
      /\ tree.tags \subseteq Tags /\ Things \subseteq DOMAIN label
      /\ ParentsExist(tree) /\ LabelsExist
  BY DEF CRInv, Shape, CommitsSound, LinksExist
<1>. HIDE DEF P
<1>4. tree.tags' \subseteq Tags /\ DOMAIN tree.parent' = Tags /\ Things \subseteq DOMAIN label'
  BY <1>1, <1>3 DEF WritesOK
<1>5. ASSUME NEW t \in tree.tags' PROVE tree.parent'[t] \in tree.tags' \cup {None}
  <2>1. t \in Tags /\ t \notin P.del
    BY <1>1, <1>4
  <2>2. CASE t \in DOMAIN P.parent
    BY <1>1, <1>3, <2>1, <2>2 DEF ParentsWritten
  <2>3. CASE t \notin DOMAIN P.parent
    BY <1>1, <1>3, <2>1, <2>3 DEF ParentsExist, WritesOK, DeletesDetached
  <2>4. QED
    BY <2>2, <2>3
<1>6. ASSUME NEW x \in Things PROVE label'[x] \in tree.tags' \cup {None}
  BY <1>1, <1>3 DEF LabelsExist, WritesOK, DeletesDetached
<1>7. LinksExist'
  BY <1>5, <1>6 DEF LinksExist, ParentsExist, LabelsExist
<1>8. ASSUME NEW v \in Workers \ {w} PROVE ParentsWritten(pend[v])' /\ DeletesDetached(pend[v])'
  <2>. DEFINE Q == pend[v]
  <2>1. pend'[v] = Q
    BY <1>2
  <2>2. /\ WritesOK(Q) /\ ParentsWritten(Q) /\ DeletesDetached(Q)
        /\ LinkRows(P) \cap LinkRows(Q) = {}
        /\ \A u \in DOMAIN P.parent : P.parent[u] \notin Q.del
        /\ \A u \in DOMAIN Q.parent : Q.parent[u] \notin P.del
    BY DEF CRInv, Shape, CommitsSound, Apart, P, Range
  <2>. HIDE DEF Q
  <2>3. ASSUME NEW u \in DOMAIN Q.parent
        PROVE  /\ u \in tree.tags' \cup Q.add
               /\ u \notin Q.del => Q.parent[u] \in ((tree.tags' \cup Q.add) \ Q.del) \cup {None}
    BY <1>1, <2>2 DEF ParentsWritten, LinkRows
  <2>4. ASSUME NEW t \in Q.del
        PROVE  /\ \A u \in tree.tags' : tree.parent'[u] = t => u \in DOMAIN Q.parent \cup Q.del
               /\ \A x \in Things : label'[x] = t => x \in DOMAIN Q.label
    <3>1. t # None
      BY <2>2, TagsAssumption DEF WritesOK
    <3>2. ASSUME NEW u \in tree.tags', tree.parent'[u] = t
          PROVE  u \in DOMAIN Q.parent \cup Q.del
      <4>1. u \in Tags /\ u \notin P.del /\ u \notin DOMAIN P.parent
        BY <1>1, <1>4, <2>2, <3>2
      <4>2. u \in tree.tags /\ tree.parent[u] = t
        BY <1>1, <1>3, <3>2, <4>1 DEF WritesOK
      <4>3. QED
        BY <2>2, <4>2 DEF DeletesDetached
    <3>3. ASSUME NEW x \in Things, label'[x] = t
          PROVE  x \in DOMAIN Q.label
      BY <1>1, <1>3, <2>2, <3>1, <3>3 DEF WritesOK, DeletesDetached
    <3>4. QED
      BY <3>2, <3>3
  <2>5. QED
    BY <2>1, <2>3, <2>4 DEF ParentsWritten, DeletesDetached
<1>9. QED
  BY <1>2, <1>4, <1>7, <1>8, EndStep

LEMMA AssignStep ==
  ASSUME CRInv, NEW x \in Things, NEW t \in Tags \cup {None}, AssignNow(x, t)
  PROVE  CRInv'
<1>1. /\ UNCHANGED <<tree, rpc, todo, cols, pend>>
      /\ label' = [label EXCEPT ![x] = t] /\ t \in tree.tags \cup {None}
      /\ \A v \in Workers : t \notin pend[v].del
  BY DEF AssignNow, Assign, reqVars
<1>2. LinksExist'
  BY <1>1 DEF CRInv, Shape, LinksExist, ParentsExist, LabelsExist
<1>3. Shape'
  <2>1. \A v \in Workers : TodoOK(todo[v])'
    BY <1>1 DEF CRInv, Shape, TodoOK, GoodTask, Range
  <2>2. \A v \in Workers : StatementOK(cols[v])' /\ WritesOK(pend[v])'
    BY <1>1 DEF CRInv, Shape, StatementOK, WritesOK
  <2>3. QED
    BY <1>1, <2>1, <2>2 DEF CRInv, Shape
<1>4. CommitsSound'
  BY <1>1 DEF CRInv, Shape, CommitsSound, ParentsWritten, DeletesDetached, Apart, LinkRows, Range
<1>5. QED
  BY <1>2, <1>3, <1>4 DEF CRInv

-----------------------------------------------------------------------------
(* The theorem. *)

LEMMA CRInvInit == CRInit => CRInv
<1>. SUFFICES ASSUME CRInit PROVE CRInv
  OBVIOUS
<1>1. /\ tree.tags = {} /\ DOMAIN tree.parent = Tags /\ label = [x \in Things |-> None]
      /\ rpc = [w \in Workers |-> "idle"] /\ todo = [w \in Workers |-> << >>]
      /\ cols = [w \in Workers |-> NoWrites] /\ pend = [w \in Workers |-> NoWrites]
  BY DEF CRInit, TreeInit, EmptyTree
<1>2. LinksExist
  BY <1>1 DEF LinksExist, ParentsExist, LabelsExist
<1>3. Shape
  BY <1>1, EmptyTodo, NoWritesOK DEF Shape, StatementOK
<1>4. CommitsSound
  BY <1>1, NoWritesOK DEF CommitsSound
<1>5. QED
  BY <1>2, <1>3, <1>4 DEF CRInv

LEMMA DirtyOK ==
  ASSUME NEW t, NEW now, NEW was
  PROVE  StatementOK(Dirty(t, now, was))
BY DEF Dirty, NoWrites, StatementOK, WritesOK

(* The task at the head, and the tasks after it. *)
LEMMA HeadTask ==
  ASSUME CRInv, NEW w \in Workers, NEW op, Is(w, op)
  PROVE  /\ todo[w] # << >> /\ TodoOK(Tail(todo[w]))
         /\ op \in {"insert", "delete"} => Head(todo[w]).tag \in Tags
<1>1. TodoOK(todo[w]) /\ todo[w] # << >> /\ Head(todo[w]).op = op
  BY DEF CRInv, Shape, Is
<1>2. TodoOK(Tail(todo[w])) /\ GoodTask(Head(todo[w]))
  BY <1>1, EmptyTodo, TodoTail
<1>3. QED
  BY <1>1, <1>2 DEF GoodTask

LEMMA RequestStep ==
  ASSUME CRInv, NEW w \in Workers, Request(w)
  PROVE  CRInv'
<1>1. ASSUME NEW t \in Tags, NEW p, NEW type, NEW b, StartCreate(w, t, p, type, b)
      PROVE  CRInv'
  <2>1. PICK task :
          task = [op |-> "insert", tag |-> t, row |-> [parent |-> p, type |-> type, leaf |-> TRUE, budget |-> b]]
    OBVIOUS
  <2>2. TodoOK(<<task>>)
    BY <2>1, OneTask DEF GoodTask
  <2>3. Run(w, <<task>>) /\ UNCHANGED <<treeVars, cols, pend>>
    BY <1>1, <2>1 DEF StartCreate
  <2>4. QED
    BY <2>2, <2>3, RunStep
<1>2. ASSUME NEW t \in Tags, NEW p, NEW type, NEW b, StartUpdate(w, t, p, type, b)
      PROVE  CRInv'
  <2>1. PICK task : task.op = "save" /\ Run(w, <<task>>)
    BY <1>2 DEF StartUpdate, SaveTask
  <2>2. TodoOK(<<task>>)
    BY <2>1, OneTask DEF GoodTask
  <2>3. QED
    BY <1>2, <2>1, <2>2, RunStep DEF StartUpdate
<1>3. ASSUME NEW t \in Tags, StartDestroy(w, t)
      PROVE  CRInv'
  <2>1. PICK a, b, c : /\ a = [op |-> "detach", tag |-> t, parent |-> tree.parent[t]]
                       /\ b = [op |-> "delete", tag |-> t]
                       /\ c = ResaveTask(tree.parent[t])
    OBVIOUS
  <2>2. GoodTask(a) /\ GoodTask(b) /\ GoodTask(c)
    BY <2>1 DEF GoodTask, ResaveTask
  <2>3. Run(w, <<a, b, c>>) /\ UNCHANGED <<treeVars, cols, pend>>
    BY <1>3, <2>1 DEF StartDestroy
  <2>4. QED
    BY <2>2, <2>3, ThreeTasks, RunStep
<1>4. CASE SaveRow(w)
  <2>1. PICK t, now, was, kids : Prepare(w, Dirty(t, now, was), AfterSave(t, now, was, kids))
    BY <1>4 DEF SaveRow
  <2>2. todo[w] # << >>
    BY <1>4 DEF SaveRow, Is
  <2>3. QED
    BY <2>1, <2>2, DirtyOK, AfterSaveTasks, PrepareStep
<1>5. CASE InsertRow(w)
  <2>. DEFINE row == Head(todo[w]).row
  <2>1. PICK t, type : /\ t = Head(todo[w]).tag
                       /\ type = IF row.parent = None THEN row.type ELSE View(w).type[row.parent]
    OBVIOUS
  <2>2. PICK writes :
          writes = [NoWrites EXCEPT !.add = {t}, !.parent = [x \in {t} |-> row.parent],
                                    !.type = [x \in {t} |-> type], !.leaf = [x \in {t} |-> TRUE],
                                    !.budget = [x \in {t} |-> row.budget]]
    OBVIOUS
  <2>3. PICK after : after = IF row.parent = None THEN << >> ELSE <<ResaveTask(row.parent)>>
    OBVIOUS
  <2>4. Prepare(w, writes, after)
    BY <1>5, <2>1, <2>2, <2>3 DEF InsertRow
  <2>5. t \in Tags /\ todo[w] # << >>
    BY <1>5, <2>1, HeadTask DEF InsertRow
  <2>6. StatementOK(writes)
    BY <2>2, <2>5 DEF StatementOK, WritesOK, NoWrites
  <2>7. TodoOK(after)
    <3>1. PICK task : task = ResaveTask(row.parent)
      OBVIOUS
    <3>2. TodoOK(<<task>>)
      BY <3>1, OneTask DEF GoodTask, ResaveTask
    <3>3. QED
      BY <2>3, <3>1, <3>2, EmptyTodo
  <2>8. QED
    BY <2>4, <2>5, <2>6, <2>7, PrepareStep
<1>6. CASE ResaveRow(w)
  <2>1. PICK writes, after :
          /\ Prepare(w, writes, after)
          /\ \/ writes = NoWrites /\ after = << >>
             \/ \E p, now, was, kids : writes = Dirty(p, now, was) /\ after = AfterSave(p, now, was, kids)
    BY <1>6 DEF ResaveRow
  <2>2. StatementOK(writes) /\ TodoOK(after)
    BY <2>1, NoWritesOK, EmptyTodo, DirtyOK, AfterSaveTasks
  <2>3. todo[w] # << >>
    BY <1>6 DEF ResaveRow, Is
  <2>4. QED
    BY <2>1, <2>2, <2>3, PrepareStep
<1>7. CASE CascadeRows(w)
  <2>1. PICK writes :
          /\ Prepare(w, writes, << >>)
          /\ writes.add = {} /\ DOMAIN writes.parent = {} /\ writes.del = {} /\ DOMAIN writes.label = {}
    BY <1>7 DEF CascadeRows, NoWrites
  <2>2. StatementOK(writes)
    BY <2>1 DEF StatementOK, WritesOK
  <2>3. todo[w] # << >>
    BY <1>7 DEF CascadeRows, Is
  <2>4. QED
    BY <2>1, <2>2, <2>3, EmptyTodo, PrepareStep
<1>8. CASE Execute(w)
  <2>1. PICK c, s : c = cols[w] /\ s = todo[w]
    OBVIOUS
  <2>2. StatementOK(c) /\ TodoOK(s) /\ DOMAIN todo = Workers
    BY <2>1 DEF CRInv, Shape
  <2>3. Write(w, c)
    BY <1>8, <2>1 DEF Execute
  <2>4. DOMAIN todo' = Workers /\ todo'[w] = s /\ \A v \in Workers : v # w => todo'[v] = todo[v]
    BY <1>8, <2>1, <2>2 DEF Execute
  <2>5. QED
    BY <2>2, <2>3, <2>4, WriteKeeps
<1>9. CASE Detach(w)
  <2>1. PICK c, s :
          /\ c = [NoWrites EXCEPT
                    !.parent = [u \in Children(View(w), Head(todo[w]).tag) |-> Head(todo[w]).parent],
                    !.label = [x \in {y \in Things : ViewLabel(w)[y] = Head(todo[w]).tag} |-> None]]
          /\ s = Tail(todo[w])
    OBVIOUS
  <2>2. Write(w, c) /\ todo' = [todo EXCEPT ![w] = s]
    BY <1>9, <2>1 DEF Detach
  <2>3. StatementOK(c)
    BY <2>1 DEF StatementOK, WritesOK, NoWrites
  <2>4. TodoOK(s)
    BY <1>9, <2>1, HeadTask DEF Detach
  <2>5. DOMAIN todo' = Workers /\ todo'[w] = s /\ \A v \in Workers : v # w => todo'[v] = todo[v]
    BY <2>2 DEF CRInv, Shape
  <2>6. QED
    BY <2>2, <2>3, <2>4, <2>5, WriteKeeps
<1>10. CASE Delete(w)
  <2>1. PICK c, s : c = [NoWrites EXCEPT !.del = {Head(todo[w]).tag}] /\ s = Tail(todo[w])
    OBVIOUS
  <2>2. Write(w, c) /\ todo' = [todo EXCEPT ![w] = s]
    BY <1>10, <2>1 DEF Delete
  <2>3. TodoOK(s) /\ Head(todo[w]).tag \in Tags
    BY <1>10, <2>1, HeadTask DEF Delete
  <2>4. StatementOK(c)
    BY <2>1, <2>3 DEF StatementOK, WritesOK, NoWrites
  <2>5. DOMAIN todo' = Workers /\ todo'[w] = s /\ \A v \in Workers : v # w => todo'[v] = todo[v]
    BY <2>2 DEF CRInv, Shape
  <2>6. QED
    BY <2>2, <2>3, <2>4, <2>5, WriteKeeps
<1>11. QED
  BY <1>1, <1>2, <1>3, <1>4, <1>5, <1>6, <1>7, <1>8, <1>9, <1>10, CommitStep, RollbackStep DEF Request

LEMMA CRInvStep == CRInv /\ [CRNext]_crVars => CRInv'
<1>. SUFFICES ASSUME CRInv, [CRNext]_crVars PROVE CRInv'
  OBVIOUS
<1>1. CASE UNCHANGED crVars
  <2>1. UNCHANGED <<treeVars, pend>> /\ UNCHANGED <<tree, label, rpc, todo, cols, pend>>
    BY <1>1 DEF crVars, reqVars, treeVars
  <2>2. \A v \in Workers : TodoOK(todo[v])'
    BY <2>1 DEF CRInv, Shape, TodoOK, GoodTask, Range
  <2>3. \A v \in Workers : StatementOK(cols[v])' /\ WritesOK(pend[v])'
    BY <2>1 DEF CRInv, Shape, StatementOK, WritesOK
  <2>4. Shape'
    BY <2>1, <2>2, <2>3 DEF CRInv, Shape
  <2>5. QED
    BY <2>1, <2>4, TreePartKept DEF TreePart, CRInv
<1>2. QED
  BY <1>1, RequestStep, AssignStep DEF CRNext

(* However many requests run at the same time, and wherever one of them      *)
(* fails, no category has a parent that is gone and no transaction or        *)
(* merchant a category that is gone: a destroy that detaches what it finds   *)
(* and then deletes the row (merchant_tag.rb:109-115) leaves nothing behind. *)
THEOREM LinksNeverDangle == CRSpec => []LinksExist
<1>1. CRInv => LinksExist
  BY DEF CRInv
<1>2. QED
  BY <1>1, CRInvInit, CRInvStep, PTL DEF CRSpec

-----------------------------------------------------------------------------
(* Requests served one after another.  The committed table stands still      *)
(* while the only worker prepares and writes, so what its request sees is    *)
(* that table with its writes: from the first write on, what is left of the  *)
(* request leads to the table that the atomic request makes.                 *)

(* One request at a time. *)
OneWorker == \A v, w \in Workers : v = w

(* The atomic requests as tables. *)
Made(d, t, p, type, b) ==
  Save([d EXCEPT !.tags = @ \cup {t}, !.parent[t] = p, !.type[t] = type, !.budget[t] = b],
       t, [parent |-> None, type |-> type])
Changed(d, t, p, type, b) ==
  Save([d EXCEPT !.parent[t] = p, !.type[t] = type, !.budget[t] = b], t, Loaded(d, t))
Gone(d, t) == Erase(Promote(d, t), t)

(* The callbacks that may follow a statement: a parent that has its own      *)
(* parent's type is saved again, and last the descendants are retyped.       *)
Resaves(d, a) == a.op = "resave" /\ a.tag \in Tags \cup {None} /\ LikeParent(d, a.tag)
Retypes(d, a) == a.op = "cascade" /\ a.kids \subseteq d.tags /\ a.type \in TagTypes

RetypedBy(d, a) == a.kids \cup UNION {Below(d, k) : k \in a.kids}
Done(d, a) ==
  IF a.op = "resave" THEN Resave(d, a.tag)
  ELSE [d EXCEPT !.type = [u \in Tags |-> IF u \in RetypedBy(d, a) THEN a.type ELSE @[u]]]

(* The callbacks s make the table g of the table d. *)
LeadsTo(d, s, g) ==
  /\ d \in Tree /\ ParentsExist(d)
  /\ \/ s = << >> /\ g = d
     \/ \E a : s = <<a>> /\ (Resaves(d, a) \/ Retypes(d, a)) /\ g = Done(d, a)
     \/ \E a, b : /\ s = <<a, b>> /\ Resaves(d, a) /\ (Resaves(d, b) \/ Retypes(d, b))
                  /\ g = Done(Done(d, a), b)
     \/ \E a, b, c : /\ s = <<a, b, c>> /\ Resaves(d, a) /\ Resaves(d, b) /\ Retypes(d, c)
                     /\ g = Done(Done(Done(d, a), b), c)

LEMMA ThreeJoined ==
  ASSUME NEW a, NEW b, NEW c
  PROVE  <<a, b>> \o <<c>> = <<a, b, c>>
<1>. DEFINE S == {a, b, c}
            s == <<a, b>>
            t == <<c>>
            u == <<a, b, c>>
            st == s \o t
<1>1. s \in Seq(S) /\ t \in Seq(S) /\ u \in Seq(S) /\ Len(s) = 2 /\ Len(t) = 1 /\ Len(u) = 3
      /\ s[1] = a /\ s[2] = b /\ t[1] = c /\ u[1] = a /\ u[2] = b /\ u[3] = c
  OBVIOUS
<1>. HIDE DEF S, s, t, u
<1>2. /\ st \in Seq(S)
      /\ Len(st) = Len(s) + Len(t)
      /\ \A i \in 1 .. Len(s) + Len(t) : st[i] = IF i <= Len(s) THEN s[i] ELSE t[i - Len(s)]
  BY <1>1, ConcatProperties
<1>. HIDE DEF st
<1>3. Len(st) = 3
  BY <1>1, <1>2
<1>4. \A i \in 1 .. 3 : i = 1 \/ i = 2 \/ i = 3
  OBVIOUS
<1>5. st[1] = u[1] /\ st[2] = u[2]
  BY <1>1, <1>2
<1>6. st[3] = u[3]
  <2>1. 3 \in 1 .. Len(s) + Len(t) /\ ~(3 <= Len(s)) /\ 3 - Len(s) = 1
    BY <1>1
  <2>2. QED
    BY <1>1, <1>2, <2>1
<1>7. \A i \in 1 .. Len(st) : st[i] = u[i]
  BY <1>3, <1>4, <1>5, <1>6
<1>8. st = u
  <2>1. Len(st) = Len(u)
    BY <1>1, <1>3
  <2>2. QED
    BY <1>1, <1>2, <2>1, <1>7, SeqEqual
<1>. QED
  BY <1>8 DEF s, t, u, st

LEMMA Joined ==
  ASSUME NEW a, NEW b, NEW c
  PROVE  /\ << >> \o << >> = << >>
         /\ << >> \o <<c>> = <<c>>
         /\ <<a, b>> \o << >> = <<a, b>>
<1>. DEFINE S == {a, b, c}
<1>1. << >> \in Seq(S) /\ <<c>> \in Seq(S) /\ <<a, b>> \in Seq(S)
  OBVIOUS
<1>. HIDE DEF S
<1>2. << >> \o << >> = << >>
  BY <1>1
<1>3. << >> \o <<c>> = <<c>>
  BY <1>1
<1>4. <<a, b>> \o << >> = <<a, b>>
  BY <1>1
<1>5. QED
  BY <1>2, <1>3, <1>4

LEMMA Tails ==
  ASSUME NEW a, NEW b, NEW c
  PROVE  /\ Tail(<<a>>) = << >> /\ Tail(<<a, b>>) = <<b>> /\ Tail(<<a, b, c>>) = <<b, c>>
         /\ Head(<<a>>) = a /\ Head(<<a, b>>) = a /\ Head(<<a, b, c>>) = a
OBVIOUS

(* Saving again a parent that has its own parent's type. *)
LEMMA ResaveIs ==
  ASSUME NEW d \in Tree, ParentsExist(d), NEW p \in d.tags, LikeParent(d, p)
  PROVE  /\ Resave(d, p) = BeforeSave(d, p)
         /\ BeforeSave(d, p).type[p] = d.type[p]
         /\ BeforeSave(d, p).parent = d.parent
<1>1. LET b == BeforeSave(d, p) IN b.type[p] = d.type[p] /\ b.parent = d.parent
  BY BeforeSaveColumns DEF LikeParent, SameLinks
<1>2. QED
  BY <1>1 DEF Resave, Cascade

LEMMA HeadResave ==
  ASSUME NEW d, NEW s, NEW g, LeadsTo(d, s, g), s # << >>, Head(s).op = "resave"
  PROVE  /\ Resaves(d, Head(s))
         /\ LeadsTo(Resave(d, Head(s).tag), Tail(s), g)
<1>. DEFINE p == Head(s).tag
            e == Resave(d, p)
<1>1. Resaves(d, Head(s))
  BY Tails DEF LeadsTo, Retypes
<1>2. e \in Tree /\ SameLinks(e, d) /\ e.type = d.type /\ ParentsExist(e)
  <2>1. e \in Tree /\ SameLinks(e, d) /\ e.type = d.type
    BY <1>1, ResaveColumns DEF LeadsTo, Resaves
  <2>2. QED
    BY <2>1 DEF LeadsTo, ParentsExist, SameLinks
<1>3. Done(d, Head(s)) = e
  BY DEF Done
<1>. HIDE DEF e
<1>4. \A a : (Resaves(d, a) => Resaves(e, a)) /\ (Retypes(d, a) => Retypes(e, a))
  BY <1>2 DEF Resaves, Retypes, LikeParent, SameLinks
<1>5. LeadsTo(e, Tail(s), g)
  <2>1. CASE \E a : s = <<a>> /\ g = Done(d, a)
    BY <1>2, <1>3, <2>1, Tails DEF LeadsTo
  <2>2. CASE \E a, b : /\ s = <<a, b>> /\ (Resaves(d, b) \/ Retypes(d, b))
                       /\ g = Done(Done(d, a), b)
    <3>1. PICK a, b : /\ s = <<a, b>> /\ (Resaves(d, b) \/ Retypes(d, b))
                      /\ g = Done(Done(d, a), b)
      BY <2>2
    <3>2. Tail(s) = <<b>> /\ g = Done(e, b) /\ (Resaves(e, b) \/ Retypes(e, b))
      BY <1>3, <1>4, <3>1, Tails
    <3>3. QED
      BY <1>2, <3>2 DEF LeadsTo
  <2>3. CASE \E a, b, c : /\ s = <<a, b, c>> /\ Resaves(d, b) /\ Retypes(d, c)
                          /\ g = Done(Done(Done(d, a), b), c)
    <3>1. PICK a, b, c : /\ s = <<a, b, c>> /\ Resaves(d, b) /\ Retypes(d, c)
                         /\ g = Done(Done(Done(d, a), b), c)
      BY <2>3
    <3>2. Tail(s) = <<b, c>> /\ g = Done(Done(e, b), c) /\ Resaves(e, b) /\ Retypes(e, c)
      BY <1>3, <1>4, <3>1, Tails
    <3>3. QED
      BY <1>2, <3>2 DEF LeadsTo
  <2>4. QED
    BY <2>1, <2>2, <2>3 DEF LeadsTo
<1>6. QED
  BY <1>1, <1>5 DEF e

LEMMA HeadCascade ==
  ASSUME NEW d, NEW s, NEW g, LeadsTo(d, s, g), s # << >>, Head(s).op = "cascade"
  PROVE  /\ Retypes(d, Head(s)) /\ Tail(s) = << >>
         /\ g = Done(d, Head(s))
         /\ LeadsTo(g, << >>, g)
<1>1. PICK a : s = <<a>> /\ Retypes(d, a) /\ g = Done(d, a)
  BY Tails DEF LeadsTo, Resaves
<1>2. Head(s) = a /\ Tail(s) = << >>
  BY <1>1, Tails
<1>3. g \in Tree /\ g.tags = d.tags /\ g.parent = d.parent
  <2>. DEFINE type == [u \in Tags |-> IF u \in RetypedBy(d, a) THEN a.type ELSE d.type[u]]
  <2>1. g = [d EXCEPT !.type = type]
    BY <1>1 DEF Done, Retypes
  <2>2. type \in [Tags -> TagTypes]
    BY <1>1 DEF LeadsTo, Tree, Retypes
  <2>. HIDE DEF type
  <2>3. QED
    BY <2>1, <2>2 DEF LeadsTo, Tree
<1>4. QED
  BY <1>1, <1>2, <1>3 DEF LeadsTo, ParentsExist

(* The callbacks after the row of t is written, by what the write changed. *)
LEMMA AfterSaveIs ==
  ASSUME NEW t, NEW now, NEW was, NEW kids
  PROVE  LET s == AfterSave(t, now, was, kids)
             c == CascadeTask(t, now.type, kids)
             x == ResaveTask(was.parent)
             y == ResaveTask(now.parent)
         IN /\ now.parent = was.parent /\ now.type = was.type => s = << >>
            /\ now.parent = was.parent /\ now.type # was.type => s = <<c>>
            /\ now.parent # was.parent /\ now.type = was.type => s = <<x, y>>
            /\ now.parent # was.parent /\ now.type # was.type => s = <<x, y, c>>
<1>. DEFINE c == CascadeTask(t, now.type, kids)
            x == ResaveTask(was.parent)
            y == ResaveTask(now.parent)
<1>1. << >> \o << >> = << >> /\ << >> \o <<c>> = <<c>> /\ <<x, y>> \o << >> = <<x, y>>
      /\ <<x, y>> \o <<c>> = <<x, y, c>>
  BY Joined, ThreeJoined
<1>. HIDE DEF c, x, y
<1>2. AfterSave(t, now, was, kids) =
        (IF now.parent = was.parent THEN << >> ELSE <<x, y>>) \o (IF now.type = was.type THEN << >> ELSE <<c>>)
  BY DEF AfterSave, x, y, c
<1>3. QED
  BY <1>1, <1>2 DEF x, y, c

(* Below t are its children and what is below them. *)
LEMMA BelowChildren ==
  ASSUME NEW d, NEW t
  PROVE  Below(d, t) = Children(d, t) \cup UNION {Below(d, k) : k \in Children(d, t)}
<1>. DEFINE B == Children(d, t) \cup UNION {Below(d, k) : k \in Children(d, t)}
<1>1. Below(d, t) \subseteq B
  <2>1. B \in SUBSET d.tags
    BY DEF Below, Children
  <2>2. Children(d, t) \subseteq B
    OBVIOUS
  <2>3. ASSUME NEW s \in B PROVE Children(d, s) \subseteq B
    <3>1. CASE s \in Children(d, t)
      <4>1. Children(d, s) \subseteq Below(d, s)
        BY BelowClosed
      <4>2. QED
        BY <3>1, <4>1
    <3>2. CASE s \notin Children(d, t)
      <4>1. PICK k \in Children(d, t) : s \in Below(d, k)
        BY <3>2
      <4>2. Children(d, s) \subseteq Below(d, k)
        BY <4>1, BelowClosed
      <4>3. QED
        BY <4>1, <4>2
    <3>3. QED
      BY <3>1, <3>2
  <2>. HIDE DEF B
  <2>4. QED
    BY <2>1, <2>2, <2>3 DEF Below
<1>2. ASSUME NEW k \in Children(d, t) PROVE Below(d, k) \subseteq Below(d, t)
  <2>1. Below(d, t) \in SUBSET d.tags
    BY DEF Below
  <2>2. k \in Below(d, t) /\ \A s \in Below(d, t) : Children(d, s) \subseteq Below(d, t)
    BY <1>2, BelowClosed
  <2>3. QED
    BY <2>1, <2>2 DEF Below
<1>3. B \subseteq Below(d, t)
  BY <1>2, BelowClosed
<1>4. QED
  BY <1>1, <1>3

(* Retyping from the children found before the save is the cascade of the    *)
(* model, when the tag is not its own child.                                 *)
LEMMA CascadeDone ==
  ASSUME NEW d, NEW t, NEW oldType, d.type[t] # oldType
  PROVE  Cascade(d, t, oldType) = Done(d, CascadeTask(t, d.type[t], Children(d, t)))
<1>1. RetypedBy(d, CascadeTask(t, d.type[t], Children(d, t))) = Below(d, t)
  BY BelowChildren DEF RetypedBy, CascadeTask
<1>. DEFINE a == CascadeTask(t, d.type[t], Children(d, t))
<1>2. a.op = "cascade" /\ a.type = d.type[t]
  BY DEF CascadeTask
<1>. HIDE DEF a
<1>3. Done(d, a) = [d EXCEPT !.type = [u \in Tags |-> IF u \in RetypedBy(d, a) THEN a.type ELSE d.type[u]]]
  BY <1>2 DEF Done
<1>4. RetypedBy(d, a) = Below(d, t)
  BY <1>1 DEF a
<1>5. QED
  BY <1>2, <1>3, <1>4 DEF Cascade, a

(* What the callbacks after the row of t is written make of the table b is   *)
(* what they make of it in one step.                                         *)
LEMMA CallbacksLead ==
  ASSUME NEW b \in Tree, ParentsExist(b), NEW t \in b.tags, b.parent[t] # t,
         NEW was, was.parent \in Tags \cup {None},
         LikeParent(b, was.parent), LikeParent(b, b.parent[t])
  PROVE  LeadsTo(b, AfterSave(t, RowOf(b, t), was, Children(b, t)),
                 Cascade(SyncParents(b, was.parent, b.parent[t]), t, was.type))
<1>. DEFINE old == was.parent
            p == b.parent[t]
            type == b.type[t]
            kids == Children(b, t)
            s == AfterSave(t, RowOf(b, t), was, kids)
            e == SyncParents(b, old, p)
            g == Cascade(e, t, was.type)
            x == ResaveTask(old)
            y == ResaveTask(p)
            c == CascadeTask(t, type, kids)
<1>1. RowOf(b, t).parent = p /\ RowOf(b, t).type = type
  BY DEF RowOf
<1>2. /\ p = old /\ type = was.type => s = << >>
      /\ p = old /\ type # was.type => s = <<c>>
      /\ p # old /\ type = was.type => s = <<x, y>>
      /\ p # old /\ type # was.type => s = <<x, y, c>>
  BY <1>1, AfterSaveIs
<1>3. t \in Tags /\ p \in Tags \cup {None} /\ type \in TagTypes /\ kids \subseteq b.tags
  BY DEF Tree, Children
<1>4. Resaves(b, x) /\ Resaves(b, y) /\ Retypes(b, c)
  BY <1>3 DEF Resaves, Retypes, ResaveTask, CascadeTask
<1>5. e = IF p = old THEN b ELSE Done(Done(b, x), y)
  BY DEF SyncParents, Done, ResaveTask
<1>6. e.type = b.type /\ e.tags = b.tags /\ e.parent = b.parent
  BY <1>3, SyncColumns DEF SameLinks
<1>7. Children(e, t) = kids
  BY <1>6 DEF Children
<1>8. g = IF type = was.type THEN e ELSE Done(e, c)
  <2>1. CASE type = was.type
    BY <1>6, <2>1 DEF Cascade
  <2>2. CASE type # was.type
    BY <1>6, <1>7, <2>2, CascadeDone
  <2>3. QED
    BY <2>1, <2>2
<1>. HIDE DEF x, y, c, e, g, s, kids
<1>9. LeadsTo(b, s, g)
  <2>1. CASE p = old /\ type = was.type
    BY <1>2, <1>5, <1>8, <2>1 DEF LeadsTo
  <2>2. CASE p = old /\ type # was.type
    BY <1>2, <1>4, <1>5, <1>8, <2>2 DEF LeadsTo
  <2>3. CASE p # old /\ type = was.type
    BY <1>2, <1>4, <1>5, <1>8, <2>3 DEF LeadsTo
  <2>4. CASE p # old /\ type # was.type
    BY <1>2, <1>4, <1>5, <1>8, <2>4 DEF LeadsTo
  <2>5. QED
    BY <2>1, <2>2, <2>3, <2>4
<1>10. QED
  BY <1>9 DEF s, g, e, kids

-----------------------------------------------------------------------------
(* What a save writes, and what the next statement then sees. *)

(* e is d but for the row of t. *)
OneRow(e, d, t) ==
  /\ e.tags = d.tags
  /\ \A u \in Tags : u # t => /\ e.parent[u] = d.parent[u] /\ e.type[u] = d.type[u]
                              /\ e.leaf[u] = d.leaf[u] /\ e.budget[u] = d.budget[u]

LEMMA OverNothing ==
  ASSUME NEW f, DOMAIN f = {}, NEW A, NEW B, NEW g \in [A -> B]
  PROVE  Over(f, g) = g
BY DEF Over

LEMMA OntoNothing ==
  ASSUME NEW d \in Tree
  PROVE  Onto(NoWrites, d) = d
<1>1. /\ DOMAIN NoWrites.parent = {} /\ DOMAIN NoWrites.type = {} /\ DOMAIN NoWrites.leaf = {}
      /\ DOMAIN NoWrites.budget = {} /\ NoWrites.add = {} /\ NoWrites.del = {}
  BY DEF NoWrites
<1>2. /\ d.parent \in [Tags -> Tags \cup {None}] /\ d.type \in [Tags -> TagTypes]
      /\ d.leaf \in [Tags -> BOOLEAN] /\ d.budget \in [Tags -> BOOLEAN]
      /\ d = [tags |-> d.tags, parent |-> d.parent, type |-> d.type, leaf |-> d.leaf, budget |-> d.budget]
  BY DEF Tree
<1>3. /\ Over(NoWrites.parent, d.parent) = d.parent /\ Over(NoWrites.type, d.type) = d.type
      /\ Over(NoWrites.leaf, d.leaf) = d.leaf /\ Over(NoWrites.budget, d.budget) = d.budget
  BY <1>1, <1>2, OverNothing
<1>4. [t \in Tags |-> IF t \in NoWrites.del THEN None ELSE Over(NoWrites.parent, d.parent)[t]] = d.parent
  BY <1>1, <1>2, <1>3
<1>5. QED
  BY <1>1, <1>2, <1>3, <1>4 DEF Onto

(* The columns of a row that differ, put over the column as loaded. *)
LEMMA PutOver ==
  ASSUME NEW t \in Tags, NEW B, NEW f \in [Tags -> B], NEW g \in [Tags -> B],
         \A u \in Tags : u # t => g[u] = f[u]
  PROVE  Over(Put(t, g[t], f[t]), f) = g /\ DOMAIN Put(t, g[t], f[t]) \subseteq {t}
<1>1. CASE g[t] = f[t]
  <2>1. g = f /\ Put(t, g[t], f[t]) = << >> /\ DOMAIN << >> = {}
    BY <1>1 DEF Put
  <2>2. QED
    BY <2>1, OverNothing
<1>2. CASE g[t] # f[t]
  <2>. DEFINE h == [x \in {t} |-> g[t]]
  <2>1. Put(t, g[t], f[t]) = h
    BY <1>2 DEF Put
  <2>2. DOMAIN h = {t} /\ h[t] = g[t]
    OBVIOUS
  <2>. HIDE DEF h
  <2>3. Over(h, f) = g
    BY <2>2 DEF Over
  <2>4. QED
    BY <2>1, <2>2, <2>3
<1>3. QED
  BY <1>1, <1>2

LEMMA DirtyIs ==
  ASSUME NEW t, NEW now, NEW was
  PROVE  LET c == Dirty(t, now, was) IN
         /\ c.parent = Put(t, now.parent, was.parent) /\ c.type = Put(t, now.type, was.type)
         /\ c.leaf = Put(t, now.leaf, was.leaf) /\ c.budget = Put(t, now.budget, was.budget)
         /\ c.add = {} /\ c.del = {} /\ DOMAIN c.label = {}
BY DEF Dirty, NoWrites

(* A save writes what it changed: the view becomes the table it computed. *)
LEMMA OntoDirty ==
  ASSUME NEW d \in Tree, NEW t \in d.tags, NEW e \in Tree, OneRow(e, d, t)
  PROVE  LET c == Dirty(t, RowOf(e, t), RowOf(d, t)) IN
         /\ Onto(c, d) = e
         /\ c.add = {} /\ c.del = {} /\ DOMAIN c.label = {}
         /\ DOMAIN c.parent \subseteq {t} /\ DOMAIN c.type \subseteq {t}
         /\ DOMAIN c.leaf \subseteq {t} /\ DOMAIN c.budget \subseteq {t}
         /\ e.parent[t] = d.parent[t] => DOMAIN c.parent = {}
<1>. DEFINE c == Dirty(t, RowOf(e, t), RowOf(d, t))
<1>1. /\ c.parent = Put(t, e.parent[t], d.parent[t]) /\ c.type = Put(t, e.type[t], d.type[t])
      /\ c.leaf = Put(t, e.leaf[t], d.leaf[t]) /\ c.budget = Put(t, e.budget[t], d.budget[t])
      /\ c.add = {} /\ c.del = {} /\ DOMAIN c.label = {}
  BY DirtyIs DEF RowOf
<1>. HIDE DEF c
<1>2. t \in Tags
  BY DEF Tree
<1>3. Over(c.parent, d.parent) = e.parent /\ DOMAIN c.parent \subseteq {t}
  <2>1. d.parent \in [Tags -> Tags \cup {None}] /\ e.parent \in [Tags -> Tags \cup {None}]
        /\ \A u \in Tags : u # t => e.parent[u] = d.parent[u]
    BY DEF Tree, OneRow
  <2>2. /\ Over(Put(t, e.parent[t], d.parent[t]), d.parent) = e.parent
        /\ DOMAIN Put(t, e.parent[t], d.parent[t]) \subseteq {t}
    BY <1>2, <2>1, PutOver
  <2>3. QED
    BY <1>1, <2>2
<1>4. Over(c.type, d.type) = e.type /\ DOMAIN c.type \subseteq {t}
  <2>1. d.type \in [Tags -> TagTypes] /\ e.type \in [Tags -> TagTypes]
        /\ \A u \in Tags : u # t => e.type[u] = d.type[u]
    BY DEF Tree, OneRow
  <2>2. /\ Over(Put(t, e.type[t], d.type[t]), d.type) = e.type
        /\ DOMAIN Put(t, e.type[t], d.type[t]) \subseteq {t}
    BY <1>2, <2>1, PutOver
  <2>3. QED
    BY <1>1, <2>2
<1>5. Over(c.leaf, d.leaf) = e.leaf /\ DOMAIN c.leaf \subseteq {t}
  <2>1. d.leaf \in [Tags -> BOOLEAN] /\ e.leaf \in [Tags -> BOOLEAN]
        /\ \A u \in Tags : u # t => e.leaf[u] = d.leaf[u]
    BY DEF Tree, OneRow
  <2>2. /\ Over(Put(t, e.leaf[t], d.leaf[t]), d.leaf) = e.leaf
        /\ DOMAIN Put(t, e.leaf[t], d.leaf[t]) \subseteq {t}
    BY <1>2, <2>1, PutOver
  <2>3. QED
    BY <1>1, <2>2
<1>6. Over(c.budget, d.budget) = e.budget /\ DOMAIN c.budget \subseteq {t}
  <2>1. d.budget \in [Tags -> BOOLEAN] /\ e.budget \in [Tags -> BOOLEAN]
        /\ \A u \in Tags : u # t => e.budget[u] = d.budget[u]
    BY DEF Tree, OneRow
  <2>2. /\ Over(Put(t, e.budget[t], d.budget[t]), d.budget) = e.budget
        /\ DOMAIN Put(t, e.budget[t], d.budget[t]) \subseteq {t}
    BY <1>2, <2>1, PutOver
  <2>3. QED
    BY <1>1, <2>2
<1>7. Onto(c, d) = e
  <2>1. [u \in Tags |-> IF u \in c.del THEN None ELSE Over(c.parent, d.parent)[u]] = e.parent
    BY <1>1, <1>3 DEF Tree
  <2>2. (d.tags \cup c.add) \ c.del = e.tags
    BY <1>1 DEF OneRow
  <2>3. e = [tags |-> e.tags, parent |-> e.parent, type |-> e.type, leaf |-> e.leaf, budget |-> e.budget]
    BY DEF Tree
  <2>4. QED
    BY <1>4, <1>5, <1>6, <2>1, <2>2, <2>3 DEF Onto
<1>8. e.parent[t] = d.parent[t] => DOMAIN c.parent = {}
  BY <1>1 DEF Put
<1>9. QED
  BY <1>1, <1>3, <1>4, <1>5, <1>6, <1>7, <1>8 DEF c

(* Statement after statement, the view is the writes put over one another. *)
LEMMA OverOver ==
  ASSUME NEW f, NEW e, NEW g, NEW h, DOMAIN e = DOMAIN f, \A x \in DOMAIN f : e[x] = f[x]
  PROVE  Over(Over(e, g), h) = Over(f, Over(g, h))
BY DEF Over

(* What a statement writes: rows in sight, and none deleted. *)
Fits(c, P, d) ==
  /\ c.del = {} /\ c.add \subseteq Tags \ P.del
  /\ DOMAIN c.parent \cup DOMAIN c.type \cup DOMAIN c.leaf \cup DOMAIN c.budget
       \subseteq Onto(P, d).tags \cup c.add

LEMMA WriteView ==
  ASSUME NEW w \in Workers, NEW c, Write(w, c), Fits(c, pend[w], tree), tree \in Tree, DOMAIN pend = Workers,
         View(w).tags \subseteq Tags
  PROVE  View(w)' = Onto(c, View(w))
<1>. DEFINE S == View(w).tags \cup c.add
            P == pend[w]
            Q == pend'[w]
<1>1. /\ Q.parent = Over(Hit(w, c, c.parent), P.parent) /\ Q.type = Over(Hit(w, c, c.type), P.type)
      /\ Q.leaf = Over(Hit(w, c, c.leaf), P.leaf) /\ Q.budget = Over(Hit(w, c, c.budget), P.budget)
      /\ Q.add = P.add \cup c.add /\ Q.del = P.del \cup c.del
      /\ tree' = tree
  BY DEF Write, treeVars
<1>2. /\ View(w).tags = (tree.tags \cup P.add) \ P.del
      /\ View(w).parent = [t \in Tags |-> IF t \in P.del THEN None ELSE Over(P.parent, tree.parent)[t]]
      /\ View(w).type = Over(P.type, tree.type) /\ View(w).leaf = Over(P.leaf, tree.leaf)
      /\ View(w).budget = Over(P.budget, tree.budget)
  BY DEF View, Onto
<1>4. /\ DOMAIN c.parent \subseteq S /\ DOMAIN c.type \subseteq S
      /\ DOMAIN c.leaf \subseteq S /\ DOMAIN c.budget \subseteq S
      /\ c.del = {} /\ c.add \cap P.del = {} /\ S \cap P.del = {} /\ S \subseteq Tags
  BY <1>2 DEF Fits, View
<1>. HIDE DEF S, P, Q
<1>5. /\ Over(Q.parent, tree.parent) = Over(c.parent, Over(P.parent, tree.parent))
      /\ Over(Q.type, tree.type) = Over(c.type, View(w).type)
      /\ Over(Q.leaf, tree.leaf) = Over(c.leaf, View(w).leaf)
      /\ Over(Q.budget, tree.budget) = Over(c.budget, View(w).budget)
  <2>1. Over(Q.parent, tree.parent) = Over(c.parent, Over(P.parent, tree.parent))
    <3>1. DOMAIN Hit(w, c, c.parent) = DOMAIN c.parent /\ \A x \in DOMAIN c.parent : Hit(w, c, c.parent)[x] = c.parent[x]
      BY <1>4 DEF Hit, Restrict, S
    <3>2. Over(Over(Hit(w, c, c.parent), P.parent), tree.parent) = Over(c.parent, Over(P.parent, tree.parent))
      BY <3>1, OverOver
    <3>3. QED
      BY <1>1, <3>2
  <2>2. Over(Q.type, tree.type) = Over(c.type, Over(P.type, tree.type))
    <3>1. DOMAIN Hit(w, c, c.type) = DOMAIN c.type /\ \A x \in DOMAIN c.type : Hit(w, c, c.type)[x] = c.type[x]
      BY <1>4 DEF Hit, Restrict, S
    <3>2. Over(Over(Hit(w, c, c.type), P.type), tree.type) = Over(c.type, Over(P.type, tree.type))
      BY <3>1, OverOver
    <3>3. QED
      BY <1>1, <3>2
  <2>3. Over(Q.leaf, tree.leaf) = Over(c.leaf, Over(P.leaf, tree.leaf))
    <3>1. DOMAIN Hit(w, c, c.leaf) = DOMAIN c.leaf /\ \A x \in DOMAIN c.leaf : Hit(w, c, c.leaf)[x] = c.leaf[x]
      BY <1>4 DEF Hit, Restrict, S
    <3>2. Over(Over(Hit(w, c, c.leaf), P.leaf), tree.leaf) = Over(c.leaf, Over(P.leaf, tree.leaf))
      BY <3>1, OverOver
    <3>3. QED
      BY <1>1, <3>2
  <2>4. Over(Q.budget, tree.budget) = Over(c.budget, Over(P.budget, tree.budget))
    <3>1. DOMAIN Hit(w, c, c.budget) = DOMAIN c.budget /\ \A x \in DOMAIN c.budget : Hit(w, c, c.budget)[x] = c.budget[x]
      BY <1>4 DEF Hit, Restrict, S
    <3>2. Over(Over(Hit(w, c, c.budget), P.budget), tree.budget) = Over(c.budget, Over(P.budget, tree.budget))
      BY <3>1, OverOver
    <3>3. QED
      BY <1>1, <3>2
  <2>5. QED
    BY <1>2, <2>1, <2>2, <2>3, <2>4
<1>6. (tree.tags \cup Q.add) \ Q.del = (View(w).tags \cup c.add) \ c.del
  BY <1>1, <1>2, <1>4
<1>7. [t \in Tags |-> IF t \in Q.del THEN None ELSE Over(Q.parent, tree.parent)[t]]
        = [t \in Tags |-> IF t \in c.del THEN None ELSE Over(c.parent, View(w).parent)[t]]
  <2>1. ASSUME NEW t \in Tags
        PROVE  (IF t \in Q.del THEN None ELSE Over(Q.parent, tree.parent)[t])
                 = IF t \in c.del THEN None ELSE Over(c.parent, View(w).parent)[t]
    <3>1. Q.del = P.del /\ DOMAIN View(w).parent = Tags
      BY <1>1, <1>2, <1>4
    <3>2. CASE t \in DOMAIN c.parent
      <4>1. t \notin P.del
        BY <1>4, <3>2
      <4>2. Over(Q.parent, tree.parent)[t] = c.parent[t] /\ Over(c.parent, View(w).parent)[t] = c.parent[t]
        BY <1>5, <3>2 DEF Over
      <4>3. QED
        BY <1>4, <3>1, <4>1, <4>2
    <3>3. CASE t \notin DOMAIN c.parent
      <4>1. Over(c.parent, View(w).parent)[t] = View(w).parent[t]
        BY <3>1, <3>3 DEF Over
      <4>2. t \in DOMAIN tree.parent
        BY DEF Tree
      <4>3. Over(Q.parent, tree.parent)[t] = Over(P.parent, tree.parent)[t]
        BY <1>5, <3>3, <4>2 DEF Over
      <4>4. QED
        BY <1>2, <1>4, <3>1, <4>1, <4>3
    <3>4. QED
      BY <3>2, <3>3
  <2>2. QED
    BY <2>1
<1>8. View(w)' = Onto(Q, tree)
  BY <1>1 DEF View, Q
<1>9. QED
  BY <1>5, <1>6, <1>7, <1>8 DEF Onto

-----------------------------------------------------------------------------
(* The first write of each request leads to what the atomic request makes. *)

(* A row inserted under p. *)
InsertedRow(t, p, type, b) ==
  [NoWrites EXCEPT !.add = {t}, !.parent = [x \in {t} |-> p], !.type = [x \in {t} |-> type],
                   !.leaf = [x \in {t} |-> TRUE], !.budget = [x \in {t} |-> b]]

LEMMA InsertLeads ==
  ASSUME Sound(tree), NEW t \in Tags \ tree.tags, NEW p \in tree.tags \cup {None},
         NEW type \in TagTypes, NEW b \in BOOLEAN
  PROVE  LET c == InsertedRow(t, p, IF p = None THEN type ELSE tree.type[p], b)
         IN LeadsTo(Onto(c, tree), IF p = None THEN << >> ELSE <<ResaveTask(p)>>, Made(tree, t, p, type, b))
<1>. DEFINE kind == IF p = None THEN type ELSE tree.type[p]
            c == InsertedRow(t, p, kind, b)
            d == [tree EXCEPT !.tags = @ \cup {t}, !.parent[t] = p, !.type[t] = type, !.budget[t] = b]
            r == Onto(c, tree)
<1>1. tree \in Tree /\ tree.tags \subseteq Tags /\ p # t /\ p \in Tags \cup {None} /\ None \notin Tags
  BY TagsAssumption DEF Sound, Tree
<1>2. /\ d \in Tree
      /\ d.tags = tree.tags \cup {t}
      /\ d.parent = [tree.parent EXCEPT ![t] = p]
      /\ d.type = [tree.type EXCEPT ![t] = type]
      /\ d.leaf = tree.leaf
      /\ d.budget = [tree.budget EXCEPT ![t] = b]
  BY <1>1 DEF Tree
<1>3. Made(tree, t, p, type, b) = Save(d, t, [parent |-> None, type |-> type])
  BY DEF Made
<1>. HIDE DEF d
<1>4. /\ d.parent[t] = p
      /\ \A u \in tree.tags : d.parent[u] = tree.parent[u] /\ d.parent[u] # t
      /\ p # None => d.type[p] = tree.type[p]
  BY <1>1, <1>2 DEF Tree, Sound, ParentsExist
<1>5. Children(d, t) = {}
  BY <1>1, <1>2, <1>4 DEF Children
<1>6. ParentsExist(d)
  BY <1>1, <1>2, <1>4 DEF ParentsExist, Sound
<1>. DEFINE e == BeforeSave(d, t)
<1>7. /\ e.tags = d.tags /\ e.parent = d.parent
      /\ e.leaf = [tree.leaf EXCEPT ![t] = TRUE]
      /\ e.budget = [tree.budget EXCEPT ![t] = b]
      /\ e.type = [tree.type EXCEPT ![t] = kind]
      /\ e \in Tree
  <2>1. e \in Tree /\ e.tags = d.tags /\ e.parent = d.parent
    BY <1>2, <1>6, BeforeSaveColumns DEF SameLinks
  <2>2. e = [d EXCEPT !.leaf[t] = TRUE, !.budget[t] = d.budget[t] /\ TRUE,
                      !.type[t] = IF p = None THEN d.type[t] ELSE d.type[p]]
    BY <1>4, <1>5 DEF BeforeSave
  <2>3. e.leaf = [d.leaf EXCEPT ![t] = TRUE]
    BY <1>2, <2>2 DEF Tree
  <2>4. e.budget = [d.budget EXCEPT ![t] = d.budget[t]]
    BY <1>2, <2>2 DEF Tree
  <2>5. e.type = [d.type EXCEPT ![t] = IF p = None THEN d.type[t] ELSE d.type[p]]
    BY <1>2, <2>2 DEF Tree
  <2>. HIDE DEF e
  <2>6. e.budget = [tree.budget EXCEPT ![t] = b]
    BY <1>1, <1>2, <2>4 DEF Tree
  <2>7. e.type = [tree.type EXCEPT ![t] = kind]
    BY <1>1, <1>2, <1>4, <2>5 DEF Tree
  <2>8. QED
    BY <1>2, <2>1, <2>3, <2>6, <2>7
<1>. HIDE DEF e
<1>8. r = e
  <2>1. /\ c.add = {t} /\ c.del = {}
        /\ DOMAIN c.parent = {t} /\ c.parent[t] = p
        /\ DOMAIN c.type = {t} /\ c.type[t] = kind
        /\ DOMAIN c.leaf = {t} /\ c.leaf[t] = TRUE
        /\ DOMAIN c.budget = {t} /\ c.budget[t] = b
    BY DEF InsertedRow, NoWrites
  <2>. HIDE DEF c, kind
  <2>2. Over(c.parent, tree.parent) = e.parent
    <3>1. tree.parent \in [Tags -> Tags \cup {None}] /\ e.parent \in [Tags -> Tags \cup {None}]
      BY <1>1, <1>7 DEF Tree
    <3>2. /\ DOMAIN c.parent = {t} /\ c.parent[t] = e.parent[t]
          /\ \A u \in Tags : u # t => e.parent[u] = tree.parent[u]
      BY <1>2, <1>7, <2>1, <3>1
    <3>3. QED
      BY <3>1, <3>2 DEF Over
  <2>3. Over(c.type, tree.type) = e.type
    <3>1. tree.type \in [Tags -> TagTypes] /\ e.type \in [Tags -> TagTypes]
      BY <1>1, <1>7 DEF Tree
    <3>2. /\ DOMAIN c.type = {t} /\ c.type[t] = e.type[t]
          /\ \A u \in Tags : u # t => e.type[u] = tree.type[u]
      BY <1>2, <1>7, <2>1, <3>1
    <3>3. QED
      BY <3>1, <3>2 DEF Over
  <2>4. Over(c.leaf, tree.leaf) = e.leaf
    <3>1. tree.leaf \in [Tags -> BOOLEAN] /\ e.leaf \in [Tags -> BOOLEAN]
      BY <1>1, <1>7 DEF Tree
    <3>2. /\ DOMAIN c.leaf = {t} /\ c.leaf[t] = e.leaf[t]
          /\ \A u \in Tags : u # t => e.leaf[u] = tree.leaf[u]
      BY <1>2, <1>7, <2>1, <3>1
    <3>3. QED
      BY <3>1, <3>2 DEF Over
  <2>5. Over(c.budget, tree.budget) = e.budget
    <3>1. tree.budget \in [Tags -> BOOLEAN] /\ e.budget \in [Tags -> BOOLEAN]
      BY <1>1, <1>7 DEF Tree
    <3>2. /\ DOMAIN c.budget = {t} /\ c.budget[t] = e.budget[t]
          /\ \A u \in Tags : u # t => e.budget[u] = tree.budget[u]
      BY <1>2, <1>7, <2>1, <3>1
    <3>3. QED
      BY <3>1, <3>2 DEF Over
  <2>6. [u \in Tags |-> IF u \in c.del THEN None ELSE Over(c.parent, tree.parent)[u]] = e.parent
    BY <1>7, <2>1, <2>2 DEF Tree
  <2>7. (tree.tags \cup c.add) \ c.del = e.tags
    BY <1>2, <1>7, <2>1
  <2>8. e = [tags |-> e.tags, parent |-> e.parent, type |-> e.type, leaf |-> e.leaf, budget |-> e.budget]
    BY <1>7 DEF Tree
  <2>9. QED
    BY <2>3, <2>4, <2>5, <2>6, <2>7, <2>8 DEF Onto
<1>. DEFINE g == Cascade(SyncParents(e, None, p), t, type)
<1>9. Made(tree, t, p, type, b) = g
  BY <1>3, <1>4 DEF Save, e
<1>10. ParentsExist(e)
  BY <1>6, <1>7 DEF ParentsExist
<1>11. CASE p = None
  <2>1. SyncParents(e, None, p) = e /\ e.type[t] = type
    BY <1>1, <1>7, <1>11 DEF SyncParents, Tree
  <2>2. g = e
    BY <2>1 DEF Cascade
  <2>. HIDE DEF g
  <2>3. QED
    BY <1>7, <1>8, <1>9, <1>10, <1>11, <2>2 DEF LeadsTo
<1>12. CASE p # None
  <2>. DEFINE x == ResaveTask(p)
              f == Resave(e, p)
  <2>1. None \notin e.tags
    BY <1>1, <1>2, <1>7
  <2>2. SyncParents(e, None, p) = f /\ Done(e, x) = f /\ x.op = "resave" /\ x.tag = p
    BY <1>12, <2>1 DEF SyncParents, Resave, Done, ResaveTask
  <2>3. LikeParent(e, p)
    <3>1. p \in tree.tags /\ (tree.parent[p] # None => tree.parent[p] \in tree.tags /\ tree.type[p] = tree.type[tree.parent[p]])
      BY <1>12 DEF Sound, ParentsExist, Typed
    <3>2. e.parent[p] = tree.parent[p]
      BY <1>4, <1>7, <3>1
    <3>3. \A u \in tree.tags : e.type[u] = tree.type[u]
      BY <1>1, <1>7 DEF Tree
    <3>4. QED
      BY <3>1, <3>2, <3>3 DEF LikeParent
  <2>4. f \in Tree /\ f.tags = e.tags /\ f.parent = e.parent /\ f.type = e.type
    BY <1>1, <1>7, <1>10, <2>3, ResaveColumns DEF SameLinks
  <2>5. Resaves(e, x)
    BY <1>1, <2>2, <2>3 DEF Resaves
  <2>. HIDE DEF f, x
  <2>6. g = f
    <3>1. Children(f, t) = {}
      BY <1>5, <1>7, <2>4 DEF Children
    <3>2. Below(f, t) = {}
      BY <3>1, BelowChildren
    <3>3. [f EXCEPT !.type = [u \in Tags |-> IF u \in Below(f, t) THEN f.type[t] ELSE f.type[u]]] = f
      BY <2>4, <3>2 DEF Tree
    <3>4. QED
      BY <2>2, <3>3 DEF Cascade
  <2>. HIDE DEF g
  <2>7. QED
    BY <1>7, <1>8, <1>9, <1>10, <1>12, <2>2, <2>5, <2>6 DEF LeadsTo, x
<1>13. QED
  BY <1>11, <1>12

LEMMA SaveLeads ==
  ASSUME Sound(tree), NEW t \in tree.tags, NEW p \in (tree.tags \cup {None}) \ (Below(tree, t) \cup {t}),
         NEW type \in TagTypes, NEW b \in BOOLEAN
  PROVE  LET from == RowOf(tree, t)
             row  == [from EXCEPT !.parent = p, !.type = type, !.budget = b]
             e    == BeforeSave(Assigned(tree, t, row), t)
         IN /\ e \in Tree /\ OneRow(e, tree, t)
            /\ LeadsTo(e, AfterSave(t, RowOf(e, t), from, Children(tree, t)), Changed(tree, t, p, type, b))
<1>. DEFINE from == RowOf(tree, t)
            row == [from EXCEPT !.parent = p, !.type = type, !.budget = b]
            d == [tree EXCEPT !.parent[t] = p, !.type[t] = type, !.budget[t] = b]
            old == tree.parent[t]
<1>1. tree \in Tree /\ tree.tags \subseteq Tags /\ p # t /\ p \in Tags \cup {None} /\ t \in Tags /\ None \notin Tags
  BY TagsAssumption DEF Sound, Tree
<1>2. /\ d \in Tree
      /\ d.tags = tree.tags
      /\ d.parent = [tree.parent EXCEPT ![t] = p]
      /\ d.type = [tree.type EXCEPT ![t] = type]
      /\ d.leaf = tree.leaf
      /\ d.budget = [tree.budget EXCEPT ![t] = b]
  BY <1>1 DEF Tree
<1>3. Assigned(tree, t, row) = d
  <2>1. row.parent = p /\ row.type = type /\ row.leaf = tree.leaf[t] /\ row.budget = b
    BY DEF RowOf
  <2>. HIDE DEF row
  <2>2. Assigned(tree, t, row)
          = [tree EXCEPT !.parent[t] = p, !.type[t] = type, !.leaf[t] = tree.leaf[t], !.budget[t] = b]
    BY <2>1 DEF Assigned
  <2>3. [tree.leaf EXCEPT ![t] = tree.leaf[t]] = tree.leaf
    BY <1>1 DEF Tree
  <2>4. QED
    BY <1>1, <2>2, <2>3 DEF Tree
<1>4. Changed(tree, t, p, type, b) = Save(d, t, Loaded(tree, t))
  BY DEF Changed
<1>. HIDE DEF d
<1>5. /\ d.parent[t] = p /\ d.type[t] = type
      /\ \A u \in Tags : u # t => /\ d.parent[u] = tree.parent[u] /\ d.type[u] = tree.type[u]
                                  /\ d.budget[u] = tree.budget[u]
  BY <1>1, <1>2 DEF Tree
<1>6. ParentsExist(d)
  BY <1>1, <1>2, <1>5 DEF ParentsExist, Sound
<1>. DEFINE e == BeforeSave(d, t)
<1>7. /\ e \in Tree /\ e.tags = tree.tags /\ e.parent = d.parent
      /\ \A u \in Tags : u # t => e.type[u] = tree.type[u] /\ e.leaf[u] = tree.leaf[u] /\ e.budget[u] = tree.budget[u]
      /\ e.type[t] = IF p = None THEN type ELSE d.type[p]
  <2>1. /\ e \in Tree /\ e.tags = d.tags /\ e.parent = d.parent
        /\ \A u \in Tags : u # t => e.type[u] = d.type[u] /\ e.leaf[u] = d.leaf[u] /\ e.budget[u] = d.budget[u]
        /\ e.type[t] = IF d.parent[t] = None THEN d.type[t] ELSE d.type[d.parent[t]]
    <3>1. t \in d.tags
      BY <1>2
    <3>2. /\ e \in Tree /\ SameLinks(e, d)
          /\ \A u \in Tags : u # t => e.type[u] = d.type[u]
          /\ e.type[t] = IF d.parent[t] = None THEN d.type[t] ELSE d.type[d.parent[t]]
          /\ \A u \in Tags : u # t => e.leaf[u] = d.leaf[u] /\ e.budget[u] = d.budget[u]
      BY ZenonT(30), <1>2, <1>6, <3>1, BeforeSaveColumns
    <3>. HIDE DEF e
    <3>3. QED
      BY <3>2 DEF SameLinks
  <2>. HIDE DEF e
  <2>2. QED
    BY <1>2, <1>5, <2>1
<1>8. OneRow(e, tree, t)
  BY <1>5, <1>7 DEF OneRow
<1>9. Changed(tree, t, p, type, b) = Cascade(SyncParents(e, old, e.parent[t]), t, tree.type[t])
  BY <1>4, <1>7 DEF Save, Loaded
<1>. HIDE DEF e
<1>10. old # t /\ (old # None => old \in tree.tags /\ tree.parent[old] # t) /\ old \in Tags \cup {None}
  <2>1. old # None => old \in tree.tags
    BY DEF Sound, ParentsExist
  <2>2. QED
    BY <1>1, <2>1, NoShortCycle DEF Sound
<1>11. Children(e, t) = Children(tree, t)
  BY <1>1, <1>5, <1>7, <1>10 DEF Children
<1>12. ParentsExist(e) /\ e.parent[t] = p
  BY <1>5, <1>6, <1>2, <1>7 DEF ParentsExist
<1>13. ASSUME NEW q \in tree.tags, q # t, tree.parent[q] # t
       PROVE  LikeParent(e, q)
  <2>1. q \in Tags /\ e.parent[q] = tree.parent[q] /\ e.type[q] = tree.type[q]
    BY <1>1, <1>5, <1>7, <1>13
  <2>2. tree.parent[q] # None => tree.parent[q] \in Tags /\ tree.type[q] = tree.type[tree.parent[q]]
    BY <1>1 DEF Sound, ParentsExist, Typed
  <2>3. QED
    BY <1>7, <1>13, <2>1, <2>2 DEF LikeParent
<1>14. p \in tree.tags => tree.parent[p] # t
  BY BelowClosed DEF Children
<1>15. LikeParent(e, old) /\ LikeParent(e, p)
  <2>1. None \notin e.tags
    BY <1>1, <1>7
  <2>2. LikeParent(e, old)
    BY <1>10, <1>13, <2>1 DEF LikeParent
  <2>3. LikeParent(e, p)
    BY <1>1, <1>13, <1>14, <2>1 DEF LikeParent
  <2>4. QED
    BY <2>2, <2>3
<1>16. from.parent = old /\ from.type = tree.type[t]
  BY DEF RowOf
<1>. HIDE DEF from, row, old
<1>17. LeadsTo(e, AfterSave(t, RowOf(e, t), from, Children(e, t)),
               Cascade(SyncParents(e, from.parent, e.parent[t]), t, from.type))
  BY <1>1, <1>7, <1>10, <1>12, <1>15, <1>16, CallbacksLead
<1>18. QED
  BY <1>3, <1>7, <1>8, <1>9, <1>11, <1>16, <1>17 DEF from, row, e

LEMMA GoneLeads ==
  ASSUME Sound(tree), NEW t \in tree.tags
  PROVE  /\ Gone(tree, t) \in Tree
         /\ Gone(tree, t).tags = tree.tags \ {t}
         /\ Gone(tree, t).parent = [u \in Tags |-> IF u = t THEN None ELSE
                                IF u \in Children(tree, t) THEN tree.parent[t] ELSE tree.parent[u]]
         /\ Gone(tree, t).type = tree.type /\ Gone(tree, t).leaf = tree.leaf /\ Gone(tree, t).budget = tree.budget
         /\ LeadsTo(Gone(tree, t), <<ResaveTask(tree.parent[t])>>, Resave(Gone(tree, t), tree.parent[t]))
<1>. DEFINE p == tree.parent[t]
            d == Gone(tree, t)
            m == Promote(tree, t)
            par == [u \in Tags |-> IF u \in Children(tree, t) THEN p ELSE tree.parent[u]]
<1>1. tree \in Tree /\ tree.tags \subseteq Tags /\ t \in Tags /\ None \notin Tags
  BY TagsAssumption DEF Sound, Tree
<1>2. p \in Tags \cup {None} /\ p # t /\ (p # None => p \in tree.tags /\ tree.parent[p] # t)
  BY <1>1, NoShortCycle DEF Sound, Tree, ParentsExist
<1>3. par \in [Tags -> Tags \cup {None}] /\ m = [tree EXCEPT !.parent = par]
  BY <1>1, <1>2 DEF Tree, Promote
<1>4. [par EXCEPT ![t] = None]
        = [u \in Tags |-> IF u = t THEN None ELSE IF u \in Children(tree, t) THEN p ELSE tree.parent[u]]
  BY <1>1
<1>. HIDE DEF par
<1>5. /\ m \in Tree /\ m.tags = tree.tags /\ m.parent = par
      /\ m.type = tree.type /\ m.leaf = tree.leaf /\ m.budget = tree.budget
  BY <1>1, <1>3 DEF Tree
<1>. HIDE DEF m
<1>6. d = [m EXCEPT !.tags = m.tags \ {t}, !.parent[t] = None]
  BY DEF Gone, Erase, m
<1>7. /\ d \in Tree /\ d.tags = tree.tags \ {t} /\ d.parent = [par EXCEPT ![t] = None]
      /\ d.type = tree.type /\ d.leaf = tree.leaf /\ d.budget = tree.budget
  <2>1. [m.parent EXCEPT ![t] = None] \in [Tags -> Tags \cup {None}] /\ m.tags \ {t} \in SUBSET Tags
    BY <1>5 DEF Tree
  <2>2. QED
    BY <1>5, <1>6, <2>1 DEF Tree
<1>. HIDE DEF d
<1>8. ParentsExist(d)
  <2>1. \A u \in tree.tags : tree.parent[u] # None => tree.parent[u] \in tree.tags
    BY DEF Sound, ParentsExist
  <2>2. QED
    BY <1>1, <1>2, <1>4, <1>7, <2>1 DEF ParentsExist, Children
<1>9. LikeParent(d, p)
  <2>1. SUFFICES ASSUME p \in d.tags, d.parent[p] # None PROVE d.type[p] = d.type[d.parent[p]]
    BY DEF LikeParent
  <2>2. d.parent[p] = tree.parent[p]
    BY <1>1, <1>2, <1>4, <1>7, <2>1 DEF Children
  <2>3. QED
    BY <1>7, <2>1, <2>2 DEF Sound, Typed
<1>. DEFINE x == ResaveTask(p)
<1>10. Resaves(d, x) /\ Done(d, x) = Resave(d, p)
  BY <1>2, <1>9 DEF Resaves, Done, ResaveTask
<1>11. LeadsTo(d, <<x>>, Resave(d, p))
  <2>. HIDE DEF x
  <2>1. QED
    BY <1>7, <1>8, <1>10 DEF LeadsTo
<1>12. QED
  BY <1>4, <1>7, <1>11 DEF d

-----------------------------------------------------------------------------
(* The inductive invariant of one worker. *)

(* What the request of one worker is about to do to the committed table d    *)
(* and labels l, from its tasks s, its waiting statement c and its writes P. *)

InsertTask(t, p, type, b) ==
  [op |-> "insert", tag |-> t, row |-> [parent |-> p, type |-> type, leaf |-> TRUE, budget |-> b]]
UpdateTask(d, t, p, type, b) ==
  SaveTask(t, [RowOf(d, t) EXCEPT !.parent = p, !.type = type, !.budget = b], RowOf(d, t))
DetachTask(d, t) == [op |-> "detach", tag |-> t, parent |-> d.parent[t]]
DeleteTask(t)    == [op |-> "delete", tag |-> t]

MayCreate(d, t, p) == t \in Tags \ d.tags /\ p \in d.tags \cup {None}
MayUpdate(d, t, p) == t \in d.tags /\ p \in (d.tags \cup {None}) \ (Below(d, t) \cup {t})

Creating(s, d) ==
  \E t, p : \E type \in TagTypes, b \in BOOLEAN : MayCreate(d, t, p) /\ s = <<InsertTask(t, p, type, b)>>
Updating(s, d) ==
  \E t, p : \E type \in TagTypes, b \in BOOLEAN : MayUpdate(d, t, p) /\ s = <<UpdateTask(d, t, p, type, b)>>
Destroying(s, d) ==
  \E t \in d.tags : s = <<DetachTask(d, t), DeleteTask(t), ResaveTask(d.parent[t])>>

(* The children of t have its parent, and nothing else is written. *)
Promotes(P, d, t) ==
  /\ P.add = {} /\ P.del = {} /\ DOMAIN P.type = {} /\ DOMAIN P.leaf = {} /\ DOMAIN P.budget = {}
  /\ DOMAIN P.parent = Children(d, t)
  /\ \A u \in Children(d, t) : P.parent[u] = d.parent[t]

Detached(s, P, d, l) ==
  \E t \in d.tags :
    /\ s = <<DeleteTask(t), ResaveTask(d.parent[t])>>
    /\ Promotes(P, d, t)
    /\ DOMAIN P.label \subseteq {x \in Things : l[x] = t}

(* The table that an atomic request makes of d, which deletes the tags gone. *)
Asked(d, g, gone) ==
  \/ /\ gone = {}
     /\ \E t, p : \E type \in TagTypes, b \in BOOLEAN :
          \/ MayCreate(d, t, p) /\ g = Made(d, t, p, type, b)
          \/ MayUpdate(d, t, p) /\ g = Changed(d, t, p, type, b)
  \/ \E t \in d.tags : gone = {t} /\ g = Resave(Gone(d, t), d.parent[t])

(* The table as the request will see it when its waiting statement has run. *)
Now(r, c, P, d) == IF r = "write" THEN Onto(c, Onto(P, d)) ELSE Onto(P, d)

(* From its first write of the row on, what is left of a request leads to    *)
(* what the atomic request makes.                                            *)
Finishing(r, s, c, P, d, l) ==
  /\ r \in {"run", "write"}
  /\ \E g : Asked(d, g, P.del) /\ LeadsTo(Now(r, c, P, d), s, g)
  /\ r = "write" => Fits(c, P, d) /\ DOMAIN c.label = {}
  /\ DOMAIN P.label = {x \in Things : l[x] \in P.del}

Serves(r, s, c, P, d, l) ==
  \/ r = "idle" /\ P = NoWrites
  \/ r = "run" /\ P = NoWrites /\ (Creating(s, d) \/ Updating(s, d) \/ Destroying(s, d))
  \/ r = "run" /\ Detached(s, P, d, l)
  \/ Finishing(r, s, c, P, d, l)

Serving(w) == Serves(rpc[w], todo[w], cols[w], pend[w], tree, label)

ServeInv == CRInv /\ TreeInv /\ \A w \in Workers : Serving(w)

(* The stage is told by the task at the head. *)
LEMMA StageOf ==
  ASSUME NEW r, NEW s, NEW c, NEW P, NEW d, NEW l, Serves(r, s, c, P, d, l), r # "idle"
  PROVE  /\ r = "write" \/ s = << >> => Finishing(r, s, c, P, d, l)
         /\ s # << >> /\ r = "run" =>
              /\ Head(s).op = "insert" => Creating(s, d) /\ P = NoWrites
              /\ Head(s).op = "save" => Updating(s, d) /\ P = NoWrites
              /\ Head(s).op = "detach" => Destroying(s, d) /\ P = NoWrites
              /\ Head(s).op = "delete" => Detached(s, P, d, l)
              /\ Head(s).op \in {"resave", "cascade"} => Finishing(r, s, c, P, d, l)
<1>1. CASE r = "run" /\ P = NoWrites /\ Creating(s, d)
  <2>1. PICK a : s = <<a>> /\ a.op = "insert"
    BY <1>1 DEF Creating, InsertTask
  <2>2. s # << >> /\ Head(s).op = "insert"
    BY <2>1, Tails
  <2>3. QED
    BY <1>1, <2>2
<1>2. CASE r = "run" /\ P = NoWrites /\ Updating(s, d)
  <2>1. PICK a : s = <<a>> /\ a.op = "save"
    BY <1>2 DEF Updating, UpdateTask, SaveTask
  <2>2. s # << >> /\ Head(s).op = "save"
    BY <2>1, Tails
  <2>3. QED
    BY <1>2, <2>2
<1>3. CASE r = "run" /\ P = NoWrites /\ Destroying(s, d)
  <2>1. PICK a, b, x : s = <<a, b, x>> /\ a.op = "detach"
    BY <1>3 DEF Destroying, DetachTask
  <2>2. s # << >> /\ Head(s).op = "detach"
    BY <2>1, Tails
  <2>3. QED
    BY <1>3, <2>2
<1>4. CASE r = "run" /\ Detached(s, P, d, l)
  <2>1. PICK a, b : s = <<a, b>> /\ a.op = "delete"
    BY <1>4 DEF Detached, DeleteTask
  <2>2. s # << >> /\ Head(s).op = "delete"
    BY <2>1, Tails
  <2>3. QED
    BY <1>4, <2>2
<1>5. CASE Finishing(r, s, c, P, d, l)
  <2>1. PICK e, g : LeadsTo(e, s, g)
    BY <1>5 DEF Finishing
  <2>2. s # << >> => Head(s).op \in {"resave", "cascade"}
    BY <2>1, Tails DEF LeadsTo, Resaves, Retypes
  <2>3. QED
    BY <1>5, <2>2
<1>6. QED
  BY <1>1, <1>2, <1>3, <1>4, <1>5 DEF Serves

(* A prepared statement c that makes the table e of what the request sees. *)
LEMMA PrepareIs ==
  ASSUME CRInv, NEW w \in Workers, NEW c, NEW after, Prepare(w, c, after)
  PROVE  /\ rpc'[w] = "write" /\ cols'[w] = c /\ todo'[w] = after \o Tail(todo[w])
         /\ pend'[w] = pend[w] /\ tree' = tree /\ label' = label
BY DEF CRInv, Shape, Prepare, treeVars

LEMMA FirstWrite ==
  ASSUME NEW c, NEW s, NEW d \in Tree, NEW l \in [Things -> Tags \cup {None}], NEW g,
         Asked(d, g, {}), LeadsTo(Onto(c, d), s, g), DOMAIN c.label = {},
         c.del = {}, c.add \subseteq Tags,
         DOMAIN c.parent \cup DOMAIN c.type \cup DOMAIN c.leaf \cup DOMAIN c.budget \subseteq d.tags \cup c.add
  PROVE  Serves("write", s, c, NoWrites, d, l)
<1>1. Onto(NoWrites, d) = d /\ NoWrites.del = {} /\ DOMAIN NoWrites.label = {}
  BY OntoNothing, NoWritesIs
<1>. DEFINE P == NoWrites
<1>. HIDE DEF P
<1>2. Fits(c, P, d)
  BY <1>1 DEF Fits, P
<1>3. Now("write", c, P, d) = Onto(c, d)
  BY <1>1 DEF Now, P
<1>4. {x \in Things : l[x] \in P.del} = {}
  BY <1>1 DEF P
<1>5. Finishing("write", s, c, P, d, l)
  BY <1>1, <1>2, <1>3, <1>4 DEF Finishing, P
<1>6. QED
  BY <1>5 DEF Serves, P

-----------------------------------------------------------------------------
(* The steps of the request of the only worker. *)

LEMMA RunIs ==
  ASSUME CRInv, NEW w \in Workers, NEW tasks, Run(w, tasks), UNCHANGED <<treeVars, cols, pend>>
  PROVE  /\ rpc'[w] = "run" /\ todo'[w] = tasks /\ cols'[w] = cols[w] /\ pend'[w] = pend[w]
         /\ tree' = tree /\ label' = label
BY DEF CRInv, Shape, Run, treeVars

LEMMA IdleIs ==
  ASSUME ServeInv, NEW w \in Workers, rpc[w] = "idle"
  PROVE  pend[w] = NoWrites
BY DEF ServeInv, Serving, Serves, Finishing

LEMMA StartServes ==
  ASSUME ServeInv, NEW w \in Workers,
         \/ \E t \in Tags, p \in Tags \cup {None}, type \in TypeInputs, b \in BudgetInputs :
              StartCreate(w, t, p, type, b) \/ StartUpdate(w, t, p, type, b)
         \/ \E t \in Tags : StartDestroy(w, t)
  PROVE  Serving(w)'
<1>1. ASSUME NEW t \in Tags, NEW p, NEW type \in TypeInputs, NEW b \in BudgetInputs, StartCreate(w, t, p, type, b)
      PROVE  Serving(w)'
  <2>1. PICK a : a = InsertTask(t, p, type, b) /\ Run(w, <<a>>)
    BY <1>1 DEF StartCreate, InsertTask
  <2>2. MayCreate(tree, t, p) /\ type \in TagTypes /\ b \in BOOLEAN
    BY <1>1, InputsAssumption DEF StartCreate, Fresh, MayCreate
  <2>3. Creating(<<a>>, tree)
    BY <2>1, <2>2 DEF Creating
  <2>4. /\ rpc'[w] = "run" /\ todo'[w] = <<a>> /\ pend'[w] = NoWrites /\ tree' = tree
    BY <1>1, <2>1, RunIs, IdleIs DEF StartCreate, ServeInv
  <2>5. QED
    BY <2>3, <2>4 DEF Serving, Serves
<1>2. ASSUME NEW t \in Tags, NEW p, NEW type \in TypeInputs, NEW b \in BudgetInputs, StartUpdate(w, t, p, type, b)
      PROVE  Serving(w)'
  <2>1. PICK a : a = UpdateTask(tree, t, p, type, b) /\ Run(w, <<a>>)
    BY <1>2 DEF StartUpdate, UpdateTask
  <2>2. MayUpdate(tree, t, p) /\ type \in TagTypes /\ b \in BOOLEAN
    BY <1>2, InputsAssumption DEF StartUpdate, MayUpdate
  <2>3. Updating(<<a>>, tree)
    BY <2>1, <2>2 DEF Updating
  <2>4. /\ rpc'[w] = "run" /\ todo'[w] = <<a>> /\ pend'[w] = NoWrites /\ tree' = tree
    BY <1>2, <2>1, RunIs, IdleIs DEF StartUpdate, ServeInv
  <2>5. QED
    BY <2>3, <2>4 DEF Serving, Serves
<1>3. ASSUME NEW t \in Tags, StartDestroy(w, t)
      PROVE  Serving(w)'
  <2>1. PICK a, b, c : /\ a = DetachTask(tree, t) /\ b = DeleteTask(t) /\ c = ResaveTask(tree.parent[t])
                       /\ Run(w, <<a, b, c>>)
    BY <1>3 DEF StartDestroy, DetachTask, DeleteTask
  <2>2. Destroying(<<a, b, c>>, tree)
    BY <1>3, <2>1 DEF Destroying, StartDestroy
  <2>3. /\ rpc'[w] = "run" /\ todo'[w] = <<a, b, c>> /\ pend'[w] = NoWrites /\ tree' = tree
    BY <1>3, <2>1, RunIs, IdleIs DEF StartDestroy, ServeInv
  <2>4. QED
    BY <2>2, <2>3 DEF Serving, Serves
<1>4. QED
  BY <1>1, <1>2, <1>3

(* A request that has written nothing sees the committed table. *)
LEMMA FirstView ==
  ASSUME ServeInv, NEW w \in Workers, pend[w] = NoWrites
  PROVE  View(w) = tree
BY OntoNothing DEF View, ServeInv, TreeInv, Sound

LEMMA InsertServes ==
  ASSUME ServeInv, NEW w \in Workers, InsertRow(w)
  PROVE  Serving(w)'
<1>1. Creating(todo[w], tree) /\ pend[w] = NoWrites
  BY StageOf DEF ServeInv, Serving, InsertRow, Is
<1>2. PICK t, p : \E type \in TagTypes, b \in BOOLEAN :
        MayCreate(tree, t, p) /\ todo[w] = <<InsertTask(t, p, type, b)>>
  BY <1>1 DEF Creating
<1>3. PICK type \in TagTypes, b \in BOOLEAN :
        MayCreate(tree, t, p) /\ todo[w] = <<InsertTask(t, p, type, b)>>
  BY <1>2
<1>4. t \in Tags \ tree.tags /\ p \in tree.tags \cup {None}
  BY <1>3 DEF MayCreate
<1>. DEFINE a == InsertTask(t, p, type, b)
            kind == IF p = None THEN type ELSE tree.type[p]
            c == InsertedRow(t, p, kind, b)
            s == IF p = None THEN << >> ELSE <<ResaveTask(p)>>
            g == Made(tree, t, p, type, b)
<1>5. /\ a.tag = t /\ a.row.parent = p /\ a.row.type = type /\ a.row.budget = b
  BY DEF InsertTask
<1>. HIDE DEF a
<1>6. Head(todo[w]) = a /\ Tail(todo[w]) = << >>
  BY <1>3, Tails DEF a
<1>7. View(w) = tree
  BY <1>1, FirstView
<1>8. Prepare(w, c, s)
  BY <1>5, <1>6, <1>7 DEF InsertRow, InsertedRow
<1>9. LeadsTo(Onto(c, tree), s, g)
  BY <1>4, InsertLeads DEF ServeInv, TreeInv
<1>10. Asked(tree, g, {})
  BY <1>3 DEF Asked
<1>11. c.add = {t} /\ c.del = {} /\ DOMAIN c.label = {} /\ DOMAIN c.parent = {t} /\ DOMAIN c.type = {t}
       /\ DOMAIN c.leaf = {t} /\ DOMAIN c.budget = {t}
  BY DEF InsertedRow, NoWrites
<1>12. s \o << >> = s
  <2>1. PICK x : s = IF p = None THEN << >> ELSE <<x>>
    OBVIOUS
  <2>2. << >> \in Seq({x}) /\ <<x>> \in Seq({x})
    OBVIOUS
  <2>3. s \in Seq({x})
    BY <2>1, <2>2
  <2>. HIDE DEF s
  <2>4. QED
    BY <2>3
<1>. HIDE DEF c, s, g, kind
<1>13. /\ rpc'[w] = "write" /\ cols'[w] = c /\ todo'[w] = s /\ pend'[w] = NoWrites
       /\ tree' = tree /\ label' = label
  BY <1>1, <1>6, <1>8, <1>12, PrepareIs DEF ServeInv
<1>14. Serves("write", s, c, NoWrites, tree, label)
  BY <1>4, <1>9, <1>10, <1>11, FirstWrite DEF ServeInv, TreeInv, Sound
<1>15. QED
  BY <1>13, <1>14 DEF Serving

LEMMA SaveServes ==
  ASSUME ServeInv, NEW w \in Workers, SaveRow(w)
  PROVE  Serving(w)'
<1>1. Updating(todo[w], tree) /\ pend[w] = NoWrites
  BY StageOf DEF ServeInv, Serving, SaveRow, Is
<1>2. PICK t, p : \E type \in TagTypes, b \in BOOLEAN :
        MayUpdate(tree, t, p) /\ todo[w] = <<UpdateTask(tree, t, p, type, b)>>
  BY <1>1 DEF Updating
<1>3. PICK type \in TagTypes, b \in BOOLEAN :
        MayUpdate(tree, t, p) /\ todo[w] = <<UpdateTask(tree, t, p, type, b)>>
  BY <1>2
<1>4. t \in tree.tags /\ p \in (tree.tags \cup {None}) \ (Below(tree, t) \cup {t})
  BY <1>3 DEF MayUpdate
<1>. DEFINE a == UpdateTask(tree, t, p, type, b)
            from == RowOf(tree, t)
            row == [from EXCEPT !.parent = p, !.type = type, !.budget = b]
            e == BeforeSave(Assigned(tree, t, row), t)
            c == Dirty(t, RowOf(e, t), from)
            s == AfterSave(t, RowOf(e, t), from, Children(tree, t))
            g == Changed(tree, t, p, type, b)
<1>5. a.tag = t /\ a.row = row /\ a.from = from
  BY DEF UpdateTask, SaveTask
<1>6. /\ e \in Tree /\ OneRow(e, tree, t)
      /\ LeadsTo(e, s, g)
  BY <1>4, SaveLeads DEF ServeInv, TreeInv
<1>. HIDE DEF a, row, from
<1>7. Head(todo[w]) = a /\ Tail(todo[w]) = << >>
  BY <1>3, Tails DEF a
<1>8. View(w) = tree
  BY <1>1, FirstView
<1>9. Prepare(w, c, s)
  BY <1>5, <1>7, <1>8 DEF SaveRow
<1>10. Asked(tree, g, {})
  BY <1>3 DEF Asked
<1>11. /\ Onto(c, tree) = e /\ c.add = {} /\ c.del = {} /\ DOMAIN c.label = {}
       /\ DOMAIN c.parent \subseteq {t} /\ DOMAIN c.type \subseteq {t}
       /\ DOMAIN c.leaf \subseteq {t} /\ DOMAIN c.budget \subseteq {t}
  <2>. HIDE DEF e
  <2>1. tree \in Tree
    BY DEF ServeInv, TreeInv, Sound
  <2>2. QED
    BY <1>4, <1>6, <2>1, OntoDirty DEF from
<1>12. s \o << >> = s
  <2>1. TodoOK(s)
    BY AfterSaveTasks
  <2>. HIDE DEF s
  <2>2. PICK S : s \in Seq(S)
    BY <2>1 DEF TodoOK
  <2>3. QED
    BY <2>2
<1>. HIDE DEF c, s, g, e
<1>13. /\ rpc'[w] = "write" /\ cols'[w] = c /\ todo'[w] = s /\ pend'[w] = NoWrites
       /\ tree' = tree /\ label' = label
  BY <1>1, <1>7, <1>9, <1>12, PrepareIs DEF ServeInv
<1>14. Serves("write", s, c, NoWrites, tree, label)
  <2>1. LeadsTo(Onto(c, tree), s, g)
    BY <1>6, <1>11
  <2>2. DOMAIN c.parent \cup DOMAIN c.type \cup DOMAIN c.leaf \cup DOMAIN c.budget \subseteq tree.tags \cup c.add
    BY <1>4, <1>11
  <2>3. QED
    BY <1>10, <1>11, <2>1, <2>2, FirstWrite DEF ServeInv, TreeInv, Sound
<1>15. QED
  BY <1>13, <1>14 DEF Serving

(* A callback that prepares its statement c. *)
LEMMA NextWrite ==
  ASSUME NEW c, NEW s, NEW P, NEW d, NEW l, NEW g, Asked(d, g, P.del), LeadsTo(Onto(c, Onto(P, d)), s, g),
         Fits(c, P, d), DOMAIN c.label = {}, DOMAIN P.label = {x \in Things : l[x] \in P.del}
  PROVE  Serves("write", s, c, P, d, l)
BY DEF Serves, Finishing, Now

(* What a callback finds. *)
LEMMA CallbackFinds ==
  ASSUME ServeInv, NEW w \in Workers, rpc[w] = "run", todo[w] # << >>,
         Head(todo[w]).op \in {"resave", "cascade"}
  PROVE  \E g : /\ Asked(tree, g, pend[w].del) /\ LeadsTo(View(w), todo[w], g)
                /\ DOMAIN pend[w].label = {x \in Things : label[x] \in pend[w].del}
<1>1. Finishing(rpc[w], todo[w], cols[w], pend[w], tree, label)
  BY StageOf DEF ServeInv, Serving
<1>2. QED
  BY <1>1 DEF Finishing, Now, View

LEMMA EmptyBefore ==
  ASSUME ServeInv, NEW w \in Workers, todo[w] # << >>
  PROVE  << >> \o Tail(todo[w]) = Tail(todo[w])
<1>1. TodoOK(todo[w])
  BY DEF ServeInv, CRInv, Shape
<1>2. PICK S : todo[w] \in Seq(S)
  BY <1>1 DEF TodoOK
<1>3. Tail(todo[w]) \in Seq(S)
  BY <1>2
<1>4. QED
  BY <1>3

LEMMA ResaveServes ==
  ASSUME ServeInv, NEW w \in Workers, ResaveRow(w)
  PROVE  Serving(w)'
<1>. DEFINE a == Head(todo[w])
            p == a.tag
            d == View(w)
            e == BeforeSave(d, p)
            rest == Tail(todo[w])
<1>1. rpc[w] = "run" /\ todo[w] # << >> /\ a.op = "resave"
  BY DEF ResaveRow, Is
<1>2. PICK g : /\ Asked(tree, g, pend[w].del) /\ LeadsTo(d, todo[w], g)
               /\ DOMAIN pend[w].label = {x \in Things : label[x] \in pend[w].del}
  BY <1>1, CallbackFinds
<1>3. Resaves(d, a) /\ LeadsTo(Resave(d, p), rest, g)
  BY <1>1, <1>2, HeadResave
<1>4. d \in Tree /\ ParentsExist(d) /\ p \in Tags \cup {None} /\ LikeParent(d, p)
  BY <1>2, <1>3 DEF LeadsTo, Resaves
<1>5. << >> \o rest = rest
  BY <1>1, EmptyBefore
<1>6. d = Onto(pend[w], tree)
  BY DEF View
<1>7. CASE p \in d.tags
  <2>. DEFINE c == Dirty(p, RowOf(e, p), RowOf(d, p))
              s == AfterSave(p, RowOf(e, p), RowOf(d, p), Children(d, p))
  <2>1. Prepare(w, c, s)
    BY <1>7 DEF ResaveRow
  <2>2. Resave(d, p) = e /\ e.type[p] = d.type[p] /\ e.parent = d.parent
    BY <1>4, <1>7, ResaveIs
  <2>3. /\ e \in Tree /\ e.tags = d.tags
        /\ \A u \in Tags : u # p => e.type[u] = d.type[u] /\ e.leaf[u] = d.leaf[u] /\ e.budget[u] = d.budget[u]
    <3>1. e \in Tree /\ SameLinks(e, d)
          /\ (\A u \in Tags : u # p => e.type[u] = d.type[u])
          /\ (\A u \in Tags : u # p => e.leaf[u] = d.leaf[u] /\ e.budget[u] = d.budget[u])
      BY <1>4, <1>7, BeforeSaveColumns
    <3>2. QED
      BY <3>1 DEF SameLinks
  <2>4. OneRow(e, d, p)
    BY <2>2, <2>3 DEF OneRow
  <2>. HIDE DEF e, d
  <2>5. /\ Onto(c, d) = e /\ c.add = {} /\ c.del = {} /\ DOMAIN c.label = {}
        /\ DOMAIN c.parent \subseteq {p} /\ DOMAIN c.type \subseteq {p}
        /\ DOMAIN c.leaf \subseteq {p} /\ DOMAIN c.budget \subseteq {p}
    BY <1>4, <1>7, <2>3, <2>4, OntoDirty
  <2>6. s = << >>
    <3>1. RowOf(e, p).parent = RowOf(d, p).parent /\ RowOf(e, p).type = RowOf(d, p).type
      BY <2>2 DEF RowOf
    <3>2. QED
      BY <3>1, AfterSaveIs
  <2>. HIDE DEF c, s, p, rest
  <2>7. /\ rpc'[w] = "write" /\ cols'[w] = c /\ todo'[w] = rest /\ pend'[w] = pend[w]
        /\ tree' = tree /\ label' = label
    <3>1. todo'[w] = s \o rest
      BY <2>1, PrepareIs DEF ServeInv, rest
    <3>2. QED
      BY <1>5, <2>1, <2>6, <3>1, PrepareIs DEF ServeInv
  <2>8. Fits(c, pend[w], tree)
    BY <1>6, <1>7, <2>5 DEF Fits
  <2>9. Serves("write", rest, c, pend[w], tree, label)
    BY <1>2, <1>3, <1>6, <2>2, <2>5, <2>8, NextWrite
  <2>10. QED
    BY <2>7, <2>9 DEF Serving
<1>8. CASE p \notin d.tags
  <2>. DEFINE c == NoWrites
  <2>1. Prepare(w, c, << >>)
    BY <1>8 DEF ResaveRow
  <2>2. Resave(d, p) = d
    BY <1>8 DEF Resave
  <2>3. Onto(c, d) = d
    BY <1>4, OntoNothing
  <2>4. /\ c.add = {} /\ c.del = {} /\ DOMAIN c.label = {} /\ DOMAIN c.parent = {}
        /\ DOMAIN c.type = {} /\ DOMAIN c.leaf = {} /\ DOMAIN c.budget = {}
    BY DEF NoWrites
  <2>. HIDE DEF c, d, p, rest
  <2>5. /\ rpc'[w] = "write" /\ cols'[w] = c /\ todo'[w] = rest /\ pend'[w] = pend[w]
        /\ tree' = tree /\ label' = label
    <3>1. todo'[w] = << >> \o rest
      BY <2>1, PrepareIs DEF ServeInv, rest
    <3>2. QED
      BY <1>5, <2>1, <3>1, PrepareIs DEF ServeInv
  <2>6. Fits(c, pend[w], tree)
    BY <2>4 DEF Fits
  <2>7. Serves("write", rest, c, pend[w], tree, label)
    BY <1>2, <1>3, <1>6, <2>2, <2>3, <2>4, <2>6, NextWrite
  <2>8. QED
    BY <2>5, <2>7 DEF Serving
<1>9. QED
  BY <1>7, <1>8

LEMMA CascadeServes ==
  ASSUME ServeInv, NEW w \in Workers, CascadeRows(w)
  PROVE  Serving(w)'
<1>. DEFINE a == Head(todo[w])
            d == View(w)
            ids == RetypedBy(d, a)
            c == [NoWrites EXCEPT !.type = [u \in ids |-> a.type]]
<1>1. rpc[w] = "run" /\ todo[w] # << >> /\ a.op = "cascade"
  BY DEF CascadeRows, Is
<1>2. PICK g : /\ Asked(tree, g, pend[w].del) /\ LeadsTo(d, todo[w], g)
               /\ DOMAIN pend[w].label = {x \in Things : label[x] \in pend[w].del}
  BY <1>1, CallbackFinds
<1>3. Retypes(d, a) /\ Tail(todo[w]) = << >> /\ g = Done(d, a) /\ LeadsTo(g, << >>, g)
  BY <1>1, <1>2, HeadCascade
<1>4. d \in Tree /\ ids \subseteq d.tags /\ d.tags \subseteq Tags
  BY <1>2, <1>3 DEF LeadsTo, Retypes, RetypedBy, Below, Tree
<1>5. Prepare(w, c, << >>)
  BY DEF CascadeRows, RetypedBy
<1>6. d = Onto(pend[w], tree)
  BY DEF View
<1>7. /\ c.add = {} /\ c.del = {} /\ DOMAIN c.label = {} /\ DOMAIN c.parent = {}
      /\ DOMAIN c.type = ids /\ (\A u \in ids : c.type[u] = a.type) /\ DOMAIN c.leaf = {} /\ DOMAIN c.budget = {}
  BY DEF NoWrites
<1>8. /\ d = [tags |-> d.tags, parent |-> d.parent, type |-> d.type, leaf |-> d.leaf, budget |-> d.budget]
      /\ d.parent \in [Tags -> Tags \cup {None}] /\ d.type \in [Tags -> TagTypes]
      /\ d.leaf \in [Tags -> BOOLEAN] /\ d.budget \in [Tags -> BOOLEAN]
  BY <1>4 DEF Tree
<1>9. g = [d EXCEPT !.type = [u \in Tags |-> IF u \in ids THEN a.type ELSE d.type[u]]]
  BY <1>1, <1>3 DEF Done
<1>. HIDE DEF c, d, ids, a
<1>10. Onto(c, d) = g
  <2>1. Over(c.parent, d.parent) = d.parent /\ Over(c.leaf, d.leaf) = d.leaf /\ Over(c.budget, d.budget) = d.budget
    BY <1>7, <1>8, OverNothing
  <2>2. Over(c.type, d.type) = [u \in Tags |-> IF u \in ids THEN a.type ELSE d.type[u]]
    BY <1>4, <1>7, <1>8 DEF Over
  <2>3. [t \in Tags |-> IF t \in c.del THEN None ELSE Over(c.parent, d.parent)[t]] = d.parent
    BY <1>7, <1>8, <2>1
  <2>4. (d.tags \cup c.add) \ c.del = d.tags
    BY <1>7
  <2>5. Onto(c, d) = [tags |-> d.tags, parent |-> d.parent,
                      type |-> [u \in Tags |-> IF u \in ids THEN a.type ELSE d.type[u]],
                      leaf |-> d.leaf, budget |-> d.budget]
    BY <2>1, <2>2, <2>3, <2>4 DEF Onto
  <2>6. QED
    BY <1>8, <1>9, <2>5
<1>11. /\ rpc'[w] = "write" /\ cols'[w] = c /\ todo'[w] = << >> /\ pend'[w] = pend[w]
       /\ tree' = tree /\ label' = label
  <2>1. << >> \o << >> = << >>
    BY Joined
  <2>2. QED
    BY <1>3, <1>5, <2>1, PrepareIs DEF ServeInv
<1>12. Fits(c, pend[w], tree)
  BY <1>4, <1>6, <1>7 DEF Fits
<1>13. Serves("write", << >>, c, pend[w], tree, label)
  <2>1. LeadsTo(Onto(c, Onto(pend[w], tree)), << >>, g)
    BY <1>3, <1>6, <1>10
  <2>2. QED
    BY <1>2, <1>7, <1>12, <2>1, NextWrite
<1>14. QED
  BY <1>11, <1>13 DEF Serving

(* What a statement of the only worker leaves. *)
LEMMA WriteIs ==
  ASSUME ServeInv, NEW w \in Workers, NEW c, Write(w, c)
  PROVE  /\ rpc'[w] = "run" /\ cols'[w] = NoWrites /\ tree' = tree /\ label' = label
         /\ pend'[w].add = pend[w].add \cup c.add /\ pend'[w].del = pend[w].del \cup c.del
         /\ pend'[w].parent = Over(Hit(w, c, c.parent), pend[w].parent)
         /\ pend'[w].type = Over(Hit(w, c, c.type), pend[w].type)
         /\ pend'[w].leaf = Over(Hit(w, c, c.leaf), pend[w].leaf)
         /\ pend'[w].budget = Over(Hit(w, c, c.budget), pend[w].budget)
         /\ pend'[w].label = Over(c.label, pend[w].label)
BY DEF ServeInv, CRInv, Shape, Write, treeVars

LEMMA ExecuteServes ==
  ASSUME ServeInv, NEW w \in Workers, Execute(w)
  PROVE  Serving(w)'
<1>. DEFINE c == cols[w]
            P == pend[w]
            Q == pend'[w]
<1>1. rpc[w] = "write" /\ Write(w, c) /\ todo' = todo
  BY DEF Execute
<1>2. Finishing("write", todo[w], c, P, tree, label)
  BY <1>1, StageOf DEF ServeInv, Serving
<1>3. PICK g : Asked(tree, g, P.del) /\ LeadsTo(Onto(c, View(w)), todo[w], g)
  BY <1>2 DEF Finishing, Now, View
<1>4. Fits(c, P, tree) /\ DOMAIN c.label = {} /\ c.del = {}
  BY <1>2 DEF Finishing, Fits
<1>5. View(w)' = Onto(c, View(w))
  <2>1. View(w).tags \subseteq Tags
    BY <1>3, <1>4 DEF LeadsTo, Onto, Tree
  <2>2. tree \in Tree /\ DOMAIN pend = Workers
    BY DEF ServeInv, TreeInv, Sound, CRInv, Shape
  <2>3. QED
    BY <1>1, <1>4, <2>1, <2>2, WriteView
<1>6. View(w)' = Onto(Q, tree)
  BY <1>1, WriteIs DEF View
<1>7. Q.del = P.del /\ DOMAIN Q.label = DOMAIN P.label
  <2>1. Q.del = P.del \cup c.del /\ Q.label = Over(c.label, P.label)
    BY <1>1, WriteIs
  <2>2. DOMAIN Over(c.label, P.label) = DOMAIN c.label \cup DOMAIN P.label
    BY DEF Over
  <2>. HIDE DEF c, P, Q
  <2>3. QED
    BY <1>4, <2>1, <2>2
<1>8. rpc'[w] = "run" /\ cols'[w] = NoWrites /\ tree' = tree /\ label' = label /\ todo'[w] = todo[w]
  BY <1>1, WriteIs
<1>. HIDE DEF c, P
<1>9. Finishing("run", todo[w], NoWrites, Q, tree, label)
  <2>. HIDE DEF Q
  <2>1. Now("run", NoWrites, Q, tree) = Onto(Q, tree)
    BY DEF Now
  <2>2. DOMAIN Q.label = {x \in Things : label[x] \in Q.del}
    BY <1>2, <1>7 DEF Finishing
  <2>3. Asked(tree, g, Q.del) /\ LeadsTo(Now("run", NoWrites, Q, tree), todo[w], g)
    BY <1>3, <1>5, <1>6, <1>7, <2>1
  <2>4. QED
    BY <2>2, <2>3 DEF Finishing
<1>10. Serves("run", todo[w], NoWrites, Q, tree, label)
  BY <1>9 DEF Serves
<1>11. QED
  BY <1>8, <1>10 DEF Serving

LEMMA DetachServes ==
  ASSUME ServeInv, NEW w \in Workers, Detach(w)
  PROVE  Serving(w)'
<1>1. Destroying(todo[w], tree) /\ pend[w] = NoWrites /\ rpc[w] = "run"
  BY StageOf DEF ServeInv, Serving, Detach, Is
<1>2. PICK t \in tree.tags : todo[w] = <<DetachTask(tree, t), DeleteTask(t), ResaveTask(tree.parent[t])>>
  BY <1>1 DEF Destroying
<1>. DEFINE a == DetachTask(tree, t)
            b == DeleteTask(t)
            x == ResaveTask(tree.parent[t])
            kids == Children(tree, t)
            mine == {y \in Things : label[y] = t}
            c == [NoWrites EXCEPT !.parent = [u \in kids |-> tree.parent[t]], !.label = [y \in mine |-> None]]
            Q == pend'[w]
<1>3. a.tag = t /\ a.parent = tree.parent[t]
  BY DEF DetachTask
<1>. HIDE DEF a, b, x
<1>4. Head(todo[w]) = a /\ Tail(todo[w]) = <<b, x>>
  BY <1>2, Tails DEF a, b, x
<1>5. View(w) = tree
  BY <1>1, FirstView
<1>6. ViewLabel(w) = label
  <2>1. DOMAIN NoWrites.label = {} /\ label \in [Things -> Tags \cup {None}]
    BY NoWritesIs DEF ServeInv, TreeInv
  <2>2. QED
    BY <1>1, <2>1, OverNothing DEF ViewLabel
<1>7. Write(w, c) /\ todo'[w] = <<b, x>>
  BY <1>3, <1>4, <1>5, <1>6 DEF Detach, ServeInv, CRInv, Shape
<1>8. /\ c.add = {} /\ c.del = {} /\ DOMAIN c.type = {} /\ DOMAIN c.leaf = {} /\ DOMAIN c.budget = {}
      /\ DOMAIN c.parent = kids /\ (\A u \in kids : c.parent[u] = tree.parent[t])
      /\ DOMAIN c.label = mine
  BY DEF NoWrites
<1>9. /\ NoWrites.add = {} /\ NoWrites.del = {} /\ DOMAIN NoWrites.parent = {} /\ DOMAIN NoWrites.type = {}
      /\ DOMAIN NoWrites.leaf = {} /\ DOMAIN NoWrites.budget = {} /\ DOMAIN NoWrites.label = {}
  BY DEF NoWrites
<1>10. kids \subseteq tree.tags
  BY DEF Children
<1>. HIDE DEF c, kids, mine
<1>11. /\ rpc'[w] = "run" /\ tree' = tree /\ label' = label
       /\ Q.add = NoWrites.add \cup c.add /\ Q.del = NoWrites.del \cup c.del
       /\ Q.parent = Over(Hit(w, c, c.parent), NoWrites.parent)
       /\ Q.type = Over(Hit(w, c, c.type), NoWrites.type)
       /\ Q.leaf = Over(Hit(w, c, c.leaf), NoWrites.leaf)
       /\ Q.budget = Over(Hit(w, c, c.budget), NoWrites.budget)
       /\ Q.label = Over(c.label, NoWrites.label)
  BY <1>1, <1>7, WriteIs
<1>. HIDE DEF Q
<1>12. Promotes(Q, tree, t)
  <2>1. Q.add = {} /\ Q.del = {}
    BY <1>8, <1>9, <1>11
  <2>2. DOMAIN Q.type = {} /\ DOMAIN Q.leaf = {} /\ DOMAIN Q.budget = {}
    BY <1>8, <1>9, <1>11 DEF Over, Hit, Restrict
  <2>3. DOMAIN Q.parent = kids /\ \A u \in kids : Q.parent[u] = tree.parent[t]
    <3>1. DOMAIN Hit(w, c, c.parent) = kids /\ \A u \in kids : Hit(w, c, c.parent)[u] = tree.parent[t]
      BY <1>5, <1>8, <1>10 DEF Hit, Restrict
    <3>2. QED
      BY <1>9, <1>11, <3>1 DEF Over
  <2>4. QED
    BY <2>1, <2>2, <2>3 DEF Promotes, kids
<1>13. DOMAIN Q.label \subseteq {y \in Things : label[y] = t}
  BY <1>8, <1>9, <1>11 DEF Over, mine
<1>14. Detached(<<b, x>>, Q, tree, label)
  BY <1>12, <1>13 DEF Detached, b, x
<1>15. Serves("run", <<b, x>>, cols'[w], Q, tree, label)
  BY <1>14 DEF Serves
<1>16. QED
  BY <1>7, <1>11, <1>15 DEF Serving, Q

LEMMA DeleteServes ==
  ASSUME ServeInv, NEW w \in Workers, Delete(w)
  PROVE  Serving(w)'
<1>. DEFINE P == pend[w]
            Q == pend'[w]
<1>1. Detached(todo[w], P, tree, label) /\ rpc[w] = "run"
  BY StageOf DEF ServeInv, Serving, Delete, Is
<1>2. PICK t \in tree.tags :
        /\ todo[w] = <<DeleteTask(t), ResaveTask(tree.parent[t])>>
        /\ Promotes(P, tree, t)
        /\ DOMAIN P.label \subseteq {y \in Things : label[y] = t}
  BY <1>1 DEF Detached
<1>. DEFINE b == DeleteTask(t)
            x == ResaveTask(tree.parent[t])
            d == Gone(tree, t)
            g == Resave(d, tree.parent[t])
            c == [NoWrites EXCEPT !.del = {t}]
<1>3. b.tag = t
  BY DEF DeleteTask
<1>. HIDE DEF b, x
<1>4. Head(todo[w]) = b /\ Tail(todo[w]) = <<x>>
  BY <1>2, Tails DEF b, x
<1>5. Write(w, c) /\ todo'[w] = <<x>>
  BY <1>3, <1>4 DEF Delete, ServeInv, CRInv, Shape
<1>6. /\ c.add = {} /\ c.del = {t} /\ DOMAIN c.type = {} /\ DOMAIN c.leaf = {} /\ DOMAIN c.budget = {}
      /\ DOMAIN c.parent = {} /\ DOMAIN c.label = {}
  BY DEF NoWrites
<1>7. \A y \in Things : ViewLabel(w)[y] # t
  BY <1>5, <1>6 DEF Write, ForeignKeysHold
<1>8. /\ d \in Tree /\ d.tags = tree.tags \ {t}
      /\ d.parent = [u \in Tags |-> IF u = t THEN None ELSE
                       IF u \in Children(tree, t) THEN tree.parent[t] ELSE tree.parent[u]]
      /\ d.type = tree.type /\ d.leaf = tree.leaf /\ d.budget = tree.budget
      /\ LeadsTo(d, <<x>>, g)
  BY GoneLeads DEF ServeInv, TreeInv, x
<1>9. Asked(tree, g, {t})
  BY DEF Asked
<1>10. /\ P.add = {} /\ P.del = {} /\ DOMAIN P.type = {} /\ DOMAIN P.leaf = {} /\ DOMAIN P.budget = {}
       /\ DOMAIN P.parent = Children(tree, t)
       /\ \A u \in Children(tree, t) : P.parent[u] = tree.parent[t]
  BY <1>2 DEF Promotes
<1>11. /\ tree.parent \in [Tags -> Tags \cup {None}] /\ tree.type \in [Tags -> TagTypes]
       /\ tree.leaf \in [Tags -> BOOLEAN] /\ tree.budget \in [Tags -> BOOLEAN]
       /\ tree.tags \subseteq Tags /\ t \in Tags /\ Children(tree, t) \subseteq tree.tags
       /\ label \in [Things -> Tags \cup {None}]
  BY DEF ServeInv, TreeInv, Sound, Tree, Children
<1>12. ViewLabel(w) = Over(P.label, label)
  BY DEF ViewLabel
<1>. HIDE DEF c, d, g, P
<1>13. /\ rpc'[w] = "run" /\ tree' = tree /\ label' = label
       /\ Q.add = P.add \cup c.add /\ Q.del = P.del \cup c.del
       /\ Q.parent = Over(Hit(w, c, c.parent), P.parent)
       /\ Q.type = Over(Hit(w, c, c.type), P.type)
       /\ Q.leaf = Over(Hit(w, c, c.leaf), P.leaf)
       /\ Q.budget = Over(Hit(w, c, c.budget), P.budget)
       /\ Q.label = Over(c.label, P.label)
  BY <1>5, WriteIs DEF P
<1>. HIDE DEF Q
<1>14. Q.add = {} /\ Q.del = {t} /\ DOMAIN Q.label = DOMAIN P.label
  BY <1>6, <1>10, <1>13 DEF Over
<1>15. /\ DOMAIN Q.type = {} /\ DOMAIN Q.leaf = {} /\ DOMAIN Q.budget = {}
       /\ DOMAIN Q.parent = Children(tree, t)
       /\ \A u \in Children(tree, t) : Q.parent[u] = tree.parent[t]
  BY <1>6, <1>10, <1>13 DEF Over, Hit, Restrict
<1>16. Onto(Q, tree) = d
  <2>1. Over(Q.type, tree.type) = d.type /\ Over(Q.leaf, tree.leaf) = d.leaf /\ Over(Q.budget, tree.budget) = d.budget
    BY <1>8, <1>11, <1>15, OverNothing
  <2>2. [u \in Tags |-> IF u \in Q.del THEN None ELSE Over(Q.parent, tree.parent)[u]] = d.parent
    BY <1>8, <1>11, <1>14, <1>15 DEF Over
  <2>3. (tree.tags \cup Q.add) \ Q.del = d.tags
    BY <1>8, <1>14
  <2>4. d = [tags |-> d.tags, parent |-> d.parent, type |-> d.type, leaf |-> d.leaf, budget |-> d.budget]
    BY <1>8 DEF Tree
  <2>5. QED
    BY <2>1, <2>2, <2>3, <2>4 DEF Onto
<1>17. DOMAIN Q.label = {y \in Things : label[y] \in Q.del}
  <2>1. \A y \in Things : label[y] = t => y \in DOMAIN P.label
    BY <1>7, <1>11, <1>12 DEF Over
  <2>2. QED
    BY <1>2, <1>14, <2>1 DEF P
<1>18. Finishing("run", <<x>>, cols'[w], Q, tree, label)
  <2>1. Now("run", cols'[w], Q, tree) = d
    BY <1>16 DEF Now
  <2>2. QED
    BY <1>8, <1>9, <1>14, <1>17, <2>1 DEF Finishing
<1>19. Serves("run", <<x>>, cols'[w], Q, tree, label)
  BY <1>18 DEF Serves
<1>20. QED
  BY <1>5, <1>13, <1>19 DEF Serving, Q

LEMMA EndServes ==
  ASSUME CRInv, NEW w \in Workers, EndRequest(w)
  PROVE  Serving(w)'
BY DEF CRInv, Shape, EndRequest, Serving, Serves

(* The commit of what the request was asked is the atomic request. *)
LEMMA CommitIs ==
  ASSUME ServeInv, NEW w \in Workers, Commit(w)
  PROVE  TreeNext
<1>. DEFINE P == pend[w]
<1>1. /\ rpc[w] = "run" /\ todo[w] = << >>
      /\ tree' = Onto(P, tree) /\ label' = Over(P.label, label)
  BY DEF Commit
<1>2. Finishing("run", << >>, cols[w], P, tree, label)
  BY <1>1, StageOf DEF ServeInv, Serving
<1>3. PICK g : Asked(tree, g, P.del) /\ LeadsTo(Onto(P, tree), << >>, g)
  BY <1>2 DEF Finishing, Now
<1>4. tree' = g
  BY <1>1, <1>3 DEF LeadsTo
<1>5. DOMAIN P.label = {x \in Things : label[x] \in P.del} /\ \A x \in DOMAIN P.label : P.label[x] = None
  BY <1>2 DEF Finishing, ServeInv, CRInv, Shape, WritesOK
<1>6. label \in [Things -> Tags \cup {None}] /\ tree.tags \subseteq Tags
  BY DEF ServeInv, TreeInv, Sound, Tree
<1>. HIDE DEF P
<1>7. ASSUME P.del = {} PROVE label' = label
  BY <1>1, <1>5, <1>6, <1>7 DEF Over
<1>8. ASSUME NEW t, P.del = {t} PROVE label' = Unlabel(t)
  BY <1>1, <1>5, <1>6, <1>8 DEF Over, Unlabel
<1>9. ASSUME NEW t, NEW p, NEW type \in TagTypes, NEW b \in BOOLEAN, P.del = {},
             MayCreate(tree, t, p), g = Made(tree, t, p, type, b)
      PROVE  TreeNext
  <2>1. Create(t, p, type, b)
    BY <1>4, <1>7, <1>9 DEF MayCreate, Made, Create
  <2>2. t \in Tags /\ p \in Tags \cup {None}
    BY <1>6, <1>9 DEF MayCreate
  <2>3. QED
    BY <2>1, <2>2 DEF TreeNext
<1>10. ASSUME NEW t, NEW p, NEW type \in TagTypes, NEW b \in BOOLEAN, P.del = {},
              MayUpdate(tree, t, p), g = Changed(tree, t, p, type, b)
       PROVE  TreeNext
  <2>1. Update(t, p, type, b)
    BY <1>4, <1>7, <1>10 DEF MayUpdate, Changed, Update
  <2>2. t \in Tags /\ p \in Tags \cup {None}
    BY <1>6, <1>10 DEF MayUpdate
  <2>3. QED
    BY <2>1, <2>2 DEF TreeNext
<1>11. ASSUME NEW t \in tree.tags, P.del = {t}, g = Resave(Gone(tree, t), tree.parent[t])
       PROVE  TreeNext
  <2>1. Destroy(t)
    BY <1>4, <1>8, <1>11 DEF Gone, Destroy
  <2>2. QED
    BY <1>6, <2>1 DEF TreeNext
<1>12. QED
  BY <1>3, <1>9, <1>10, <1>11 DEF Asked

(* A category that is assigned meanwhile is none that the request deletes. *)
LEMMA AssignServes ==
  ASSUME ServeInv, NEW x \in Things, NEW t \in Tags \cup {None}, AssignNow(x, t), NEW w \in Workers
  PROVE  Serving(w)'
<1>. DEFINE P == pend[w]
<1>1. /\ tree' = tree /\ rpc'[w] = rpc[w] /\ todo'[w] = todo[w] /\ cols'[w] = cols[w] /\ pend'[w] = P
      /\ label' = [label EXCEPT ![x] = t] /\ t \notin P.del /\ x \notin DOMAIN P.label
  BY DEF AssignNow, Assign, reqVars
<1>2. label \in [Things -> Tags \cup {None}]
  BY DEF ServeInv, TreeInv
<1>3. Serves(rpc[w], todo[w], cols[w], P, tree, label)
  BY DEF ServeInv, Serving
<1>. HIDE DEF P
<1>4. \A y \in Things : y # x => label'[y] = label[y]
  BY <1>1, <1>2
<1>5. label'[x] = t
  BY <1>1, <1>2
<1>6. ASSUME Detached(todo[w], P, tree, label) PROVE Detached(todo[w], P, tree, label')
  BY <1>1, <1>4, <1>6 DEF Detached
<1>7. ASSUME DOMAIN P.label = {y \in Things : label[y] \in P.del}
      PROVE  DOMAIN P.label = {y \in Things : label'[y] \in P.del}
  BY <1>1, <1>4, <1>5, <1>7
<1>8. Serves(rpc[w], todo[w], cols[w], P, tree, label')
  BY <1>3, <1>6, <1>7 DEF Serves, Finishing
<1>9. QED
  BY <1>1, <1>8 DEF Serving

LEMMA ServeInit == CRInit => ServeInv
<1>. SUFFICES ASSUME CRInit PROVE ServeInv
  OBVIOUS
<1>1. \A w \in Workers : Serving(w)
  BY DEF CRInit, Serving, Serves
<1>2. TreeInit
  BY DEF CRInit
<1>3. QED
  BY <1>1, <1>2, CRInvInit, TreeInitSound DEF ServeInv

LEMMA ServeStep ==
  ASSUME OneWorker, ServeInv, [CRNext]_crVars
  PROVE  ServeInv' /\ [TreeNext]_treeVars
<1>1. ASSUME NEW w \in Workers, Request(w) PROVE [TreeNext]_treeVars /\ Serving(w)'
  <2>1. CASE \/ \E t \in Tags, p \in Tags \cup {None}, type \in TypeInputs, b \in BudgetInputs :
                  StartCreate(w, t, p, type, b) \/ StartUpdate(w, t, p, type, b)
             \/ \E t \in Tags : StartDestroy(w, t)
    <3>1. UNCHANGED treeVars
      BY <2>1 DEF StartCreate, StartUpdate, StartDestroy, treeVars
    <3>2. QED
      BY <2>1, <3>1, StartServes
  <2>2. CASE SaveRow(w) \/ InsertRow(w) \/ ResaveRow(w) \/ CascadeRows(w)
    <3>1. UNCHANGED treeVars
      BY <2>2 DEF SaveRow, InsertRow, ResaveRow, CascadeRows, Prepare, treeVars
    <3>2. QED
      BY <2>2, <3>1, SaveServes, InsertServes, ResaveServes, CascadeServes
  <2>3. CASE Execute(w) \/ Detach(w) \/ Delete(w)
    <3>1. UNCHANGED treeVars
      BY <2>3 DEF Execute, Detach, Delete, Write, treeVars
    <3>2. QED
      BY <2>3, <3>1, ExecuteServes, DetachServes, DeleteServes
  <2>4. CASE Commit(w)
    BY <2>4, CommitIs, EndServes DEF Commit, ServeInv
  <2>5. CASE Rollback(w)
    BY <2>5, EndServes DEF Rollback, ServeInv
  <2>6. QED
    BY <1>1, <2>1, <2>2, <2>3, <2>4, <2>5 DEF Request
<1>2. ASSUME NEW x \in Things, NEW t \in Tags \cup {None}, AssignNow(x, t)
      PROVE  [TreeNext]_treeVars /\ \A w \in Workers : Serving(w)'
  <2>1. TreeNext
    BY <1>2 DEF AssignNow, TreeNext
  <2>2. QED
    BY <1>2, <2>1, AssignServes
<1>3. CASE UNCHANGED crVars
  <2>1. UNCHANGED treeVars /\ UNCHANGED <<tree, label, rpc, todo, cols, pend>>
    BY <1>3 DEF crVars, reqVars, treeVars
  <2>2. \A w \in Workers : Serving(w)'
    BY <2>1 DEF ServeInv, Serving
  <2>3. QED
    BY <2>1, <2>2, TreeStep, CRInvStep DEF ServeInv
<1>4. [TreeNext]_treeVars /\ \A w \in Workers : Serving(w)'
  <2>1. CASE UNCHANGED crVars
    BY <1>3, <2>1 DEF ServeInv
  <2>2. CASE \E w \in Workers : Request(w)
    <3>1. PICK w \in Workers : Request(w)
      BY <2>2
    <3>2. \A v \in Workers : v = w
      BY DEF OneWorker
    <3>3. QED
      BY <1>1, <3>1, <3>2
  <2>3. CASE \E x \in Things, t \in Tags \cup {None} : AssignNow(x, t)
    BY <1>2, <2>3
  <2>4. QED
    BY <2>1, <2>2, <2>3 DEF CRNext
<1>5. TreeInv' /\ CRInv'
  BY <1>4, TreeStep, CRInvStep DEF ServeInv
<1>6. QED
  BY <1>4, <1>5 DEF ServeInv

(* When one request is served at a time, the callbacks of a save or destroy,  *)
(* run one by one on records loaded earlier and writing only the columns that *)
(* differ from them (merchant_tag.rb:24-31, 86-107), commit exactly the       *)
(* forest that the atomic request makes; a request that fails changes nothing.*)
THEOREM OneAtATimeIsAtomic == ASSUME OneWorker PROVE CRSpec => OneAtATime
<1>1. CRInit => TreeInit
  BY DEF CRInit
<1>2. ServeInv /\ [CRNext]_crVars => ServeInv' /\ [TreeNext]_treeVars
  BY ServeStep
<1>3. QED
  BY <1>1, <1>2, ServeInit, PTL DEF CRSpec, OneAtATime, TreeSpec

(* So one request at a time keeps the forest, though it commits what many     *)
(* callbacks wrote: no cycle, one type per tree and true leaf flags, wherever *)
(* a request fails (merchant_tag.rb:24-31, 98-107).                           *)
THEOREM OneAtATimeSound == ASSUME OneWorker PROVE CRSpec => [](Forest /\ OneTypePerTree /\ LeafTruthful)
<1>1. CRSpec => TreeSpec
  BY OneAtATimeIsAtomic DEF OneAtATime
<1>2. QED
  BY <1>1, ForestStaysForest, TypesStayUniform, LeavesStayTruthful, PTL
=============================================================================
