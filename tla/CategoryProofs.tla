--------------------------- MODULE CategoryProofs ---------------------------
(***************************************************************************)
(* The forest of categories (CategoryTree) keeps one type per tree, no     *)
(* cycle and a true leaf flag, for any set of tags.  Rooted, ParentsExist, *)
(* Typed and LeafFlags are inductive together: the type cascades along     *)
(* parent links that must not form a cycle, and a leaf flag is recomputed  *)
(* from the children of exactly the tags whose children a request changes. *)
(***************************************************************************)
EXTENDS CategoryTree, TLAPS

Budgets(d) == \A t \in d.tags : d.budget[t] => Children(d, t) = {}

Sound(d) ==
  /\ d \in Tree
  /\ ParentsExist(d)
  /\ Rooted(d)
  /\ Typed(d)
  /\ LeafFlags(d)
  /\ Budgets(d)

(* A table like d in everything but the leaf flags and budgets. *)
SameLinks(e, d) == e.tags = d.tags /\ e.parent = d.parent

(* The row of u says about its children what is the case. *)
Honest(d, u) ==
  /\ d.leaf[u] <=> Children(d, u) = {}
  /\ d.budget[u] => Children(d, u) = {}

(* A table is known by its columns. *)
LEMMA TableIs ==
  ASSUME NEW d \in Tree, NEW e \in Tree,
         e.tags = d.tags, e.parent = d.parent, e.type = d.type, e.leaf = d.leaf, e.budget = d.budget
  PROVE  e = d
BY DEF Tree

-----------------------------------------------------------------------------
(* The descendants of a tag. *)

(* Below holds the children of t and the children of its members. *)
LEMMA BelowClosed ==
  ASSUME NEW d, NEW t
  PROVE  /\ Children(d, t) \subseteq Below(d, t)
         /\ \A u \in Below(d, t) : Children(d, u) \subseteq Below(d, t)
  BY DEF Below, Children

(* A member of Below is a child of t or of another member. *)
LEMMA BelowParent ==
  ASSUME NEW d, NEW t, NEW u \in Below(d, t)
  PROVE  d.parent[u] = t \/ d.parent[u] \in Below(d, t)
<1>. SUFFICES ASSUME d.parent[u] # t, d.parent[u] \notin Below(d, t) PROVE FALSE
  OBVIOUS
<1>. DEFINE S == Below(d, t) \ {u}
<1>1. S \in SUBSET d.tags
  BY DEF Below
<1>2. Children(d, t) \subseteq S
  BY BelowClosed DEF Children
<1>3. \A s \in S : Children(d, s) \subseteq S
  BY BelowClosed DEF Children
<1>4. u \in S
  BY <1>1, <1>2, <1>3 DEF Below
<1>. QED
  BY <1>4

-----------------------------------------------------------------------------
(* What a save does to the columns. *)

LEMMA BeforeSaveColumns ==
  ASSUME NEW d \in Tree, ParentsExist(d), NEW t \in d.tags
  PROVE  LET b == BeforeSave(d, t) IN
         /\ b \in Tree
         /\ SameLinks(b, d)
         /\ \A u \in Tags : u # t => b.type[u] = d.type[u]
         /\ b.type[t] = IF d.parent[t] = None THEN d.type[t] ELSE d.type[d.parent[t]]
         /\ \A u \in Tags : u # t => b.leaf[u] = d.leaf[u] /\ b.budget[u] = d.budget[u]
         /\ Honest(b, t)
<1>. DEFINE p == d.parent[t]
            isLeaf == Children(d, t) = {}
            b == BeforeSave(d, t)
<1>1. t \in Tags /\ (p # None => p \in Tags)
  BY DEF Tree, ParentsExist
<1>2. b = [d EXCEPT !.leaf[t] = isLeaf,
                    !.budget[t] = d.budget[t] /\ isLeaf,
                    !.type[t] = IF p = None THEN d.type[t] ELSE d.type[p]]
  BY DEF BeforeSave
<1>3. /\ b.tags = d.tags /\ b.parent = d.parent
      /\ b.leaf = [d.leaf EXCEPT ![t] = isLeaf]
      /\ b.budget = [d.budget EXCEPT ![t] = d.budget[t] /\ isLeaf]
      /\ b.type = [d.type EXCEPT ![t] = IF p = None THEN d.type[t] ELSE d.type[p]]
  BY <1>2 DEF Tree
<1>4. b \in Tree
  <2>1. (IF p = None THEN d.type[t] ELSE d.type[p]) \in TagTypes
    BY <1>1 DEF Tree
  <2>2. isLeaf \in BOOLEAN /\ (d.budget[t] /\ isLeaf) \in BOOLEAN
    OBVIOUS
  <2>3. /\ b.tags \in SUBSET Tags /\ b.parent \in [Tags -> Tags \cup {None}]
        /\ b.type \in [Tags -> TagTypes]
    BY <1>3, <2>1 DEF Tree
  <2>4. b.leaf \in [Tags -> BOOLEAN] /\ b.budget \in [Tags -> BOOLEAN]
    BY <1>3, <2>2 DEF Tree
  <2>5. b = [tags |-> b.tags, parent |-> b.parent, type |-> b.type, leaf |-> b.leaf, budget |-> b.budget]
    BY <1>2 DEF Tree
  <2>. HIDE DEF b
  <2>6. QED
    BY <2>3, <2>4, <2>5 DEF Tree
<1>5. Children(b, t) = Children(d, t)
  BY <1>3 DEF Children
<1>6. Honest(b, t)
  <2>1. b.leaf[t] = isLeaf /\ b.budget[t] = (d.budget[t] /\ isLeaf)
    BY <1>1, <1>3 DEF Tree
  <2>2. QED
    BY <2>1, <1>5 DEF Honest
<1>. QED
  BY <1>1, <1>3, <1>4, <1>6 DEF SameLinks, Tree

(* A tag that has its parent's type. *)
LikeParent(d, p) == p \in d.tags => d.parent[p] = None \/ d.type[p] = d.type[d.parent[p]]

(* Saving it again changes only what its row says about its children. *)
LEMMA ResaveColumns ==
  ASSUME NEW d \in Tree, ParentsExist(d), NEW p \in Tags \cup {None}, LikeParent(d, p)
  PROVE  LET e == Resave(d, p) IN
         /\ e \in Tree
         /\ SameLinks(e, d)
         /\ e.type = d.type
         /\ \A u \in Tags : u # p => e.leaf[u] = d.leaf[u] /\ e.budget[u] = d.budget[u]
         /\ p \in d.tags => Honest(e, p)
<1>1. CASE p \notin d.tags
  BY <1>1 DEF Resave, SameLinks
<1>2. CASE p \in d.tags
  <2>. DEFINE b == BeforeSave(d, p)
  <2>1. /\ b \in Tree
        /\ SameLinks(b, d)
        /\ \A u \in Tags : u # p => b.type[u] = d.type[u]
        /\ b.type[p] = IF d.parent[p] = None THEN d.type[p] ELSE d.type[d.parent[p]]
        /\ \A u \in Tags : u # p => b.leaf[u] = d.leaf[u] /\ b.budget[u] = d.budget[u]
        /\ Honest(b, p)
    BY <1>2, BeforeSaveColumns
  <2>. HIDE DEF b
  <2>2. \A u \in Tags : b.type[u] = d.type[u]
    BY <1>2, <2>1 DEF LikeParent
  <2>3. b.type = d.type
    BY <2>1, <2>2 DEF Tree
  <2>4. Resave(d, p) = b
    BY <1>2, <2>3 DEF Resave, Cascade, b
  <2>5. QED
    BY <2>1, <2>3, <2>4
<1>3. QED
  BY <1>1, <1>2

(* So does saving the parents a tag has left and joined. *)
LEMMA SyncColumns ==
  ASSUME NEW d \in Tree, ParentsExist(d),
         NEW old \in Tags \cup {None}, NEW new \in Tags \cup {None},
         LikeParent(d, old), LikeParent(d, new)
  PROVE  LET e == SyncParents(d, old, new) IN
         /\ e \in Tree
         /\ SameLinks(e, d)
         /\ e.type = d.type
         /\ \A u \in Tags : (u # old /\ u # new) => e.leaf[u] = d.leaf[u] /\ e.budget[u] = d.budget[u]
         /\ old = new => e = d
         /\ old # new => /\ old \in d.tags => Honest(e, old)
                         /\ new \in d.tags => Honest(e, new)
<1>1. CASE old = new
  BY <1>1 DEF SyncParents, SameLinks
<1>2. CASE old # new
  <2>. DEFINE c == Resave(d, old)
              e == Resave(c, new)
  <2>1. /\ c \in Tree /\ SameLinks(c, d) /\ c.type = d.type
        /\ \A u \in Tags : u # old => c.leaf[u] = d.leaf[u] /\ c.budget[u] = d.budget[u]
        /\ old \in d.tags => Honest(c, old)
    BY ResaveColumns
  <2>. HIDE DEF c
  <2>2. ParentsExist(c) /\ LikeParent(c, new)
    BY <2>1 DEF ParentsExist, LikeParent, SameLinks
  <2>3. /\ e \in Tree /\ SameLinks(e, c) /\ e.type = c.type
        /\ \A u \in Tags : u # new => e.leaf[u] = c.leaf[u] /\ e.budget[u] = c.budget[u]
        /\ new \in c.tags => Honest(e, new)
    BY <2>1, <2>2, ResaveColumns
  <2>4. SyncParents(d, old, new) = e
    BY <1>2 DEF SyncParents, c
  <2>. HIDE DEF e
  <2>5. SameLinks(e, d) /\ e.type = d.type
    BY <2>1, <2>3 DEF SameLinks
  <2>6. old \in d.tags => Honest(e, old)
    <3>1. SUFFICES ASSUME old \in d.tags PROVE Honest(e, old)
      OBVIOUS
    <3>2. Children(e, old) = Children(c, old)
      BY <2>3 DEF SameLinks, Children
    <3>3. old \in Tags
      BY <3>1 DEF Tree
    <3>4. e.leaf[old] = c.leaf[old] /\ e.budget[old] = c.budget[old]
      BY <1>2, <2>3, <3>3
    <3>5. QED
      BY <2>1, <3>1, <3>2, <3>4 DEF Honest
  <2>7. \A u \in Tags : (u # old /\ u # new) => e.leaf[u] = d.leaf[u] /\ e.budget[u] = d.budget[u]
    BY <2>1, <2>3
  <2>8. new \in d.tags => Honest(e, new)
    BY <2>1, <2>3 DEF SameLinks
  <2>9. QED
    BY <1>2, <2>3, <2>4, <2>5, <2>6, <2>7, <2>8
<1>3. QED
  BY <1>1, <1>2

(* When only the children of t still have the type t had before, the cascade *)
(* gives every tag the type of its parent.                                   *)
LEMMA CascadeTypes ==
  ASSUME NEW d \in Tree, ParentsExist(d), NEW t \in d.tags, NEW oldType,
         d.parent[t] # t,
         \A u \in d.tags : d.parent[u] # None =>
           d.type[u] = IF d.parent[u] = t THEN oldType ELSE d.type[d.parent[u]]
  PROVE  LET e == Cascade(d, t, oldType) IN
         /\ e \in Tree
         /\ SameLinks(e, d)
         /\ Typed(e)
         /\ e.leaf = d.leaf /\ e.budget = d.budget
<1>1. CASE d.type[t] = oldType
  BY <1>1 DEF Cascade, SameLinks, Typed
<1>2. CASE d.type[t] # oldType
  <2>. DEFINE B == Below(d, t)
              type == [u \in Tags |-> IF u \in B THEN d.type[t] ELSE d.type[u]]
              e == [d EXCEPT !.type = type]
  <2>1. Cascade(d, t, oldType) = e
    BY <1>2 DEF Cascade
  <2>2. t \in Tags /\ type \in [Tags -> TagTypes]
    BY DEF Tree
  <2>3. /\ e \in Tree /\ e.tags = d.tags /\ e.parent = d.parent
        /\ e.type = type /\ e.leaf = d.leaf /\ e.budget = d.budget
    <3>. HIDE DEF type
    <3>1. QED
      BY <2>2 DEF Tree
  <2>4. ASSUME NEW u \in d.tags, d.parent[u] # None PROVE type[u] = type[d.parent[u]]
    <3>. DEFINE v == d.parent[u]
    <3>1. u \in Tags /\ v \in d.tags /\ v \in Tags
      BY <2>4 DEF ParentsExist, Tree
    <3>2. CASE u \in B
      <4>1. v = t \/ v \in B
        BY <3>2, BelowParent
      <4>2. type[u] = d.type[t] /\ type[v] = d.type[t]
        BY <3>1, <3>2, <4>1
      <4>3. QED
        BY <4>2
    <3>3. CASE u \notin B
      <4>1. v # t /\ v \notin B
        BY <3>1, <3>3, BelowClosed DEF Children
      <4>2. type[u] = d.type[u] /\ type[v] = d.type[v]
        BY <3>1, <3>3, <4>1
      <4>3. QED
        BY <2>4, <4>1, <4>2
    <3>4. QED
      BY <3>2, <3>3
  <2>5. Typed(e)
    BY <2>3, <2>4 DEF Typed
  <2>6. QED
    BY <2>1, <2>3, <2>5 DEF SameLinks
<1>3. QED
  BY <1>1, <1>2

(* No tag is its parent or its grandparent. *)
LEMMA NoShortCycle ==
  ASSUME NEW d, Rooted(d), NEW t \in d.tags, NEW u \in d.tags
  PROVE  d.parent[t] # t /\ (d.parent[t] = u => d.parent[u] # t)
<1>1. {t} \in SUBSET d.tags /\ {t, u} \in SUBSET d.tags
  OBVIOUS
<1>2. \E s \in {t} : d.parent[s] \notin {t}
  BY <1>1 DEF Rooted
<1>3. \E s \in {t, u} : d.parent[s] \notin {t, u}
  BY <1>1 DEF Rooted
<1>4. QED
  BY <1>2, <1>3

(* The parent of t is not below t. *)
LEMMA ParentNotBelow ==
  ASSUME NEW d, Rooted(d), NEW t \in d.tags
  PROVE  d.parent[t] \notin Below(d, t)
<1>. SUFFICES ASSUME d.parent[t] \in Below(d, t) PROVE FALSE
  OBVIOUS
<1>. DEFINE S == Below(d, t) \cup {t}
<1>1. S \in SUBSET d.tags /\ S # {}
  BY DEF Below
<1>2. \A s \in S : d.parent[s] \in S
  BY BelowParent
<1>3. QED
  BY <1>1, <1>2 DEF Rooted

(* A save of t repairs a table that is sound but for what the request has    *)
(* assigned to t: its type, which only its children may still differ from,   *)
(* and its parent, which may have changed the children of two tags.          *)
LEMMA SaveSound ==
  ASSUME NEW d \in Tree, ParentsExist(d), Rooted(d), NEW t \in d.tags,
         NEW old \in Tags \cup {None}, NEW oldType,
         \A u \in d.tags \ {t} : d.parent[u] # None =>
           d.type[u] = IF d.parent[u] = t THEN oldType ELSE d.type[d.parent[u]],
         old # t,
         old \in d.tags => d.parent[old] # t,
         \A u \in d.tags : (u # t /\ (u # old \/ old = d.parent[t]) /\ (u # d.parent[t] \/ old = d.parent[t]))
                             => Honest(d, u)
  PROVE  LET e == Save(d, t, [parent |-> old, type |-> oldType]) IN Sound(e) /\ SameLinks(e, d)
<1>. DEFINE p == d.parent[t]
            b == BeforeSave(d, t)
            c == SyncParents(b, old, p)
            e == Cascade(c, t, oldType)
<1>1. t \in Tags /\ p \in Tags \cup {None} /\ p # t /\ (p # None => p \in d.tags /\ d.parent[p] # t)
  <2>1. t \in Tags /\ p \in Tags \cup {None}
    BY DEF Tree
  <2>2. p # None => p \in d.tags
    BY DEF ParentsExist
  <2>3. QED
    BY <2>1, <2>2, NoShortCycle
<1>2. /\ b \in Tree
      /\ SameLinks(b, d)
      /\ \A u \in Tags : u # t => b.type[u] = d.type[u]
      /\ b.type[t] = IF p = None THEN d.type[t] ELSE d.type[p]
      /\ \A u \in Tags : u # t => b.leaf[u] = d.leaf[u] /\ b.budget[u] = d.budget[u]
      /\ Honest(b, t)
  BY BeforeSaveColumns
<1>. HIDE DEF b
<1>3. d.tags \subseteq Tags /\ None \notin d.tags
  BY TagsAssumption DEF Tree
<1>4. \A u \in d.tags : d.parent[u] # None =>
        b.type[u] = IF d.parent[u] = t THEN oldType ELSE b.type[d.parent[u]]
  <2>1. ASSUME NEW u \in d.tags, d.parent[u] # None
        PROVE  b.type[u] = IF d.parent[u] = t THEN oldType ELSE b.type[d.parent[u]]
    <3>1. u \in Tags /\ d.parent[u] \in Tags
      BY <1>3, <2>1 DEF ParentsExist
    <3>2. CASE u = t
      BY <1>1, <1>2, <2>1, <3>1, <3>2
    <3>3. CASE u # t
      BY <1>2, <2>1, <3>1, <3>3
    <3>4. QED
      BY <3>2, <3>3
  <2>2. QED
    BY <2>1
<1>5. ParentsExist(b) /\ LikeParent(b, old) /\ LikeParent(b, p)
  BY <1>1, <1>2, <1>3, <1>4 DEF ParentsExist, LikeParent, SameLinks
<1>6. /\ c \in Tree
      /\ SameLinks(c, b)
      /\ c.type = b.type
      /\ \A u \in Tags : (u # old /\ u # p) => c.leaf[u] = b.leaf[u] /\ c.budget[u] = b.budget[u]
      /\ old = p => c = b
      /\ old # p => /\ old \in b.tags => Honest(c, old)
                    /\ p \in b.tags => Honest(c, p)
  BY <1>1, <1>2, <1>5, SyncColumns
<1>. HIDE DEF c
<1>7. c.tags = d.tags /\ c.parent = d.parent
  BY <1>2, <1>6 DEF SameLinks
<1>8. /\ e \in Tree
      /\ SameLinks(e, c)
      /\ Typed(e)
      /\ e.leaf = c.leaf /\ e.budget = c.budget
  <2>1. ParentsExist(c) /\ t \in c.tags /\ c.parent[t] # t
    BY <1>1, <1>7 DEF ParentsExist
  <2>2. \A u \in c.tags : c.parent[u] # None =>
          c.type[u] = IF c.parent[u] = t THEN oldType ELSE c.type[c.parent[u]]
    BY <1>4, <1>6, <1>7
  <2>3. QED
    BY <1>6, <2>1, <2>2, CascadeTypes
<1>. HIDE DEF e
<1>9. Save(d, t, [parent |-> old, type |-> oldType]) = e
  BY <1>2 DEF Save, SameLinks, b, c, e
<1>10. e.tags = d.tags /\ e.parent = d.parent
  BY <1>7, <1>8 DEF SameLinks
<1>11. ParentsExist(e) /\ Rooted(e)
  BY <1>10 DEF ParentsExist, Rooted
<1>12. ASSUME NEW u \in d.tags PROVE Honest(e, u)
  <2>1. u \in Tags /\ Children(e, u) = Children(d, u) /\ Children(b, u) = Children(d, u)
        /\ Children(c, u) = Children(d, u)
    BY <1>2, <1>3, <1>7, <1>10 DEF Children, SameLinks
  <2>2. e.leaf[u] = c.leaf[u] /\ e.budget[u] = c.budget[u]
    BY <1>8
  <2>3. CASE u # t /\ (u = old \/ u = p) /\ old # p
    BY <1>2, <1>6, <2>1, <2>2, <2>3 DEF Honest, SameLinks
  <2>4. CASE u # t /\ ~((u = old \/ u = p) /\ old # p)
    <3>1. Honest(d, u)
      BY <2>4
    <3>2. c.leaf[u] = b.leaf[u] /\ c.budget[u] = b.budget[u]
      BY <1>6, <2>1, <2>4
    <3>3. b.leaf[u] = d.leaf[u] /\ b.budget[u] = d.budget[u]
      BY <1>2, <2>1, <2>4
    <3>4. QED
      BY <2>1, <2>2, <3>1, <3>2, <3>3 DEF Honest
  <2>5. CASE u = t
    <3>1. c.leaf[t] = b.leaf[t] /\ c.budget[t] = b.budget[t]
      BY <1>1, <1>6
    <3>2. QED
      BY <1>2, <2>1, <2>2, <2>5, <3>1 DEF Honest
  <2>6. QED
    BY <2>3, <2>4, <2>5
<1>13. LeafFlags(e) /\ Budgets(e)
  BY <1>10, <1>12 DEF LeafFlags, Budgets, Honest
<1>14. QED
  BY <1>8, <1>9, <1>10, <1>11, <1>13 DEF Sound, SameLinks

-----------------------------------------------------------------------------
(* The requests. *)

LEMMA CreateSound ==
  ASSUME Sound(tree), NEW t \in Tags, NEW p \in Tags \cup {None}, NEW type \in TagTypes,
         NEW b \in BOOLEAN, Create(t, p, type, b)
  PROVE  Sound(tree') /\ tree'.tags = tree.tags \cup {t}
<1>. DEFINE d == [tree EXCEPT !.tags = @ \cup {t}, !.parent[t] = p, !.type[t] = type, !.budget[t] = b]
<1>1. tree \in Tree /\ t \notin tree.tags /\ p \in tree.tags \cup {None} /\ p # t
  BY TagsAssumption DEF Sound, Create
<1>2. tree' = Save(d, t, [parent |-> None, type |-> type])
  BY DEF Create
<1>3. /\ d \in Tree
      /\ d.tags = tree.tags \cup {t}
      /\ d.parent = [tree.parent EXCEPT ![t] = p]
      /\ d.type = [tree.type EXCEPT ![t] = type]
      /\ d.leaf = tree.leaf
      /\ d.budget = [tree.budget EXCEPT ![t] = b]
  BY <1>1 DEF Tree
<1>. HIDE DEF d
<1>4. tree.tags \subseteq Tags /\ None \notin Tags
  BY <1>1, TagsAssumption DEF Tree
<1>5. /\ d.parent[t] = p
      /\ \A u \in tree.tags : /\ d.parent[u] = tree.parent[u] /\ d.type[u] = tree.type[u]
                              /\ d.budget[u] = tree.budget[u]
                              /\ d.parent[u] # t
                              /\ d.parent[u] # None => d.parent[u] \in tree.tags
  BY <1>1, <1>3, <1>4 DEF Tree, Sound, ParentsExist
<1>6. ParentsExist(d)
  BY <1>1, <1>3, <1>5 DEF ParentsExist
<1>7. Rooted(d)
  <2>1. SUFFICES ASSUME NEW S \in SUBSET d.tags, S # {} PROVE \E s \in S : d.parent[s] \notin S
    BY DEF Rooted
  <2>2. CASE S \ {t} = {}
    BY <1>1, <1>5, <2>1, <2>2
  <2>3. CASE S \ {t} # {}
    <3>1. S \ {t} \in SUBSET tree.tags
      BY <1>3
    <3>2. PICK s \in S \ {t} : tree.parent[s] \notin S \ {t}
      BY <2>3, <3>1 DEF Sound, Rooted
    <3>3. QED
      BY <1>5, <3>1, <3>2
  <2>4. QED
    BY <2>2, <2>3
<1>8. \A u \in d.tags \ {t} : d.parent[u] # None =>
        d.type[u] = IF d.parent[u] = t THEN type ELSE d.type[d.parent[u]]
  BY <1>1, <1>3, <1>5 DEF Sound, Typed
<1>9. ASSUME NEW u \in tree.tags, u # p PROVE Honest(d, u)
  <2>1. Children(d, u) = Children(tree, u)
    BY <1>3, <1>5, <1>9 DEF Children
  <2>2. QED
    BY <1>3, <1>5, <2>1 DEF Honest, Sound, LeafFlags, Budgets
<1>10. \A u \in d.tags : (u # t /\ (u # None \/ None = d.parent[t]) /\ (u # d.parent[t] \/ None = d.parent[t]))
                            => Honest(d, u)
  BY <1>3, <1>4, <1>5, <1>9
<1>11. t \in d.tags /\ None # t /\ None \notin d.tags /\ None \in Tags \cup {None}
  BY <1>3, <1>4
<1>12. Sound(tree') /\ SameLinks(tree', d)
  BY <1>2, <1>3, <1>6, <1>7, <1>8, <1>10, <1>11, SaveSound
<1>13. QED
  BY <1>3, <1>12 DEF SameLinks

LEMMA UpdateSound ==
  ASSUME Sound(tree), NEW t \in Tags, NEW p \in Tags \cup {None}, NEW type \in TagTypes,
         NEW b \in BOOLEAN, Update(t, p, type, b)
  PROVE  Sound(tree') /\ tree'.tags = tree.tags
<1>. DEFINE d == [tree EXCEPT !.parent[t] = p, !.type[t] = type, !.budget[t] = b]
            old == tree.parent[t]
            B == Below(tree, t)
<1>1. tree \in Tree /\ t \in tree.tags /\ p \in tree.tags \cup {None} /\ p \notin B /\ p # t
  BY DEF Sound, Update
<1>2. tree' = Save(d, t, [parent |-> old, type |-> tree.type[t]])
  BY DEF Update, Loaded
<1>3. /\ d \in Tree
      /\ d.tags = tree.tags
      /\ d.parent = [tree.parent EXCEPT ![t] = p]
      /\ d.type = [tree.type EXCEPT ![t] = type]
      /\ d.leaf = tree.leaf
      /\ d.budget = [tree.budget EXCEPT ![t] = b]
  BY <1>1 DEF Tree
<1>. HIDE DEF d
<1>4. tree.tags \subseteq Tags /\ None \notin Tags
  BY <1>1, TagsAssumption DEF Tree
<1>5. /\ d.parent[t] = p
      /\ \A u \in tree.tags : u # t => /\ d.parent[u] = tree.parent[u] /\ d.type[u] = tree.type[u]
                                       /\ d.budget[u] = tree.budget[u]
  BY <1>1, <1>3, <1>4 DEF Tree
<1>6. \A u \in tree.tags : tree.parent[u] # None => tree.parent[u] \in tree.tags
  BY DEF Sound, ParentsExist
<1>7. ParentsExist(d)
  BY <1>1, <1>3, <1>5, <1>6 DEF ParentsExist
<1>8. Rooted(d)
  <2>1. SUFFICES ASSUME NEW S \in SUBSET d.tags, S # {}, \A s \in S : d.parent[s] \in S PROVE FALSE
    BY DEF Rooted
  <2>2. CASE t \notin S
    BY <1>3, <1>5, <2>1, <2>2 DEF Sound, Rooted
  <2>3. CASE t \in S
    <3>. DEFINE R == S \ (B \cup {t})
    <3>1. p \in R
      BY <1>1, <1>5, <2>1, <2>3
    <3>2. \A s \in R : tree.parent[s] = d.parent[s] /\ tree.parent[s] \in S
      BY <1>3, <1>5, <2>1
    <3>3. \A s \in R : tree.parent[s] \notin B \cup {t}
      BY <1>3, BelowClosed DEF Children
    <3>4. R \in SUBSET tree.tags /\ \A s \in R : tree.parent[s] \in R
      BY <1>3, <3>2, <3>3
    <3>5. QED
      BY <3>1, <3>4 DEF Sound, Rooted
  <2>4. QED
    BY <2>2, <2>3
<1>9. ASSUME NEW u \in d.tags \ {t}, d.parent[u] # None
      PROVE  d.type[u] = IF d.parent[u] = t THEN tree.type[t] ELSE d.type[d.parent[u]]
  BY <1>3, <1>5, <1>6, <1>9 DEF Sound, Typed
<1>10. old \in Tags \cup {None} /\ old # t /\ (old \in d.tags => d.parent[old] # t)
  <2>1. old \in Tags \cup {None}
    BY <1>1, <1>4 DEF Tree
  <2>2. old # t /\ (old \in tree.tags => tree.parent[old] # t)
    BY <1>1, NoShortCycle DEF Sound
  <2>3. QED
    BY <1>3, <1>5, <2>1, <2>2
<1>11. ASSUME NEW u \in d.tags, u # t, u # old \/ old = p, u # p \/ old = p
       PROVE  Honest(d, u)
  <2>1. Children(d, u) = Children(tree, u)
    <3>1. \A c \in tree.tags : c # t => d.parent[c] = tree.parent[c]
      BY <1>5
    <3>2. d.parent[t] = u <=> tree.parent[t] = u
      BY <1>5, <1>11
    <3>3. QED
      BY <1>1, <1>3, <3>1, <3>2 DEF Children
  <2>2. d.leaf[u] = tree.leaf[u] /\ d.budget[u] = tree.budget[u] /\ u \in tree.tags
    BY <1>3, <1>5, <1>11
  <2>3. QED
    BY <2>1, <2>2 DEF Honest, Sound, LeafFlags, Budgets
<1>. HIDE DEF old
<1>12. \A u \in d.tags : (u # t /\ (u # old \/ old = d.parent[t]) /\ (u # d.parent[t] \/ old = d.parent[t]))
                            => Honest(d, u)
  BY <1>5, <1>11
<1>13. Sound(tree') /\ SameLinks(tree', d)
  BY <1>1, <1>2, <1>3, <1>7, <1>8, <1>9, <1>10, <1>12, SaveSound
<1>14. QED
  BY <1>3, <1>13 DEF SameLinks

LEMMA DestroySound ==
  ASSUME Sound(tree), NEW t \in Tags, Destroy(t)
  PROVE  /\ Sound(tree')
         /\ tree'.tags = tree.tags \ {t}
         /\ tree'.type = tree.type
         /\ \A u \in tree.tags \ {t} :
              tree'.parent[u] = IF tree.parent[u] = t THEN tree.parent[t] ELSE tree.parent[u]
<1>. DEFINE p == tree.parent[t]
            d == Erase(Promote(tree, t), t)
<1>1. tree \in Tree /\ t \in tree.tags /\ tree' = Resave(d, p)
  BY DEF Sound, Destroy
<1>2. p \in Tags \cup {None} /\ p # t /\ (p # None => p \in tree.tags /\ tree.parent[p] # t)
  BY <1>1, NoShortCycle DEF Sound, Tree, ParentsExist
<1>3. tree.tags \subseteq Tags /\ None \notin Tags
  BY <1>1, TagsAssumption DEF Tree
<1>4. /\ d \in Tree
      /\ d.tags = tree.tags \ {t}
      /\ \A u \in d.tags : d.parent[u] = IF tree.parent[u] = t THEN p ELSE tree.parent[u]
      /\ d.type = tree.type /\ d.leaf = tree.leaf /\ d.budget = tree.budget
  <2>. DEFINE m == Promote(tree, t)
              par == [u \in Tags |-> IF u \in Children(tree, t) THEN p ELSE tree.parent[u]]
  <2>1. par \in [Tags -> Tags \cup {None}]
    BY <1>1, <1>2 DEF Tree
  <2>2. m = [tree EXCEPT !.parent = par]
    BY DEF Promote
  <2>3. \A u \in tree.tags : par[u] = IF tree.parent[u] = t THEN p ELSE tree.parent[u]
    BY <1>3 DEF Children
  <2>. HIDE DEF par
  <2>4. /\ m \in Tree /\ m.tags = tree.tags /\ m.parent = par
        /\ m.type = tree.type /\ m.leaf = tree.leaf /\ m.budget = tree.budget
    BY <1>1, <2>1, <2>2 DEF Tree
  <2>. HIDE DEF m
  <2>5. d = [m EXCEPT !.tags = m.tags \ {t}, !.parent[t] = None]
    BY DEF Erase, m
  <2>6. /\ d \in Tree /\ d.tags = m.tags \ {t} /\ d.parent = [m.parent EXCEPT ![t] = None]
        /\ d.type = m.type /\ d.leaf = m.leaf /\ d.budget = m.budget
    <3>1. [m.parent EXCEPT ![t] = None] \in [Tags -> Tags \cup {None}] /\ m.tags \ {t} \in SUBSET Tags
      BY <2>4 DEF Tree
    <3>2. QED
      BY <2>4, <2>5, <3>1 DEF Tree
  <2>. HIDE DEF d
  <2>7. \A u \in d.tags : d.parent[u] = par[u]
    BY <1>3, <2>1, <2>4, <2>6
  <2>8. QED
    BY <2>3, <2>4, <2>6, <2>7
<1>. HIDE DEF d
<1>5. ParentsExist(d)
  BY <1>2, <1>4 DEF Sound, ParentsExist
<1>6. Rooted(d)
  <2>1. SUFFICES ASSUME NEW S \in SUBSET d.tags, S # {}, \A s \in S : d.parent[s] \in S PROVE FALSE
    BY DEF Rooted
  <2>2. CASE \E s \in S : tree.parent[s] = t
    <3>1. S \cup {t} \in SUBSET tree.tags /\ S \cup {t} # {}
      BY <1>1, <1>4
    <3>2. p \in S
      BY <1>4, <2>1, <2>2
    <3>3. \A s \in S \cup {t} : tree.parent[s] \in S \cup {t}
      BY <1>4, <2>1, <3>2
    <3>4. QED
      BY <3>1, <3>3 DEF Sound, Rooted
  <2>3. CASE \A s \in S : tree.parent[s] # t
    <3>1. S \in SUBSET tree.tags /\ \A s \in S : tree.parent[s] \in S
      BY <1>4, <2>1, <2>3
    <3>2. QED
      BY <2>1, <3>1 DEF Sound, Rooted
  <2>4. QED
    BY <2>2, <2>3
<1>7. Typed(d)
  <2>1. ASSUME NEW u \in d.tags, d.parent[u] # None PROVE d.type[u] = d.type[d.parent[u]]
    <3>1. CASE tree.parent[u] = t
      <4>1. tree.type[u] = tree.type[t] /\ tree.type[t] = tree.type[p]
        BY <1>1, <1>2, <1>3, <1>4, <2>1, <3>1 DEF Sound, Typed
      <4>2. QED
        BY <1>4, <3>1, <4>1
    <3>2. CASE tree.parent[u] # t
      BY <1>4, <2>1, <3>2 DEF Sound, Typed
    <3>3. QED
      BY <3>1, <3>2
  <2>2. QED
    BY <2>1 DEF Typed
<1>8. ASSUME NEW u \in d.tags, u # p PROVE Honest(d, u)
  <2>1. u \in tree.tags /\ u # t
    BY <1>4
  <2>2. \A c \in d.tags : d.parent[c] = u <=> tree.parent[c] = u
    BY <1>4, <1>8, <2>1
  <2>3. tree.parent[t] # u
    BY <1>8
  <2>4. Children(d, u) = Children(tree, u)
    BY <1>4, <2>2, <2>3 DEF Children
  <2>5. QED
    BY <1>4, <2>1, <2>4 DEF Honest, Sound, LeafFlags, Budgets
<1>9. LikeParent(d, p)
  BY <1>7 DEF Typed, LikeParent
<1>10. /\ tree' \in Tree
       /\ SameLinks(tree', d)
       /\ tree'.type = d.type
       /\ \A u \in Tags : u # p => tree'.leaf[u] = d.leaf[u] /\ tree'.budget[u] = d.budget[u]
       /\ p \in d.tags => Honest(tree', p)
  BY <1>1, <1>2, <1>4, <1>5, <1>9, ResaveColumns
<1>11. ParentsExist(tree') /\ Rooted(tree') /\ Typed(tree')
  BY <1>5, <1>6, <1>7, <1>10 DEF SameLinks, ParentsExist, Rooted, Typed
<1>12. ASSUME NEW u \in d.tags PROVE Honest(tree', u)
  <2>1. Children(tree', u) = Children(d, u)
    BY <1>10 DEF Children, SameLinks
  <2>2. u \in Tags
    BY <1>3, <1>4
  <2>3. QED
    BY <1>8, <1>10, <2>1, <2>2 DEF Honest
<1>13. LeafFlags(tree') /\ Budgets(tree')
  BY <1>10, <1>12 DEF LeafFlags, Budgets, Honest, SameLinks
<1>14. QED
  BY <1>4, <1>10, <1>11, <1>13 DEF Sound, SameLinks

-----------------------------------------------------------------------------
(* The invariant and its consequences. *)

TreeInv ==
  /\ Sound(tree)
  /\ label \in [Things -> Tags \cup {None}]
  /\ LabelsExist

(* Who is below u once t is destroyed: whoever was, except t. *)
LEMMA BelowAfterDestroy ==
  ASSUME Sound(tree), NEW t \in Tags, Destroy(t), NEW u \in tree.tags \ {t}
  PROVE  Below(tree', u) = Below(tree, u) \ {t}
<1>. DEFINE p == tree.parent[t]
<1>1. /\ tree'.tags = tree.tags \ {t}
      /\ \A v \in tree.tags \ {t} :
           tree'.parent[v] = IF tree.parent[v] = t THEN p ELSE tree.parent[v]
      /\ t \in tree.tags /\ p # t
  BY DestroySound, NoShortCycle DEF Destroy, Sound
<1>2. Below(tree', u) \subseteq Below(tree, u) \ {t}
  <2>. DEFINE S == Below(tree, u) \ {t}
  <2>1. S \in SUBSET tree'.tags
    BY <1>1 DEF Below
  <2>2. ASSUME NEW s \in S \cup {u} PROVE Children(tree', s) \subseteq S
    <3>1. SUFFICES ASSUME NEW v \in tree.tags \ {t}, tree'.parent[v] = s PROVE v \in Below(tree, u)
      BY <1>1 DEF Children
    <3>2. tree.parent[v] = s \/ (tree.parent[v] = t /\ tree.parent[t] = s)
      BY <1>1, <3>1
    <3>3. QED
      BY <1>1, <3>2, BelowClosed DEF Children
  <2>. HIDE DEF S
  <2>3. QED
    BY <2>1, <2>2 DEF Below, S
<1>3. Below(tree, u) \ {t} \subseteq Below(tree', u)
  <2>. DEFINE B == Below(tree', u)
              S == B \cup {v \in {t} : p \in B \cup {u}}
  <2>1. S \in SUBSET tree.tags /\ t \notin B
    BY <1>1 DEF Below
  <2>2. ASSUME NEW s \in B \cup {u}, NEW v \in tree.tags \ {t}, tree'.parent[v] = s PROVE v \in B
    BY <1>1, <2>2, BelowClosed DEF Children
  <2>. HIDE DEF B
  <2>3. ASSUME NEW s \in S \cup {u} PROVE Children(tree, s) \subseteq S
    <3>1. SUFFICES ASSUME NEW v \in tree.tags, tree.parent[v] = s PROVE v \in S
      BY DEF Children
    <3>2. CASE s = t
      <4>1. p \in B \cup {u} /\ v # t
        BY <1>1, <2>1, <3>1, <3>2
      <4>2. tree'.parent[v] = p
        BY <1>1, <3>1, <3>2, <4>1
      <4>3. QED
        BY <2>2, <4>1, <4>2
    <3>3. CASE s # t
      BY <1>1, <2>2, <3>1, <3>3
    <3>4. QED
      BY <3>2, <3>3
  <2>4. Below(tree, u) \subseteq S
    <3>. HIDE DEF S
    <3>1. QED
      BY <2>1, <2>3 DEF Below
  <2>5. QED
    BY <2>4 DEF B
<1>4. QED
  BY <1>2, <1>3

LEMMA TreeInitSound == TreeInit => TreeInv
<1>. SUFFICES ASSUME TreeInit PROVE TreeInv
  OBVIOUS
<1>1. tree \in Tree /\ tree.tags = {}
  BY DEF TreeInit, EmptyTree, Tree, TagTypes
<1>2. ParentsExist(tree) /\ Rooted(tree) /\ Typed(tree) /\ LeafFlags(tree) /\ Budgets(tree)
  BY <1>1 DEF ParentsExist, Rooted, Typed, LeafFlags, Budgets
<1>3. label \in [Things -> Tags \cup {None}] /\ LabelsExist
  BY DEF TreeInit, LabelsExist
<1>4. QED
  BY <1>1, <1>2, <1>3 DEF TreeInv, Sound

LEMMA TreeStep == TreeInv /\ [TreeNext]_treeVars => TreeInv'
<1>. SUFFICES ASSUME TreeInv, [TreeNext]_treeVars PROVE TreeInv'
  OBVIOUS
<1>. USE DEF TreeInv
<1>1. ASSUME NEW t \in Tags, NEW p \in Tags \cup {None}, NEW type \in TagTypes, NEW b \in BOOLEAN,
             Create(t, p, type, b)
      PROVE  TreeInv'
  <2>1. Sound(tree') /\ tree'.tags = tree.tags \cup {t} /\ label' = label
    BY <1>1, CreateSound DEF Create
  <2>2. QED
    BY <2>1 DEF LabelsExist
<1>2. ASSUME NEW t \in Tags, NEW p \in Tags \cup {None}, NEW type \in TagTypes, NEW b \in BOOLEAN,
             Update(t, p, type, b)
      PROVE  TreeInv'
  <2>1. Sound(tree') /\ tree'.tags = tree.tags /\ label' = label
    BY <1>2, UpdateSound DEF Update
  <2>2. QED
    BY <2>1 DEF LabelsExist
<1>3. ASSUME NEW t \in Tags, Destroy(t) PROVE TreeInv'
  <2>1. Sound(tree') /\ tree'.tags = tree.tags \ {t} /\ label' = Unlabel(t)
    BY <1>3, DestroySound DEF Destroy
  <2>2. QED
    BY <2>1 DEF LabelsExist, Unlabel
<1>4. ASSUME NEW x \in Things, NEW t \in Tags \cup {None}, Assign(x, t) PROVE TreeInv'
  <2>1. /\ t \in tree.tags \cup {None} /\ tree' = tree
        /\ label' = [label EXCEPT ![x] = t]
    BY <1>4 DEF Assign
  <2>2. QED
    BY <2>1 DEF LabelsExist
<1>5. CASE UNCHANGED treeVars
  BY <1>5 DEF treeVars, LabelsExist
<1>6. QED
  BY <1>1, <1>2, <1>3, <1>4, <1>5 DEF TreeNext

LEMMA TreeInvariant == TreeSpec => []TreeInv
<1>1. TreeInit => TreeInv
  BY TreeInitSound
<1>2. TreeInv /\ [TreeNext]_treeVars => TreeInv'
  BY TreeStep
<1>3. QED
  BY <1>1, <1>2, PTL DEF TreeSpec

(* Every table the requests can produce is well typed. *)
THEOREM TreeTypeCorrect == TreeSpec => []TreeTypeOK
<1>1. TreeInv => TreeTypeOK
  BY DEF TreeInv, Sound, TreeTypeOK
<1>2. QED
  BY <1>1, TreeInvariant, PTL

(* merchant_tag.rb:5-6: every category has the type of its parent, whatever   *)
(* sequence of creations, moves, retypings and deletions led to the table.    *)
THEOREM TypesStayUniform == TreeSpec => []OneTypePerTree
<1>1. TreeInv => OneTypePerTree
  BY DEF TreeInv, Sound, OneTypePerTree
<1>2. QED
  BY <1>1, TreeInvariant, PTL

(* The parent links never form a cycle, so parent_ids and child_ids return    *)
(* (merchant_tag.rb:45-64).                                                   *)
THEOREM ForestStaysForest == TreeSpec => []Forest
<1>1. TreeInv => Forest
  BY DEF TreeInv, Sound, Forest
<1>2. QED
  BY <1>1, TreeInvariant, PTL

(* is_leaf stays true to the children, and only leaves hold budgets           *)
(* (merchant_tag.rb:66-78, 98-119).                                           *)
THEOREM LeavesStayTruthful == TreeSpec => []LeafTruthful
<1>1. TreeInv => LeafTruthful
  BY DEF TreeInv, Sound, LeafTruthful, LeafFlags, Budgets
<1>2. QED
  BY <1>1, TreeInvariant, PTL

(* No transaction or merchant keeps a deleted category (merchant_tag.rb:111). *)
THEOREM LabelsStayValid == TreeSpec => []LabelsExist
<1>1. TreeInv => LabelsExist
  BY DEF TreeInv
<1>2. QED
  BY <1>1, TreeInvariant, PTL

(* A deletion promotes the children one level and nothing else: no other      *)
(* category changes its type, and each keeps what is below it, less the one   *)
(* deleted (merchant_tag.rb:109-115, API.md:978).                             *)
THEOREM DestroysKeepTheRest == TreeSpec => DestroyKeepsTheRest
<1>1. TreeInv /\ [TreeNext]_treeVars =>
        [\A t \in Tags : Destroy(t) =>
           \A u \in tree.tags \ {t} :
             /\ tree'.type[u] = tree.type[u]
             /\ Below(tree', u) = Below(tree, u) \ {t}]_treeVars
  <2>1. ASSUME Sound(tree), NEW t \in Tags, Destroy(t), NEW u \in tree.tags \ {t}
        PROVE  tree'.type[u] = tree.type[u] /\ Below(tree', u) = Below(tree, u) \ {t}
    BY <2>1, DestroySound, BelowAfterDestroy
  <2>2. QED
    BY <2>1 DEF TreeInv
<1>2. QED
  BY <1>1, TreeInvariant, PTL DEF TreeSpec, DestroyKeepsTheRest
=============================================================================
