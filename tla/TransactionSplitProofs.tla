----------------------- MODULE TransactionSplitProofs -----------------------
(***************************************************************************)
(* Type correctness of TransactionSplit, and that no money is lost and no  *)
(* child orphaned, for any number of workers, transactions and children;   *)
(* with one worker, that a transaction counts once, and that the children  *)
(* of a split sum to their parent.                                         *)
(***************************************************************************)
EXTENDS TransactionSplit, ListLemmas

(* A worker's transaction touches the children of its parent alone. *)
OwnKids(w) == \A k \in added[w] \cup deleted[w] \cup doomed[w] : k.parent = req[w].txn

(* From the INSERT on a split has new children, whose parent cannot be      *)
(* deleted; an unsplit clears the flag before it commits.                   *)
Working(w) ==
  /\ pc[w] = "idle" => added[w] = {} /\ deleted[w] = {} /\ doomed[w] = {}
  /\ pc[w] # "idle" => req[w].txn \in Bank /\ book[req[w].txn] # "new"
  /\ IsSplit(w) => Len(req[w].parts) >= 2
  /\ pc[w] = "insert" => IsSplit(w)
  /\ pc[w] \in {"mark", "commit"} /\ IsSplit(w) => added[w] # {}
  /\ pc[w] = "commit" /\ ~IsSplit(w) => wrote[w] = "unsplit"
  /\ \A k \in added[w] : book[k.parent] = "here"

WorkersHonest == \A w \in Workers : OwnKids(w) /\ Working(w)

NewIsWhole == \A p \in Bank : book[p] = "new" => ~split[p]

SplitInv == SplitTypeOK /\ WorkersHonest /\ NewIsWhole /\ NothingLost /\ NoOrphans

LEMMA InitHolds == SplitInit => SplitInv
BY SplitAssumption
DEF SplitInit, SplitInv, SplitTypeOK, Kid, Request, NoRequest, Steps, WorkersHonest, OwnKids, Working,
    IsSplit, NewIsWhole, NothingLost, NoOrphans, KidsOf

-----------------------------------------------------------------------------
(* The types. *)

LEMMA RoundIsInt == ASSUME NEW a \in Int PROVE Round(a) \in Int
BY DEF Round

LEMMA InsertedAreKids ==
  ASSUME NEW p \in Bank, NEW parts \in PartLists,
         NEW f \in Injection(DOMAIN parts, FreeIds)
  PROVE  {[id |-> f[i], parent |-> p, amount |-> Round(parts[i])] : i \in DOMAIN parts} \subseteq Kid
<1>1. f \in [DOMAIN parts -> FreeIds] BY DEF Injection
<1>2. \A i \in DOMAIN parts : f[i] \in KidIds BY <1>1 DEF FreeIds
<1>3. \A i \in DOMAIN parts : Round(parts[i]) \in Int
  <2>1. parts \in Seq(Int) BY SplitAssumption
  <2>2. \A i \in DOMAIN parts : parts[i] \in Int BY <2>1
  <2>3. QED BY <2>2, RoundIsInt
<1>4. QED BY <1>2, <1>3 DEF Kid

LEMMA AmountIsInt == ASSUME SplitTypeOK, NEW p \in Bank PROVE amount[p] \in Int
<1>1. amount[p] \in Amounts \/ amount[p] = 0 BY DEF SplitTypeOK
<1>2. \A a \in Amounts : a \in Int BY SplitAssumption
<1>3. QED BY <1>1, <1>2

LEMMA TypeStep == SplitTypeOK /\ (\A w \in Workers : Working(w)) /\ [SplitNext]_splitVars => SplitTypeOK'
<1> SUFFICES ASSUME SplitTypeOK, \A w \in Workers : Working(w), [SplitNext]_splitVars PROVE SplitTypeOK'
  OBVIOUS
<1> USE DEF SplitTypeOK, Steps
<1>1. ASSUME NEW p \in Bank, BankRemove(p) PROVE SplitTypeOK'
  BY <1>1 DEF BankRemove, workVars
<1>2. ASSUME NEW p \in Bank, NEW a \in Amounts, NEW b \in BOOLEAN, BankModify(p, a, b) PROVE SplitTypeOK'
  BY <1>2 DEF BankModify, workVars
<1>3. ASSUME NEW p \in Bank, NEW a \in Amounts, NEW b \in BOOLEAN, BankAdd(p, a, b) PROVE SplitTypeOK'
  BY <1>3 DEF BankAdd, workVars
<1>4. ASSUME NEW w \in Workers, NEW p \in Bank, StartUnsplit(w, p) PROVE SplitTypeOK'
  <2>1. [txn |-> p, wasSplit |-> TRUE, amount |-> amount[p], parts |-> << >>] \in Request
    <3>1. amount[p] \in Int BY AmountIsInt
    <3>2. QED BY <3>1 DEF Request
  <2>2. QED BY <1>4, <2>1 DEF StartUnsplit, rowVars
<1>5. ASSUME NEW w \in Workers, NEW p \in Bank, NEW parts \in PartLists, StartSplit(w, p, parts) PROVE SplitTypeOK'
  <2>1. [txn |-> p, wasSplit |-> split[p], amount |-> amount[p], parts |-> parts] \in Request
    <3>1. amount[p] \in Int BY AmountIsInt
    <3>2. split[p] \in BOOLEAN OBVIOUS
    <3>3. QED BY <3>1, <3>2 DEF Request
  <2>2. QED BY <1>5, <2>1 DEF StartSplit, rowVars
<1>6. ASSUME NEW w \in Workers, FindKids(w) PROVE SplitTypeOK'
  BY <1>6 DEF FindKids, KidsOf, rowVars
<1>7. ASSUME NEW w \in Workers, ClearKids(w) PROVE SplitTypeOK'
  BY <1>7 DEF ClearKids, rowVars
<1>8. ASSUME NEW w \in Workers, InsertKids(w) PROVE SplitTypeOK'
  <2>1. req[w].txn \in Bank /\ req[w].parts \in PartLists
    BY <1>8 DEF InsertKids, Working, IsSplit, Request
  <2>2. PICK f \in Injection(DOMAIN req[w].parts, FreeIds) :
          added' = [added EXCEPT ![w] =
            {[id |-> f[i], parent |-> req[w].txn, amount |-> Round(req[w].parts[i])] : i \in DOMAIN req[w].parts}]
    BY <1>8 DEF InsertKids
  <2>3. {[id |-> f[i], parent |-> req[w].txn, amount |-> Round(req[w].parts[i])] : i \in DOMAIN req[w].parts} \subseteq Kid
    BY <2>1, InsertedAreKids
  <2>4. added' \in [Workers -> SUBSET Kid] BY <2>2, <2>3
  <2>5. QED BY <1>8, <2>4 DEF InsertKids, rowVars
<1>9. ASSUME NEW w \in Workers, Mark(w) PROVE SplitTypeOK'
  BY <1>9 DEF Mark, rowVars
<1>10. ASSUME NEW w \in Workers, Commit(w) PROVE SplitTypeOK'
  <2>1. NoRequest \in Request BY DEF NoRequest, Request
  <2>2. kids' \subseteq Kid BY <1>10 DEF Commit
  <2>3. split' \in [Bank -> BOOLEAN]
    <3>1. (IF wrote[w] = "none" THEN split[req[w].txn] ELSE wrote[w] = "split") \in BOOLEAN
      <4>1. CASE wrote[w] = "none"
        <5>1. req[w].txn \in Bank BY <1>10 DEF Commit, Working
        <5>2. split[req[w].txn] \in BOOLEAN BY <5>1
        <5>3. QED BY <4>1, <5>2
      <4>2. CASE wrote[w] # "none" BY <4>2
      <4>3. QED BY <4>1, <4>2
    <3>2. QED BY <1>10, <3>1 DEF Commit
  <2>4. QED BY <1>10, <2>1, <2>2, <2>3 DEF Commit, EndWork
<1>11. ASSUME NEW w \in Workers, Rollback(w) PROVE SplitTypeOK'
  BY <1>11, SplitAssumption DEF Rollback, EndWork, NoRequest, Request, rowVars
<1>12. CASE UNCHANGED splitVars
  BY <1>12 DEF splitVars, rowVars, workVars
<1>13. QED BY <1>1, <1>2, <1>3, <1>4, <1>5, <1>6, <1>7, <1>8, <1>9, <1>10, <1>11, <1>12
  DEF SplitNext, BankStep, Work

-----------------------------------------------------------------------------
(* The workers. *)

(* A step of one worker that changes no row leaves the others as they are. *)
LEMMA Alone ==
  ASSUME SplitTypeOK, WorkersHonest, NEW w \in Workers, UNCHANGED rowVars,
         \A v \in Workers \ {w} :
           pc'[v] = pc[v] /\ req'[v] = req[v] /\ doomed'[v] = doomed[v] /\ wrote'[v] = wrote[v]
             /\ added'[v] = added[v] /\ deleted'[v] = deleted[v],
         (OwnKids(w) /\ Working(w))'
  PROVE  WorkersHonest'
BY DEF WorkersHonest, OwnKids, Working, IsSplit, rowVars

LEMMA Ended ==
  ASSUME SplitTypeOK, NEW w \in Workers, EndWork(w)
  PROVE  (OwnKids(w) /\ Working(w))'
BY DEF SplitTypeOK, EndWork, NoRequest, OwnKids, Working, IsSplit

LEMMA WorkersStep == SplitInv /\ [SplitNext]_splitVars => WorkersHonest'
<1> SUFFICES ASSUME SplitInv, [SplitNext]_splitVars PROVE WorkersHonest'
  OBVIOUS
<1> USE DEF SplitInv
<1>1. ASSUME NEW p \in Bank, BankRemove(p) PROVE WorkersHonest'
  <2>1. \A v \in Workers : \A k \in added[v] : k.parent # p /\ k.parent \in Bank
    BY <1>1 DEF BankRemove, SplitTypeOK, Kid
  <2>2. QED BY <1>1, <2>1 DEF BankRemove, WorkersHonest, OwnKids, Working, IsSplit, workVars, SplitTypeOK
<1>2. ASSUME NEW p \in Bank, NEW a \in Amounts, NEW b \in BOOLEAN, BankModify(p, a, b) PROVE WorkersHonest'
  BY <1>2 DEF BankModify, WorkersHonest, OwnKids, Working, IsSplit, workVars
<1>3. ASSUME NEW p \in Bank, NEW a \in Amounts, NEW b \in BOOLEAN, BankAdd(p, a, b) PROVE WorkersHonest'
  BY <1>3 DEF BankAdd, WorkersHonest, OwnKids, Working, IsSplit, workVars, SplitTypeOK
<1>4. ASSUME NEW w \in Workers, NEW p \in Bank, StartUnsplit(w, p) PROVE WorkersHonest'
  <2>1. (OwnKids(w) /\ Working(w))'
    BY <1>4 DEF StartUnsplit, SplitTypeOK, WorkersHonest, OwnKids, Working, IsSplit, rowVars
  <2>2. QED BY <1>4, <2>1, Alone DEF StartUnsplit, SplitTypeOK
<1>5. ASSUME NEW w \in Workers, NEW p \in Bank, NEW parts \in PartLists, StartSplit(w, p, parts) PROVE WorkersHonest'
  <2>1. (OwnKids(w) /\ Working(w))'
    BY <1>5 DEF StartSplit, Accepted, SplitTypeOK, WorkersHonest, OwnKids, Working, IsSplit, rowVars
  <2>2. QED BY <1>5, <2>1, Alone DEF StartSplit, SplitTypeOK
<1>6. ASSUME NEW w \in Workers, FindKids(w) PROVE WorkersHonest'
  <2>1. (OwnKids(w) /\ Working(w))'
    BY <1>6 DEF FindKids, KidsOf, SplitTypeOK, WorkersHonest, OwnKids, Working, IsSplit, rowVars
  <2>2. QED BY <1>6, <2>1, Alone DEF FindKids, SplitTypeOK
<1>7. ASSUME NEW w \in Workers, ClearKids(w) PROVE WorkersHonest'
  <2>1. (OwnKids(w) /\ Working(w))'
    BY <1>7 DEF ClearKids, SplitTypeOK, WorkersHonest, OwnKids, Working, IsSplit, rowVars
  <2>2. QED BY <1>7, <2>1, Alone DEF ClearKids, SplitTypeOK
<1>8. ASSUME NEW w \in Workers, InsertKids(w) PROVE WorkersHonest'
  <2> DEFINE p == req[w].txn
             parts == req[w].parts
  <2>1. PICK f \in Injection(DOMAIN parts, FreeIds) : added' = [added EXCEPT ![w] =
          {[id |-> f[i], parent |-> p, amount |-> Round(parts[i])] : i \in DOMAIN parts}]
    BY <1>8 DEF InsertKids
  <2>2. added'[w] = {[id |-> f[i], parent |-> p, amount |-> Round(parts[i])] : i \in DOMAIN parts}
    BY <2>1 DEF SplitTypeOK
  <2>3. \A k \in added'[w] : k.parent = p BY <2>2
  <2>4. added'[w] # {}
    <3>1. IsSplit(w) /\ Len(parts) >= 2
      BY <1>8 DEF InsertKids, WorkersHonest, Working
    <3>2. parts \in Seq(Int)
      BY <3>1, SplitAssumption DEF SplitTypeOK, Request, IsSplit
    <3>3. 1 \in DOMAIN parts BY <3>1, <3>2
    <3>4. QED BY <2>2, <3>3
  <2>5. book[p] = "here" BY <1>8 DEF InsertKids
  <2>6. (OwnKids(w) /\ Working(w))'
    <3>1. OwnKids(w)'
      BY <1>8, <2>3 DEF InsertKids, WorkersHonest, OwnKids
    <3>2. Working(w)'
      BY <1>8, <2>3, <2>4, <2>5 DEF InsertKids, SplitTypeOK, WorkersHonest, Working, IsSplit, rowVars
    <3>3. QED BY <3>1, <3>2
  <2>7. \A v \in Workers \ {w} : added'[v] = added[v]
    BY <2>1 DEF SplitTypeOK
  <2>8. QED BY <1>8, <2>6, <2>7, Alone DEF InsertKids, SplitTypeOK
<1>9. ASSUME NEW w \in Workers, Mark(w) PROVE WorkersHonest'
  <2>1. (OwnKids(w) /\ Working(w))'
    <3>1. OwnKids(w)'
      BY <1>9 DEF Mark, WorkersHonest, OwnKids
    <3>2. pc'[w] = "commit" /\ wrote'[w] = (IF ~IsSplit(w) THEN "unsplit" ELSE IF req[w].wasSplit THEN "none" ELSE "split")
      BY <1>9 DEF Mark, SplitTypeOK
    <3>3. ~IsSplit(w) => wrote'[w] = "unsplit" BY <3>2
    <3>4. IsSplit(w)' = IsSplit(w) BY <1>9 DEF Mark, IsSplit
    <3>5. Working(w)'
      BY <1>9, <3>2, <3>3, <3>4 DEF Mark, SplitTypeOK, WorkersHonest, Working, rowVars
    <3>6. QED BY <3>1, <3>5
  <2>2. QED BY <1>9, <2>1, Alone DEF Mark, SplitTypeOK
<1>10. ASSUME NEW w \in Workers, Commit(w) PROVE WorkersHonest'
  <2>1. (OwnKids(w) /\ Working(w))' BY <1>10, Ended DEF Commit
  <2>2. ASSUME NEW v \in Workers \ {w} PROVE (OwnKids(v) /\ Working(v))'
    BY <1>10 DEF Commit, EndWork, SplitTypeOK, WorkersHonest, OwnKids, Working, IsSplit
  <2>3. QED BY <2>1, <2>2 DEF WorkersHonest
<1>11. ASSUME NEW w \in Workers, Rollback(w) PROVE WorkersHonest'
  <2>1. (OwnKids(w) /\ Working(w))' BY <1>11, Ended DEF Rollback
  <2>2. QED BY <1>11, <2>1, Alone DEF Rollback, EndWork, SplitTypeOK
<1>12. CASE UNCHANGED splitVars
  BY <1>12 DEF splitVars, rowVars, workVars, WorkersHonest, OwnKids, Working, IsSplit
<1>13. QED BY <1>1, <1>2, <1>3, <1>4, <1>5, <1>6, <1>7, <1>8, <1>9, <1>10, <1>11, <1>12
  DEF SplitNext, BankStep, Work

-----------------------------------------------------------------------------
(* The rows. *)

LEMMA RowsKept ==
  ASSUME SplitInv, UNCHANGED rowVars
  PROVE  (NewIsWhole /\ NothingLost /\ NoOrphans)'
BY DEF SplitInv, rowVars, NewIsWhole, NothingLost, NoOrphans, KidsOf

(* What a worker commits concerns one parent: a split gives it children, an *)
(* unsplit clears its flag.                                                  *)
LEMMA CommitKeeps ==
  ASSUME SplitInv, NEW w \in Workers, Commit(w)
  PROVE  (NewIsWhole /\ NothingLost /\ NoOrphans)'
<1>1. PICK p \in Bank : p = req[w].txn /\ book[p] # "new"
  BY DEF Commit, SplitInv, WorkersHonest, Working
<1>2. \A k \in added[w] \cup deleted[w] : k.parent = p
  BY <1>1 DEF SplitInv, WorkersHonest, OwnKids
<1>3. \A q \in Bank \ {p} : split'[q] = split[q] /\ KidsOf(q)' = KidsOf(q)
  BY <1>1, <1>2 DEF Commit, KidsOf, SplitInv, SplitTypeOK
<1>4. NewIsWhole'
  BY <1>1, <1>3 DEF Commit, SplitInv, NewIsWhole
<1>5. split'[p] => KidsOf(p)' # {}
  <2>1. CASE IsSplit(w)
    <3>1. added[w] # {} BY <2>1 DEF Commit, SplitInv, WorkersHonest, Working
    <3>2. QED BY <1>2, <3>1 DEF Commit, KidsOf
  <2>2. CASE ~IsSplit(w)
    <3>1. wrote[w] = "unsplit" BY <2>2 DEF Commit, SplitInv, WorkersHonest, Working
    <3>2. split'[p] = FALSE BY <1>1, <3>1 DEF Commit, SplitInv, SplitTypeOK
    <3>3. QED BY <3>2
  <2>3. QED BY <2>1, <2>2
<1>6. NothingLost'
  BY <1>3, <1>5 DEF Commit, SplitInv, NothingLost
<1>7. NoOrphans'
  BY DEF Commit, SplitInv, NoOrphans, WorkersHonest, Working
<1>8. QED BY <1>4, <1>6, <1>7

LEMMA RowsStep == SplitInv /\ [SplitNext]_splitVars => (NewIsWhole /\ NothingLost /\ NoOrphans)'
<1> SUFFICES ASSUME SplitInv, [SplitNext]_splitVars PROVE (NewIsWhole /\ NothingLost /\ NoOrphans)'
  OBVIOUS
<1>1. ASSUME NEW p \in Bank, BankRemove(p) PROVE (NewIsWhole /\ NothingLost /\ NoOrphans)'
  BY <1>1 DEF BankRemove, SplitInv, SplitTypeOK, Kid, NewIsWhole, NothingLost, NoOrphans, KidsOf
<1>2. ASSUME NEW p \in Bank, NEW a \in Amounts, NEW b \in BOOLEAN, BankModify(p, a, b) PROVE (NewIsWhole /\ NothingLost /\ NoOrphans)'
  BY <1>2 DEF BankModify, SplitInv, NewIsWhole, NothingLost, NoOrphans, KidsOf
<1>3. ASSUME NEW p \in Bank, NEW a \in Amounts, NEW b \in BOOLEAN, BankAdd(p, a, b)
      PROVE  (NewIsWhole /\ NothingLost /\ NoOrphans)'
  BY <1>3 DEF BankAdd, SplitInv, SplitTypeOK, Kid, NewIsWhole, NothingLost, NoOrphans, KidsOf
<1>4. ASSUME NEW w \in Workers, Work(w) PROVE (NewIsWhole /\ NothingLost /\ NoOrphans)'
  <2>1. CASE Commit(w) BY <2>1, CommitKeeps
  <2>2. CASE UNCHANGED rowVars BY <2>2, RowsKept
  <2>3. QED BY <1>4, <2>1, <2>2
    DEF Work, StartUnsplit, StartSplit, FindKids, ClearKids, InsertKids, Mark, Rollback
<1>5. CASE UNCHANGED splitVars
  BY <1>5, RowsKept DEF splitVars
<1>6. QED BY <1>1, <1>2, <1>3, <1>4, <1>5 DEF SplitNext, BankStep

LEMMA SplitInvariant == SplitSpec => []SplitInv
<1>1. SplitInv /\ [SplitNext]_splitVars => SplitInv'
  BY TypeStep, WorkersStep, RowsStep DEF SplitInv, WorkersHonest
<1>2. QED BY InitHolds, <1>1, PTL DEF SplitSpec

-----------------------------------------------------------------------------
(* Every state of the splits is well typed. *)
THEOREM SplitTypeCorrect == SplitSpec => []SplitTypeOK
<1>1. SplitInv => SplitTypeOK BY DEF SplitInv
<1>2. QED BY SplitInvariant, <1>1, PTL

(* However many splits, unsplits, crashes and bank updates interleave, a     *)
(* parent left out of the statistics has children that count for it          *)
(* (transaction_split_service.rb:19-23, 33-36).                              *)
THEOREM SplitsLoseNothing == SplitSpec => []NothingLost
<1>1. SplitInv => NothingLost BY DEF SplitInv
<1>2. QED BY SplitInvariant, <1>1, PTL

(* and no child outlives its parent (plaid_service.rb:195-207).              *)
THEOREM NoChildIsOrphaned == SplitSpec => []NoOrphans
<1>1. SplitInv => NoOrphans BY DEF SplitInv
<1>2. QED BY SplitInvariant, <1>1, PTL

-----------------------------------------------------------------------------
(* Requests served one after another.  Two at a time count a transaction     *)
(* twice, as the run TransactionSplit_twice shows for the sums.              *)
OneWorker == \A v, w \in Workers : v = w

(* The worker's reading of its parent's flag is still true, and once it has  *)
(* cleared the children none is left that it does not delete.                *)
ReadingHolds(w) ==
  pc[w] # "idle" =>
    /\ req[w].wasSplit = split[req[w].txn]
    /\ pc[w] = "clear" => KidsOf(req[w].txn) \subseteq doomed[w]
    /\ pc[w] \in {"insert", "mark", "commit"} => KidsOf(req[w].txn) \subseteq deleted[w]
    /\ pc[w] = "commit" /\ IsSplit(w) => wrote[w] = IF req[w].wasSplit THEN "none" ELSE "split"
    /\ ~IsSplit(w) => added[w] = {}

OnceInv == SplitInv /\ CountedOnce /\ \A w \in Workers : ReadingHolds(w)

LEMMA OnceInit == SplitInit => OnceInv
BY InitHolds DEF SplitInit, OnceInv, CountedOnce, ReadingHolds, KidsOf

(* A step that changes no row. *)
LEMMA CountKept ==
  ASSUME CountedOnce, UNCHANGED rowVars
  PROVE  CountedOnce' /\ \A p \in Bank : KidsOf(p)' = KidsOf(p) /\ split'[p] = split[p]
BY DEF CountedOnce, rowVars, KidsOf

(* A step of the synchronisation removes children at most, and no flag. *)
LEMMA BankKeepsReading ==
  ASSUME OnceInv, NEW w \in Workers, UNCHANGED <<split, workVars>>,
         \A p \in Bank : KidsOf(p)' \subseteq KidsOf(p)
  PROVE  ReadingHolds(w)'
<1>1. pc[w] # "idle" => req[w].txn \in Bank
  BY DEF OnceInv, SplitInv, WorkersHonest, Working
<1>2. UNCHANGED <<split, pc, req, doomed, wrote, added, deleted>>
  BY DEF workVars
<1>3. QED
  BY <1>1, <1>2 DEF OnceInv, ReadingHolds, IsSplit

LEMMA BankCountsOnce ==
  ASSUME OnceInv, BankStep
  PROVE  CountedOnce' /\ \A w \in Workers : ReadingHolds(w)'
<1>1. PICK p \in Bank : BankRemove(p) \/ \E a \in Amounts, b \in BOOLEAN : BankModify(p, a, b) \/ BankAdd(p, a, b)
  BY DEF BankStep
<1>2. UNCHANGED <<split, workVars>> /\ \A q \in Bank : KidsOf(q)' \subseteq KidsOf(q)
  BY <1>1 DEF BankRemove, BankModify, BankAdd, KidsOf
<1>3. \A q \in Bank : book'[q] = "here" => book[q] = "here" \/ KidsOf(q) = {}
  BY <1>1 DEF BankRemove, BankModify, BankAdd, OnceInv, SplitInv, SplitTypeOK, NoOrphans, KidsOf
<1>4. CountedOnce'
  BY <1>2, <1>3 DEF OnceInv, CountedOnce
<1>5. QED
  BY <1>2, <1>4, BankKeepsReading

LEMMA WorkCountsOnce ==
  ASSUME OnceInv, NEW w \in Workers, Work(w)
  PROVE  CountedOnce' /\ ReadingHolds(w)'
<1>. DEFINE p == req[w].txn
<1>1. SplitTypeOK /\ OwnKids(w) /\ Working(w) /\ CountedOnce /\ ReadingHolds(w) /\ NoOrphans /\ NothingLost
  BY DEF OnceInv, SplitInv, WorkersHonest
<1>2. ASSUME NEW q \in Bank, StartUnsplit(w, q) PROVE CountedOnce' /\ ReadingHolds(w)'
  <2>1. UNCHANGED rowVars BY <1>2 DEF StartUnsplit
  <2>2. /\ pc'[w] = "find" /\ req'[w].txn = q /\ req'[w].wasSplit = TRUE /\ req'[w].parts = << >>
        /\ split[q] = TRUE /\ added'[w] = {}
    BY <1>1, <1>2 DEF StartUnsplit, SplitTypeOK, Working
  <2>3. QED BY <1>1, <2>1, <2>2, CountKept DEF ReadingHolds, IsSplit
<1>3. ASSUME NEW q \in Bank, NEW parts \in PartLists, StartSplit(w, q, parts)
      PROVE  CountedOnce' /\ ReadingHolds(w)'
  <2>1. UNCHANGED rowVars BY <1>3 DEF StartSplit
  <2>2. /\ pc'[w] = (IF split[q] THEN "find" ELSE "insert")
        /\ req'[w].txn = q /\ req'[w].wasSplit = split[q] /\ req'[w].parts = parts
        /\ added'[w] = {} /\ book[q] = "here" /\ split[q] \in BOOLEAN
    BY <1>1, <1>3 DEF StartSplit, SplitTypeOK, Working
  <2>3. ~split[q] => KidsOf(q) = {}
    BY <1>1, <2>2 DEF CountedOnce
  <2>4. QED BY <1>1, <2>1, <2>2, <2>3, CountKept DEF ReadingHolds, IsSplit
<1>4. CASE FindKids(w)
  <2>1. /\ UNCHANGED rowVars /\ pc[w] = "find" /\ pc'[w] = "clear" /\ doomed'[w] = KidsOf(p)
        /\ req' = req /\ added' = added
    BY <1>1, <1>4 DEF FindKids, SplitTypeOK
  <2>2. p \in Bank BY <1>1, <2>1 DEF Working
  <2>3. QED BY <1>1, <2>1, <2>2, CountKept DEF ReadingHolds, IsSplit
<1>5. CASE ClearKids(w)
  <2>1. /\ UNCHANGED rowVars /\ pc[w] = "clear" /\ deleted'[w] = doomed[w] \cap kids
        /\ pc'[w] \in {"insert", "mark"} /\ req' = req /\ added' = added
    BY <1>1, <1>5 DEF ClearKids, SplitTypeOK
  <2>2. p \in Bank /\ KidsOf(p) \subseteq kids BY <1>1, <2>1 DEF Working, KidsOf
  <2>3. KidsOf(p) \subseteq deleted'[w] BY <1>1, <2>1, <2>2 DEF ReadingHolds
  <2>4. QED BY <1>1, <2>1, <2>2, <2>3, CountKept DEF ReadingHolds, IsSplit
<1>6. CASE InsertKids(w)
  <2>1. /\ UNCHANGED rowVars /\ pc[w] = "insert" /\ pc'[w] = "mark" /\ req' = req /\ deleted' = deleted
    BY <1>1, <1>6 DEF InsertKids, SplitTypeOK
  <2>2. p \in Bank /\ IsSplit(w) BY <1>1, <2>1 DEF Working
  <2>3. QED BY <1>1, <2>1, <2>2, CountKept DEF ReadingHolds, IsSplit
<1>7. CASE Mark(w)
  <2>1. /\ UNCHANGED rowVars /\ pc[w] = "mark" /\ pc'[w] = "commit" /\ req' = req
        /\ deleted' = deleted /\ added' = added
        /\ wrote'[w] = IF ~IsSplit(w) THEN "unsplit" ELSE IF req[w].wasSplit THEN "none" ELSE "split"
    BY <1>1, <1>7 DEF Mark, SplitTypeOK
  <2>2. p \in Bank BY <1>1, <2>1 DEF Working
  <2>3. QED BY <1>1, <2>1, <2>2, CountKept DEF ReadingHolds, IsSplit
<1>8. CASE Commit(w)
  <2>1. PICK r : r = req[w].txn
    OBVIOUS
  <2>2. /\ pc[w] = "commit" /\ kids' = (kids \ deleted[w]) \cup added[w] /\ book' = book
        /\ split' = [split EXCEPT ![r] = IF wrote[w] = "none" THEN @ ELSE wrote[w] = "split"]
        /\ pc'[w] = "idle"
    BY <2>1, <1>1, <1>8 DEF Commit, EndWork, SplitTypeOK
  <2>3. r \in Bank BY <1>1, <2>1, <2>2 DEF Working
  <2>4. /\ req[w].wasSplit = split[r] /\ KidsOf(r) \subseteq deleted[w]
        /\ IsSplit(w) => wrote[w] = IF req[w].wasSplit THEN "none" ELSE "split"
        /\ ~IsSplit(w) => added[w] = {}
    BY <2>1, <1>1, <2>2 DEF ReadingHolds
  <2>5. \A k \in added[w] \cup deleted[w] : k.parent = r
    BY <2>1, <1>1 DEF OwnKids
  <2>6. IsSplit(w) => split'[r] = TRUE
    BY <1>1, <2>2, <2>3, <2>4 DEF SplitTypeOK
  <2>7. ~IsSplit(w) => KidsOf(r)' = {}
    BY <2>2, <2>4 DEF KidsOf
  <2>8. \A q \in Bank \ {r} : split'[q] = split[q] /\ KidsOf(q)' = KidsOf(q)
    BY <1>1, <2>2, <2>5 DEF SplitTypeOK, KidsOf
  <2>9. CountedOnce'
    BY <1>1, <2>2, <2>6, <2>7, <2>8 DEF CountedOnce
  <2>10. QED BY <2>2, <2>9 DEF ReadingHolds
<1>9. CASE Rollback(w)
  <2>1. UNCHANGED rowVars /\ pc'[w] = "idle"
    BY <1>1, <1>9 DEF Rollback, EndWork, SplitTypeOK
  <2>2. QED BY <1>1, <2>1, CountKept DEF ReadingHolds
<1>10. QED BY <1>2, <1>3, <1>4, <1>5, <1>6, <1>7, <1>8, <1>9 DEF Work

LEMMA OnceStep == OneWorker /\ OnceInv /\ [SplitNext]_splitVars => OnceInv'
<1>. SUFFICES ASSUME OneWorker, OnceInv, [SplitNext]_splitVars PROVE OnceInv'
  OBVIOUS
<1>1. SplitInv'
  BY TypeStep, WorkersStep, RowsStep DEF OnceInv, SplitInv, WorkersHonest
<1>2. CASE BankStep
  BY <1>1, <1>2, BankCountsOnce DEF OnceInv
<1>3. ASSUME NEW w \in Workers, Work(w) PROVE OnceInv'
  <2>1. CountedOnce' /\ ReadingHolds(w)'
    BY <1>3, WorkCountsOnce
  <2>2. \A v \in Workers : v = w
    BY DEF OneWorker
  <2>3. QED BY <1>1, <2>1, <2>2 DEF OnceInv
<1>4. CASE UNCHANGED splitVars
  <2>1. UNCHANGED rowVars /\ UNCHANGED <<split, workVars>>
    BY <1>4 DEF splitVars, rowVars
  <2>2. CountedOnce' /\ \A p \in Bank : KidsOf(p)' \subseteq KidsOf(p)
    BY <2>1, CountKept DEF OnceInv
  <2>3. QED BY <1>1, <2>1, <2>2, BankKeepsReading DEF OnceInv
<1>5. QED BY <1>2, <1>3, <1>4 DEF SplitNext

(* Requests one at a time, with faults, crashes and the bank's updates in     *)
(* between: a parent that counts in the statistics has no children that       *)
(* count as well (transaction_split_service.rb:13-38).                        *)
THEOREM SplitsCountOnce ==
  ASSUME OneWorker
  PROVE  SplitSpec => []CountedOnce
<1>1. OnceInv /\ [SplitNext]_splitVars => OnceInv'
  BY OnceStep
<1>2. OnceInv => CountedOnce
  BY DEF OnceInv
<1>3. QED BY OnceInit, <1>1, <1>2, PTL DEF SplitSpec

-----------------------------------------------------------------------------
(* What the children add up to. *)

Cents == {3 * c : c \in Int}

(* Parts, and what the bank reports, in whole cents, as the dialog's fields  *)
(* and the bank have them (SplitTransactionModal.tsx:150).  With a third of  *)
(* a cent more in each of its parts a request passes the check on their sum, *)
(* and each loses it when it is stored.                                      *)
InCents == Amounts \subseteq Cents /\ PartLists \subseteq Seq(Cents)

(* A sum of whole cents is one. *)
LEMMA SumOfCents ==
  ASSUME NEW S, IsFiniteSet(S), NEW f \in [S -> Cents]
  PROVE  SumAll(f, S)[S] \in Cents
<1>1. f \in [S -> Int]
  BY DEF Cents
<1>2. PICK F : AddsUp(f, F, S)
  BY <1>1, SumExists
<1> DEFINE W == {s \in SUBSET S : F[s] \notin Cents}
           m == [s \in W |-> Cardinality(s)]
<1>3. ASSUME W # {} PROVE FALSE
  <2>1. \A s \in SUBSET S : IsFiniteSet(s) /\ Cardinality(s) \in Nat
    BY FS_Subset, FS_CardinalityType
  <2>2. m \in [W -> Nat]
    BY <2>1
  <2>3. PICK s \in W : \A r \in W : m[s] <= m[r]
    BY <1>3, <2>2, LeastMeasure
  <2>4. s \in SUBSET S /\ s # {}
    <3>1. 0 = 3 * 0 /\ 0 \in Int
      OBVIOUS
    <3>2. 0 \in Cents
      BY <3>1 DEF Cents
    <3>3. QED
      BY <1>2, <3>2 DEF AddsUp
  <2>5. PICK x : x \in s
    BY <2>4
  <2> DEFINE r == s \ {x}
  <2>6. r \in SUBSET S /\ Cardinality(r) = Cardinality(s) - 1 /\ Cardinality(s) \in Nat
    BY <2>1, <2>4, <2>5, FS_RemoveElement
  <2>7. r \notin W
    <3> SUFFICES ASSUME r \in W PROVE FALSE
      OBVIOUS
    <3>1. m[s] <= m[r] /\ m[s] = Cardinality(s) /\ m[r] = Cardinality(r)
      BY <2>3
    <3>2. QED
      BY <2>6, <3>1
  <2>8. F[r] \in Cents /\ f[x] \in Cents /\ F[s] = f[x] + F[r]
    BY <1>2, <2>4, <2>5, <2>6, <2>7 DEF AddsUp
  <2>9. F[s] \in Cents
    <3>1. PICK a \in Int, b \in Int : f[x] = 3 * a /\ F[r] = 3 * b
      BY <2>8 DEF Cents
    <3>2. f[x] + F[r] = 3 * (a + b) /\ a + b \in Int
      BY <3>1
    <3>3. QED
      BY <2>8, <3>2 DEF Cents
  <2>10. QED
    BY <2>9
<1>4. F[S] \in Cents
  BY <1>3
<1>5. QED
  BY <1>1, <1>2, <1>4, SumAllIs

KidsMade(w, f) ==
  {[id |-> f[i], parent |-> req[w].txn, amount |-> Round(req[w].parts[i])] : i \in DOMAIN req[w].parts}

(* What a split has inserted are the parts it was asked for, and those were *)
(* checked against the amount as loaded.                                    *)
PartsKept(w) ==
  IsSplit(w) =>
    /\ Accepted(req[w].parts, req[w].amount)
    /\ req[w].amount \in Cents /\ req[w].parts \in Seq(Cents)
    /\ pc[w] \in {"mark", "commit"} =>
         \E f \in Injection(DOMAIN req[w].parts, KidIds) : added[w] = KidsMade(w, f)

SumInv == OnceInv /\ \A w \in Workers : PartsKept(w)

LEMMA RoundOfCents == ASSUME NEW c \in Cents PROVE Round(c) = c /\ c \in Int
<1>1. PICK a \in Int : c = 3 * a
  BY DEF Cents
<1>2. (3 * a + 1) \div 3 = a
  OBVIOUS
<1>3. QED
  BY <1>1, <1>2 DEF Round

LEMMA PartsKeptInit == SplitInit => \A w \in Workers : PartsKept(w)
BY DEF SplitInit, NoRequest, PartsKept, IsSplit

LEMMA PartsKeptStep ==
  ASSUME InCents, SumInv, [SplitNext]_splitVars, NEW w \in Workers
  PROVE  PartsKept(w)'
<1>1. SplitTypeOK /\ Working(w) /\ PartsKept(w)
  BY DEF SumInv, OnceInv, SplitInv, WorkersHonest
<1>2. CASE /\ req'[w] = req[w] /\ added'[w] = added[w]
           /\ pc'[w] \in {"mark", "commit"} => pc[w] \in {"mark", "commit"} \/ ~IsSplit(w)
  BY <1>1, <1>2 DEF PartsKept, IsSplit, KidsMade
<1>3. CASE req'[w] = NoRequest
  BY <1>3 DEF PartsKept, IsSplit, NoRequest
<1>4. CASE UNCHANGED workVars
  BY <1>2, <1>4 DEF workVars
<1>5. CASE BankStep
  BY <1>4, <1>5 DEF BankStep, BankRemove, BankModify, BankAdd
<1>6. ASSUME NEW v \in Workers, Work(v), v # w PROVE PartsKept(w)'
  <2>1. req'[w] = req[w] /\ added'[w] = added[w] /\ pc'[w] = pc[w]
    BY <1>1, <1>6
    DEF SplitTypeOK, Work, StartUnsplit, StartSplit, FindKids, ClearKids, InsertKids, Mark, Commit, Rollback, EndWork
  <2>2. QED
    BY <1>2, <2>1
<1>7. ASSUME NEW p \in Bank, StartUnsplit(w, p) PROVE PartsKept(w)'
  <2>1. req'[w].parts = << >>
    BY <1>1, <1>7 DEF StartUnsplit, SplitTypeOK
  <2>2. QED
    BY <2>1 DEF PartsKept, IsSplit
<1>8. ASSUME NEW p \in Bank, NEW parts \in PartLists, StartSplit(w, p, parts) PROVE PartsKept(w)'
  <2>1. /\ req'[w].parts = parts /\ req'[w].amount = amount[p] /\ Accepted(parts, amount[p])
        /\ pc'[w] \in {"find", "insert"}
    BY <1>1, <1>8 DEF StartSplit, SplitTypeOK
  <2>2. amount[p] \in Cents
    <3>1. 0 = 3 * 0 /\ 0 \in Int
      OBVIOUS
    <3>2. 0 \in Cents
      BY <3>1 DEF Cents
    <3>3. QED
      BY <1>1, <3>2 DEF SplitTypeOK, InCents
  <2>3. parts \in Seq(Cents)
    BY DEF InCents
  <2>4. QED
    BY <2>1, <2>2, <2>3 DEF PartsKept
<1>9. CASE FindKids(w) \/ ClearKids(w) \/ Mark(w)
  <2>1. /\ req'[w] = req[w] /\ added'[w] = added[w]
        /\ pc'[w] \in {"mark", "commit"} => pc[w] \in {"mark", "commit"} \/ ~IsSplit(w)
    BY <1>1, <1>9 DEF FindKids, ClearKids, Mark, SplitTypeOK
  <2>2. QED
    BY <1>2, <2>1
<1>10. CASE InsertKids(w)
  <2>1. req' = req
    BY <1>10 DEF InsertKids
  <2>2. PICK f \in Injection(DOMAIN req[w].parts, FreeIds) : added'[w] = KidsMade(w, f)
    BY <1>1, <1>10 DEF InsertKids, KidsMade, SplitTypeOK
  <2>3. f \in Injection(DOMAIN req[w].parts, KidIds)
    BY DEF Injection, FreeIds
  <2>4. QED
    BY <1>1, <2>1, <2>2, <2>3 DEF PartsKept, IsSplit, KidsMade
<1>11. CASE Commit(w) \/ Rollback(w)
  <2>1. req'[w] = NoRequest
    BY <1>1, <1>11 DEF Commit, Rollback, EndWork, SplitTypeOK
  <2>2. QED
    BY <1>3, <2>1
<1>12. CASE UNCHANGED splitVars
  BY <1>4, <1>12 DEF splitVars
<1>13. QED
  BY <1>5, <1>6, <1>7, <1>8, <1>9, <1>10, <1>11, <1>12 DEF SplitNext, Work

(* What is left of the parent's children are those that were made. *)
LEMMA KidsReplaced ==
  ASSUME OnceInv, NEW w \in Workers, Commit(w)
  PROVE  {k \in kids' : k.parent = req[w].txn} = added[w]
<1>1. KidsOf(req[w].txn) \subseteq deleted[w] /\ OwnKids(w)
  BY DEF OnceInv, SplitInv, WorkersHonest, ReadingHolds, Commit
<1>2. kids' = (kids \ deleted[w]) \cup added[w]
  BY DEF Commit
<1>3. QED
  BY <1>1, <1>2 DEF KidsOf, OwnKids

LEMMA MadeSumUp ==
  ASSUME NEW w \in Workers, PartsKept(w), IsSplit(w),
         NEW f \in Injection(DOMAIN req[w].parts, KidIds)
  PROVE  MapThenSumSet(LAMBDA k : k.amount, KidsMade(w, f)) = req[w].amount
<1> DEFINE parts == req[w].parts
           D == DOMAIN parts
           K == KidsMade(w, f)
           g == [k \in K |-> k.amount]
           h == [i \in D |-> [id |-> f[i], parent |-> req[w].txn, amount |-> Round(parts[i])]]
           sum == SumAll(parts, D)[D]
<1>1. parts \in Seq(Cents) /\ Accepted(parts, req[w].amount) /\ req[w].amount \in Cents
  BY DEF PartsKept
<1>2. parts \in [D -> Cents] /\ parts \in [D -> Int] /\ IsFiniteSet(D)
  <2>1. D = 1..Len(parts) /\ Len(parts) \in Nat
    BY <1>1
  <2>2. IsFiniteSet(D)
    BY <2>1, FS_Interval
  <2>3. parts \in [D -> Cents]
    BY <1>1
  <2>4. \A i \in D : parts[i] \in Int
    BY <2>3 DEF Cents
  <2>5. QED
    BY <2>2, <2>3, <2>4
<1>3. \A i \in D : Round(parts[i]) = parts[i]
  BY <1>2, RoundOfCents
<1>4. /\ h \in Surjection(D, K)
      /\ \A i, j \in D : h[i] = h[j] => i = j
      /\ \A i \in D : g[h[i]] = parts[i]
  <2>1. K = {h[i] : i \in D}
    BY DEF KidsMade
  <2>2. f \in [D -> KidIds] /\ \A i, j \in D : f[i] = f[j] => i = j
    BY DEF Injection, IsInjective
  <2>3. \A i \in D : h[i].id = f[i] /\ h[i].amount = parts[i]
    BY <1>3
  <2> HIDE DEF K, h
  <2>4. h \in Surjection(D, K)
    <3>1. h \in [D -> K]
      BY <2>1 DEF h
    <3>2. QED
      BY <2>1, <3>1 DEF Surjection
  <2>5. QED
    BY <2>1, <2>2, <2>3, <2>4
<1>5. SumAll(g, K)[K] = sum
  <2> HIDE DEF parts, D, K, g, h
  <2>1. QED
    BY <1>2, <1>4, SumRenamed DEF sum
<1>6. SumFunction(parts) = sum
  BY DEF SumFunction, SumFunctionOnSet, FoldFunctionOnSet, MapThenFoldSet, SumAll, Adding, AddStep, OneOf
<1>7. MapThenSumSet(LAMBDA k : k.amount, K) = SumAll(g, K)[K]
  <2> HIDE DEF K
  <2>1. QED
    BY DEF MapThenSumSet, MapThenFoldSet, SumAll, Adding, AddStep, OneOf
<1>8. sum \in Cents
  <2> HIDE DEF parts, D
  <2>1. QED
    BY <1>2, SumOfCents
<1>9. sum = req[w].amount
  <2> DEFINE a == req[w].amount
  <2>1. 2 * (Round(sum) - a) \in -2 .. 2
    BY <1>1, <1>6 DEF Accepted
  <2> HIDE DEF sum, a
  <2>2. Round(sum) = sum
    BY <1>8, RoundOfCents
  <2>3. PICK b \in Int, c \in Int : sum = 3 * b /\ a = 3 * c
    BY <1>1, <1>8 DEF Cents, a
  <2>4. b = c
    BY <2>1, <2>2, <2>3
  <2>5. QED
    BY <2>3, <2>4 DEF a
<1>10. QED
  BY <1>5, <1>7, <1>9

(* Requests one at a time, of amounts in whole cents: the children that a    *)
(* split leaves sum to the amount that it loaded of its parent, exactly, and *)
(* no child of an earlier split is among them                                *)
(* (transaction_split_service.rb:2-3, 13-38, 45-57).                         *)
THEOREM SplitsSumUp ==
  ASSUME OneWorker, InCents
  PROVE  SplitSpec => SumsToParent
<1>1. OnceInv /\ [SplitNext]_splitVars => OnceInv'
  BY OnceStep
<1>2. SumInv /\ [SplitNext]_splitVars => SumInv'
  BY <1>1, PartsKeptStep DEF SumInv
<1>3. SplitInit => SumInv
  BY OnceInit, PartsKeptInit DEF SumInv
<1>4. SumInv /\ [SplitNext]_splitVars =>
        [\A w \in Workers : Commit(w) /\ IsSplit(w) =>
           MapThenSumSet(LAMBDA k : k.amount, {k \in kids' : k.parent = req[w].txn}) = req[w].amount]_splitVars
  <2> SUFFICES ASSUME SumInv, NEW w \in Workers, Commit(w), IsSplit(w)
               PROVE  MapThenSumSet(LAMBDA k : k.amount, {k \in kids' : k.parent = req[w].txn}) = req[w].amount
    OBVIOUS
  <2>1. PICK f \in Injection(DOMAIN req[w].parts, KidIds) : added[w] = KidsMade(w, f)
    BY DEF SumInv, PartsKept, Commit
  <2>2. {k \in kids' : k.parent = req[w].txn} = KidsMade(w, f)
    BY <2>1, KidsReplaced DEF SumInv
  <2>3. QED
    BY <2>2, MadeSumUp DEF SumInv
<1>5. QED
  BY <1>2, <1>3, <1>4, PTL DEF SplitSpec, SumsToParent
=============================================================================
