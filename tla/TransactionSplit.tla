-------------------------- MODULE TransactionSplit --------------------------
(***************************************************************************)
(* Splitting a bank transaction into children: transaction_split_service,  *)
(* several requests at a time, while the synchronisation changes or        *)
(* removes the parent.  Statistics count the children of a split parent in *)
(* its place (PlaidTransaction.not_split_parent).                          *)
(*                                                                         *)
(* A request loads and checks the parent, then works in one database       *)
(* transaction (Postgres at READ COMMITTED, external): a statement sees    *)
(* what is committed, a written row is locked until the transaction ends,  *)
(* the parent of a new child cannot be deleted meanwhile.                  *)
(*                                                                         *)
(* Amounts are counted in thirds of a cent.  Left out: dates, names and    *)
(* categories of the children.                                             *)
(***************************************************************************)
EXTENDS Integers, Sequences, FiniteSetsExt

CONSTANTS
  Workers,     \* the threads that serve requests
  Bank,        \* bank transactions
  KidIds,      \* a bound on the children that exist at a time
  Amounts,     \* a bound on what the bank reports, whole cents
  PartLists,   \* a bound on what requests ask for: sequences of amounts
  None         \* no transaction

ASSUME SplitAssumption ==
  /\ None \notin Bank
  /\ Amounts \subseteq Int
  /\ PartLists \subseteq Seq(Int)

VARIABLES
  book,      \* of each bank transaction: "new" (not yet added), "here" or "gone"
  amount,    \* its amount
  pending,   \* not yet posted
  split,     \* its split flag
  kids,      \* the child rows
  pc,        \* the next statement of a worker
  req,       \* its request
  doomed,    \* the children it has read, to destroy
  wrote,     \* what its transaction has written to the split flag
  added,     \* the children its transaction has inserted
  deleted    \* and deleted

rowVars   == <<book, amount, pending, split, kids>>
workVars  == <<pc, req, doomed, wrote, added, deleted>>
splitVars == <<rowVars, workVars>>

Kid     == [id : KidIds, parent : Bank, amount : Int]

(* What a request has loaded of its parent, and the parts it asks for. *)
Request   == [txn : Bank \cup {None}, wasSplit : BOOLEAN, amount : Int, parts : PartLists \cup {<< >>}]
NoRequest == [txn |-> None, wasSplit |-> FALSE, amount |-> 0, parts |-> << >>]

Steps == {"idle", "find", "clear", "insert", "mark", "commit"}

SplitTypeOK ==
  /\ book \in [Bank -> {"new", "here", "gone"}]
  /\ amount \in [Bank -> Amounts \cup {0}]
  /\ pending \in [Bank -> BOOLEAN]
  /\ split \in [Bank -> BOOLEAN]
  /\ kids \subseteq Kid
  /\ pc \in [Workers -> Steps]
  /\ req \in [Workers -> Request]
  /\ doomed \in [Workers -> SUBSET Kid]
  /\ wrote \in [Workers -> {"none", "split", "unsplit"}]
  /\ added \in [Workers -> SUBSET Kid]
  /\ deleted \in [Workers -> SUBSET Kid]

SplitInit ==
  /\ book = [p \in Bank |-> "new"]
  /\ amount = [p \in Bank |-> 0]
  /\ pending = [p \in Bank |-> FALSE]
  /\ split = [p \in Bank |-> FALSE]
  /\ kids = {}
  /\ pc = [w \in Workers |-> "idle"]
  /\ req = [w \in Workers |-> NoRequest]
  /\ doomed = [w \in Workers |-> {}]
  /\ wrote = [w \in Workers |-> "none"]
  /\ added = [w \in Workers |-> {}]
  /\ deleted = [w \in Workers |-> {}]

KidsOf(p) == {k \in kids : k.parent = p}

-----------------------------------------------------------------------------
(* The checks of a split. *)

(* to_f.round(2) *)
Round(a) == 3 * ((a + 1) \div 3)

(* check_split_params: within half a cent of the amount *)
Accepted(parts, a) ==
  /\ Len(parts) >= 2
  /\ \A i \in DOMAIN parts : Round(parts[i]) # 0
  /\ 2 * (Round(SumFunction(parts)) - a) \in -2 .. 2

(* Mutant: the children of an earlier split stay. *)
StartSplitAdding(w, p, parts) ==
  /\ pc[w] = "idle"
  /\ book[p] = "here" /\ ~pending[p] /\ Accepted(parts, amount[p])
  /\ req' = [req EXCEPT ![w] = [txn |-> p, wasSplit |-> split[p], amount |-> amount[p], parts |-> parts]]
  /\ pc' = [pc EXCEPT ![w] = "insert"]
  /\ UNCHANGED <<rowVars, doomed, wrote, added, deleted>>

StartSplit(w, p, parts) ==
  /\ pc[w] = "idle"
  /\ book[p] = "here" /\ ~pending[p] /\ Accepted(parts, amount[p])
  /\ req' = [req EXCEPT ![w] = [txn |-> p, wasSplit |-> split[p], amount |-> amount[p], parts |-> parts]]
  /\ pc' = [pc EXCEPT ![w] = IF split[p] THEN "find" ELSE "insert"]
  /\ UNCHANGED <<rowVars, doomed, wrote, added, deleted>>

StartUnsplit(w, p) ==
  /\ pc[w] = "idle"
  /\ book[p] = "here" /\ split[p]
  /\ req' = [req EXCEPT ![w] = [txn |-> p, wasSplit |-> TRUE, amount |-> amount[p], parts |-> << >>]]
  /\ pc' = [pc EXCEPT ![w] = "find"]
  /\ UNCHANGED <<rowVars, doomed, wrote, added, deleted>>

IsSplit(w) == req[w].parts # << >>

-----------------------------------------------------------------------------
(* The database transaction, statement by statement. *)

(* Mutant: ids instead of records. *)
FindKidIds(w) ==
  /\ pc[w] = "find"
  /\ doomed' = [doomed EXCEPT ![w] = {k.id : k \in KidsOf(req[w].txn)}]
  /\ pc' = [pc EXCEPT ![w] = "clear"]
  /\ UNCHANGED <<rowVars, req, wrote, added, deleted>>

(* child_transactions.destroy_all reads the children, *)
FindKids(w) ==
  /\ pc[w] = "find"
  /\ doomed' = [doomed EXCEPT ![w] = KidsOf(req[w].txn)]
  /\ pc' = [pc EXCEPT ![w] = "clear"]
  /\ UNCHANGED <<rowVars, req, wrote, added, deleted>>

(* Mutant: each deletion is a transaction of its own. *)
ClearNow(w) ==
  /\ pc[w] = "clear"
  /\ doomed[w] \cap UNION {deleted[v] : v \in Workers \ {w}} = {}
  /\ kids' = kids \ doomed[w]
  /\ deleted' = [deleted EXCEPT ![w] = doomed[w] \cap kids]
  /\ pc' = [pc EXCEPT ![w] = IF IsSplit(w) THEN "insert" ELSE "mark"]
  /\ UNCHANGED <<book, amount, pending, split, req, doomed, wrote, added>>

(* then deletes each: one that is gone by then is no error.                  *)
ClearKids(w) ==
  /\ pc[w] = "clear"
  /\ doomed[w] \cap UNION {deleted[v] : v \in Workers \ {w}} = {}
  /\ deleted' = [deleted EXCEPT ![w] = doomed[w] \cap kids]
  /\ pc' = [pc EXCEPT ![w] = IF IsSplit(w) THEN "insert" ELSE "mark"]
  /\ UNCHANGED <<rowVars, req, doomed, wrote, added>>

FreeIds == KidIds \ {k.id : k \in kids \cup UNION {added[v] : v \in Workers}}

(* create_child! for every part; the foreign key needs the parent.           *)
InsertKids(w) ==
  /\ pc[w] = "insert"
  /\ LET p     == req[w].txn
         parts == req[w].parts
     IN /\ book[p] = "here"
        /\ \E f \in Injection(DOMAIN parts, FreeIds) :
             added' = [added EXCEPT ![w] =
               {[id |-> f[i], parent |-> p, amount |-> Round(parts[i])] : i \in DOMAIN parts}]
  /\ pc' = [pc EXCEPT ![w] = "mark"]
  /\ UNCHANGED <<rowVars, req, doomed, wrote, deleted>>

(* Mutant: a split does not set the flag. *)
MarkUnsplitOnly(w) ==
  /\ pc[w] = "mark"
  /\ wrote' = [wrote EXCEPT ![w] = IF IsSplit(w) THEN "none" ELSE "unsplit"]
  /\ pc' = [pc EXCEPT ![w] = "commit"]
  /\ UNCHANGED <<rowVars, req, doomed, added, deleted>>

(* update!(split: ...) writes only what differs from the parent as loaded.   *)
Mark(w) ==
  /\ pc[w] = "mark"
  /\ \A v \in Workers \ {w} : wrote[v] = "none" \/ req[v].txn # req[w].txn
  /\ wrote' = [wrote EXCEPT ![w] =
       IF ~IsSplit(w) THEN "unsplit" ELSE IF req[w].wasSplit THEN "none" ELSE "split"]
  /\ pc' = [pc EXCEPT ![w] = "commit"]
  /\ UNCHANGED <<rowVars, req, doomed, added, deleted>>

EndWork(w) ==
  /\ pc' = [pc EXCEPT ![w] = "idle"]
  /\ doomed' = [doomed EXCEPT ![w] = {}]
  /\ wrote' = [wrote EXCEPT ![w] = "none"]
  /\ added' = [added EXCEPT ![w] = {}]
  /\ deleted' = [deleted EXCEPT ![w] = {}]
  /\ req' = [req EXCEPT ![w] = NoRequest]

Commit(w) ==
  /\ pc[w] = "commit"
  /\ kids' = (kids \ deleted[w]) \cup added[w]
  /\ split' = [split EXCEPT ![req[w].txn] =
       IF wrote[w] = "none" THEN @ ELSE wrote[w] = "split"]
  /\ EndWork(w)
  /\ UNCHANGED <<book, amount, pending>>

(* An exception, a foreign key violation, a deadlock victim or a crash. *)
Rollback(w) ==
  /\ pc[w] # "idle"
  /\ EndWork(w)
  /\ UNCHANGED rowVars

-----------------------------------------------------------------------------
(* The synchronisation (plaid_service.rb), a row at a time. *)

Untouched(p) == \A v \in Workers : wrote[v] # "none" => req[v].txn # p

BankAdd(p, a, isPending) ==
  /\ book[p] = "new"
  /\ book' = [book EXCEPT ![p] = "here"]
  /\ amount' = [amount EXCEPT ![p] = a]
  /\ pending' = [pending EXCEPT ![p] = isPending]
  /\ UNCHANGED <<split, kids, workVars>>

(* "Bank fidelity wins": a split parent is updated all the same *)
BankModify(p, a, isPending) ==
  /\ book[p] = "here" /\ Untouched(p)
  /\ amount' = [amount EXCEPT ![p] = a]
  /\ pending' = [pending EXCEPT ![p] = isPending]
  /\ UNCHANGED <<book, split, kids, workVars>>

(* Mutant: the row is deleted, its children stay. *)
BankRemoveAlone(p) ==
  /\ book[p] = "here" /\ Untouched(p)
  /\ \A v \in Workers : \A k \in added[v] \cup deleted[v] : k.parent # p
  /\ book' = [book EXCEPT ![p] = "gone"]
  /\ UNCHANGED <<amount, pending, split, kids, workVars>>

(* destroy takes the children, those it has not read too (ON DELETE CASCADE) *)
BankRemove(p) ==
  /\ book[p] = "here" /\ Untouched(p)
  /\ \A v \in Workers : \A k \in added[v] \cup deleted[v] : k.parent # p
  /\ book' = [book EXCEPT ![p] = "gone"]
  /\ kids' = kids \ KidsOf(p)
  /\ UNCHANGED <<amount, pending, split, workVars>>

Work(w) ==
  \/ \E p \in Bank : StartUnsplit(w, p) \/ \E parts \in PartLists : StartSplit(w, p, parts)
  \/ FindKids(w) \/ ClearKids(w) \/ InsertKids(w) \/ Mark(w) \/ Commit(w) \/ Rollback(w)

BankStep ==
  \E p \in Bank :
    \/ BankRemove(p)
    \/ \E a \in Amounts, isPending \in BOOLEAN : BankModify(p, a, isPending) \/ BankAdd(p, a, isPending)

SplitNext == BankStep \/ \E w \in Workers : Work(w)

SplitSpec == SplitInit /\ [][SplitNext]_splitVars

-----------------------------------------------------------------------------
(* Properties. *)

(* No money drops out of the statistics: a parent left out of them has       *)
(* children, whatever requests, faults and synchronisations interleave.      *)
NothingLost == \A p \in Bank : book[p] = "here" /\ split[p] => KidsOf(p) # {}

(* Every child has its parent. *)
NoOrphans == \A k \in kids : book[k.parent] = "here"

(* "counts split children once, not the parent"                              *)
(* (profit_and_loss_service_spec.rb:150): a parent that counts itself has no *)
(* children that count as well.                                              *)
CountedOnce == \A p \in Bank : book[p] = "here" /\ ~split[p] => KidsOf(p) = {}

(* "Children must sum to the parent exactly", and a new split "replaces its  *)
(* children atomically" (transaction_split_service.rb:2-3, 13): what a       *)
(* split leaves sums to an amount that the parent had, and has unless the    *)
(* bank has changed it since the request loaded it.                          *)
SumsToParent ==
  [][\A w \in Workers : Commit(w) /\ IsSplit(w) =>
       MapThenSumSet(LAMBDA k : k.amount, {k \in kids' : k.parent = req[w].txn}) = req[w].amount]_splitVars
=============================================================================
