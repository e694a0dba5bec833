--------------------------- MODULE PlaidSyncProofs ---------------------------
(***************************************************************************)
(* Proofs about PlaidSync, for any number of items, accounts, transactions *)
(* and concurrent workers: type correctness, and that a saved cursor never *)
(* runs ahead of what has been stored.  The second part is about syncs     *)
(* that do not overlap, with any page size and crashes at any point: the   *)
(* synchronisation implements BankBook.  With more than one worker OneRow, *)
(* Mirror and CrashSurfaces are false.                                     *)
(***************************************************************************)
EXTENDS PlaidSync, FiniteSetTheorems, WellFoundedInduction, TLAPS

-----------------------------------------------------------------------------
(* The inductive invariant. *)

(* Entry i of item k's log asks nothing more of the tables. *)
Handled(k, i) ==
  bank[k][i].kind = "added" => Delivered(bank[k][i].txn)

(* Everything item k's log says up to n has been handled. *)
Covered(k, n) ==
  /\ n <= Len(bank[k])
  /\ \A i \in 1 .. n : Handled(k, i)

(* An item's log is about the transactions of its own accounts. *)
LogsApart ==
  \A k \in Items : \A i \in 1 .. Len(bank[k]) : Home(bank[k][i].txn) = k

(* The saved cursors, and the copies of them in the workers' memory, which a *)
(* worker may write back long after another has moved the saved one.         *)
CursorCovered == \A k \in Items : Covered(k, cursor[k])
MemCovered    == \A w \in Workers : \A k \in Items : Covered(k, mem[w][k].cursor)

(* The response being applied lies within the log, and what is not left of   *)
(* it has been handled.                                                      *)
PageInLog ==
  \A w \in Workers : pc[w] \in {"apply", "insert"} =>
    /\ resp[w].upto <= Len(bank[item[w]])
    /\ left[w] \subseteq 1 .. resp[w].upto

PageCovered ==
  \A w \in Workers : pc[w] \in {"apply", "insert"} =>
    \A i \in 1 .. resp[w].upto : i \notin left[w] => Handled(item[w], i)

IInv == TypeOK /\ LogsApart /\ CursorCovered /\ MemCovered /\ PageInLog /\ PageCovered

-----------------------------------------------------------------------------
(* Type correctness. *)

LEMMA AnyItemType == AnyItem \in Items
BY BankAssumption DEF AnyItem

LEMMA HomeType == \A t \in Txns : Home(t) \in Items
BY BankAssumption DEF Home

(* What the bank reports keeps every log a sequence of entries. *)
LEMMA ReportType ==
  ASSUME bank \in [Items -> Seq(Entry)], NEW t \in Txns, NEW kind \in Kinds,
         NEW v \in Versions, Report(t, kind, v)
  PROVE  bank' \in [Items -> Seq(Entry)]
<1>1. [kind |-> kind, txn |-> t, version |-> v] \in Entry
  BY DEF Entry
<1>2. Home(t) \in Items
  BY HomeType
<1>3. QED
  BY <1>1, <1>2 DEF Report

(* The versions a log mentions are versions. *)
LEMMA HistoryType ==
  ASSUME bank \in [Items -> Seq(Entry)], NEW t \in Txns
  PROVE  HistoryAt(t, BankLength(t)) \subseteq Versions
<1>1. bank[Home(t)] \in Seq(Entry)
  BY HomeType
<1>2. \A i \in 1 .. BankLength(t) : bank[Home(t)][i] \in Entry
  BY <1>1 DEF BankLength
<1>3. QED
  BY <1>2 DEF HistoryAt, MentionsOf, Entry

LEMMA BankType ==
  ASSUME bank \in [Items -> Seq(Entry)], BankNext
  PROVE  bank' \in [Items -> Seq(Entry)]
<1>1. PICK t \in Txns : BankAdds(t) \/ BankModifies(t) \/ BankRemoves(t)
  BY DEF BankNext
<1>2. CASE BankAdds(t)
  <2>1. 0 \in Versions /\ "added" \in Kinds
    BY BankAssumption DEF Versions, Kinds
  <2>2. QED
    BY <1>2, <2>1, ReportType DEF BankAdds
<1>3. CASE BankModifies(t)
  <2>1. PICK v \in HistoryAt(t, BankLength(t)) : v < MaxVersion /\ Report(t, "modified", v + 1)
    BY <1>3 DEF BankModifies
  <2>2. v + 1 \in Versions /\ "modified" \in Kinds
    BY <2>1, HistoryType, BankAssumption DEF Versions, Kinds
  <2>3. QED
    BY <2>1, <2>2, ReportType
<1>4. CASE BankRemoves(t)
  <2>1. 0 \in Versions /\ "removed" \in Kinds
    BY BankAssumption DEF Versions, Kinds
  <2>2. QED
    BY <1>4, <2>1, ReportType DEF BankRemoves
<1>5. QED
  BY <1>1, <1>2, <1>3, <1>4

LEMMA InitType == Init => TypeOK
BY AnyItemType, BankAssumption, SyncAssumption
   DEF Init, TypeOK, BankInit, NoCopy, Copy, NoResp, Status, PCs, Codes, Entry, Versions, Kinds

(* The local variables a run leaves behind have their types. *)
LEMMA LeaveType ==
  ASSUME TypeOK, NEW w \in Workers, Leave(w)
  PROVE  /\ pc' \in [Workers -> PCs]
         /\ loaded' \in [Workers -> SUBSET Items]
         /\ mem' \in [Workers -> [Items -> Copy]]
         /\ phase' \in [Workers -> {"transactions", "balances"}]
         /\ queue' \in [Workers -> SUBSET Items]
         /\ item' \in [Workers -> Items]
         /\ resp' \in [Workers -> [upto : Nat, more : BOOLEAN]]
         /\ left' \in [Workers -> SUBSET Nat]
         /\ code' \in [Workers -> Codes]
BY AnyItemType DEF TypeOK, Leave, NoCopy, NoResp, Copy, Status, Codes, PCs

LEMMA EnvironmentType ==
  ASSUME TypeOK, Bank \/ User
  PROVE  TypeOK'
<1>1. CASE Bank
  BY <1>1, BankType DEF Bank, TypeOK, dbVars, workerVars
<1>2. CASE User
  BY <1>2 DEF User, Archive, Unarchive, TypeOK, bankVars, workerVars
<1>3. QED
  BY <1>1, <1>2

(* The loop over the items. *)
LEMMA LoopType ==
  ASSUME TypeOK, NEW w \in Workers
  PROVE  /\ Trigger(w) => TypeOK'
         /\ (\E k \in Items : Reconnect(w, k)) => TypeOK'
         /\ Load(w) => TypeOK'
         /\ SyncsDone(w) => TypeOK'
         /\ RunDone(w) => TypeOK'
         /\ (\E k \in queue[w] : SkipFrozen(w, k) \/ StartItem(w, k)
                                  \/ ItemGone(w, k) \/ BalancesOk(w, k)) => TypeOK'
<1>1. Trigger(w) => TypeOK'
  BY DEF Trigger, TypeOK, PCs, bankVars, dbVars
<1>2. (\E k \in Items : Reconnect(w, k)) => TypeOK'
  BY DEF Reconnect, TypeOK, PCs, Status, bankVars
<1>3. Load(w) => TypeOK'
  BY DEF Load, TypeOK, PCs, Copy, bankVars, dbVars
<1>4. SyncsDone(w) => TypeOK'
  BY DEF SyncsDone, TypeOK, bankVars, dbVars
<1>5. RunDone(w) => TypeOK'
  BY LeaveType DEF RunDone, TypeOK, bankVars, dbVars
<1>6. ASSUME NEW k \in queue[w],
             SkipFrozen(w, k) \/ StartItem(w, k) \/ ItemGone(w, k) \/ BalancesOk(w, k)
      PROVE  TypeOK'
  <2>1. k \in Items
    BY DEF TypeOK
  <2>2. CASE SkipFrozen(w, k)
    BY <2>2 DEF SkipFrozen, TypeOK, bankVars, dbVars
  <2>3. CASE StartItem(w, k)
    BY <2>1, <2>3 DEF StartItem, TypeOK, PCs, bankVars, dbVars
  <2>4. CASE ItemGone(w, k)
    BY <2>4, LeaveType DEF ItemGone, TypeOK, bankVars, dbVars
  <2>5. CASE BalancesOk(w, k)
    BY <2>5 DEF BalancesOk, TypeOK, bankVars, dbVars
  <2>6. QED
    BY <1>6, <2>2, <2>3, <2>4, <2>5
<1>7. QED
  BY <1>1, <1>2, <1>3, <1>4, <1>5, <1>6

(* Applying one entry of a response that lies within the log. *)
LEMMA ApplyType ==
  ASSUME TypeOK, PageInLog, NEW w \in Workers, ApplyEntry(w)
  PROVE  TypeOK'
<1>1. PICK i \in left[w] : \/ PassOver(w, i) \/ Ignore(w, i) \/ Validate(w, i)
                          \/ Insert(w, i) \/ Modify(w, i) \/ Remove(w, i)
  BY DEF ApplyEntry
<1>2. pc[w] \in {"apply", "insert"}
  BY <1>1 DEF PassOver, Ignore, Validate, Insert, Modify, Remove
<1>3. EntryAt(w, i) \in Entry
  <2>1. i \in 1 .. Len(bank[item[w]])
    BY <1>2 DEF PageInLog, TypeOK
  <2>2. bank[item[w]] \in Seq(Entry)
    BY DEF TypeOK
  <2>3. QED
    BY <2>1, <2>2 DEF EntryAt
<1>4. CASE PassOver(w, i)
  BY <1>3, <1>4 DEF PassOver, Done, TypeOK, Entry, bankVars, dbVars
<1>5. CASE Ignore(w, i)
  BY <1>5 DEF Ignore, Done, TypeOK, bankVars, dbVars
<1>6. CASE Validate(w, i)
  BY <1>6 DEF Validate, TypeOK, PCs, bankVars, dbVars
<1>7. CASE Insert(w, i)
  <2>. DEFINE e   == EntryAt(w, i)
              new == [txn |-> e.txn, by |-> w, version |-> e.version]
  <2>1. new \in Row
    BY <1>3 DEF Entry, Row
  <2>2. rows' = rows \cup {new} /\ Done(w, i)
    BY <1>7 DEF Insert
  <2>. HIDE DEF new
  <2>3. rows' \subseteq Row /\ left' \in [Workers -> SUBSET Nat]
    BY <2>1, <2>2 DEF Done, TypeOK
  <2>4. QED
    BY <1>7, <2>3 DEF Insert, TypeOK, PCs, bankVars
<1>8. CASE Modify(w, i)
  <2>1. PICK r \in RowsOf(EntryAt(w, i).txn) :
          rows' = IF RowsOf(EntryAt(w, i).txn) = {r}
                    THEN (rows \ {r}) \cup {[r EXCEPT !.version = EntryAt(w, i).version]}
                    ELSE rows
    BY <1>8 DEF Modify
  <2>2. r \in Row
    BY DEF RowsOf, TypeOK
  <2>3. [r EXCEPT !.version = EntryAt(w, i).version] \in Row
    BY <1>3, <2>2 DEF Row, Entry
  <2>4. rows' \subseteq Row
    BY <2>1, <2>3 DEF TypeOK
  <2>5. QED
    BY <1>8, <2>4 DEF Modify, Done, TypeOK, bankVars
<1>9. CASE Remove(w, i)
  BY <1>9 DEF Remove, Done, TypeOK, bankVars
<1>10. QED
  BY <1>1, <1>4, <1>5, <1>6, <1>7, <1>8, <1>9

(* Fetching, saving the cursor, finishing and failing. *)
LEMMA PageType ==
  ASSUME TypeOK, NEW w \in Workers
  PROVE  /\ Fetch(w) => TypeOK'
         /\ SaveCursor(w) => TypeOK'
         /\ Finish(w) => TypeOK'
         /\ MarkError(w) => TypeOK'
         /\ Fault(w) => TypeOK'
<1>. DEFINE k == item[w]
<1>0. k \in Items /\ mem[w][k] \in Copy /\ Len(bank[k]) \in Nat
  BY DEF TypeOK
<1>1. Fetch(w) => TypeOK'
  <2>1. SUFFICES ASSUME Fetch(w) PROVE TypeOK'
    OBVIOUS
  <2>. DEFINE from == mem[w][k].cursor
              upto == IF from + PageSize < Len(bank[k]) THEN from + PageSize ELSE Len(bank[k])
  <2>2. from \in Nat /\ upto \in Nat /\ (from + 1) .. upto \subseteq Nat
    BY <1>0, SyncAssumption DEF Copy
  <2>3. resp' = [resp EXCEPT ![w] = [upto |-> upto, more |-> upto < Len(bank[k])]]
    BY <2>1 DEF Fetch
  <2>4. left' = [left EXCEPT ![w] = (from + 1) .. upto]
    BY <2>1 DEF Fetch
  <2>. HIDE DEF upto, from
  <2>5. resp' \in [Workers -> [upto : Nat, more : BOOLEAN]]
    BY <2>2, <2>3 DEF TypeOK
  <2>6. left' \in [Workers -> SUBSET Nat]
    BY <2>2, <2>4 DEF TypeOK
  <2>7. QED
    BY <2>1, <2>5, <2>6 DEF Fetch, TypeOK, PCs, bankVars, dbVars
<1>2. SaveCursor(w) => TypeOK'
  <2>1. SUFFICES ASSUME SaveCursor(w) PROVE TypeOK'
    OBVIOUS
  <2>2. resp[w].upto \in Nat
    BY DEF TypeOK
  <2>3. mem' \in [Workers -> [Items -> Copy]]
    BY <1>0, <2>1, <2>2 DEF SaveCursor, TypeOK, Copy
  <2>4. cursor' \in [Items -> Nat]
    BY <1>0, <2>1, <2>2 DEF SaveCursor, TypeOK
  <2>5. QED
    BY <2>1, <2>3, <2>4 DEF SaveCursor, TypeOK, PCs, NoResp, bankVars
<1>3. ASSUME NEW s \in Status, WriteStatus(w, s)
      PROVE  status' \in [Items -> Status] /\ mem' \in [Workers -> [Items -> Copy]]
  BY <1>0, <1>3 DEF WriteStatus, TypeOK, Copy
<1>4. Finish(w) => TypeOK'
  <2>1. "active" \in Status
    BY DEF Status
  <2>2. QED
    BY <1>3, <2>1 DEF Finish, TypeOK, PCs, bankVars
<1>5. MarkError(w) => TypeOK'
  <2>1. (IF code[w] = "REAUTH" THEN "login_required" ELSE "error") \in Status
    BY DEF Status
  <2>2. QED
    BY <1>3, <2>1 DEF MarkError, TypeOK, PCs, Codes, bankVars
<1>6. Fault(w) => TypeOK'
  <2>1. ASSUME FetchFails(w) PROVE TypeOK'
    <3>1. pc' \in [Workers -> PCs]
      BY <2>1 DEF FetchFails, TypeOK, PCs
    <3>2. code' \in [Workers -> Codes]
      BY <2>1 DEF FetchFails, TypeOK, Codes
    <3>3. faults' \in 0 .. MaxFaults
      BY <2>1, SyncAssumption DEF FetchFails, TypeOK
    <3>4. QED
      BY <2>1, <3>1, <3>2, <3>3 DEF FetchFails, TypeOK, bankVars, dbVars
  <2>2. Raise(w) => TypeOK'
    BY SyncAssumption DEF Raise, TypeOK, PCs, Codes, NoResp, bankVars, dbVars
  <2>3. Crash(w) => TypeOK'
    BY SMTT(30), LeaveType, SyncAssumption DEF Crash, TypeOK, bankVars, dbVars
  <2>4. ASSUME NEW q \in queue[w], NEW c \in {"REAUTH", "OTHER"}, BalancesFail(w, q, c)
        PROVE  TypeOK'
    <3>1. q \in Items /\ c \in Codes
      BY DEF TypeOK, Codes
    <3>2. QED
      BY <2>4, <3>1, SyncAssumption DEF BalancesFail, TypeOK, PCs, bankVars, dbVars
  <2>5. QED
    BY <2>1, <2>2, <2>3, <2>4 DEF Fault
<1>7. QED
  BY <1>1, <1>2, <1>4, <1>5, <1>6

LEMMA TypeStep ==
  ASSUME TypeOK, PageInLog, [Next]_vars
  PROVE  TypeOK'
<1>1. CASE Bank \/ User
  BY <1>1, EnvironmentType
<1>2. ASSUME NEW w \in Workers,
             Trigger(w) \/ Work(w) \/ Fault(w) \/ \E k \in Items : Reconnect(w, k)
      PROVE  TypeOK'
  BY <1>2, LoopType, ApplyType, PageType DEF Work
<1>3. CASE UNCHANGED vars
  BY <1>3 DEF vars, bankVars, dbVars, workerVars, TypeOK
<1>4. QED
  BY <1>1, <1>2, <1>3 DEF Next

-----------------------------------------------------------------------------
(* What has been handled stays handled. *)

(* The bank only appends, and keeps the logs apart. *)
LEMMA LogGrows ==
  ASSUME TypeOK, LogsApart, BankNext
  PROVE  /\ \A k \in Items : /\ Len(bank[k]) <= Len(bank'[k])
                            /\ \A i \in 1 .. Len(bank[k]) : bank'[k][i] = bank[k][i]
         /\ LogsApart'
<1>1. PICK t \in Txns, kind \in Kinds, v \in Nat : Report(t, kind, v)
  <2>1. PICK t \in Txns : BankAdds(t) \/ BankModifies(t) \/ BankRemoves(t)
    BY DEF BankNext
  <2>2. CASE BankAdds(t)
    BY <2>2 DEF BankAdds, Kinds
  <2>3. CASE BankModifies(t)
    <3>1. PICK v \in HistoryAt(t, BankLength(t)) : Report(t, "modified", v + 1)
      BY <2>3 DEF BankModifies
    <3>2. v + 1 \in Nat
      BY HistoryType DEF TypeOK, Versions
    <3>3. QED
      BY <3>1, <3>2 DEF Kinds
  <2>4. CASE BankRemoves(t)
    BY <2>4 DEF BankRemoves, Kinds
  <2>5. QED
    BY <2>1, <2>2, <2>3, <2>4
<1>. DEFINE new == [kind |-> kind, txn |-> t, version |-> v]
<1>2. Home(t) \in Items
  BY HomeType
<1>3. new.txn = t
  OBVIOUS
<1>4. bank' = [bank EXCEPT ![Home(t)] = Append(@, new)]
  BY <1>1 DEF Report
<1>. HIDE DEF new
<1>5. ASSUME NEW k \in Items
      PROVE  /\ Len(bank[k]) <= Len(bank'[k])
             /\ \A i \in 1 .. Len(bank[k]) : bank'[k][i] = bank[k][i]
             /\ \A i \in 1 .. Len(bank'[k]) : ItemOf[AcctOf[bank'[k][i].txn]] = k
  <2>1. bank[k] \in Seq(Entry)
    BY DEF TypeOK
  <2>2. CASE k = Home(t)
    <3>1. bank'[k] = Append(bank[k], new)
      BY <1>2, <1>4, <2>2 DEF TypeOK
    <3>2. /\ Len(bank'[k]) = Len(bank[k]) + 1
          /\ \A i \in 1 .. Len(bank[k]) : bank'[k][i] = bank[k][i]
          /\ bank'[k][Len(bank[k]) + 1] = new
      BY <2>1, <3>1
    <3>3. ASSUME NEW i \in 1 .. Len(bank'[k]) PROVE ItemOf[AcctOf[bank'[k][i].txn]] = k
      <4>1. CASE i = Len(bank[k]) + 1
        BY <1>3, <2>2, <3>2, <4>1 DEF Home
      <4>2. CASE i # Len(bank[k]) + 1
        BY <2>1, <3>2, <4>2 DEF LogsApart, Home
      <4>3. QED
        BY <4>1, <4>2
    <3>4. QED
      BY <2>1, <3>2, <3>3
  <2>3. CASE k # Home(t)
    BY <1>4, <2>1, <2>3 DEF TypeOK, LogsApart, Home
  <2>4. QED
    BY <2>2, <2>3
<1>6. \A k \in Items : \A i \in 1 .. Len(bank'[k]) : ItemOf[AcctOf[bank'[k][i].txn]] = k
  BY <1>5
<1>7. QED
  BY <1>5, <1>6 DEF LogsApart, Home

(* The entry a worker applies is in the log. *)
LEMMA TurnInLog ==
  ASSUME TypeOK, PageInLog, NEW w \in Workers, NEW i \in left[w],
         pc[w] \in {"apply", "insert"}
  PROVE  /\ item[w] \in Items
         /\ i \in 1 .. Len(bank[item[w]])
         /\ EntryAt(w, i) \in Entry
<1>1. item[w] \in Items /\ bank[item[w]] \in Seq(Entry)
  BY DEF TypeOK
<1>2. i \in 1 .. Len(bank[item[w]])
  BY <1>1 DEF PageInLog, TypeOK
<1>3. QED
  BY <1>1, <1>2 DEF EntryAt

(* A stored, removed or passed-over transaction stays one of these. *)
LEMMA DeliveredKept ==
  ASSUME TypeOK, LogsApart, PageInLog, [Next]_vars, NEW t \in Txns, Delivered(t)
  PROVE  Delivered(t)'
<1>1. CASE UNCHANGED <<bank, rows, passed>>
  BY <1>1 DEF Delivered, RowsOf, RemovedUpstream, MentionsOf, BankLength
<1>2. CASE Bank
  <2>1. BankNext /\ UNCHANGED <<rows, passed>>
    BY <1>2 DEF Bank, dbVars
  <2>2. RemovedUpstream(t) => RemovedUpstream(t)'
    <3>1. Home(t) \in Items
      BY HomeType
    <3>2. Len(bank[Home(t)]) \in Nat /\ Len(bank'[Home(t)]) \in Nat
      BY <2>1, <3>1, BankType DEF TypeOK
    <3>3. QED
      BY <2>1, <3>1, <3>2, LogGrows DEF RemovedUpstream, MentionsOf, BankLength
  <2>3. QED
    BY <2>1, <2>2 DEF Delivered, RowsOf
<1>3. ASSUME NEW w \in Workers, NEW i \in left[w],
             PassOver(w, i) \/ Insert(w, i) \/ Modify(w, i) \/ Remove(w, i)
      PROVE  Delivered(t)'
  <2>1. pc[w] \in {"apply", "insert"}
    BY <1>3 DEF PassOver, Insert, Modify, Remove
  <2>2. EntryAt(w, i) \in Entry /\ item[w] \in Items /\ i \in 1 .. Len(bank[item[w]])
    BY <2>1, TurnInLog
  <2>3. bank' = bank
    BY <1>3 DEF PassOver, Insert, Modify, Remove, bankVars
  <2>4. CASE PassOver(w, i)
    BY <2>3, <2>4 DEF PassOver, dbVars, Delivered, RowsOf, RemovedUpstream, MentionsOf, BankLength
  <2>5. CASE Insert(w, i)
    BY <2>3, <2>5 DEF Insert, Delivered, RowsOf, RemovedUpstream, MentionsOf, BankLength
  <2>6. CASE Modify(w, i)
    <3>1. PICK r \in RowsOf(EntryAt(w, i).txn) :
            rows' = IF RowsOf(EntryAt(w, i).txn) = {r}
                      THEN (rows \ {r}) \cup {[r EXCEPT !.version = EntryAt(w, i).version]}
                      ELSE rows
      BY <2>6 DEF Modify
    <3>2. r \in Row /\ r.txn = EntryAt(w, i).txn
      BY DEF RowsOf, TypeOK
    <3>3. [r EXCEPT !.version = EntryAt(w, i).version].txn = r.txn
      BY <3>2 DEF Row
    <3>4. RowsOf(t) # {} => RowsOf(t)' # {}
      <4>1. CASE t = r.txn
        BY <3>1, <3>2, <3>3, <4>1 DEF RowsOf
      <4>2. CASE t # r.txn
        BY <3>1, <4>2 DEF RowsOf
      <4>3. QED
        BY <4>1, <4>2
    <3>5. QED
      BY <2>3, <2>6, <3>4 DEF Modify, Delivered, RemovedUpstream, MentionsOf, BankLength
  <2>7. CASE Remove(w, i)
    <3>1. PICK r \in RowsOf(EntryAt(w, i).txn) : rows' = rows \ {r}
      BY <2>7 DEF Remove
    <3>2. CASE t = EntryAt(w, i).txn
      <4>1. Home(t) = item[w]
        BY <2>2, <3>2 DEF LogsApart, EntryAt
      <4>2. RemovedUpstream(t)
        BY <2>2, <2>7, <3>2, <4>1 DEF Remove, EntryAt, RemovedUpstream, MentionsOf, BankLength
      <4>3. QED
        BY <2>3, <4>2 DEF Delivered, RemovedUpstream, MentionsOf, BankLength
    <3>3. CASE t # EntryAt(w, i).txn
      BY <2>3, <2>7, <3>1, <3>3 DEF Remove, Delivered, RowsOf, RemovedUpstream, MentionsOf, BankLength
    <3>4. QED
      BY <3>2, <3>3
  <2>8. QED
    BY <1>3, <2>4, <2>5, <2>6, <2>7
<1>4. ASSUME NEW w \in Workers, NEW i \in left[w], Ignore(w, i) \/ Validate(w, i)
      PROVE  UNCHANGED <<bank, rows, passed>>
  BY <1>4 DEF Ignore, Validate, bankVars, dbVars
<1>5. ASSUME NEW w \in Workers, Work(w), ~ApplyEntry(w)
      PROVE  UNCHANGED <<bank, rows, passed>>
  BY <1>5 DEF Work, Load, SyncsDone, RunDone, SkipFrozen, StartItem, ItemGone, BalancesOk,
              Fetch, SaveCursor, Finish, MarkError, bankVars, dbVars
<1>6. ASSUME NEW w \in Workers, Fault(w) \/ Trigger(w) \/ \E k \in Items : Reconnect(w, k)
      PROVE  UNCHANGED <<bank, rows, passed>>
  BY <1>6 DEF Fault, FetchFails, Raise, Crash, BalancesFail, Trigger, Reconnect, bankVars, dbVars
<1>7. CASE User \/ UNCHANGED vars
  BY <1>1, <1>7 DEF User, Archive, Unarchive, vars, bankVars, dbVars
<1>8. QED
  BY <1>1, <1>2, <1>3, <1>4, <1>5, <1>6, <1>7 DEF Next, ApplyEntry

LEMMA LogStep ==
  ASSUME TypeOK, LogsApart, [Next]_vars
  PROVE  /\ \A k \in Items : /\ Len(bank[k]) \in Nat /\ Len(bank'[k]) \in Nat
                            /\ Len(bank[k]) <= Len(bank'[k])
                            /\ \A i \in 1 .. Len(bank[k]) : bank'[k][i] = bank[k][i]
         /\ LogsApart'
<1>1. bank \in [Items -> Seq(Entry)] /\ (BankNext \/ bank' = bank)
  <2>1. ASSUME NEW w \in Workers, ApplyEntry(w) PROVE bank' = bank
    BY <2>1 DEF ApplyEntry, PassOver, Ignore, Validate, Insert, Modify, Remove, bankVars
  <2>2. ASSUME NEW w \in Workers, Work(w), ~ApplyEntry(w) PROVE bank' = bank
    BY <2>2 DEF Work, Load, SyncsDone, RunDone, SkipFrozen, StartItem, ItemGone, BalancesOk,
                Fetch, SaveCursor, Finish, MarkError, bankVars
  <2>3. ASSUME NEW w \in Workers, Fault(w) \/ Trigger(w) \/ \E k \in Items : Reconnect(w, k)
        PROVE  bank' = bank
    BY <2>3 DEF Fault, FetchFails, Raise, Crash, BalancesFail, Trigger, Reconnect, bankVars
  <2>4. CASE User \/ UNCHANGED vars
    BY <2>4 DEF User, Archive, Unarchive, vars, bankVars, TypeOK
  <2>5. QED
    BY <2>1, <2>2, <2>3, <2>4 DEF Next, Bank, TypeOK
<1>2. bank' \in [Items -> Seq(Entry)]
  BY <1>1, BankType
<1>3. \A k \in Items : Len(bank[k]) \in Nat /\ Len(bank'[k]) \in Nat
  BY <1>1, <1>2
<1>4. CASE BankNext
  BY <1>3, <1>4, LogGrows
<1>5. CASE bank' = bank
  BY <1>3, <1>5 DEF LogsApart
<1>6. QED
  BY <1>1, <1>4, <1>5

LEMMA HandledKept ==
  ASSUME TypeOK, LogsApart, PageInLog, [Next]_vars,
         NEW k \in Items, NEW i \in 1 .. Len(bank[k]), Handled(k, i)
  PROVE  Handled(k, i)'
<1>1. bank[k][i] \in Entry /\ bank'[k][i] = bank[k][i]
  BY LogStep DEF TypeOK
<1>2. bank[k][i].txn \in Txns
  BY <1>1 DEF Entry
<1>3. SUFFICES ASSUME bank[k][i].kind = "added" PROVE Delivered(bank[k][i].txn)'
  BY <1>1 DEF Handled
<1>4. Delivered(bank[k][i].txn)
  BY <1>3 DEF Handled
<1>. DEFINE t == bank[k][i].txn
<1>5. \A u \in Txns : Delivered(u) => Delivered(u)'
  BY DeliveredKept
<1>6. QED
  BY <1>1, <1>2, <1>4, <1>5 DEF Delivered, RowsOf

LEMMA CoveredKept ==
  ASSUME TypeOK, LogsApart, PageInLog, [Next]_vars,
         NEW k \in Items, NEW n \in Nat, Covered(k, n)
  PROVE  Covered(k, n)'
<1>1. Len(bank[k]) \in Nat /\ Len(bank'[k]) \in Nat /\ Len(bank[k]) <= Len(bank'[k])
  BY LogStep
<1>2. n <= Len(bank'[k])
  BY <1>1 DEF Covered
<1>3. ASSUME NEW i \in 1 .. n PROVE Handled(k, i)'
  <2>1. i \in 1 .. Len(bank[k])
    BY <1>1 DEF Covered
  <2>2. QED
    BY <2>1, HandledKept DEF Covered
<1>4. QED
  BY <1>2, <1>3 DEF Covered

-----------------------------------------------------------------------------
(* The invariant is inductive. *)

LEMMA EmptyCover ==
  ASSUME TypeOK, NEW k \in Items
  PROVE  Covered(k, 0)
<1>1. Len(bank[k]) \in Nat
  BY DEF TypeOK
<1>2. QED
  BY <1>1 DEF Covered

(* The worker that leaves the rest of its response alone. *)
LEMMA PageKept ==
  ASSUME IInv, [Next]_vars, NEW w \in Workers,
         UNCHANGED <<pc[w], item[w], resp[w], left[w]>>,
         pc[w] \in {"apply", "insert"}
  PROVE  /\ resp'[w].upto <= Len(bank'[item'[w]])
         /\ left'[w] \subseteq 1 .. resp'[w].upto
         /\ \A i \in 1 .. resp'[w].upto : i \notin left'[w] => Handled(item[w], i)'
<1>. DEFINE k == item[w]
<1>1. /\ k \in Items /\ resp[w].upto \in Nat
      /\ resp[w].upto <= Len(bank[k]) /\ left[w] \subseteq 1 .. resp[w].upto
  BY DEF IInv, TypeOK, PageInLog
<1>2. Len(bank[k]) \in Nat /\ Len(bank'[k]) \in Nat /\ Len(bank[k]) <= Len(bank'[k])
  BY <1>1, LogStep DEF IInv
<1>3. ASSUME NEW i \in 1 .. resp[w].upto, i \notin left[w] PROVE Handled(k, i)'
  <2>1. i \in 1 .. Len(bank[k])
    BY <1>1, <1>2
  <2>2. Handled(k, i)
    BY <1>3 DEF IInv, PageCovered
  <2>3. QED
    BY <1>1, <2>1, <2>2, HandledKept DEF IInv
<1>4. QED
  BY <1>1, <1>2, <1>3

(* A cursor that is not written, and a copy of one that is not touched.      *)
LEMMA CursorKept ==
  ASSUME IInv, [Next]_vars, NEW k \in Items, cursor'[k] = cursor[k]
  PROVE  Covered(k, cursor[k])'
<1>1. Covered(k, cursor[k]) /\ cursor[k] \in Nat
  BY DEF IInv, TypeOK, CursorCovered
<1>2. QED
  BY <1>1, CoveredKept DEF IInv

LEMMA MemKept ==
  ASSUME IInv, [Next]_vars, NEW w \in Workers, NEW k \in Items,
         mem'[w][k].cursor = mem[w][k].cursor
  PROVE  Covered(k, mem[w][k].cursor)'
<1>1. PICK n \in Nat : n = mem[w][k].cursor
  BY DEF IInv, TypeOK, Copy
<1>2. Covered(k, n)
  BY <1>1 DEF IInv, MemCovered
<1>3. Covered(k, n)'
  BY <1>2, CoveredKept DEF IInv
<1>4. QED
  BY <1>1, <1>3

(* A worker that is not applying a response after the step owes nothing.     *)
LEMMA PagesKept ==
  ASSUME IInv, [Next]_vars, NEW w \in Workers,
         \A v \in Workers : v # w => UNCHANGED <<pc[v], item[v], resp[v], left[v]>>,
         pc'[w] \notin {"apply", "insert"} \/ UNCHANGED <<pc[w], item[w], resp[w], left[w]>>
  PROVE  PageInLog' /\ PageCovered'
<1>1. ASSUME NEW v \in Workers, pc'[v] \in {"apply", "insert"}
      PROVE  UNCHANGED <<pc[v], item[v], resp[v], left[v]>>
  BY <1>1
<1>2. QED
  BY <1>1, PageKept DEF PageInLog, PageCovered

(* Fetch and SaveCursor; the item and the positions are named as constants,  *)
(* so that they mean the same before and after the step.                     *)
LEMMA FetchStep ==
  ASSUME IInv, [Next]_vars, NEW w \in Workers, Fetch(w)
  PROVE  CursorCovered' /\ MemCovered' /\ PageInLog' /\ PageCovered'
<1>1. PICK k \in Items : k = item[w]
  BY DEF IInv, TypeOK
<1>2. PICK from \in Nat : from = mem[w][k].cursor
  BY DEF IInv, TypeOK, Copy
<1>3. Len(bank[k]) \in Nat
  BY DEF IInv, TypeOK
<1>4. PICK upto \in Nat :
        upto = IF from + PageSize < Len(bank[k]) THEN from + PageSize ELSE Len(bank[k])
  BY <1>3, SyncAssumption
<1>5. upto <= Len(bank[k])
  BY <1>3, <1>4, SyncAssumption
<1>6. resp'[w].upto = upto /\ left'[w] = (from + 1) .. upto /\ item' = item
  BY <1>1, <1>2, <1>4 DEF Fetch, IInv, TypeOK
<1>7. UNCHANGED <<bank, rows, passed, cursor, mem, item>>
  BY DEF Fetch, bankVars, dbVars
<1>8. CursorCovered' /\ MemCovered'
  BY <1>7, CursorKept, MemKept DEF CursorCovered, MemCovered
<1>9. ASSUME NEW i \in 1 .. upto, i \notin (from + 1) .. upto PROVE Handled(k, i)'
  <2>1. i \in 1 .. from /\ i \in 1 .. Len(bank[k])
    BY <1>3, <1>5, <1>9
  <2>2. Handled(k, i)
    BY <1>2, <2>1 DEF IInv, MemCovered, Covered
  <2>3. QED
    BY <2>1, <2>2, HandledKept DEF IInv
<1>10. \A v \in Workers : v # w => UNCHANGED <<pc[v], item[v], resp[v], left[v]>>
  BY DEF Fetch, IInv, TypeOK
<1>11. PageInLog'
  <2>1. (from + 1) .. upto \subseteq 1 .. upto
    OBVIOUS
  <2>2. QED
    BY <1>1, <1>5, <1>6, <1>7, <1>10, <2>1, PageKept DEF PageInLog
<1>12. PageCovered'
  <2>1. SUFFICES ASSUME NEW v \in Workers, pc'[v] \in {"apply", "insert"},
                        NEW i \in 1 .. resp'[v].upto, i \notin left'[v]
                 PROVE  Handled(item[v], i)'
    BY DEF PageCovered
  <2>2. CASE v = w
    BY <1>1, <1>6, <1>9, <2>1, <2>2 DEF Handled, Delivered, RowsOf
  <2>3. CASE v # w
    BY <1>10, <2>1, <2>3, PageKept
  <2>4. QED
    BY <2>2, <2>3
<1>13. QED
  BY <1>8, <1>11, <1>12

LEMMA SaveStep ==
  ASSUME IInv, [Next]_vars, NEW w \in Workers, SaveCursor(w)
  PROVE  CursorCovered' /\ MemCovered' /\ PageInLog' /\ PageCovered'
<1>1. PICK k \in Items : k = item[w]
  BY DEF IInv, TypeOK
<1>2. PICK n \in Nat : n = resp[w].upto
  BY DEF IInv, TypeOK
<1>3. Covered(k, n)
  BY <1>1, <1>2 DEF SaveCursor, IInv, PageInLog, PageCovered, Covered
<1>4. Covered(k, n)'
  BY <1>3, CoveredKept DEF IInv
<1>5. CursorCovered'
  <2>1. SUFFICES ASSUME NEW j \in Items PROVE Covered(j, cursor[j])'
    BY DEF CursorCovered
  <2>2. CASE j = k /\ cursor'[j] = n
    BY <1>4, <2>2
  <2>3. CASE cursor'[j] = cursor[j]
    BY <2>3, CursorKept
  <2>4. QED
    BY <1>1, <1>2, <2>2, <2>3 DEF SaveCursor, IInv, TypeOK
<1>6. MemCovered'
  <2>1. SUFFICES ASSUME NEW v \in Workers, NEW j \in Items PROVE Covered(j, mem[v][j].cursor)'
    BY DEF MemCovered
  <2>2. CASE v = w /\ j = k
    <3>1. mem'[v][j].cursor = n
      BY <1>1, <1>2, <2>2 DEF SaveCursor, IInv, TypeOK, Copy
    <3>2. QED
      BY <1>4, <2>2, <3>1
  <2>3. CASE v # w \/ j # k
    <3>1. mem'[v][j].cursor = mem[v][j].cursor
      BY <1>1, <2>3 DEF SaveCursor, IInv, TypeOK, Copy
    <3>2. QED
      BY <3>1, MemKept
  <2>4. QED
    BY <2>2, <2>3
<1>7. PageInLog' /\ PageCovered'
  <2>1. pc'[w] \notin {"apply", "insert"}
    BY DEF SaveCursor, IInv, TypeOK
  <2>2. \A v \in Workers : v # w => UNCHANGED <<pc[v], item[v], resp[v], left[v]>>
    BY DEF SaveCursor, IInv, TypeOK
  <2>3. QED
    BY <2>1, <2>2, PagesKept
<1>8. QED
  BY <1>5, <1>6, <1>7

(* Applying an entry: the entry taken off the response has been handled. *)
LEMMA ApplyStep ==
  ASSUME IInv, [Next]_vars, NEW w \in Workers, ApplyEntry(w)
  PROVE  CursorCovered' /\ MemCovered' /\ PageInLog' /\ PageCovered'
<1>1. PICK i \in left[w] : \/ PassOver(w, i) \/ Ignore(w, i) \/ Validate(w, i)
                          \/ Insert(w, i) \/ Modify(w, i) \/ Remove(w, i)
  BY DEF ApplyEntry
<1>2. pc[w] \in {"apply", "insert"} /\ pc'[w] \in {"apply", "insert"}
  BY <1>1 DEF PassOver, Ignore, Validate, Insert, Modify, Remove, IInv, TypeOK
<1>3. UNCHANGED <<bank, cursor, mem, item, resp>>
  BY <1>1 DEF PassOver, Ignore, Validate, Insert, Modify, Remove, bankVars, dbVars
<1>4. CursorCovered' /\ MemCovered'
  BY <1>3, CursorKept, MemKept DEF CursorCovered, MemCovered
<1>5. PICK k \in Items : k = item[w]
  BY DEF IInv, TypeOK
<1>6. i \in 1 .. Len(bank[k]) /\ EntryAt(w, i) \in Entry /\ EntryAt(w, i) = bank[k][i]
  BY <1>2, <1>5, TurnInLog DEF IInv, EntryAt
<1>7. left'[w] = left[w] \/ (left'[w] = left[w] \ {i} /\ Handled(k, i)')
  <2>. DEFINE t == bank[k][i].txn
  <2>1. bank'[k][i] = bank[k][i]
    BY <1>3
  <2>2. CASE Validate(w, i)
    BY <2>2 DEF Validate
  <2>3. CASE PassOver(w, i)
    BY <1>6, <2>1, <2>3 DEF PassOver, Done, Handled, Delivered, IInv, TypeOK
  <2>4. CASE Ignore(w, i)
    BY <1>6, <2>1, <2>4 DEF Ignore, Done, Handled, Delivered, RowsOf, IInv, TypeOK, dbVars
  <2>5. CASE Insert(w, i)
    <3>. DEFINE new == [txn |-> EntryAt(w, i).txn, by |-> w, version |-> EntryAt(w, i).version]
    <3>1. new \in rows' /\ new.txn = t
      BY <1>6, <2>5 DEF Insert
    <3>. HIDE DEF new
    <3>2. Handled(k, i)'
      BY <2>1, <3>1 DEF Handled, Delivered, RowsOf
    <3>3. QED
      BY <2>5, <3>2 DEF Insert, Done, IInv, TypeOK
  <2>6. CASE Modify(w, i) \/ Remove(w, i)
    BY <1>6, <2>1, <2>6 DEF Modify, Remove, Done, Handled, IInv, TypeOK
  <2>7. QED
    BY <1>1, <2>2, <2>3, <2>4, <2>5, <2>6
<1>8. \A v \in Workers : v # w => UNCHANGED <<pc[v], item[v], resp[v], left[v]>>
  BY <1>1 DEF PassOver, Ignore, Validate, Insert, Modify, Remove, Done, IInv, TypeOK
<1>9. PageInLog'
  <2>1. left'[w] \subseteq left[w]
    BY <1>7
  <2>2. QED
    BY <1>2, <1>3, <1>8, <2>1, PageKept DEF PageInLog, IInv
<1>10. PageCovered'
  <2>1. SUFFICES ASSUME NEW v \in Workers, pc'[v] \in {"apply", "insert"},
                        NEW j \in 1 .. resp'[v].upto, j \notin left'[v]
                 PROVE  Handled(item[v], j)'
    BY DEF PageCovered
  <2>2. CASE v # w
    BY <1>8, <2>1, <2>2, PageKept
  <2>3. CASE v = w /\ j = i /\ left'[w] # left[w]
    BY <1>3, <1>5, <1>7, <2>3
  <2>4. CASE v = w /\ j \notin left[w]
    <3>1. j \in 1 .. Len(bank[k])
      BY <1>2, <1>3, <1>5, <2>1, <2>4 DEF IInv, PageInLog, TypeOK
    <3>2. Handled(k, j)
      BY <1>2, <1>3, <1>5, <2>1, <2>4 DEF IInv, PageCovered
    <3>3. Handled(k, j)'
      BY <3>1, <3>2, HandledKept DEF IInv
    <3>4. QED
      BY <1>3, <1>5, <2>4, <3>3
  <2>5. QED
    BY <1>7, <2>1, <2>2, <2>3, <2>4
<1>11. QED
  BY <1>4, <1>9, <1>10

(* The steps of a worker that apply nothing and save no cursor. *)
LEMMA OtherStep ==
  ASSUME IInv, [Next]_vars, NEW w \in Workers,
         \/ Trigger(w) \/ Fault(w) \/ (\E k \in Items : Reconnect(w, k))
         \/ Work(w) /\ ~Fetch(w) /\ ~SaveCursor(w) /\ ~ApplyEntry(w)
  PROVE  CursorCovered' /\ MemCovered' /\ PageInLog' /\ PageCovered'
<1>1. /\ cursor' = cursor
      /\ pc'[w] \notin {"apply", "insert"}
      /\ \A v \in Workers : v # w => UNCHANGED <<pc[v], item[v], resp[v], left[v]>>
  <2>1. CASE Trigger(w) \/ \E k \in Items : Reconnect(w, k)
    BY <2>1 DEF Trigger, Reconnect, dbVars, IInv, TypeOK
  <2>2. CASE Fault(w)
    BY <2>2 DEF Fault, FetchFails, Raise, Crash, BalancesFail, Leave, dbVars, IInv, TypeOK
  <2>3. CASE Load(w) \/ SyncsDone(w) \/ RunDone(w) \/ Finish(w) \/ MarkError(w)
    BY <2>3 DEF Load, SyncsDone, RunDone, Finish, MarkError, Leave, dbVars, IInv, TypeOK
  <2>4. CASE \E k \in queue[w] : SkipFrozen(w, k) \/ StartItem(w, k)
                                 \/ ItemGone(w, k) \/ BalancesOk(w, k)
    BY <2>4 DEF SkipFrozen, StartItem, ItemGone, BalancesOk, Leave, dbVars, IInv, TypeOK
  <2>5. QED
    BY <2>1, <2>2, <2>3, <2>4 DEF Work
<1>2. CursorCovered'
  BY <1>1, CursorKept DEF CursorCovered
<1>3. MemCovered'
  <2>1. SUFFICES ASSUME NEW v \in Workers, NEW k \in Items
                 PROVE  Covered(k, mem[v][k].cursor)'
    BY DEF MemCovered
  <2>2. mem'[v][k].cursor \in {mem[v][k].cursor, cursor[k], 0}
    <3>1. CASE Trigger(w) \/ \E q \in Items : Reconnect(w, q)
      BY <3>1 DEF Trigger, Reconnect
    <3>2. CASE mem' = mem
      BY <3>2
    <3>3. CASE mem' = [mem EXCEPT ![w] = NoCopy]
      BY <3>3 DEF NoCopy, IInv, TypeOK
    <3>4. CASE Load(w)
      BY <3>4 DEF Load, IInv, TypeOK
    <3>5. ASSUME NEW s \in Status, WriteStatus(w, s)
          PROVE  mem'[v][k].cursor = mem[v][k].cursor
      <4>1. mem' = [mem EXCEPT ![w][item[w]].status = s]
        BY <3>5 DEF WriteStatus
      <4>2. mem[v][k] \in Copy
        BY DEF IInv, TypeOK
      <4>3. QED
        BY <4>1, <4>2 DEF Copy, IInv, TypeOK
    <3>6. CASE Finish(w) \/ MarkError(w)
      BY <3>5, <3>6 DEF Finish, MarkError, Status
    <3>7. CASE Fault(w)
      BY <3>2, <3>3, <3>7 DEF Fault, FetchFails, Raise, Crash, BalancesFail, Leave
    <3>8. CASE SyncsDone(w) \/ RunDone(w)
      BY <3>2, <3>3, <3>8 DEF SyncsDone, RunDone, Leave
    <3>9. CASE \E q \in queue[w] : SkipFrozen(w, q) \/ StartItem(w, q)
                                   \/ ItemGone(w, q) \/ BalancesOk(w, q)
      BY <3>2, <3>3, <3>9 DEF SkipFrozen, StartItem, ItemGone, BalancesOk, Leave
    <3>10. QED
      BY <3>1, <3>4, <3>6, <3>7, <3>8, <3>9 DEF Work
  <2>3. CASE mem'[v][k].cursor = mem[v][k].cursor
    BY <2>3, MemKept
  <2>4. CASE mem'[v][k].cursor = cursor[k]
    <3>1. Covered(k, cursor[k])'
      BY <1>1, CursorKept
    <3>2. QED
      BY <1>1, <2>4, <3>1
  <2>5. CASE mem'[v][k].cursor = 0
    <3>1. Covered(k, 0)'
      BY EmptyCover, CoveredKept DEF IInv
    <3>2. QED
      BY <2>5, <3>1
  <2>6. QED
    BY <2>2, <2>3, <2>4, <2>5
<1>4. PageInLog' /\ PageCovered'
  BY <1>1, PagesKept
<1>5. QED
  BY <1>2, <1>3, <1>4

LEMMA InvInit == Init => IInv
<1>. SUFFICES ASSUME Init PROVE IInv
  OBVIOUS
<1>2. TypeOK
  BY InitType
<1>3. LogsApart
  BY DEF Init, BankInit, LogsApart
<1>4. CursorCovered /\ MemCovered
  BY <1>2, EmptyCover DEF Init, NoCopy, CursorCovered, MemCovered
<1>5. PageInLog /\ PageCovered
  BY DEF Init, PageInLog, PageCovered
<1>6. QED
  BY <1>2, <1>3, <1>4, <1>5 DEF IInv

LEMMA InvStep == IInv /\ [Next]_vars => IInv'
<1>. SUFFICES ASSUME IInv, [Next]_vars PROVE IInv'
  OBVIOUS
<1>2. TypeOK'
  BY TypeStep DEF IInv
<1>3. LogsApart'
  BY LogStep DEF IInv
<1>4. CursorCovered' /\ MemCovered' /\ PageInLog' /\ PageCovered'
  <2>1. CASE Bank \/ User \/ UNCHANGED vars
    <3>1. UNCHANGED <<cursor, mem, pc, item, resp, left>>
      BY <2>1 DEF Bank, User, Archive, Unarchive, dbVars, workerVars, vars
    <3>2. CursorCovered' /\ MemCovered'
      BY <3>1, CursorKept, MemKept DEF CursorCovered, MemCovered
    <3>3. PageInLog' /\ PageCovered'
      BY <3>1, PageKept DEF PageInLog, PageCovered
    <3>4. QED
      BY <3>2, <3>3
  <2>2. ASSUME NEW w \in Workers,
               Trigger(w) \/ Work(w) \/ Fault(w) \/ \E k \in Items : Reconnect(w, k)
        PROVE  CursorCovered' /\ MemCovered' /\ PageInLog' /\ PageCovered'
    BY <2>2, FetchStep, SaveStep, ApplyStep, OtherStep
  <2>3. QED
    BY <2>1, <2>2 DEF Next
<1>5. QED
  BY <1>2, <1>3, <1>4 DEF IInv

(* The invariant says what NoGap says, transaction by transaction. *)
LEMMA InvNoGap == IInv => NoGap
<1>. SUFFICES ASSUME IInv, NEW t \in Txns, NEW i \in MentionsOf(t, cursor[Home(t)]),
                      bank[Home(t)][i].kind = "added"
               PROVE  Delivered(t)
  BY DEF NoGap
<1>2. Home(t) \in Items
  BY HomeType
<1>3. Handled(Home(t), i)
  BY <1>2 DEF IInv, CursorCovered, Covered, MentionsOf
<1>4. QED
  BY <1>3 DEF Handled, MentionsOf

-----------------------------------------------------------------------------
(* The state of every table, worker and log stays of its type, whatever the  *)
(* number of concurrent syncs.                                               *)
THEOREM TypeCorrect == Spec => []TypeOK
<1>1. IInv => TypeOK
  BY DEF IInv
<1>2. QED
  BY <1>1, InvInit, InvStep, PTL DEF Spec

(* No gap: the cursor an item is saved with never runs ahead of what has     *)
(* been stored, for any number of concurrent syncs, crashes and replays.     *)
THEOREM CursorNeverLeavesAGap == Spec => []NoGap
BY InvInit, InvStep, InvNoGap, PTL DEF Spec

-----------------------------------------------------------------------------
(* While the user leaves the accounts alone during syncs, the item being     *)
(* synchronised is never one whose accounts are all archived.                *)
NoneFrozen ==
  \A w \in Workers : pc[w] \in {"fetch", "apply", "insert"} => ~Frozen(item[w])

(* Saving a cursor apart, no step of a worker moves one. *)
LEMMA CursorMoves ==
  ASSUME NEW w \in Workers,
         Trigger(w) \/ Work(w) \/ Fault(w) \/ (\E k \in Items : Reconnect(w, k)),
         cursor' # cursor
  PROVE  SaveCursor(w)
<1>1. ~Trigger(w) /\ ~(\E k \in Items : Reconnect(w, k)) /\ ~Fault(w)
  BY DEF Trigger, Reconnect, Fault, FetchFails, Raise, Crash, BalancesFail, dbVars
<1>2. ~ApplyEntry(w)
  BY DEF ApplyEntry, PassOver, Ignore, Validate, Insert, Modify, Remove, dbVars
<1>3. QED
  BY <1>1, <1>2 DEF Work, Load, SyncsDone, RunDone, SkipFrozen, StartItem, ItemGone, BalancesOk,
                    Fetch, Finish, MarkError, dbVars

LEMMA NoneFrozenStep ==
  ASSUME TypeOK, NoneFrozen, [QuietNext]_vars
  PROVE  NoneFrozen'
<1>1. CASE Bank \/ UNCHANGED vars
  BY <1>1 DEF Bank, vars, dbVars, workerVars, NoneFrozen, Frozen, AccountsOf
<1>2. CASE User /\ QuietNext
  <2>1. archived' # archived /\ pc' = pc
    BY <1>2 DEF User, Archive, Unarchive, workerVars
  <2>2. QED
    BY <1>2, <2>1 DEF QuietNext, NoneFrozen
<1>3. ASSUME NEW w \in Workers,
             Trigger(w) \/ Work(w) \/ Fault(w) \/ \E k \in Items : Reconnect(w, k)
      PROVE  NoneFrozen'
  <2>. DEFINE Syncing(v) == pc[v] \in {"fetch", "apply", "insert"}
  <2>1. /\ UNCHANGED <<accounts, archived>>
        /\ \A v \in Workers : v # w => UNCHANGED <<pc[v], item[v]>>
        /\ Syncing(w)' => \/ Syncing(w) /\ item'[w] = item[w]
                          \/ ~Frozen(item'[w])
    <3>1. CASE Trigger(w) \/ \E k \in Items : Reconnect(w, k)
      BY <3>1 DEF Trigger, Reconnect, dbVars, TypeOK
    <3>2. CASE Fault(w)
      BY <3>2 DEF Fault, FetchFails, Raise, Crash, BalancesFail, Leave, dbVars, TypeOK
    <3>3. CASE Load(w) \/ SyncsDone(w) \/ RunDone(w) \/ Finish(w) \/ MarkError(w)
      BY <3>3 DEF Load, SyncsDone, RunDone, Finish, MarkError, Leave, dbVars, TypeOK
    <3>4. CASE Fetch(w) \/ SaveCursor(w)
      BY <3>4 DEF Fetch, SaveCursor, dbVars, TypeOK
    <3>5. CASE ApplyEntry(w)
      BY <3>5 DEF ApplyEntry, PassOver, Ignore, Validate, Insert, Modify, Remove, dbVars, TypeOK
    <3>6. CASE \E k \in queue[w] : SkipFrozen(w, k) \/ ItemGone(w, k) \/ BalancesOk(w, k)
      BY <3>6 DEF SkipFrozen, ItemGone, BalancesOk, Leave, dbVars, TypeOK
    <3>7. CASE \E k \in queue[w] : StartItem(w, k)
      BY <3>7 DEF StartItem, dbVars, TypeOK
    <3>8. QED
      BY <1>3, <3>1, <3>2, <3>3, <3>4, <3>5, <3>6, <3>7 DEF Work
  <2>2. \A k : Frozen(k)' <=> Frozen(k)
    BY <2>1 DEF Frozen, AccountsOf
  <2>3. QED
    BY <2>1, <2>2 DEF NoneFrozen
<1>4. QED
  BY <1>1, <1>2, <1>3 DEF QuietNext, Next

(* The cursor of an item whose accounts are all archived stays where it is,  *)
(* for any number of concurrent syncs, as long as accounts are archived and  *)
(* unarchived only in between.                                               *)
THEOREM FrozenCursorStays == QuietSpec => CursorFrozen
<1>1. Init => IInv /\ NoneFrozen
  BY InvInit DEF Init, NoneFrozen
<1>2. [QuietNext]_vars => [Next]_vars
  BY DEF QuietNext
<1>3. IInv /\ NoneFrozen /\ [QuietNext]_vars => (IInv /\ NoneFrozen)'
  BY <1>2, InvStep, NoneFrozenStep DEF IInv
<1>4. IInv /\ NoneFrozen /\ [QuietNext]_vars =>
        [\A k \in Items : Frozen(k) => cursor'[k] = cursor[k]]_vars
  <2>1. SUFFICES ASSUME IInv, NoneFrozen, QuietNext, NEW k \in Items, Frozen(k)
                 PROVE  cursor'[k] = cursor[k]
    OBVIOUS
  <2>2. CASE Bank \/ User
    BY <2>2 DEF Bank, User, Archive, Unarchive, dbVars
  <2>3. ASSUME NEW w \in Workers,
               Trigger(w) \/ Work(w) \/ Fault(w) \/ \E q \in Items : Reconnect(w, q)
        PROVE  cursor'[k] = cursor[k]
    <3>1. CASE SaveCursor(w)
      BY <2>1, <3>1 DEF SaveCursor, NoneFrozen, IInv, TypeOK
    <3>2. QED
      BY <2>3, <3>1, CursorMoves
  <2>4. QED
    BY <2>1, <2>2, <2>3 DEF QuietNext, Next
<1>5. QED
  BY <1>1, <1>3, <1>4, PTL DEF QuietSpec, CursorFrozen

-----------------------------------------------------------------------------
(* One sync at a time: no two syncs overlap. *)
OneWorker == \A v, w \in Workers : v = w

-----------------------------------------------------------------------------
(* The inductive invariant. *)

(* The bank adds a transaction first, and mentions it no more once it has    *)
(* removed it.                                                               *)
LogShape ==
  \A k \in Items : \A j \in 1 .. Len(bank[k]) :
    /\ \A i \in 1 .. j - 1 : bank[k][i].txn = bank[k][j].txn =>
         bank[k][i].kind # "removed" /\ bank[k][j].kind # "added"
    /\ bank[k][j].kind # "added" =>
         \E i \in 1 .. j - 1 : bank[k][i].txn = bank[k][j].txn /\ bank[k][i].kind = "added"

(* What the worker remembers of an item is what the table says. *)
MemCurrent ==
  \A w \in Workers : pc[w] \notin {"idle", "begin"} =>
    \A k \in Items : mem[w][k].cursor = cursor[k] /\ mem[w][k].status = status[k]

Paging(w) == pc[w] \in {"apply", "insert"}

(* The response continues the saved cursor. *)
PageAhead ==
  \A w \in Workers : Paging(w) =>
    /\ cursor[item[w]] <= resp[w].upto
    /\ left[w] \subseteq cursor[item[w]] + 1 .. resp[w].upto

(* What has been applied of a transaction comes before what is left of it:   *)
(* the order added, modified, removed is the order of its entries in the log. *)
PageInOrder ==
  \A w \in Workers : Paging(w) =>
    \A i \in left[w] : \A j \in 1 .. resp[w].upto :
      j \notin left[w] /\ EntryAt(w, i).txn = EntryAt(w, j).txn => j < i

(* Nothing has come between the uniqueness validation and the INSERT. *)
InsertPending ==
  \A w \in Workers : pc[w] = "insert" =>
    \A i \in left[w] : Turn(w, i) =>
      EntryAt(w, i).kind = "added" /\ RowsOf(EntryAt(w, i).txn) = {}

RowsSingle == \A r, s \in rows : r.txn = s.txn => r = s

(* The versions stored of a transaction, what the Book sees of the rows. *)
Shown(t) == {r.version : r \in RowsOf(t)}

(* Nothing applied so far of the response about t lies beyond n. *)
AppliedUpTo(t, n) ==
  \A w \in Workers : Paging(w) /\ item[w] = Home(t) =>
    \A j \in 1 .. resp[w].upto :
      j \notin left[w] /\ bank[Home(t)][j].txn = t => j <= n

Reflects(t, n) == Shown(t) = HistoryAt(t, n) /\ AppliedUpTo(t, n)

BookMirrors ==
  \A t \in Txns \ passed : \E n \in cursor[Home(t)] .. BankLength(t) : Reflects(t, n)

PageInv == MemCurrent /\ PageAhead /\ PageInOrder /\ InsertPending
RowInv  == RowsSingle /\ BookMirrors
BookInv == IInv /\ LogShape /\ PageInv /\ RowInv

-----------------------------------------------------------------------------
(* The histories of a log. *)

(* A nonempty set of positions has a last one. *)
LEMMA LastPosition ==
  ASSUME NEW n \in Nat, NEW S \in SUBSET (1 .. n), S # {}
  PROVE  \E m \in S : \A j \in S : j <= m
<1>. DEFINE T == {d \in Nat : n - d \in S}
<1>1. T \subseteq Nat
  OBVIOUS
<1>2. \A j \in S : n - j \in Nat /\ n - (n - j) = j
  OBVIOUS
<1>3. T # {}
  BY <1>2, Zenon
<1>4. \A j \in S : n - j \in T
  BY <1>2
<1>5. \A d \in T : d \in Nat /\ n - d \in S
  OBVIOUS
<1>. HIDE DEF T
<1>6. PICK d \in T : \A y \in T : ~(<<y, d>> \in OpToRel(<, Nat))
  BY <1>1, <1>3, NatLessThanWellFounded, WFMin
<1>7. \A y \in T : ~(y < d)
  BY <1>1, <1>6 DEF OpToRel
<1>8. ASSUME NEW j \in S PROVE j <= n - d
  <2>1. j \in 1 .. n /\ n - j \in Nat /\ ~(n - j < d) /\ d \in Nat
    BY <1>4, <1>5, <1>7
  <2>2. QED
    BY <2>1
<1>9. QED
  BY <1>5, <1>8

(* Right after an entry about t, its history is what that entry says. *)
LEMMA HistoryAtEntry ==
  ASSUME NEW t \in Txns, NEW i \in Nat, i # 0, bank[Home(t)][i].txn = t
  PROVE  HistoryAt(t, i) = IF bank[Home(t)][i].kind = "removed" THEN {}
                                                                ELSE {bank[Home(t)][i].version}
<1>1. i \in MentionsOf(t, i) /\ \A j \in MentionsOf(t, i) : j \in Nat /\ j <= i
  BY DEF MentionsOf
<1>2. \A j \in MentionsOf(t, i) : (\A m \in MentionsOf(t, i) : m <= j) => j = i
  BY <1>1
<1>3. QED
  BY <1>1, <1>2 DEF HistoryAt

(* Entries about other transactions leave a history alone. *)
LEMMA HistorySame ==
  ASSUME NEW t \in Txns, NEW n \in Nat, NEW m \in Nat, n <= m,
         \A j \in n + 1 .. m : bank[Home(t)][j].txn # t
  PROVE  HistoryAt(t, m) = HistoryAt(t, n)
<1>1. MentionsOf(t, m) = MentionsOf(t, n)
  BY DEF MentionsOf
<1>2. QED
  BY <1>1 DEF HistoryAt

(* A transaction that exists has been mentioned. *)
LEMMA HistoryMentions ==
  ASSUME NEW t \in Txns, NEW n \in Nat, HistoryAt(t, n) # {}
  PROVE  \E j \in 1 .. n : /\ bank[Home(t)][j].txn = t
                           /\ bank[Home(t)][j].kind # "removed"
                           /\ \A i \in 1 .. n : bank[Home(t)][i].txn = t => i <= j
BY DEF HistoryAt, MentionsOf

(* A transaction that was mentioned and is gone is mentioned no more. *)
LEMMA HistoryEnds ==
  ASSUME LogShape, NEW t \in Txns, NEW n \in Nat, HistoryAt(t, n) = {},
         NEW a \in 1 .. n, bank[Home(t)][a].txn = t,
         n <= Len(bank[Home(t)]), Len(bank[Home(t)]) \in Nat,
         NEW i \in 1 .. Len(bank[Home(t)]), bank[Home(t)][i].txn = t
  PROVE  i <= n
<1>0. Home(t) \in Items
  BY HomeType
<1>1. MentionsOf(t, n) \in SUBSET (1 .. n) /\ MentionsOf(t, n) # {}
  BY DEF MentionsOf
<1>2. PICK m \in MentionsOf(t, n) : \A j \in MentionsOf(t, n) : j <= m
  BY <1>1, LastPosition, Zenon
<1>3. bank[Home(t)][m].kind = "removed"
  BY <1>2 DEF HistoryAt
<1>4. m \in 1 .. n /\ bank[Home(t)][m].txn = t
  BY DEF MentionsOf
<1>5. CASE m \in 1 .. i - 1
  BY <1>0, <1>3, <1>4, <1>5 DEF LogShape
<1>6. QED
  BY <1>4, <1>5

(* A step that does not shorten a log keeps its histories. *)
LEMMA HistoryKept ==
  ASSUME NEW t \in Txns, NEW n \in Nat,
         \A i \in 1 .. n : bank'[Home(t)][i] = bank[Home(t)][i]
  PROVE  HistoryAt(t, n)' = HistoryAt(t, n)
<1>1. MentionsOf(t, n)' = MentionsOf(t, n)
  BY DEF MentionsOf, Home
<1>2. \A i \in MentionsOf(t, n) : bank'[Home(t)][i] = bank[Home(t)][i]
  BY DEF MentionsOf
<1>3. QED
  BY <1>1, <1>2 DEF HistoryAt, Home

-----------------------------------------------------------------------------
(* The bank. *)

LEMMA ShapeStep ==
  ASSUME TypeOK, LogShape, BankNext
  PROVE  LogShape'
<1>1. PICK t \in Txns : BankAdds(t) \/ BankModifies(t) \/ BankRemoves(t)
  BY DEF BankNext
<1>. DEFINE h == Home(t)
            size == Len(bank[h])
<1>2. h \in Items /\ bank[h] \in Seq(Entry) /\ size \in Nat /\ BankLength(t) = size
  BY HomeType DEF TypeOK, BankLength
<1>3. PICK new : /\ bank' = [bank EXCEPT ![h] = Append(@, new)]
                 /\ new.txn = t
                 /\ new.kind = "added" => \A i \in 1 .. size : bank[h][i].txn # t
                 /\ new.kind # "added" => HistoryAt(t, size) # {}
  <2>. DEFINE added       == [kind |-> "added", txn |-> t, version |-> 0]
              modified(v) == [kind |-> "modified", txn |-> t, version |-> v + 1]
              removed     == [kind |-> "removed", txn |-> t, version |-> 0]
  <2>1. CASE BankAdds(t)
    <3>1. bank' = [bank EXCEPT ![h] = Append(@, added)] /\ \A i \in 1 .. size : bank[h][i].txn # t
      BY <1>2, <2>1 DEF BankAdds, Report, MentionsOf
    <3>2. added.txn = t /\ added.kind = "added"
      OBVIOUS
    <3>3. QED
      BY <3>1, <3>2
  <2>2. CASE BankModifies(t)
    <3>1. PICK v \in HistoryAt(t, size) : bank' = [bank EXCEPT ![h] = Append(@, modified(v))]
      BY <1>2, <2>2 DEF BankModifies, Report
    <3>2. modified(v).txn = t /\ modified(v).kind # "added"
      OBVIOUS
    <3>3. QED
      BY <3>1, <3>2
  <2>3. CASE BankRemoves(t)
    <3>1. bank' = [bank EXCEPT ![h] = Append(@, removed)] /\ HistoryAt(t, size) # {}
      BY <1>2, <2>3 DEF BankRemoves, Report
    <3>2. removed.txn = t /\ removed.kind # "added"
      OBVIOUS
    <3>3. QED
      BY <3>1, <3>2
  <2>4. QED
    BY <1>1, <2>1, <2>2, <2>3
<1>. HIDE DEF h, size
<1>4. /\ Len(bank'[h]) = size + 1
      /\ bank'[h][size + 1] = new
      /\ \A i \in 1 .. size : bank'[h][i] = bank[h][i]
  <2>1. bank'[h] = Append(bank[h], new)
    BY <1>2, <1>3 DEF TypeOK
  <2>2. QED
    BY <1>2, <2>1 DEF size
<1>5. \A k \in Items : k # h => bank'[k] = bank[k]
  BY <1>3 DEF TypeOK
<1>6. ASSUME NEW i \in 1 .. size, bank[h][i].txn = t
      PROVE  bank[h][i].kind # "removed" /\ new.kind # "added"
  <2>1. HistoryAt(t, size) # {} /\ new.kind # "added"
    BY <1>3, <1>6
  <2>2. PICK j \in 1 .. size : /\ bank[h][j].txn = t
                               /\ bank[h][j].kind # "removed"
                               /\ \A m \in 1 .. size : bank[h][m].txn = t => m <= j
    BY <1>2, <2>1, HistoryMentions DEF h
  <2>3. i = j \/ i \in 1 .. j - 1
    BY <1>2, <1>6, <2>2
  <2>4. QED
    BY <1>2, <1>6, <2>1, <2>2, <2>3 DEF LogShape, size
<1>7. ASSUME new.kind # "added"
      PROVE  \E i \in 1 .. size : bank[h][i].txn = t /\ bank[h][i].kind = "added"
  <2>1. PICK j \in 1 .. size : bank[h][j].txn = t
    BY <1>2, <1>3, <1>7, HistoryMentions DEF h
  <2>2. QED
    BY <1>2, <2>1 DEF LogShape, size
<1>8. SUFFICES ASSUME NEW k \in Items, NEW j \in 1 .. Len(bank'[k])
      PROVE  /\ \A i \in 1 .. j - 1 : bank'[k][i].txn = bank'[k][j].txn =>
                  bank'[k][i].kind # "removed" /\ bank'[k][j].kind # "added"
             /\ bank'[k][j].kind # "added" =>
                  \E i \in 1 .. j - 1 : /\ bank'[k][i].txn = bank'[k][j].txn
                                        /\ bank'[k][i].kind = "added"
  BY DEF LogShape
<1>9. CASE k = h /\ j = size + 1
  <2>1. 1 .. j - 1 = 1 .. size
    BY <1>2, <1>9
  <2>2. bank'[k][j] = new /\ \A i \in 1 .. size : bank'[k][i] = bank[h][i]
    BY <1>4, <1>9
  <2>3. QED
    BY <1>3, <1>6, <1>7, <2>1, <2>2
<1>10. CASE k = h /\ j \in 1 .. size
  <2>1. bank'[k][j] = bank[h][j] /\ \A i \in 1 .. j - 1 : bank'[k][i] = bank[h][i]
    BY <1>2, <1>4, <1>10
  <2>2. QED
    BY SMTT(30), <1>2, <1>10, <2>1 DEF LogShape, size
<1>11. CASE k # h
  BY <1>5, <1>11 DEF LogShape
<1>12. QED
  BY <1>2, <1>4, <1>9, <1>10, <1>11

(* What a step that leaves rows, cursors and workers alone, and lets the     *)
(* logs only grow, does to the invariant: nothing.                           *)
LEMMA BankStep ==
  ASSUME BookInv, [Next]_vars, Bank
  PROVE  LogShape' /\ PageInv' /\ RowInv'
<1>1. BankNext /\ UNCHANGED <<rows, passed, cursor, status, pc, item, resp, left, mem>>
  BY DEF Bank, dbVars, workerVars
<1>2. LogShape'
  BY <1>1, ShapeStep DEF BookInv, IInv
<1>3. \A k \in Items : /\ Len(bank[k]) \in Nat /\ Len(bank'[k]) \in Nat
                       /\ Len(bank[k]) <= Len(bank'[k])
                       /\ \A i \in 1 .. Len(bank[k]) : bank'[k][i] = bank[k][i]
  BY LogStep DEF BookInv, IInv
<1>4. ASSUME NEW w \in Workers, Paging(w), NEW i \in 1 .. resp[w].upto
      PROVE  EntryAt(w, i)' = EntryAt(w, i)
  <2>1. item[w] \in Items /\ i \in 1 .. Len(bank[item[w]])
    BY <1>3, <1>4 DEF Paging, BookInv, IInv, TypeOK, PageInLog
  <2>2. QED
    BY <1>1, <1>3, <2>1 DEF EntryAt
<1>5. \A w \in Workers : Paging(w) => left[w] \subseteq 1 .. resp[w].upto
  BY DEF Paging, BookInv, IInv, PageInLog
<1>6. MemCurrent' /\ PageAhead' /\ RowsSingle'
  BY <1>1 DEF MemCurrent, PageAhead, RowsSingle, Paging, BookInv, PageInv, RowInv
<1>7. PageInOrder'
  <2>1. SUFFICES ASSUME NEW w \in Workers, Paging(w)', NEW i \in left'[w],
                        NEW j \in 1 .. resp'[w].upto,
                        j \notin left'[w] /\ EntryAt(w, i)'.txn = EntryAt(w, j)'.txn
                 PROVE  j < i
    BY DEF PageInOrder
  <2>2. Paging(w) /\ i \in left[w] /\ j \in 1 .. resp[w].upto /\ j \notin left[w]
    BY <1>1, <2>1 DEF Paging
  <2>3. i \in 1 .. resp[w].upto
    BY <1>5, <2>2
  <2>4. QED
    BY <1>4, <2>1, <2>2, <2>3 DEF BookInv, PageInv, PageInOrder
<1>8. InsertPending'
  <2>1. SUFFICES ASSUME NEW w \in Workers, pc'[w] = "insert", NEW i \in left'[w], Turn(w, i)'
                 PROVE  EntryAt(w, i)'.kind = "added" /\ (RowsOf(EntryAt(w, i).txn) = {})'
    BY DEF InsertPending
  <2>2. Paging(w) /\ pc[w] = "insert" /\ i \in left[w] /\ left[w] \subseteq 1 .. resp[w].upto
    BY <1>1, <1>5, <2>1 DEF Paging
  <2>3. \A j \in left[w] : EntryAt(w, j)' = EntryAt(w, j)
    BY <1>4, <2>2
  <2>4. Turn(w, i)
    BY <1>1, <2>1, <2>2, <2>3 DEF Turn, Before
  <2>5. EntryAt(w, i).kind = "added" /\ RowsOf(EntryAt(w, i).txn) = {}
    BY <2>2, <2>4 DEF BookInv, PageInv, InsertPending
  <2>6. QED
    BY <1>1, <2>2, <2>3, <2>5 DEF RowsOf
<1>9. BookMirrors'
  <2>1. SUFFICES ASSUME NEW t \in Txns, t \notin passed
                 PROVE  \E n \in cursor'[Home(t)] .. Len(bank'[Home(t)]) : Reflects(t, n)'
    BY <1>1 DEF BookMirrors, BankLength, Home
  <2>2. Home(t) \in Items /\ cursor[Home(t)] \in Nat
    BY HomeType DEF BookInv, IInv, TypeOK
  <2>3. PICK n \in cursor[Home(t)] .. Len(bank[Home(t)]) : Reflects(t, n)
    BY <2>1 DEF BookInv, RowInv, BookMirrors, BankLength
  <2>4. n \in Nat /\ n \in cursor'[Home(t)] .. Len(bank'[Home(t)])
    BY <1>1, <1>3, <2>2, <2>3
  <2>5. HistoryAt(t, n)' = HistoryAt(t, n)
    BY <1>3, <2>2, <2>3, <2>4, HistoryKept
  <2>6. Shown(t)' = Shown(t)
    BY <1>1 DEF Shown, RowsOf
  <2>7. AppliedUpTo(t, n)'
    <3>1. SUFFICES ASSUME NEW w \in Workers, Paging(w)', item'[w] = Home(t),
                          NEW j \in 1 .. resp'[w].upto,
                          j \notin left'[w], bank'[Home(t)][j].txn = t
                   PROVE  j <= n
      BY DEF AppliedUpTo, Home
    <3>2. Paging(w) /\ item[w] = Home(t) /\ j \in 1 .. resp[w].upto /\ j \notin left[w]
      BY <1>1, <3>1 DEF Paging
    <3>3. bank[Home(t)][j].txn = t
      BY <1>1, <1>4, <3>1, <3>2 DEF EntryAt
    <3>4. QED
      BY <2>3, <3>2, <3>3 DEF Reflects, AppliedUpTo
  <2>8. QED
    BY <2>3, <2>4, <2>5, <2>6, <2>7 DEF Reflects
<1>10. QED
  BY <1>2, <1>6, <1>7, <1>8, <1>9 DEF PageInv, RowInv

-----------------------------------------------------------------------------
(* The worker's copy of the cursors and statuses. *)

LEMMA MemStep ==
  ASSUME OneWorker, TypeOK, PageInLog, MemCurrent, [Next]_vars
  PROVE  MemCurrent'
<1>1. CASE Bank \/ User \/ UNCHANGED vars
  BY <1>1 DEF Bank, User, Archive, Unarchive, vars, dbVars, workerVars, MemCurrent
<1>2. ASSUME NEW w \in Workers,
             Trigger(w) \/ Work(w) \/ Fault(w) \/ \E k \in Items : Reconnect(w, k)
      PROVE  MemCurrent'
  <2>. SUFFICES ASSUME pc'[w] \notin {"idle", "begin"}, NEW k \in Items
                PROVE  mem'[w][k].cursor = cursor'[k] /\ mem'[w][k].status = status'[k]
    BY DEF OneWorker, MemCurrent
  <2>1. CASE UNCHANGED <<mem, cursor, status>> /\ pc[w] \notin {"idle", "begin"}
    BY <2>1 DEF MemCurrent
  <2>2. ASSUME Leave(w) PROVE FALSE
    BY <2>2 DEF Leave, TypeOK
  <2>3. CASE Trigger(w) \/ \E q \in Items : Reconnect(w, q)
    BY <2>3 DEF Trigger, Reconnect, TypeOK
  <2>4. CASE Load(w)
    BY <2>4 DEF Load, dbVars, TypeOK
  <2>5. CASE SyncsDone(w) \/ RunDone(w) \/ Fetch(w)
             \/ \E q \in queue[w] : \/ SkipFrozen(w, q) \/ StartItem(w, q)
                                    \/ ItemGone(w, q) \/ BalancesOk(w, q)
    BY <2>1, <2>2, <2>5 DEF SyncsDone, RunDone, SkipFrozen, StartItem, ItemGone, BalancesOk,
                            Fetch, dbVars
  <2>6. CASE ApplyEntry(w)
    BY <2>1, <2>6 DEF ApplyEntry, PassOver, Ignore, Validate, Insert, Modify, Remove, dbVars
  <2>7. CASE SaveCursor(w)
    <3>1. /\ pc[w] = "apply" /\ item[w] \in Items /\ mem[w][k] \in Copy /\ status' = status
          /\ cursor' = IF mem[w][item[w]].cursor = resp[w].upto THEN cursor
                         ELSE [cursor EXCEPT ![item[w]] = resp[w].upto]
          /\ mem' = [mem EXCEPT ![w][item[w]].cursor = resp[w].upto]
      BY <2>7 DEF SaveCursor, TypeOK
    <3>2. mem[w][k].cursor = cursor[k] /\ mem[w][k].status = status[k]
      BY <3>1 DEF MemCurrent
    <3>3. QED
      BY <3>1, <3>2 DEF TypeOK, Copy
  <2>8. ASSUME NEW s \in Status, WriteStatus(w, s), pc[w] \in {"finish", "mark"}, cursor' = cursor
        PROVE  mem'[w][k].cursor = cursor'[k] /\ mem'[w][k].status = status'[k]
    <3>1. /\ item[w] \in Items /\ mem[w][k] \in Copy
          /\ status' = IF mem[w][item[w]].status = s THEN status ELSE [status EXCEPT ![item[w]] = s]
          /\ mem' = [mem EXCEPT ![w][item[w]].status = s]
      BY <2>8 DEF WriteStatus, TypeOK
    <3>2. mem[w][k].cursor = cursor[k] /\ mem[w][k].status = status[k]
      BY <2>8 DEF MemCurrent
    <3>3. QED
      BY <2>8, <3>1, <3>2 DEF TypeOK, Copy
  <2>9. CASE Finish(w)
    BY <2>8, <2>9 DEF Finish, Status
  <2>10. CASE MarkError(w)
    BY <2>8, <2>10 DEF MarkError, Status
  <2>11. CASE Fault(w)
    BY <2>1, <2>2, <2>11 DEF Fault, FetchFails, Raise, Crash, BalancesFail, dbVars
  <2>12. QED
    BY <1>2, <2>3, <2>4, <2>5, <2>6, <2>7, <2>9, <2>10, <2>11 DEF Work
<1>3. QED
  BY <1>1, <1>2 DEF Next

-----------------------------------------------------------------------------
(* Applying an entry. *)

LEMMA RankValues ==
  Rank("added") = 1 /\ Rank("modified") = 2 /\ Rank("removed") = 3
BY DEF Rank

(* The entry whose turn it is comes first of its transaction's entries left. *)
LEMMA TurnIsFirst ==
  ASSUME BookInv, NEW w \in Workers, Paging(w), NEW i \in left[w], Turn(w, i),
         NEW j \in left[w], EntryAt(w, j).txn = EntryAt(w, i).txn
  PROVE  i <= j
<1>1. /\ item[w] \in Items
      /\ i \in 1 .. Len(bank[item[w]]) /\ j \in 1 .. Len(bank[item[w]])
      /\ EntryAt(w, i) \in Entry /\ EntryAt(w, j) \in Entry
  BY TurnInLog DEF BookInv, IInv, Paging
<1>2. SUFFICES ASSUME j < i PROVE FALSE
  BY <1>1
<1>3. EntryAt(w, j).kind # "removed" /\ EntryAt(w, i).kind # "added"
  BY <1>1, <1>2 DEF BookInv, LogShape, EntryAt
<1>4. Before(w, j, i)
  BY <1>1, <1>2, <1>3, RankValues DEF Before, Entry, Kinds
<1>5. QED
  BY <1>4 DEF Turn

(* It is one entry's turn at a time. *)
LEMMA TurnIsUnique ==
  ASSUME BookInv, NEW w \in Workers, Paging(w),
         NEW i \in left[w], Turn(w, i), NEW j \in left[w], Turn(w, j)
  PROVE  i = j
<1>1. i \in Nat /\ j \in Nat /\ EntryAt(w, i) \in Entry /\ EntryAt(w, j) \in Entry
  BY TurnInLog DEF BookInv, IInv, Paging
<1>2. ~Before(w, i, j) /\ ~Before(w, j, i)
  BY DEF Turn
<1>3. EntryAt(w, i).kind = EntryAt(w, j).kind
  BY <1>1, <1>2, RankValues DEF Before, Entry, Kinds
<1>4. QED
  BY <1>1, <1>2, <1>3 DEF Before

(* What applying entry i, about t, does to the tables. *)
Waives(t) == rows' = rows /\ passed' = passed \cup {t}

FindsNothingToDo(w, i, t) ==
  /\ UNCHANGED <<rows, passed>>
  /\ EntryAt(w, i).kind = "added" <=> Shown(t) # {}

Writes(i, t) ==
  /\ passed' = passed
  /\ RowsSingle'
  /\ Shown(t)' = HistoryAt(t, i)
  /\ \A u \in Txns : u # t => RowsOf(u)' = RowsOf(u)

LEMMA InsertWrites ==
  ASSUME BookInv, NEW w \in Workers, NEW i \in left[w], Insert(w, i),
         NEW t \in Txns, t = EntryAt(w, i).txn, item[w] = Home(t), i \in Nat \ {0}
  PROVE  Writes(i, t)
<1>1. EntryAt(w, i).kind = "added" /\ RowsOf(t) = {}
  BY DEF Insert, BookInv, PageInv, InsertPending
<1>2. PICK v : v = EntryAt(w, i).version
  OBVIOUS
<1>3. PICK new : new = [txn |-> t, by |-> w, version |-> v]
  OBVIOUS
<1>4. rows' = rows \cup {new} /\ new.txn = t /\ new.version = v /\ passed' = passed
  BY <1>2, <1>3 DEF Insert
<1>5. RowsOf(t)' = {new} /\ \A u \in Txns : u # t => RowsOf(u)' = RowsOf(u)
  BY <1>1, <1>4 DEF RowsOf
<1>6. RowsSingle'
  BY <1>1, <1>4 DEF BookInv, RowInv, RowsSingle, RowsOf
<1>7. HistoryAt(t, i) = {v}
  BY <1>1, <1>2, HistoryAtEntry DEF EntryAt
<1>8. QED
  BY <1>4, <1>5, <1>6, <1>7 DEF Writes, Shown

LEMMA ModifyWrites ==
  ASSUME BookInv, NEW w \in Workers, NEW i \in left[w], Modify(w, i),
         NEW t \in Txns, t = EntryAt(w, i).txn, item[w] = Home(t), i \in Nat \ {0}
  PROVE  Writes(i, t)
<1>1. PICK v : v = EntryAt(w, i).version
  OBVIOUS
<1>2. PICK r \in RowsOf(t) : rows' = IF RowsOf(t) = {r}
                                       THEN (rows \ {r}) \cup {[r EXCEPT !.version = v]} ELSE rows
  BY <1>1 DEF Modify
<1>3. r \in rows /\ r \in Row /\ r.txn = t /\ RowsOf(t) = {r}
  BY DEF RowsOf, BookInv, IInv, TypeOK, RowInv, RowsSingle
<1>4. PICK new : new = [r EXCEPT !.version = v]
  OBVIOUS
<1>5. new.txn = t /\ new.version = v
  BY <1>3, <1>4 DEF Row
<1>6. rows' = (rows \ {r}) \cup {new} /\ passed' = passed
  BY <1>2, <1>3, <1>4 DEF Modify
<1>7. RowsOf(t)' = {new} /\ \A u \in Txns : u # t => RowsOf(u)' = RowsOf(u)
  BY <1>3, <1>5, <1>6 DEF RowsOf
<1>8. RowsSingle'
  BY <1>3, <1>5, <1>6 DEF BookInv, RowInv, RowsSingle, RowsOf
<1>9. HistoryAt(t, i) = {v}
  BY <1>1, HistoryAtEntry DEF EntryAt, Modify
<1>10. QED
  BY <1>5, <1>6, <1>7, <1>8, <1>9 DEF Writes, Shown

LEMMA RemoveWrites ==
  ASSUME BookInv, NEW w \in Workers, NEW i \in left[w], Remove(w, i),
         NEW t \in Txns, t = EntryAt(w, i).txn, item[w] = Home(t), i \in Nat \ {0}
  PROVE  Writes(i, t)
<1>1. PICK r \in RowsOf(t) : rows' = rows \ {r} /\ passed' = passed
  BY DEF Remove
<1>2. r \in rows /\ r.txn = t /\ RowsOf(t) = {r}
  BY DEF RowsOf, BookInv, RowInv, RowsSingle
<1>3. RowsOf(t)' = {} /\ \A u \in Txns : u # t => RowsOf(u)' = RowsOf(u)
  BY <1>1, <1>2 DEF RowsOf
<1>4. RowsSingle'
  BY <1>1 DEF BookInv, RowInv, RowsSingle
<1>5. HistoryAt(t, i) = {}
  BY HistoryAtEntry DEF EntryAt, Remove
<1>6. QED
  BY <1>1, <1>3, <1>4, <1>5 DEF Writes, Shown

(* Applying an entry either only validates it, or takes it off the response  *)
(* and passes over, finds nothing to do for, or writes its transaction.      *)
Takes(w, i, t) ==
  /\ left'[w] = left[w] \ {i}
  /\ pc'[w] = "apply"
  /\ Waives(t) \/ FindsNothingToDo(w, i, t) \/ Writes(i, t)

Validates(w, i) ==
  /\ UNCHANGED <<rows, passed, left>>
  /\ pc'[w] = "insert"
  /\ EntryAt(w, i).kind = "added" /\ RowsOf(EntryAt(w, i).txn) = {}

LEMMA ApplyOutcome ==
  ASSUME BookInv, NEW w \in Workers, ApplyEntry(w)
  PROVE  /\ Paging(w)
         /\ UNCHANGED <<bank, cursor, item, resp>>
         /\ \E i \in left[w], t \in Txns :
              /\ Turn(w, i) /\ i \in Nat \ {0}
              /\ t = EntryAt(w, i).txn /\ item[w] = Home(t)
              /\ Takes(w, i, t) \/ Validates(w, i)
<1>1. PICK i \in left[w] : \/ PassOver(w, i) \/ Ignore(w, i) \/ Validate(w, i)
                          \/ Insert(w, i) \/ Modify(w, i) \/ Remove(w, i)
  BY DEF ApplyEntry
<1>2. Paging(w) /\ Turn(w, i) /\ UNCHANGED <<bank, cursor, item, resp>>
  BY <1>1 DEF PassOver, Ignore, Validate, Insert, Modify, Remove, bankVars, dbVars, Paging
<1>3. item[w] \in Items /\ i \in 1 .. Len(bank[item[w]]) /\ EntryAt(w, i) \in Entry
  BY <1>2, TurnInLog DEF BookInv, IInv, Paging
<1>4. PICK t \in Txns : t = EntryAt(w, i).txn
  BY <1>3 DEF Entry
<1>5. item[w] = Home(t) /\ i \in Nat \ {0}
  BY <1>3, <1>4 DEF BookInv, IInv, LogsApart, EntryAt
<1>6. CASE Validate(w, i)
  <2>1. Validates(w, i)
    BY <1>6 DEF Validate, Validates, dbVars, BookInv, IInv, TypeOK
  <2>2. QED
    BY <1>2, <1>4, <1>5, <2>1
<1>7. CASE PassOver(w, i)
  <2>1. Waives(t)
    BY <1>4, <1>7 DEF PassOver, Waives, dbVars
  <2>2. Takes(w, i, t)
    BY <1>7, <2>1 DEF PassOver, Takes, Done, BookInv, IInv, TypeOK
  <2>3. QED
    BY <1>2, <1>4, <1>5, <2>2
<1>8. CASE Ignore(w, i)
  <2>1. UNCHANGED <<rows, passed>> /\ (EntryAt(w, i).kind = "added" <=> RowsOf(t) # {})
    BY <1>4, <1>8 DEF Ignore, dbVars
  <2>2. RowsOf(t) # {} <=> Shown(t) # {}
    BY DEF Shown
  <2>3. Takes(w, i, t)
    BY <1>8, <2>1, <2>2 DEF Ignore, Takes, FindsNothingToDo, Done, BookInv, IInv, TypeOK
  <2>4. QED
    BY <1>2, <1>4, <1>5, <2>3
<1>9. CASE Insert(w, i) \/ Modify(w, i) \/ Remove(w, i)
  <2>1. Writes(i, t)
    BY <1>4, <1>5, <1>9, InsertWrites, ModifyWrites, RemoveWrites
  <2>2. Takes(w, i, t)
    BY <1>9, <2>1 DEF Insert, Modify, Remove, Takes, Done, BookInv, IInv, TypeOK
  <2>3. QED
    BY <1>2, <1>4, <1>5, <2>2
<1>10. QED
  BY <1>1, <1>6, <1>7, <1>8, <1>9

(* If the book reflects t and there is nothing to do for entry i of t, then  *)
(* the book is already past it.                                              *)
LEMMA NothingToDo ==
  ASSUME BookInv, NEW w \in Workers, Paging(w), NEW i \in left[w], Turn(w, i),
         NEW t \in Txns, t = EntryAt(w, i).txn, item[w] = Home(t),
         FindsNothingToDo(w, i, t),
         NEW n \in Nat, n <= BankLength(t), Reflects(t, n)
  PROVE  i <= n
<1>1. /\ Home(t) \in Items /\ Len(bank[Home(t)]) \in Nat
      /\ i \in 1 .. Len(bank[Home(t)]) /\ bank[Home(t)][i].txn = t
      /\ i \in 1 .. resp[w].upto /\ resp[w].upto \in Nat /\ left[w] \subseteq Nat
  <2>1. Home(t) \in Items /\ i \in 1 .. Len(bank[Home(t)]) /\ bank[Home(t)][i].txn = t
    BY TurnInLog DEF BookInv, IInv, EntryAt, Paging
  <2>2. Len(bank[Home(t)]) \in Nat /\ resp[w].upto \in Nat /\ left[w] \subseteq Nat
    BY <2>1 DEF BookInv, IInv, TypeOK
  <2>3. i \in 1 .. resp[w].upto
    BY DEF BookInv, IInv, PageInLog, Paging
  <2>4. QED
    BY <2>1, <2>2, <2>3
<1>2. n <= Len(bank[Home(t)]) /\ Shown(t) = HistoryAt(t, n) /\ AppliedUpTo(t, n)
  BY DEF BankLength, Reflects
<1>3. CASE EntryAt(w, i).kind = "added"
  <2>1. HistoryAt(t, n) # {}
    BY <1>2, <1>3 DEF FindsNothingToDo
  <2>2. PICK j \in 1 .. n : bank[Home(t)][j].txn = t
    BY <2>1, HistoryMentions
  <2>3. j \in 1 .. Len(bank[Home(t)])
    BY <1>1, <1>2, <2>2
  <2>4. ~(j \in 1 .. i - 1)
    BY SMTT(30), <1>1, <1>3, <2>2, <2>3 DEF BookInv, LogShape, EntryAt
  <2>5. QED
    BY <1>1, <2>2, <2>4
<1>4. CASE EntryAt(w, i).kind # "added"
  <2>1. HistoryAt(t, n) = {}
    BY <1>2, <1>4 DEF FindsNothingToDo
  <2>2. PICK a \in 1 .. i - 1 : bank[Home(t)][a].txn = t
    <3>1. bank[Home(t)][i].kind # "added"
      BY <1>4 DEF EntryAt
    <3>2. \E a \in 1 .. i - 1 : bank[Home(t)][a].txn = bank[Home(t)][i].txn
      BY <1>1, <3>1 DEF BookInv, LogShape
    <3>3. QED
      BY <1>1, <3>2
  <2>3. a \in 1 .. resp[w].upto /\ a < i
    BY <1>1, <2>2
  <2>4. a \notin left[w]
    <3>1. SUFFICES ASSUME a \in left[w] PROVE FALSE
      OBVIOUS
    <3>2. i <= a
      BY <2>2, <3>1, TurnIsFirst DEF EntryAt
    <3>3. QED
      BY <1>1, <2>3, <3>2
  <2>5. a <= n
    BY <1>2, <2>2, <2>3, <2>4 DEF AppliedUpTo
  <2>6. a \in 1 .. n
    BY <1>1, <2>2, <2>5
  <2>7. QED
    BY <1>1, <1>2, <2>1, <2>2, <2>6, HistoryEnds DEF BookInv
<1>5. QED
  BY <1>3, <1>4

LEMMA ApplyPage ==
  ASSUME OneWorker, BookInv, [Next]_vars, NEW w \in Workers, ApplyEntry(w)
  PROVE  PageInv'
<1>1. Paging(w) /\ UNCHANGED <<bank, cursor, item, resp>>
  BY ApplyOutcome
<1>2. PICK i \in left[w], t \in Txns :
        /\ Turn(w, i) /\ i \in Nat \ {0}
        /\ t = EntryAt(w, i).txn /\ item[w] = Home(t)
        /\ Takes(w, i, t) \/ Validates(w, i)
  BY ApplyOutcome
<1>3. \A j : EntryAt(w, j)' = EntryAt(w, j)
  BY <1>1 DEF EntryAt
<1>4. left'[w] \subseteq left[w] /\ \A j \in left[w] : j \notin left'[w] => j = i
  BY <1>2 DEF Takes, Validates
<1>5. MemCurrent'
  BY MemStep DEF BookInv, PageInv, IInv
<1>6. PageAhead'
  BY <1>1, <1>4 DEF BookInv, PageInv, PageAhead, OneWorker
<1>7. PageInOrder'
  <2>1. SUFFICES ASSUME NEW l \in left'[w], NEW j \in 1 .. resp[w].upto,
                        j \notin left'[w], EntryAt(w, l).txn = EntryAt(w, j).txn
                 PROVE  j < l
    BY <1>1, <1>3 DEF PageInOrder, OneWorker
  <2>2. l \in left[w] /\ left[w] \subseteq Nat
    BY <1>4 DEF BookInv, IInv, TypeOK
  <2>3. CASE j \notin left[w]
    BY <1>1, <2>1, <2>2, <2>3 DEF BookInv, PageInv, PageInOrder
  <2>4. CASE j \in left[w]
    <3>1. j = i /\ l # i
      BY <1>4, <2>1, <2>4
    <3>2. i <= l
      BY <1>1, <1>2, <2>1, <2>2, <3>1, TurnIsFirst
    <3>3. QED
      BY <2>2, <3>1, <3>2
  <2>5. QED
    BY <2>3, <2>4
<1>8. InsertPending'
  <2>1. CASE Takes(w, i, t)
    BY <2>1 DEF Takes, InsertPending, OneWorker
  <2>2. CASE Validates(w, i)
    <3>1. \A j : Turn(w, j)' <=> Turn(w, j)
      BY <1>3, <2>2 DEF Turn, Before, Validates
    <3>2. \A j \in left[w] : Turn(w, j) => j = i
      BY <1>1, <1>2, TurnIsUnique
    <3>3. EntryAt(w, i)'.kind = "added" /\ (RowsOf(EntryAt(w, i).txn) = {})'
      BY <1>3, <2>2 DEF Validates, RowsOf
    <3>4. QED
      BY <2>2, <3>1, <3>2, <3>3 DEF Validates, InsertPending, OneWorker
  <2>3. QED
    BY <1>2, <2>1, <2>2
<1>9. QED
  BY <1>5, <1>6, <1>7, <1>8 DEF PageInv

LEMMA ApplyRows ==
  ASSUME OneWorker, BookInv, [Next]_vars, NEW w \in Workers, ApplyEntry(w)
  PROVE  RowInv'
<1>1. Paging(w) /\ UNCHANGED <<bank, cursor, item, resp>>
  BY ApplyOutcome
<1>2. PICK i \in left[w], t \in Txns :
        /\ Turn(w, i) /\ i \in Nat \ {0}
        /\ t = EntryAt(w, i).txn /\ item[w] = Home(t)
        /\ Takes(w, i, t) \/ Validates(w, i)
  BY ApplyOutcome
<1>3. /\ Home(t) \in Items /\ Len(bank[Home(t)]) \in Nat /\ cursor[Home(t)] \in Nat
      /\ resp[w].upto \in Nat /\ resp[w].upto <= Len(bank[Home(t)])
  BY <1>1, <1>2, HomeType DEF BookInv, IInv, TypeOK, PageInLog, Paging
<1>4. i \in cursor[Home(t)] .. Len(bank[Home(t)]) /\ bank[Home(t)][i].txn = t
  <2>1. left[w] \subseteq cursor[Home(t)] + 1 .. resp[w].upto
    BY <1>1, <1>2 DEF BookInv, PageInv, PageAhead
  <2>2. i \in cursor[Home(t)] + 1 .. resp[w].upto
    BY <2>1
  <2>3. bank[Home(t)][i].txn = t
    BY <1>2 DEF EntryAt
  <2>4. QED
    BY <1>3, <2>2, <2>3
<1>5. RowsSingle'
  BY <1>2 DEF Takes, Validates, Waives, FindsNothingToDo, Writes, BookInv, RowInv, RowsSingle
<1>6. \A u \in Txns, n \in Nat : HistoryAt(u, n)' = HistoryAt(u, n)
  BY <1>1, HistoryKept
<1>7. \A u \in Txns : u \notin passed' => u \notin passed
  BY <1>2 DEF Takes, Validates, Waives, FindsNothingToDo, Writes
<1>8. SUFFICES ASSUME NEW u \in Txns, u \notin passed'
               PROVE  \E n \in cursor[Home(u)] .. Len(bank[Home(u)]) : Reflects(u, n)'
  BY <1>1, <1>5 DEF RowInv, BookMirrors, BankLength, Home
<1>9. PICK n \in cursor[Home(u)] .. Len(bank[Home(u)]) : Reflects(u, n)
  BY <1>7, <1>8 DEF BookInv, RowInv, BookMirrors, BankLength
<1>10. n \in Nat /\ Home(u) \in Items /\ Len(bank[Home(u)]) \in Nat
  BY <1>9, HomeType DEF BookInv, IInv, TypeOK
\* Positions applied after the step: those of before, and perhaps i.
<1>11. ASSUME NEW m, \A j \in 1 .. resp[w].upto :
                       j \notin left'[w] /\ item[w] = Home(u) /\ bank[Home(u)][j].txn = u => j <= m
       PROVE  AppliedUpTo(u, m)'
  BY <1>1, <1>11 DEF AppliedUpTo, OneWorker, Home
<1>12. \A j \in 1 .. resp[w].upto :
         j \notin left[w] /\ item[w] = Home(u) /\ bank[Home(u)][j].txn = u => j <= n
  BY <1>1, <1>9 DEF Reflects, AppliedUpTo
<1>13. CASE Validates(w, i)
  <2>1. AppliedUpTo(u, n)'
    BY <1>11, <1>12, <1>13 DEF Validates
  <2>2. Shown(u)' = Shown(u)
    BY <1>13 DEF Validates, Shown, RowsOf
  <2>3. QED
    BY <1>6, <1>9, <1>10, <2>1, <2>2 DEF Reflects
<1>14. CASE Takes(w, i, t) /\ u # t
  <2>1. Shown(u)' = Shown(u)
    BY <1>14 DEF Takes, Waives, FindsNothingToDo, Writes, Shown, RowsOf
  <2>2. \A j \in 1 .. resp[w].upto :
          j \notin left'[w] /\ item[w] = Home(u) /\ bank[Home(u)][j].txn = u => j <= n
    BY <1>2, <1>4, <1>12, <1>14 DEF Takes
  <2>3. AppliedUpTo(u, n)'
    BY <1>11, <2>2
  <2>4. QED
    BY <1>6, <1>9, <1>10, <2>1, <2>3 DEF Reflects
<1>15. CASE Takes(w, i, t) /\ u = t /\ FindsNothingToDo(w, i, t)
  <2>1. i <= n
    BY <1>1, <1>2, <1>9, <1>10, <1>15, NothingToDo DEF BankLength
  <2>2. Shown(u)' = Shown(u)
    BY <1>15 DEF FindsNothingToDo, Shown, RowsOf
  <2>3. \A j \in 1 .. resp[w].upto :
          j \notin left'[w] /\ item[w] = Home(u) /\ bank[Home(u)][j].txn = u => j <= n
    BY <1>12, <1>15, <2>1 DEF Takes
  <2>4. AppliedUpTo(u, n)'
    BY <1>11, <2>3
  <2>5. QED
    BY <1>6, <1>9, <1>10, <2>2, <2>4 DEF Reflects
<1>16. CASE Takes(w, i, t) /\ u = t /\ Writes(i, t)
  <2>1. Shown(u)' = HistoryAt(u, i)' /\ i \in Nat
    BY <1>2, <1>6, <1>16 DEF Writes
  <2>2. \A j \in 1 .. resp[w].upto :
          j \notin left[w] /\ EntryAt(w, i).txn = EntryAt(w, j).txn => j < i
    BY <1>1, <1>2 DEF BookInv, PageInv, PageInOrder
  <2>3. ASSUME NEW j \in 1 .. resp[w].upto,
               j \notin left'[w] /\ item[w] = Home(u) /\ bank[Home(u)][j].txn = u
        PROVE  j <= i
    <3>1. EntryAt(w, i).txn = EntryAt(w, j).txn
      BY <1>2, <1>16, <2>3 DEF EntryAt
    <3>2. CASE j \notin left[w]
      BY <2>1, <2>2, <3>1, <3>2
    <3>3. CASE j = i
      BY <2>1, <3>3
    <3>4. QED
      BY <1>16, <2>3, <3>2, <3>3 DEF Takes
  <2>4. AppliedUpTo(u, i)'
    BY <1>11, <2>3
  <2>5. QED
    BY <1>4, <1>16, <2>1, <2>4 DEF Reflects
<1>17. CASE Takes(w, i, t) /\ u = t /\ Waives(t)
  BY <1>8, <1>17 DEF Waives
<1>18. QED
  BY <1>2, <1>13, <1>14, <1>15, <1>16, <1>17 DEF Takes

-----------------------------------------------------------------------------
(* Fetching a response and saving its cursor. *)

LEMMA FetchBook ==
  ASSUME OneWorker, BookInv, [Next]_vars, NEW w \in Workers, Fetch(w)
  PROVE  LogShape' /\ PageInv' /\ RowInv'
<1>1. PICK k \in Items : k = item[w]
  BY DEF BookInv, IInv, TypeOK
<1>2. PICK from \in Nat : from = cursor[k] /\ from = mem[w][k].cursor
  BY <1>1 DEF Fetch, BookInv, IInv, TypeOK, PageInv, MemCurrent
<1>3. Len(bank[k]) \in Nat /\ from <= Len(bank[k])
  <2>1. Len(bank[k]) \in Nat
    BY DEF BookInv, IInv, TypeOK
  <2>2. from <= Len(bank[k])
    BY <1>2 DEF BookInv, IInv, CursorCovered, Covered
  <2>3. QED
    BY <2>1, <2>2
<1>4. PICK upto \in Nat :
        upto = IF from + PageSize < Len(bank[k]) THEN from + PageSize ELSE Len(bank[k])
  BY <1>3, SyncAssumption
<1>5. from <= upto
  BY <1>3, <1>4, SyncAssumption
<1>6. /\ UNCHANGED <<bank, rows, passed, cursor, item>>
      /\ pc'[w] = "apply" /\ resp'[w].upto = upto /\ left'[w] = (from + 1) .. upto
  BY <1>1, <1>2, <1>4 DEF Fetch, bankVars, dbVars, BookInv, IInv, TypeOK
<1>7. LogShape' /\ RowsSingle'
  BY <1>6 DEF LogShape, RowsSingle, BookInv, RowInv
<1>8. MemCurrent'
  BY MemStep DEF BookInv, PageInv, IInv
<1>9. PageAhead' /\ InsertPending'
  BY <1>1, <1>2, <1>5, <1>6 DEF PageAhead, InsertPending, OneWorker
<1>10. PageInOrder'
  <2>1. \A i \in (from + 1) .. upto, j \in 1 .. upto : j \notin (from + 1) .. upto => j < i
    OBVIOUS
  <2>2. QED
    BY <1>6, <2>1 DEF PageInOrder, OneWorker
<1>11. BookMirrors'
  <2>1. SUFFICES ASSUME NEW t \in Txns, t \notin passed
                 PROVE  \E n \in cursor[Home(t)] .. Len(bank[Home(t)]) : Reflects(t, n)'
    BY <1>6 DEF BookMirrors, BankLength, Home
  <2>2. PICK n \in cursor[Home(t)] .. Len(bank[Home(t)]) : Reflects(t, n)
    BY <2>1 DEF BookInv, RowInv, BookMirrors, BankLength
  <2>3. n \in Nat
    BY <2>2, HomeType DEF BookInv, IInv, TypeOK
  <2>4. HistoryAt(t, n)' = HistoryAt(t, n)
    BY <1>6, <2>3, HistoryKept
  <2>5. Shown(t)' = Shown(t)
    BY <1>6 DEF Shown, RowsOf
  <2>6. AppliedUpTo(t, n)'
    <3>1. SUFFICES ASSUME k = Home(t), NEW j \in 1 .. upto, j \notin (from + 1) .. upto
                   PROVE  j <= n
      BY <1>1, <1>6 DEF AppliedUpTo, OneWorker, Home
    <3>2. n \in from .. Len(bank[k])
      BY <1>2, <2>2, <3>1
    <3>3. QED
      BY <1>3, <2>3, <3>1, <3>2
  <2>7. QED
    BY <2>2, <2>4, <2>5, <2>6 DEF Reflects
<1>12. QED
  BY <1>7, <1>8, <1>9, <1>10, <1>11 DEF PageInv, RowInv

(* When all of a response has been applied, the book is settled up to where  *)
(* the response reaches.                                                     *)
LEMMA PageSettled ==
  ASSUME BookInv, NEW w \in Workers, Paging(w), left[w] = {},
         NEW t \in Txns \ passed, item[w] = Home(t)
  PROVE  \E n \in resp[w].upto .. BankLength(t) : Shown(t) = HistoryAt(t, n)
<1>. DEFINE upto == resp[w].upto
<1>1. /\ Home(t) \in Items /\ Len(bank[Home(t)]) \in Nat /\ upto \in Nat
      /\ upto <= Len(bank[Home(t)]) /\ cursor[Home(t)] \in Nat
  BY HomeType DEF BookInv, IInv, TypeOK, PageInLog, Paging
<1>2. PICK n \in cursor[Home(t)] .. Len(bank[Home(t)]) : Reflects(t, n)
  BY DEF BookInv, RowInv, BookMirrors, BankLength
<1>3. n \in Nat /\ Shown(t) = HistoryAt(t, n)
  BY <1>1, <1>2 DEF Reflects
<1>4. CASE upto <= n
  BY <1>1, <1>2, <1>3, <1>4 DEF BankLength
<1>5. CASE n < upto
  <2>1. \A j \in n + 1 .. upto : bank[Home(t)][j].txn # t
    BY <1>1, <1>2, <1>3 DEF Reflects, AppliedUpTo
  <2>2. HistoryAt(t, upto) = HistoryAt(t, n)
    BY <1>1, <1>3, <1>5, <2>1, HistorySame
  <2>3. QED
    BY <1>1, <1>3, <2>2 DEF BankLength
<1>6. QED
  BY <1>1, <1>3, <1>4, <1>5

LEMMA SaveBook ==
  ASSUME OneWorker, BookInv, [Next]_vars, NEW w \in Workers, SaveCursor(w)
  PROVE  LogShape' /\ PageInv' /\ RowInv'
<1>1. /\ UNCHANGED <<bank, rows, passed, item>>
      /\ Paging(w) /\ left[w] = {} /\ pc'[w] \notin {"apply", "insert"}
  BY DEF SaveCursor, bankVars, Paging, BookInv, IInv, TypeOK
<1>2. cursor'[item[w]] = resp[w].upto /\ \A k \in Items : k # item[w] => cursor'[k] = cursor[k]
  BY DEF SaveCursor, BookInv, IInv, TypeOK, PageInv, MemCurrent
<1>3. LogShape' /\ RowsSingle'
  BY <1>1 DEF LogShape, RowsSingle, BookInv, RowInv
<1>4. PageInv'
  <2>1. MemCurrent'
    BY MemStep DEF BookInv, PageInv, IInv
  <2>2. QED
    BY <1>1, <2>1 DEF PageInv, PageAhead, PageInOrder, InsertPending, OneWorker, Paging
<1>5. BookMirrors'
  <2>1. SUFFICES ASSUME NEW t \in Txns \ passed
                 PROVE  \E n \in cursor'[Home(t)] .. BankLength(t) : Reflects(t, n)'
    BY <1>1 DEF BookMirrors, BankLength, Home
  <2>2. \A n \in Nat : Shown(t) = HistoryAt(t, n) => Reflects(t, n)'
    <3>1. SUFFICES ASSUME NEW n \in Nat, Shown(t) = HistoryAt(t, n) PROVE Reflects(t, n)'
      OBVIOUS
    <3>2. HistoryAt(t, n)' = HistoryAt(t, n)
      BY <1>1, HistoryKept
    <3>3. Shown(t)' = Shown(t)
      BY <1>1 DEF Shown, RowsOf
    <3>4. AppliedUpTo(t, n)'
      BY <1>1 DEF AppliedUpTo, OneWorker, Paging
    <3>5. QED
      BY <3>1, <3>2, <3>3, <3>4 DEF Reflects
  <2>3. Home(t) \in Items /\ cursor[Home(t)] \in Nat /\ resp[w].upto \in Nat
    BY HomeType DEF BookInv, IInv, TypeOK
  <2>4. CASE Home(t) = item[w]
    <3>1. PICK n \in resp[w].upto .. BankLength(t) : Shown(t) = HistoryAt(t, n)
      BY <1>1, <2>4, PageSettled
    <3>2. n \in Nat
      BY <2>3, <3>1
    <3>3. QED
      BY <1>2, <2>2, <2>4, <3>1, <3>2
  <2>5. CASE Home(t) # item[w]
    <3>1. PICK n \in cursor[Home(t)] .. BankLength(t) : Shown(t) = HistoryAt(t, n)
      BY DEF BookInv, RowInv, BookMirrors, Reflects
    <3>2. n \in Nat
      BY <2>3, <3>1
    <3>3. QED
      BY <1>2, <2>2, <2>3, <2>5, <3>1, <3>2
  <2>6. QED
    BY <2>4, <2>5
<1>6. QED
  BY <1>3, <1>4, <1>5 DEF RowInv

(* The steps that write no row, save no cursor and start no response. *)
LEMMA OtherBook ==
  ASSUME OneWorker, BookInv, [Next]_vars, NEW w \in Workers,
         \/ Trigger(w) \/ Fault(w) \/ (\E k \in Items : Reconnect(w, k))
         \/ Work(w) /\ ~Fetch(w) /\ ~SaveCursor(w) /\ ~ApplyEntry(w)
  PROVE  /\ UNCHANGED <<bank, rows, passed, cursor>>
         /\ LogShape' /\ PageInv' /\ RowInv'
<1>1. UNCHANGED <<bank, rows, passed, cursor>> /\ pc'[w] \notin {"apply", "insert"}
  <2>1. CASE Trigger(w) \/ \E k \in Items : Reconnect(w, k)
    BY <2>1 DEF Trigger, Reconnect, bankVars, dbVars, BookInv, IInv, TypeOK
  <2>2. CASE Fault(w)
    BY <2>2 DEF Fault, FetchFails, Raise, Crash, BalancesFail, Leave, bankVars, dbVars,
                BookInv, IInv, TypeOK
  <2>3. CASE Load(w) \/ SyncsDone(w) \/ RunDone(w) \/ Finish(w) \/ MarkError(w)
    BY <2>3 DEF Load, SyncsDone, RunDone, Finish, MarkError, Leave, bankVars, dbVars,
                BookInv, IInv, TypeOK
  <2>4. CASE \E k \in queue[w] : SkipFrozen(w, k) \/ StartItem(w, k)
                                 \/ ItemGone(w, k) \/ BalancesOk(w, k)
    BY <2>4 DEF SkipFrozen, StartItem, ItemGone, BalancesOk, Leave, bankVars, dbVars,
                BookInv, IInv, TypeOK
  <2>5. QED
    BY <2>1, <2>2, <2>3, <2>4 DEF Work
<1>2. LogShape' /\ RowsSingle'
  BY <1>1 DEF LogShape, RowsSingle, BookInv, RowInv
<1>3. MemCurrent'
  BY MemStep DEF BookInv, PageInv, IInv
<1>4. PageAhead' /\ PageInOrder' /\ InsertPending'
  BY <1>1 DEF PageAhead, PageInOrder, InsertPending, OneWorker, Paging
<1>5. BookMirrors'
  <2>1. SUFFICES ASSUME NEW t \in Txns \ passed
                 PROVE  \E n \in cursor[Home(t)] .. BankLength(t) : Reflects(t, n)'
    BY <1>1 DEF BookMirrors, BankLength, Home
  <2>2. PICK n \in cursor[Home(t)] .. BankLength(t) : Shown(t) = HistoryAt(t, n)
    BY DEF BookInv, RowInv, BookMirrors, Reflects
  <2>3. n \in Nat
    BY <2>2, HomeType DEF BookInv, IInv, TypeOK
  <2>4. HistoryAt(t, n)' = HistoryAt(t, n)
    BY <1>1, <2>3, HistoryKept
  <2>5. Shown(t)' = Shown(t)
    BY <1>1 DEF Shown, RowsOf
  <2>6. AppliedUpTo(t, n)'
    BY <1>1 DEF AppliedUpTo, OneWorker, Paging
  <2>7. QED
    BY <2>2, <2>4, <2>5, <2>6 DEF Reflects
<1>6. QED
  BY <1>1, <1>2, <1>3, <1>4, <1>5 DEF PageInv, RowInv

(* A step of the user, or none, changes nothing the invariant speaks of. *)
LEMMA UserBook ==
  ASSUME BookInv, User \/ UNCHANGED vars
  PROVE  LogShape' /\ PageInv' /\ RowInv'
<1>1. UNCHANGED <<bank, cursor, status, rows, passed, pc, mem, item, resp, left>>
  BY DEF User, Archive, Unarchive, vars, bankVars, dbVars, workerVars
<1>2. LogShape' /\ MemCurrent' /\ PageAhead' /\ RowsSingle'
  BY <1>1 DEF LogShape, MemCurrent, PageAhead, RowsSingle, Paging, BookInv, PageInv, RowInv
<1>3. PageInOrder' /\ InsertPending'
  BY <1>1 DEF PageInOrder, InsertPending, Paging, EntryAt, Turn, Before, RowsOf, BookInv, PageInv
<1>4. BookMirrors'
  <2>1. \A t \in Txns : \A n : HistoryAt(t, n)' = HistoryAt(t, n) /\ Shown(t)' = Shown(t)
    BY <1>1 DEF HistoryAt, MentionsOf, Home, Shown, RowsOf
  <2>2. \A t \in Txns : \A n : AppliedUpTo(t, n) => AppliedUpTo(t, n)'
    BY <1>1 DEF AppliedUpTo, Paging, Home
  <2>3. \A t \in Txns : \A n : Reflects(t, n) => Reflects(t, n)'
    BY <2>1, <2>2 DEF Reflects
  <2>4. QED
    BY <1>1, <2>3 DEF BookMirrors, BankLength, Home, BookInv, RowInv
<1>5. QED
  BY <1>2, <1>3, <1>4 DEF PageInv, RowInv

-----------------------------------------------------------------------------
(* The invariant is inductive. *)

LEMMA BookInvInit == Init => BookInv
<1>. SUFFICES ASSUME Init PROVE BookInv
  OBVIOUS
<1>1. IInv
  BY InvInit
<1>2. \A k \in Items : bank[k] = << >> /\ cursor[k] = 0
  BY DEF Init, BankInit
<1>3. LogShape
  BY <1>2 DEF LogShape
<1>4. PageInv
  BY DEF Init, PageInv, MemCurrent, PageAhead, PageInOrder, InsertPending, Paging
<1>5. RowInv
  <2>1. RowsSingle
    BY DEF Init, RowsSingle
  <2>2. ASSUME NEW t \in Txns PROVE 0 \in cursor[Home(t)] .. BankLength(t) /\ Reflects(t, 0)
    <3>1. 0 \in cursor[Home(t)] .. BankLength(t)
      BY <1>2, HomeType DEF BankLength
    <3>2. HistoryAt(t, 0) = {} /\ Shown(t) = {}
      BY DEF HistoryAt, MentionsOf, Shown, RowsOf, Init
    <3>3. AppliedUpTo(t, 0)
      BY DEF AppliedUpTo, Paging, Init
    <3>4. QED
      BY <3>1, <3>2, <3>3 DEF Reflects
  <2>3. QED
    BY <2>1, <2>2 DEF RowInv, BookMirrors
<1>6. QED
  BY <1>1, <1>3, <1>4, <1>5 DEF BookInv

LEMMA BookInvStep ==
  ASSUME OneWorker, BookInv, [Next]_vars
  PROVE  BookInv'
<1>1. IInv'
  BY InvStep DEF BookInv
<1>2. CASE Bank
  BY <1>1, <1>2, BankStep DEF BookInv
<1>3. CASE User \/ UNCHANGED vars
  BY <1>1, <1>3, UserBook DEF BookInv
<1>4. ASSUME NEW w \in Workers,
             Trigger(w) \/ Work(w) \/ Fault(w) \/ \E k \in Items : Reconnect(w, k)
      PROVE  BookInv'
  <2>1. CASE Fetch(w)
    BY <1>1, <2>1, FetchBook DEF BookInv
  <2>2. CASE SaveCursor(w)
    BY <1>1, <2>2, SaveBook DEF BookInv
  <2>3. CASE ApplyEntry(w)
    <3>1. bank' = bank
      BY <2>3, ApplyOutcome
    <3>2. LogShape'
      BY <3>1 DEF LogShape, BookInv
    <3>3. QED
      BY <1>1, <2>3, <3>2, ApplyPage, ApplyRows DEF BookInv
  <2>4. CASE ~Fetch(w) /\ ~SaveCursor(w) /\ ~ApplyEntry(w)
    BY <1>1, <1>4, <2>4, OtherBook DEF BookInv
  <2>5. QED
    BY <2>1, <2>2, <2>3, <2>4
<1>5. QED
  BY <1>2, <1>3, <1>4 DEF Next

LEMMA BookInvMeans == BookInv => OneRow /\ Mirror
<1>. SUFFICES ASSUME BookInv PROVE OneRow /\ Mirror
  OBVIOUS
<1>1. ASSUME NEW t \in Txns PROVE Cardinality(RowsOf(t)) <= 1
  <2>1. CASE RowsOf(t) = {}
    BY <2>1, FS_EmptySet
  <2>2. CASE RowsOf(t) # {}
    <3>1. PICK r \in RowsOf(t) : RowsOf(t) = {r}
      BY <2>2 DEF RowsOf, BookInv, RowInv, RowsSingle
    <3>2. Cardinality(RowsOf(t)) = 1
      BY <3>1, FS_Singleton
    <3>3. QED
      BY <3>2
  <2>3. QED
    BY <2>1, <2>2
<1>2. Mirror
  BY DEF Mirror, BookInv, RowInv, BookMirrors, Reflects, Shown
<1>3. QED
  BY <1>1, <1>2 DEF OneRow

-----------------------------------------------------------------------------
(* One row per bank transaction, as long as no two syncs overlap: the        *)
(* uniqueness validation of the row and its INSERT are then one.             *)
THEOREM OneRowPerTransaction ==
  ASSUME OneWorker
  PROVE  Spec => []OneRow
<1>1. Init => BookInv
  BY BookInvInit
<1>2. BookInv /\ [Next]_vars => BookInv'
  BY BookInvStep
<1>3. BookInv => OneRow
  BY BookInvMeans
<1>4. QED
  BY <1>1, <1>2, <1>3, PTL DEF Spec

(* What is stored of a transaction is what the bank said of it at some point *)
(* from the saved cursor on, in the middle of a page and of a replay too.    *)
THEOREM BookNeverOlder ==
  ASSUME OneWorker
  PROVE  Spec => []Mirror
<1>1. Init => BookInv
  BY BookInvInit
<1>2. BookInv /\ [Next]_vars => BookInv'
  BY BookInvStep
<1>3. BookInv => Mirror
  BY BookInvMeans
<1>4. QED
  BY <1>1, <1>2, <1>3, PTL DEF Spec

(* A sync ended by an unexpected exception leaves its item not "active": the *)
(* status the worker compares with is the saved one.                         *)
LEMMA MarkSurfaces ==
  ASSUME OneWorker, BookInv, [Next]_vars, NEW w \in Workers,
         pc[w] = "mark", code[w] = "INTERNAL_ERROR", pc'[w] = "next"
  PROVE  status'[item[w]] # "active"
<1>1. MarkError(w)
  <2>1. CASE Bank \/ User \/ UNCHANGED vars
    BY <2>1 DEF Bank, User, Archive, Unarchive, vars, workerVars
  <2>2. ASSUME NEW v \in Workers,
               Trigger(v) \/ Work(v) \/ Fault(v) \/ \E k \in Items : Reconnect(v, k)
        PROVE  MarkError(w)
    <3>1. v = w
      BY DEF OneWorker
    <3>2. ~Trigger(w) /\ ~\E k \in Items : Reconnect(w, k)
      BY DEF Trigger, Reconnect
    <3>3. ~ApplyEntry(w) /\ ~Fetch(w) /\ ~SaveCursor(w) /\ ~Finish(w)
      BY DEF ApplyEntry, PassOver, Ignore, Validate, Insert, Modify, Remove, Fetch, SaveCursor, Finish
    <3>4. ~Load(w) /\ ~SyncsDone(w) /\ ~RunDone(w)
      BY DEF Load, SyncsDone, RunDone
    <3>5. ~\E k \in queue[w] : SkipFrozen(w, k) \/ StartItem(w, k) \/ ItemGone(w, k) \/ BalancesOk(w, k)
      BY DEF SkipFrozen, StartItem, ItemGone, BalancesOk
    <3>6. ~Fault(w)
      BY DEF Fault, FetchFails, Raise, Crash, BalancesFail, Leave, BookInv, IInv, TypeOK
    <3>7. QED
      BY <2>2, <3>1, <3>2, <3>3, <3>4, <3>5, <3>6 DEF Work
  <2>3. QED
    BY <2>1, <2>2 DEF Next
<1>2. item[w] \in Items /\ status \in [Items -> Status] /\ mem[w][item[w]].status = status[item[w]]
  BY DEF BookInv, IInv, TypeOK, PageInv, MemCurrent
<1>3. status' = IF mem[w][item[w]].status = "error" THEN status
                                                    ELSE [status EXCEPT ![item[w]] = "error"]
  BY <1>1 DEF MarkError, WriteStatus
<1>4. QED
  BY <1>2, <1>3

THEOREM CrashAlwaysSurfaces ==
  ASSUME OneWorker
  PROVE  Spec => CrashSurfaces
<1>1. Init => BookInv
  BY BookInvInit
<1>2. BookInv /\ [Next]_vars => BookInv'
  BY BookInvStep
<1>3. BookInv /\ [Next]_vars =>
        [\A w \in Workers :
           (pc[w] = "mark" /\ code[w] = "INTERNAL_ERROR" /\ pc'[w] = "next")
             => status'[item[w]] # "active"]_vars
  BY MarkSurfaces
<1>4. QED
  BY <1>1, <1>2, <1>3, PTL DEF Spec, CrashSurfaces

-----------------------------------------------------------------------------
(* The refinement of BankBook. *)

LEMMA BookHistory ==
  /\ \A t \in Txns : Book!Home(t) = Home(t) /\ Book!BankLength(t) = BankLength(t)
  /\ \A t \in Txns : \A n : Book!HistoryAt(t, n) = HistoryAt(t, n)
BY DEF Book!Home, Home, Book!BankLength, BankLength, Book!HistoryAt, HistoryAt,
       Book!MentionsOf, MentionsOf

LEMMA BookPost == BankNext => Book!BankNext
BY DEF BankNext, BankAdds, BankModifies, BankRemoves, Report, HistoryAt, MentionsOf, BankLength, Home,
       Book!BankNext, Book!BankAdds, Book!BankModifies, Book!BankRemoves, Book!Report,
       Book!HistoryAt, Book!MentionsOf, Book!BankLength, Book!Home

(* Writing a row shows a later state of its transaction. *)
LEMMA ApplyShows ==
  ASSUME BookInv, [Next]_vars, NEW w \in Workers, ApplyEntry(w)
  PROVE  Book!BookNext \/ UNCHANGED Book!bookVars
<1>1. Paging(w) /\ UNCHANGED <<bank, cursor, item, resp>>
  BY ApplyOutcome
<1>2. PICK i \in left[w], t \in Txns :
        /\ Turn(w, i) /\ i \in Nat \ {0}
        /\ t = EntryAt(w, i).txn /\ item[w] = Home(t)
        /\ Takes(w, i, t) \/ Validates(w, i)
  BY ApplyOutcome
<1>3. CASE rows' = rows /\ passed' = passed
  BY <1>1, <1>3 DEF Book!bookVars, RowsOf
<1>4. CASE Waives(t)
  <2>1. Book!Waive(t)
    BY <1>1, <1>4 DEF Waives, Book!Waive, RowsOf
  <2>2. QED
    BY <2>1 DEF Book!BookNext
<1>5. CASE Writes(i, t)
  <2>1. i \in cursor[Home(t)] .. BankLength(t)
    <3>1. /\ Len(bank[Home(t)]) \in Nat /\ cursor[Home(t)] \in Nat
          /\ resp[w].upto \in Nat /\ resp[w].upto <= Len(bank[Home(t)])
      BY <1>1, <1>2, HomeType DEF BookInv, IInv, TypeOK, PageInLog, Paging
    <3>2. left[w] \subseteq cursor[Home(t)] + 1 .. resp[w].upto
      BY <1>1, <1>2 DEF BookInv, PageInv, PageAhead
    <3>3. i \in cursor[Home(t)] + 1 .. resp[w].upto
      BY <3>2
    <3>4. QED
      BY <3>1, <3>3 DEF BankLength
  <2>. DEFINE book == [u \in Txns |-> Shown(u)]
  <2>2. book' = [book EXCEPT ![t] = HistoryAt(t, i)]
    <3>1. \A u \in Txns : Shown(u)' = IF u = t THEN HistoryAt(t, i) ELSE Shown(u)
      BY <1>5 DEF Writes, Shown
    <3>2. QED
      BY <3>1
  <2>3. Book!Show(t)
    BY <1>1, <1>5, <2>1, <2>2, BookHistory DEF Book!Show, Writes, Shown
  <2>4. QED
    BY <2>3 DEF Book!BookNext
<1>6. QED
  BY <1>2, <1>3, <1>4, <1>5 DEF Takes, Validates, FindsNothingToDo

(* Saving a cursor settles what the page has brought. *)
LEMMA SaveSettles ==
  ASSUME BookInv, NEW w \in Workers, SaveCursor(w)
  PROVE  Book!BookNext \/ UNCHANGED Book!bookVars
<1>1. PICK k \in Items : k = item[w]
  BY DEF BookInv, IInv, TypeOK
<1>2. PICK n \in Nat : n = resp[w].upto
  BY DEF BookInv, IInv, TypeOK
<1>3. UNCHANGED <<bank, rows, passed>> /\ Paging(w) /\ left[w] = {}
  BY DEF SaveCursor, bankVars, Paging
<1>4. n \in cursor[k] .. Len(bank[k])
  <2>1. Len(bank[k]) \in Nat /\ cursor[k] \in Nat
    BY DEF BookInv, IInv, TypeOK
  <2>2. n <= Len(bank[k]) /\ cursor[k] <= n
    BY <1>1, <1>2, <1>3 DEF BookInv, IInv, PageInLog, PageInv, PageAhead, Paging
  <2>3. QED
    BY <2>1, <2>2
<1>5. ASSUME NEW t \in Txns \ passed, Home(t) = k
      PROVE  \E m \in n .. BankLength(t) : Shown(t) = HistoryAt(t, m)
  BY <1>1, <1>2, <1>3, <1>5, PageSettled
<1>6. cursor' = cursor \/ cursor' = [cursor EXCEPT ![k] = n]
  BY <1>1, <1>2 DEF SaveCursor
<1>7. CASE cursor' = cursor
  BY <1>3, <1>7 DEF Book!bookVars, RowsOf
<1>8. CASE cursor' = [cursor EXCEPT ![k] = n]
  <2>1. \A t \in Txns \ passed : Book!Home(t) = k => Book!UpToDate(t, n)
    BY <1>5, BookHistory DEF Book!UpToDate, Shown
  <2>2. Book!Settle(k)
    BY <1>3, <1>4, <1>8, <2>1 DEF Book!Settle, RowsOf
  <2>3. QED
    BY <2>2 DEF Book!BookNext
<1>9. QED
  BY <1>6, <1>7, <1>8

LEMMA BookStep ==
  ASSUME OneWorker, BookInv, [Next]_vars
  PROVE  Book!BookNext \/ UNCHANGED Book!bookVars
<1>1. CASE Bank
  <2>1. Book!Post
    BY <1>1, BookPost DEF Bank, dbVars, Book!Post, RowsOf
  <2>2. QED
    BY <2>1 DEF Book!BookNext
<1>2. CASE UNCHANGED <<bank, rows, passed, cursor>>
  BY <1>2 DEF Book!bookVars, RowsOf
<1>3. CASE User \/ UNCHANGED vars
  BY <1>2, <1>3 DEF User, Archive, Unarchive, vars, bankVars, dbVars
<1>4. ASSUME NEW w \in Workers,
             Trigger(w) \/ Work(w) \/ Fault(w) \/ \E k \in Items : Reconnect(w, k)
      PROVE  Book!BookNext \/ UNCHANGED Book!bookVars
  <2>1. CASE Fetch(w)
    BY <1>2, <2>1 DEF Fetch, bankVars, dbVars
  <2>2. CASE SaveCursor(w)
    BY <2>2, SaveSettles
  <2>3. CASE ApplyEntry(w)
    BY <2>3, ApplyShows
  <2>4. CASE ~Fetch(w) /\ ~SaveCursor(w) /\ ~ApplyEntry(w)
    BY <1>2, <1>4, <2>4, OtherBook
  <2>5. QED
    BY <2>1, <2>2, <2>3, <2>4
<1>5. QED
  BY <1>1, <1>3, <1>4 DEF Next

LEMMA BookInitial == Init => Book!BookInit
<1>. SUFFICES ASSUME Init PROVE Book!BookInit
  OBVIOUS
<1>1. \A t \in Txns : {r.version : r \in RowsOf(t)} = {}
  BY DEF Init, RowsOf
<1>2. QED
  BY <1>1 DEF Init, BankInit, Book!BookInit, Book!BankInit

(* As long as no two syncs overlap the tables are a book of the bank's log:  *)
(* every step of the service shows a later state of one transaction, waives  *)
(* one, settles a cursor, or changes nothing a reader of the book can see.   *)
THEOREM SyncImplementsBook ==
  ASSUME OneWorker
  PROVE  Spec => KeepsBook
<1>1. Init => BookInv /\ Book!BookInit
  BY BookInvInit, BookInitial
<1>2. BookInv /\ [Next]_vars => BookInv'
  BY BookInvStep
<1>3. BookInv /\ [Next]_vars => [Book!BookNext]_(Book!bookVars)
  BY BookStep
<1>4. QED
  BY <1>1, <1>2, <1>3, PTL DEF Spec, KeepsBook, Book!BookSpec

=============================================================================
