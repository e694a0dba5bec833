--------------------------- MODULE PlaidLinkProofs ---------------------------
(***************************************************************************)
(* Proofs about PlaidLink.  With any number of requests and syncs: type    *)
(* correctness, and that connecting a bank opens no gap.  With requests    *)
(* and syncs that take turns: a real account is connected once, a new      *)
(* bank's history is imported whole, and every loaded item has its turn.   *)
(***************************************************************************)
EXTENDS PlaidLink, PlaidSyncProofs

-----------------------------------------------------------------------------
(* Inductive invariants. *)

Linking(w) == link[w].pc # "none"

(* What a request has accepted it has inserted, the last account excepted    *)
(* while it is about to; a request that is over has forgotten its accounts.  *)
Accepted ==
  \A w \in Workers :
    /\ link[w].pc \in {"check", "own"} => created[w] \subseteq accounts
    /\ link[w].pc \in {"none", "accounts"} => created[w] = {} /\ todo[w] = {}

TokensUsed == tokens \subseteq used

LinkInv == LinkTypeOK /\ Accepted /\ TokensUsed /\ IInv

-----------------------------------------------------------------------------
(* The same with OneWorker: one thread serves everything. *)

(* The account about to be inserted duplicates none that is there. *)
NewIsNew ==
  \A w \in Workers : link[w].pc = "create" =>
    \E a \in Accts : ~Duplicate(a) /\ created[w] \subseteq accounts \cup {a}

(* Accounts and pages are of items Plaid has handed out; a request looks at  *)
(* the accounts of its own item, and no transaction of that was passed over. *)
OwnItem ==
  /\ archived = {}
  /\ \A w \in Workers : pc[w] \in {"fetch", "apply", "insert"} => item[w] \in used
  /\ \A t \in passed : Home(t) \in used
  /\ \A w \in Workers : Linking(w) =>
       /\ \A a \in todo[w] \cup created[w] : ItemOf[a] = link[w].item
       /\ \A t \in passed : Home(t) # link[w].item

(* A thread that serves a request runs no sync, and a sync that is loaded    *)
(* finds every row it loaded.                                                *)
QueueThere ==
  /\ \A w \in Workers : Linking(w) => pc[w] = "idle"
  /\ \A w \in Workers :
       pc[w] \notin {"idle", "begin"} /\ phase[w] = "transactions" => queue[w] \subseteq tokens

-----------------------------------------------------------------------------
(* What a step of the syncs means for the requests. *)

(* Worker w goes on with an item whose row is there or that it has already   *)
(* begun; it loads the rows that are there; its run ends with an empty queue *)
(* or because a row has gone.                                                *)
Moves(w) ==
  /\ pc'[w] \in {"fetch", "apply", "insert"} =>
       item'[w] \in tokens \/ (pc[w] \in {"fetch", "apply", "insert"} /\ item'[w] = item[w])
  /\ pc'[w] \notin {"idle", "begin"} /\ phase'[w] = "transactions" =>
       queue'[w] \subseteq tokens
         \/ /\ pc[w] \notin {"idle", "begin"} /\ phase[w] = "transactions"
            /\ queue'[w] \subseteq queue[w]
  /\ pc[w] # "idle" /\ pc'[w] = "idle" /\ faults' = faults =>
       queue[w] = {} \/ (pc[w] = "next" /\ phase[w] = "transactions" /\ ~(queue[w] \subseteq tokens))

LEMMA StaysMoves ==
  ASSUME TypeOK, NEW w \in Workers,
         pc'[w] = pc[w], queue'[w] = queue[w], phase'[w] = phase[w], item'[w] = item[w]
  PROVE  Moves(w)
BY DEF Moves

LEMMA OthersStay ==
  ASSUME TypeOK, NEW v \in Workers, NEW w \in Workers \ {v},
         Trigger(v) \/ Work(v) \/ Fault(v) \/ \E k \in Items : Reconnect(v, k)
  PROVE  pc'[w] = pc[w] /\ queue'[w] = queue[w] /\ phase'[w] = phase[w] /\ item'[w] = item[w]
<1>. USE DEF TypeOK
<1>1. CASE Trigger(v) \/ \E k \in Items : Reconnect(v, k)
  BY <1>1 DEF Trigger, Reconnect
<1>2. CASE Load(v) \/ SyncsDone(v) \/ RunDone(v)
  BY <1>2 DEF Load, SyncsDone, RunDone, Leave
<1>3. CASE \E k \in queue[v] : SkipFrozen(v, k) \/ StartItem(v, k) \/ ItemGone(v, k) \/ BalancesOk(v, k)
  BY <1>3 DEF SkipFrozen, StartItem, ItemGone, BalancesOk, Leave
<1>4. CASE Fetch(v) \/ SaveCursor(v) \/ Finish(v) \/ MarkError(v)
  BY <1>4 DEF Fetch, SaveCursor, Finish, MarkError
<1>5. CASE ApplyEntry(v)
  BY <1>5 DEF ApplyEntry, PassOver, Ignore, Validate, Insert, Modify, Remove
<1>6. CASE Fault(v)
  BY <1>6 DEF Fault, FetchFails, Raise, Crash, BalancesFail, Leave
<1>7. QED
  BY <1>1, <1>2, <1>3, <1>4, <1>5, <1>6 DEF Work

LEMMA OwnMoves ==
  ASSUME TypeOK, NEW w \in Workers,
         Trigger(w) \/ Work(w) \/ Fault(w) \/ \E k \in Items : Reconnect(w, k)
  PROVE  Moves(w)
<1>. USE DEF TypeOK, Moves
<1>1. CASE Trigger(w) \/ \E k \in Items : Reconnect(w, k)
  BY <1>1 DEF Trigger, Reconnect
<1>2. CASE Load(w) \/ SyncsDone(w) \/ RunDone(w)
  <2>1. CASE Load(w)
    BY <2>1 DEF Load
  <2>2. CASE SyncsDone(w)
    BY <2>2 DEF SyncsDone
  <2>3. CASE RunDone(w)
    <3>1. pc'[w] = "idle" /\ queue[w] = {}
      BY <2>3 DEF RunDone, Leave
    <3>2. QED
      BY <3>1
  <2>4. QED
    BY <1>2, <2>1, <2>2, <2>3
<1>3. ASSUME NEW k \in queue[w], SkipFrozen(w, k) \/ StartItem(w, k) \/ ItemGone(w, k) \/ BalancesOk(w, k)
      PROVE  Moves(w)
  <2>1. CASE SkipFrozen(w, k)
    BY <2>1 DEF SkipFrozen
  <2>2. CASE StartItem(w, k)
    BY <2>2 DEF StartItem
  <2>3. CASE ItemGone(w, k)
    <3>1. /\ pc'[w] = "idle" /\ pc[w] = "next"
          /\ phase[w] = "transactions" /\ ~(queue[w] \subseteq tokens)
      BY <2>3 DEF ItemGone, Leave
    <3>2. QED
      BY <3>1
  <2>4. CASE BalancesOk(w, k)
    BY <2>4 DEF BalancesOk
  <2>5. QED
    BY <1>3, <2>1, <2>2, <2>3, <2>4
<1>4. CASE Fetch(w) \/ SaveCursor(w) \/ Finish(w) \/ MarkError(w)
  BY <1>4 DEF Fetch, SaveCursor, Finish, MarkError
<1>5. CASE ApplyEntry(w)
  BY <1>5 DEF ApplyEntry, PassOver, Ignore, Validate, Insert, Modify, Remove
<1>6. CASE Fault(w)
  BY <1>6 DEF Fault, FetchFails, Raise, Crash, BalancesFail, Leave
<1>7. QED
  BY <1>1, <1>2, <1>3, <1>4, <1>5, <1>6 DEF Work

LEMMA NextMoves ==
  ASSUME TypeOK, Next, NEW w \in Workers
  PROVE  Moves(w)
<1>1. CASE Bank \/ User
  BY <1>1, StaysMoves DEF Bank, User, Archive, Unarchive, workerVars
<1>2. ASSUME NEW v \in Workers,
             Trigger(v) \/ Work(v) \/ Fault(v) \/ \E k \in Items : Reconnect(v, k)
      PROVE  Moves(w)
  <2>1. CASE v = w
    BY <1>2, <2>1, OwnMoves
  <2>2. CASE v # w
    BY <1>2, <2>2, OthersStay, StaysMoves
  <2>3. QED
    BY <2>1, <2>2
<1>3. QED
  BY <1>1, <1>2 DEF Next

(* A sync adds and removes no account and no item; what it passes over an    *)
(* entry of it passes over as PassOver says.                                 *)
LEMMA NextKeeps ==
  ASSUME Next
  PROVE  /\ UNCHANGED <<accounts, tokens>>
         /\ Togglable = {} => archived' = archived
         /\ passed' = passed \/ \E w \in Workers : \E i \in left[w] : PassOver(w, i)
<1>1. CASE Bank \/ User
  BY <1>1 DEF Bank, User, Archive, Unarchive, dbVars
<1>2. ASSUME NEW w \in Workers,
             Trigger(w) \/ Work(w) \/ Fault(w) \/ \E k \in Items : Reconnect(w, k)
      PROVE  /\ UNCHANGED <<accounts, tokens, archived>>
             /\ passed' = passed \/ \E i \in left[w] : PassOver(w, i)
  <2>1. CASE Trigger(w) \/ \E k \in Items : Reconnect(w, k)
    BY <2>1 DEF Trigger, Reconnect, dbVars
  <2>2. CASE Load(w) \/ SyncsDone(w) \/ RunDone(w)
    BY <2>2 DEF Load, SyncsDone, RunDone, dbVars
  <2>3. CASE \E k \in queue[w] : SkipFrozen(w, k) \/ StartItem(w, k) \/ ItemGone(w, k) \/ BalancesOk(w, k)
    BY <2>3 DEF SkipFrozen, StartItem, ItemGone, BalancesOk, dbVars
  <2>4. CASE Fetch(w) \/ SaveCursor(w) \/ Finish(w) \/ MarkError(w)
    BY <2>4 DEF Fetch, SaveCursor, Finish, MarkError, dbVars
  <2>5. CASE ApplyEntry(w)
    <3>1. PICK i \in left[w] : PassOver(w, i) \/ Ignore(w, i) \/ Validate(w, i)
                                 \/ Insert(w, i) \/ Modify(w, i) \/ Remove(w, i)
      BY <2>5 DEF ApplyEntry
    <3>2. CASE PassOver(w, i)
      BY <3>2 DEF PassOver, dbVars
    <3>3. CASE ~PassOver(w, i)
      BY <3>1, <3>3 DEF Ignore, Validate, Insert, Modify, Remove, dbVars
    <3>4. QED
      BY <3>2, <3>3
  <2>6. CASE Fault(w)
    BY <2>6 DEF Fault, FetchFails, Raise, Crash, BalancesFail, dbVars
  <2>7. QED
    BY <1>2, <2>1, <2>2, <2>3, <2>4, <2>5, <2>6 DEF Work
<1>3. QED
  BY <1>1, <1>2 DEF Next

-----------------------------------------------------------------------------
(* Any number of requests and syncs. *)

LEMMA LinkInvInit == LinkInit => LinkInv
<1>. SUFFICES ASSUME LinkInit PROVE LinkInv
  OBVIOUS
<1>1. IInv /\ TypeOK
  BY InvInit DEF LinkInit, IInv
<1>2. LinkTypeOK
  BY <1>1, AnyItemType, SyncAssumption DEF LinkInit, LinkTypeOK, NoLink, LinkPCs
<1>3. Accepted /\ TokensUsed
  BY DEF LinkInit, Init, Accepted, TokensUsed, NoLink
<1>4. QED
  BY <1>1, <1>2, <1>3 DEF LinkInv

LEMMA SyncKeepsLink ==
  ASSUME LinkInv, SyncStep
  PROVE  LinkInv'
<1>1. Next /\ UNCHANGED <<link, todo, created, owned, used, accounts, tokens>>
  BY NextKeeps DEF SyncStep
<1>2. IInv' /\ TypeOK'
  BY <1>1, InvStep DEF LinkInv, IInv
<1>3. \A k \in Items : (\E w \in Workers : pc[w] = "next" /\ pc'[w] = "fetch" /\ item'[w] = k) => k \in used
  <2>1. SUFFICES ASSUME NEW w \in Workers, pc[w] = "next", pc'[w] = "fetch" PROVE item'[w] \in used
    OBVIOUS
  <2>2. Moves(w)
    BY <1>1, NextMoves DEF LinkInv, IInv
  <2>3. QED
    BY <2>1, <2>2 DEF Moves, LinkInv, TokensUsed
<1>4. evented' \subseteq used
  BY <1>3 DEF SyncStep, LinkInv, LinkTypeOK
<1>5. LinkTypeOK'
  BY <1>1, <1>2, <1>4 DEF LinkInv, LinkTypeOK
<1>6. Accepted' /\ TokensUsed'
  BY <1>1 DEF LinkInv, Accepted, TokensUsed
<1>7. QED
  BY <1>2, <1>5, <1>6 DEF LinkInv

(* A request changes nothing that the cursors are about; the thread that     *)
(* goes on to sync has no page yet.                                          *)
LEMMA LinkCovered ==
  ASSUME IInv, TypeOK', UNCHANGED <<bank, cursor, rows, mem, item, resp, left, passed>>,
         \A w \in Workers : pc'[w] \in {"apply", "insert"} => pc[w] \in {"apply", "insert"}
  PROVE  IInv'
<1>1. \A t : Delivered(t)' = Delivered(t)
  BY DEF Delivered, RowsOf, RemovedUpstream, MentionsOf, BankLength
<1>2. \A k, i : Handled(k, i)' = Handled(k, i)
  BY <1>1 DEF Handled
<1>3. \A k, n : Covered(k, n)' = Covered(k, n)
  BY <1>2 DEF Covered
<1>4. LogsApart' /\ CursorCovered' /\ MemCovered'
  BY <1>3 DEF IInv, LogsApart, CursorCovered, MemCovered
<1>5. PageInLog' /\ PageCovered'
  BY <1>2 DEF IInv, PageInLog, PageCovered
<1>6. QED
  BY <1>4, <1>5 DEF IInv

LEMMA LinkStepKeeps ==
  ASSUME LinkInv, NEW w \in Workers, LinkStep(w)
  PROVE  LinkTypeOK' /\ Accepted' /\ TokensUsed'
<1>. USE DEF LinkInv, LinkTypeOK, TypeOK, Accepted, TokensUsed
<1>1. ASSUME NEW k \in Items, CreateToken(w, k) PROVE LinkTypeOK' /\ Accepted' /\ TokensUsed'
  BY <1>1 DEF CreateToken, LinkPCs, bankVars, workerVars
<1>2. ASSUME NEW a \in todo[w], SkipDuplicate(w, a) PROVE LinkTypeOK' /\ Accepted' /\ TokensUsed'
  BY <1>2 DEF SkipDuplicate, vars, bankVars, dbVars, workerVars
<1>3. ASSUME NEW a \in todo[w], AcceptAccount(w, a) PROVE LinkTypeOK' /\ Accepted' /\ TokensUsed'
  BY ZenonT(30), <1>3 DEF AcceptAccount, Goto, LinkPCs, vars, bankVars, dbVars, workerVars
<1>4. CASE GetAccounts(w)
  BY ZenonT(30), <1>4 DEF GetAccounts, Goto, LinkPCs, vars, bankVars, dbVars, workerVars
<1>5. CASE CreateAccount(w)
  BY ZenonT(30), <1>5 DEF CreateAccount, Goto, LinkPCs, bankVars, workerVars
<1>6. CASE OwnAccount(w)
  BY ZenonT(30), <1>6 DEF OwnAccount, Goto, LinkPCs, vars, bankVars, dbVars, workerVars
<1>7. CASE StartInitialSync(w)
  BY <1>7, AnyItemType DEF StartInitialSync, EndLink, NoLink, LinkPCs, PCs, bankVars, dbVars
<1>8. CASE Refuse(w)
  BY ZenonT(30), <1>8 DEF Refuse, Goto, LinkPCs, vars, bankVars, dbVars, workerVars
<1>9. CASE DestroyToken(w)
  BY <1>9, AnyItemType DEF DestroyToken, EndLink, NoLink, LinkPCs, bankVars, workerVars
<1>10. CASE LinkFails(w)
  <2>1. faults' \in 0 .. MaxFaults
    BY <1>10, SyncAssumption DEF LinkFails
  <2>2. /\ link' \in [Workers -> [pc : LinkPCs, item : Items]]
        /\ todo' \in [Workers -> SUBSET Accts] /\ created' \in [Workers -> SUBSET Accts]
    BY <1>10, AnyItemType DEF LinkFails, EndLink, NoLink, LinkPCs
  <2>3. UNCHANGED <<bankVars, dbVars, workerVars, passed, owned, used, evented>>
    BY <1>10 DEF LinkFails
  <2>4. LinkTypeOK'
    BY <2>1, <2>2, <2>3 DEF bankVars, dbVars, workerVars
  <2>5. Accepted' /\ TokensUsed'
    BY <1>10, <2>3 DEF LinkFails, EndLink, NoLink, dbVars
  <2>6. QED
    BY <2>4, <2>5
<1>11. QED
  BY <1>1, <1>2, <1>3, <1>4, <1>5, <1>6, <1>7, <1>8, <1>9, <1>10 DEF LinkStep

LEMMA LinkInvStep == LinkInv /\ [LinkNext]_allVars => LinkInv'
<1>. SUFFICES ASSUME LinkInv, [LinkNext]_allVars PROVE LinkInv'
  OBVIOUS
<1>1. CASE SyncStep
  BY <1>1, SyncKeepsLink
<1>2. ASSUME NEW w \in Workers, LinkStep(w) PROVE LinkInv'
  <2>1. LinkTypeOK' /\ Accepted' /\ TokensUsed'
    BY <1>2, LinkStepKeeps
  <2>2. UNCHANGED <<bank, cursor, rows, mem, item, resp, left, passed>>
    BY <1>2 DEF LinkStep, CreateToken, SkipDuplicate, AcceptAccount, GetAccounts, CreateAccount, OwnAccount,
                StartInitialSync, Refuse, DestroyToken, LinkFails, vars, bankVars, dbVars, workerVars
  <2>3. pc' = pc \/ pc' = [pc EXCEPT ![w] = "begin"]
    BY <1>2 DEF LinkStep, CreateToken, SkipDuplicate, AcceptAccount, GetAccounts, CreateAccount, OwnAccount,
                StartInitialSync, Refuse, DestroyToken, LinkFails, vars, workerVars
  <2>4. \A v \in Workers : pc'[v] \in {"apply", "insert"} => pc[v] \in {"apply", "insert"}
    BY <2>3 DEF LinkInv, LinkTypeOK, TypeOK
  <2>5. IInv'
    BY <2>1, <2>2, <2>4, LinkCovered DEF LinkInv, LinkTypeOK
  <2>6. QED
    BY <2>1, <2>5 DEF LinkInv
<1>3. CASE UNCHANGED allVars
  <2>1. UNCHANGED vars /\ UNCHANGED <<link, todo, created, owned, used, evented, accounts, tokens>>
    BY <1>3 DEF allVars, linkVars, vars, dbVars
  <2>2. IInv' /\ TypeOK'
    BY <2>1, InvStep DEF LinkInv, IInv
  <2>3. QED
    BY <2>1, <2>2 DEF LinkInv, LinkTypeOK, Accepted, TokensUsed
<1>4. QED
  BY <1>1, <1>2, <1>3 DEF LinkNext

(* However many requests connect banks while syncs run and either fails, the *)
(* tables keep their types; every account a user sees has its row            *)
(* (plaid_accounts_controller.rb:125-152).                                   *)
THEOREM LinkTypeCorrect == LinkSpec => []LinkTypeOK
<1>1. LinkInv => LinkTypeOK
  BY DEF LinkInv
<1>2. QED
  BY <1>1, LinkInvInit, LinkInvStep, PTL DEF LinkSpec

(* Connecting and discarding items in the middle of syncs opens no gap:      *)
(* no saved cursor is ahead of what has been stored (plaid_service.rb:79-85). *)
THEOREM LinkingLeavesNoGap == LinkSpec => []NoGap
<1>1. LinkInv => NoGap
  BY InvNoGap DEF LinkInv
<1>2. QED
  BY <1>1, LinkInvInit, LinkInvStep, PTL DEF LinkSpec

-----------------------------------------------------------------------------
(* Requests and syncs that take turns. *)

(* The accounts connected to begin with are different ones. *)
ConnectedOnce ==
  \A a, b \in Accts :
    ItemOf[a] \in Connected /\ ItemOf[b] \in Connected /\ RealOf[a] = RealOf[b] => a = b

OnceInv == LinkInv /\ NewIsNew /\ RealAccountOnce

LEMMA OnceStep ==
  ASSUME OneWorker, OnceInv, [LinkNext]_allVars
  PROVE  NewIsNew' /\ RealAccountOnce'
<1>. USE DEF OnceInv, LinkInv, LinkTypeOK, NewIsNew, RealAccountOnce, Duplicate
<1>1. CASE SyncStep \/ UNCHANGED allVars
  <2>1. UNCHANGED <<link, created, accounts>>
    BY <1>1, NextKeeps DEF SyncStep, allVars, linkVars, vars, dbVars
  <2>2. QED
    BY <2>1
<1>2. ASSUME NEW w \in Workers, NEW a \in todo[w], AcceptAccount(w, a)
      PROVE  NewIsNew' /\ RealAccountOnce'
  <2>1. accounts' = accounts /\ created'[w] = created[w] \cup {a} /\ a \in Accts /\ ~Duplicate(a)
    BY <1>2 DEF AcceptAccount, vars, dbVars
  <2>2. created[w] \subseteq accounts
    BY <1>2 DEF AcceptAccount, Accepted
  <2>3. \A v \in Workers : v = w
    BY DEF OneWorker
  <2>4. QED
    BY <2>1, <2>2, <2>3
<1>3. ASSUME NEW w \in Workers, CreateAccount(w)
      PROVE  NewIsNew' /\ RealAccountOnce'
  <2>1. link'[w].pc = "own" /\ accounts' = accounts \cup created[w]
    BY <1>3 DEF CreateAccount, Goto
  <2>2. PICK a \in Accts : ~Duplicate(a) /\ created[w] \subseteq accounts \cup {a}
    BY <1>3 DEF CreateAccount
  <2>3. \A v \in Workers : v = w
    BY DEF OneWorker
  <2>4. RealAccountOnce'
    BY <2>1, <2>2
  <2>5. QED
    BY <2>1, <2>3, <2>4
<1>4. ASSUME NEW w \in Workers, LinkStep(w), ~CreateAccount(w), \A a \in todo[w] : ~AcceptAccount(w, a)
      PROVE  NewIsNew' /\ RealAccountOnce'
  <2>1. accounts' = accounts
    BY <1>4 DEF LinkStep, CreateToken, SkipDuplicate, GetAccounts, OwnAccount,
                StartInitialSync, Refuse, DestroyToken, LinkFails, vars, dbVars
  <2>2. link'[w].pc = "create" => link[w].pc = "create" /\ created'[w] = created[w]
    BY <1>4 DEF LinkStep, CreateToken, SkipDuplicate, GetAccounts, OwnAccount, Goto, EndLink, NoLink,
                StartInitialSync, Refuse, DestroyToken, LinkFails
  <2>3. \A v \in Workers : v = w
    BY DEF OneWorker
  <2>4. QED
    BY <2>1, <2>2, <2>3
<1>5. QED
  BY <1>1, <1>2, <1>3, <1>4 DEF LinkNext, LinkStep

(* Connecting banks one request at a time connects a real account once, even *)
(* when a bank comes back as another item or a request fails half way        *)
(* (plaid_accounts_controller.rb:118-131).                                   *)
THEOREM AccountsConnectOnce ==
  ASSUME OneWorker, ConnectedOnce
  PROVE  LinkSpec => []RealAccountOnce
<1>1. LinkInit => OnceInv
  <2>1. LinkInit => NewIsNew /\ RealAccountOnce
    BY DEF LinkInit, Init, NewIsNew, NoLink, RealAccountOnce, ConnectedOnce
  <2>2. QED
    BY <2>1, LinkInvInit DEF OnceInv
<1>2. OnceInv /\ [LinkNext]_allVars => OnceInv'
  BY LinkInvStep, OnceStep DEF OnceInv
<1>3. OnceInv => RealAccountOnce
  BY DEF OnceInv
<1>4. QED
  BY <1>1, <1>2, <1>3, PTL DEF LinkSpec

(* The transactions of an item that a request is connecting.                 *)

HistoryInv == LinkInv /\ OwnItem /\ HistoryImported

(* A transaction whose entry is passed over is one of the item being         *)
(* synchronised, and its account is not connected.                           *)
LEMMA PassOverIs ==
  ASSUME HistoryInv, NEW w \in Workers, NEW i \in left[w], PassOver(w, i)
  PROVE  \E t \in Txns : /\ passed' = passed \cup {t} /\ pc[w] = "apply" /\ pc' = pc
                         /\ Home(t) = item[w] /\ AcctOf[t] \notin accounts
<1>1. i \in 1 .. Len(bank[item[w]])
  <2>1. /\ left[w] \subseteq 1 .. resp[w].upto /\ resp[w].upto <= Len(bank[item[w]])
        /\ resp[w].upto \in Nat /\ Len(bank[item[w]]) \in Nat
    BY DEF PassOver, HistoryInv, LinkInv, IInv, PageInLog, TypeOK
  <2>2. QED
    BY <2>1
<1>. DEFINE t == bank[item[w]][i].txn
<1>2. Home(t) = item[w] /\ t \in Txns
  <2>1. bank[item[w]] \in Seq(Entry) /\ item[w] \in Items
    BY DEF HistoryInv, LinkInv, IInv, TypeOK
  <2>2. bank[item[w]][i] \in Entry
    BY <1>1, <2>1
  <2>3. QED
    BY <1>1, <2>1, <2>2 DEF HistoryInv, LinkInv, IInv, LogsApart, Entry
<1>3. archived = {}
  BY DEF HistoryInv, OwnItem
<1>4. passed' = passed \cup {t} /\ pc[w] = "apply" /\ pc' = pc /\ AcctOf[t] \notin accounts
  BY <1>3 DEF PassOver, EntryAt, Live
<1>5. QED
  BY <1>2, <1>4

LEMMA SyncKeepsHistory ==
  ASSUME OneWorker, Togglable = {}, HistoryInv, SyncStep
  PROVE  OwnItem' /\ HistoryImported'
<1>1. Next /\ UNCHANGED <<link, todo, created, used, accounts, tokens, archived>>
  BY NextKeeps DEF SyncStep
<1>2. ASSUME NEW w \in Workers, pc'[w] \in {"fetch", "apply", "insert"} PROVE item'[w] \in used
  <2>1. Moves(w)
    BY <1>1, NextMoves DEF HistoryInv, LinkInv, IInv
  <2>2. QED
    BY <1>2, <2>1 DEF Moves, HistoryInv, LinkInv, TokensUsed, OwnItem
<1>3. CASE passed' = passed
  BY <1>1, <1>2, <1>3 DEF HistoryInv, OwnItem, HistoryImported, Linking
<1>4. ASSUME NEW w \in Workers, NEW i \in left[w], PassOver(w, i)
      PROVE  OwnItem' /\ HistoryImported'
  <2>1. PICK t \in Txns : /\ passed' = passed \cup {t} /\ pc[w] = "apply" /\ pc' = pc
                          /\ Home(t) = item[w] /\ AcctOf[t] \notin accounts
    BY <1>4, PassOverIs
  <2>2. Home(t) \in used
    BY <2>1 DEF HistoryInv, OwnItem
  <2>3. \A v \in Workers : ~Linking(v)
    BY <2>1 DEF SyncStep, Linking, OneWorker
  <2>4. QED
    BY <1>1, <1>2, <2>1, <2>2, <2>3 DEF HistoryInv, OwnItem, HistoryImported, Linking
<1>5. QED
  BY <1>1, <1>3, <1>4, NextKeeps

LEMMA LinkKeepsHistory ==
  ASSUME OneWorker, HistoryInv, NEW w \in Workers, LinkStep(w)
  PROVE  OwnItem' /\ HistoryImported'
<1>1. UNCHANGED <<archived, passed, item>> /\ used \subseteq used'
  BY DEF LinkStep, CreateToken, SkipDuplicate, AcceptAccount, GetAccounts, CreateAccount, OwnAccount,
         StartInitialSync, Refuse, DestroyToken, LinkFails, vars, dbVars, workerVars
<1>2. pc' = pc \/ pc' = [pc EXCEPT ![w] = "begin"]
  BY DEF LinkStep, CreateToken, SkipDuplicate, AcceptAccount, GetAccounts, CreateAccount, OwnAccount,
         StartInitialSync, Refuse, DestroyToken, LinkFails, vars, workerVars
<1>3. \A v \in Workers : pc'[v] \in {"fetch", "apply", "insert"} => item'[v] \in used'
  BY <1>1, <1>2 DEF HistoryInv, LinkInv, LinkTypeOK, TypeOK, OwnItem
<1>4. \A v \in Workers : v = w
  BY DEF OneWorker
<1>5. accounts' = accounts \/ (accounts' = accounts \cup created[w] /\ Linking(w))
  BY DEF LinkStep, CreateToken, SkipDuplicate, AcceptAccount, GetAccounts, CreateAccount, OwnAccount,
         StartInitialSync, Refuse, DestroyToken, LinkFails, vars, dbVars, Linking
<1>6. HistoryImported'
  BY <1>1, <1>5 DEF HistoryInv, OwnItem, HistoryImported, Home
<1>. DEFINE HomeKept == Linking(w)' => /\ \A a \in todo'[w] \cup created'[w] : ItemOf[a] = link'[w].item
                                      /\ \A t \in passed : Home(t) # link'[w].item
<1>7. HomeKept
  <2>1. /\ Linking(w) => /\ \A a \in todo[w] \cup created[w] : ItemOf[a] = link[w].item
                         /\ \A t \in passed : Home(t) # link[w].item
        /\ DOMAIN link = Workers /\ DOMAIN todo = Workers /\ DOMAIN created = Workers
        /\ link[w] = [pc |-> link[w].pc, item |-> link[w].item]
    BY DEF HistoryInv, LinkInv, LinkTypeOK, OwnItem
  <2>2. ASSUME NEW k \in Items, CreateToken(w, k) PROVE HomeKept
    <3>1. created'[w] = {} /\ todo'[w] = {}
      BY <2>2 DEF CreateToken, HistoryInv, LinkInv, Accepted
    <3>2. link'[w].item = k /\ k \notin used
      BY <2>1, <2>2 DEF CreateToken
    <3>3. QED
      BY <3>1, <3>2 DEF HistoryInv, OwnItem
  <2>3. CASE GetAccounts(w)
    <3>1. /\ link'[w].item = link[w].item /\ created'[w] = created[w] /\ Linking(w)
          /\ todo'[w] = {a \in Accts : ItemOf[a] = link[w].item}
      BY <2>1, <2>3 DEF GetAccounts, Goto, Linking
    <3>2. QED
      BY <2>1, <3>1
  <2>4. ASSUME NEW a \in todo[w], SkipDuplicate(w, a) \/ AcceptAccount(w, a) PROVE HomeKept
    <3>1. /\ link'[w].item = link[w].item /\ Linking(w)
          /\ todo'[w] \cup created'[w] \subseteq todo[w] \cup created[w]
      BY <2>1, <2>4 DEF SkipDuplicate, AcceptAccount, Goto, Linking
    <3>2. QED
      BY <2>1, <3>1
  <2>5. CASE CreateAccount(w) \/ OwnAccount(w) \/ Refuse(w)
    <3>1. /\ link'[w].item = link[w].item /\ Linking(w) /\ todo' = todo /\ created' = created
      BY <2>1, <2>5 DEF CreateAccount, OwnAccount, Refuse, Goto, Linking
    <3>2. QED
      BY <2>1, <3>1
  <2>6. CASE StartInitialSync(w) \/ DestroyToken(w) \/ LinkFails(w)
    <3>1. ~Linking(w)'
      BY <2>1, <2>6 DEF StartInitialSync, DestroyToken, LinkFails, EndLink, NoLink, Linking
    <3>2. QED
      BY <3>1
  <2>7. QED
    BY <2>2, <2>3, <2>4, <2>5, <2>6 DEF LinkStep
<1>8. QED
  BY <1>1, <1>3, <1>4, <1>6, <1>7 DEF HistoryInv, OwnItem, Linking

(* Requests one at a time: whatever syncs, failures and half finished        *)
(* requests came before, the initial sync of a new account passes over none  *)
(* of its transactions (plaid_accounts_controller.rb:115-160,                *)
(* plaid_service.rb:129-137).                                                *)
THEOREM HistoryIsImported ==
  ASSUME OneWorker, Togglable = {}
  PROVE  LinkSpec => []HistoryImported
<1>1. LinkInit => HistoryInv
  <2>1. LinkInit => OwnItem /\ HistoryImported
    BY DEF LinkInit, Init, OwnItem, HistoryImported, NoLink, Linking
  <2>2. QED
    BY <2>1, LinkInvInit DEF HistoryInv
<1>2. HistoryInv /\ [LinkNext]_allVars => HistoryInv'
  <2>. SUFFICES ASSUME HistoryInv, [LinkNext]_allVars PROVE HistoryInv'
    OBVIOUS
  <2>1. LinkInv'
    BY LinkInvStep DEF HistoryInv
  <2>2. CASE UNCHANGED allVars
    <3>1. UNCHANGED <<archived, pc, item, used, passed, link, todo, created, accounts>>
      BY <2>2 DEF allVars, linkVars, vars, dbVars, workerVars
    <3>2. QED
      BY <2>1, <3>1 DEF HistoryInv, OwnItem, HistoryImported, Linking
  <2>3. QED
    BY <2>1, <2>2, SyncKeepsHistory, LinkKeepsHistory DEF HistoryInv, LinkNext
<1>3. HistoryInv => HistoryImported
  BY DEF HistoryInv
<1>4. QED
  BY <1>1, <1>2, <1>3, PTL DEF LinkSpec

-----------------------------------------------------------------------------
(* The items a run has loaded. *)

TurnInv == LinkInv /\ QueueThere

LEMMA TurnStep ==
  ASSUME OneWorker, TurnInv, [LinkNext]_allVars
  PROVE  QueueThere'
<1>1. CASE SyncStep
  <2>1. Next /\ UNCHANGED <<link, tokens>> /\ \A w \in Workers : Linking(w) => pc'[w] = "idle"
    BY <1>1, NextKeeps DEF SyncStep, Linking
  <2>2. ASSUME NEW w \in Workers, pc'[w] \notin {"idle", "begin"}, phase'[w] = "transactions"
        PROVE  queue'[w] \subseteq tokens
    <3>1. Moves(w)
      BY <2>1, NextMoves DEF TurnInv, LinkInv, IInv
    <3>2. QED
      BY <2>2, <3>1 DEF Moves, TurnInv, QueueThere
  <2>3. QED
    BY <2>1, <2>2 DEF QueueThere, Linking
<1>2. ASSUME NEW w \in Workers, LinkStep(w) PROVE QueueThere'
  <2>1. UNCHANGED <<phase, queue>>
    BY <1>2 DEF LinkStep, CreateToken, SkipDuplicate, AcceptAccount, GetAccounts, CreateAccount, OwnAccount,
                StartInitialSync, Refuse, DestroyToken, LinkFails, vars, workerVars
  <2>2. CASE StartInitialSync(w)
    <3>1. pc'[w] = "begin" /\ ~Linking(w)'
      BY <2>2 DEF StartInitialSync, EndLink, NoLink, Linking, TurnInv, LinkInv, LinkTypeOK, TypeOK
    <3>2. QED
      BY <3>1 DEF QueueThere, OneWorker
  <2>3. CASE ~StartInitialSync(w)
    <3>1. pc' = pc /\ pc[w] = "idle"
      BY <1>2, <2>3 DEF LinkStep, CreateToken, SkipDuplicate, AcceptAccount, GetAccounts, CreateAccount,
                        OwnAccount, Refuse, DestroyToken, LinkFails, vars, workerVars,
                        TurnInv, QueueThere, Linking
    <3>2. QED
      BY <3>1 DEF QueueThere, OneWorker
  <2>4. QED
    BY <2>2, <2>3
<1>3. CASE UNCHANGED allVars
  <2>1. UNCHANGED <<pc, phase, queue, tokens, link>>
    BY <1>3 DEF allVars, linkVars, vars, dbVars, workerVars
  <2>2. QED
    BY <2>1 DEF TurnInv, QueueThere, Linking
<1>4. QED
  BY <1>1, <1>2, <1>3 DEF LinkNext

(* Requests and syncs one after another: a run that no fault ends has given  *)
(* every item it loaded its turn (plaid_service.rb:40-77).                   *)
THEOREM EveryItemHasItsTurn ==
  ASSUME OneWorker
  PROVE  LinkSpec => ItemsIsolated
<1>1. LinkInit => TurnInv
  <2>1. LinkInit => QueueThere
    BY DEF LinkInit, Init, QueueThere, NoLink, Linking
  <2>2. QED
    BY <2>1, LinkInvInit DEF TurnInv
<1>2. TurnInv /\ [LinkNext]_allVars => TurnInv'
  BY LinkInvStep, TurnStep DEF TurnInv
<1>3. TurnInv /\ [LinkNext]_allVars =>
        [\A w \in Workers :
           (pc[w] # "idle" /\ pc'[w] = "idle" /\ faults' = faults) => queue[w] = {}]_allVars
  <2>. SUFFICES ASSUME TurnInv, LinkNext, NEW w \in Workers,
                       pc[w] # "idle", pc'[w] = "idle", faults' = faults
                PROVE  queue[w] = {}
    OBVIOUS
  <2>1. CASE SyncStep
    <3>1. Moves(w)
      BY <2>1, NextMoves DEF SyncStep, TurnInv, LinkInv, IInv
    <3>2. QED
      BY <3>1 DEF Moves, TurnInv, QueueThere
  <2>2. ASSUME NEW v \in Workers, LinkStep(v) PROVE FALSE
    <3>1. pc' = pc \/ pc' = [pc EXCEPT ![v] = "begin"]
      BY <2>2 DEF LinkStep, CreateToken, SkipDuplicate, AcceptAccount, GetAccounts, CreateAccount, OwnAccount,
                  StartInitialSync, Refuse, DestroyToken, LinkFails, vars, workerVars
    <3>2. QED
      BY <3>1 DEF TurnInv, LinkInv, LinkTypeOK, TypeOK
  <2>3. QED
    BY <2>1, <2>2 DEF LinkNext
<1>4. QED
  BY <1>1, <1>2, <1>3, PTL DEF LinkSpec, ItemsIsolated

=============================================================================
