------------------------------ MODULE PlaidSync ------------------------------
(***************************************************************************)
(* The transaction synchronisation of app/services/plaid_service.rb.       *)
(*                                                                         *)
(* A worker is one Ruby call stack that runs PlaidService for an account:  *)
(* a Puma thread serving update_all or reconnect, or the rake task.  An    *)
(* item is a PlaidAccessToken row (a Plaid Item, one bank login); accts    *)
(* are PlaidAccount rows.  Every database statement of the service commits *)
(* on its own, so one action is one statement or one Plaid call, and other *)
(* workers, the user and the bank may act in between.                      *)
(*                                                                         *)
(* Left out: the text of the rows, merchants (looked up or created before  *)
(* the insert), the append-only AccountBalance rows, which nothing here    *)
(* reads, and PlaidSyncEvent rows, whose STARTED / COMPLETED / ERROR state *)
(* is the pc of the worker that owns them.                                 *)
(***************************************************************************)
EXTENDS BankLog

CONSTANTS
  Workers,     \* the threads that may run the service
  Connected,   \* the items connected to begin with
  Togglable,   \* accounts the user may archive and unarchive
  PageSize,    \* entries Plaid returns per transactions_sync call
  MaxFaults    \* bound: failed calls, exceptions and crashes

ASSUME SyncAssumption ==
  /\ Connected \subseteq Items
  /\ Togglable \subseteq Accts
  /\ PageSize \in Nat \ {0}
  /\ MaxFaults \in Nat

VARIABLES
  tokens,    \* plaid_access_tokens rows
  cursor,    \* plaid_access_tokens.next_cursor, as a position in the log
  status,    \* plaid_access_tokens.status
  accounts,  \* plaid_accounts rows
  archived,  \* plaid_accounts with archived_at set
  rows,      \* plaid_transactions rows
  pc,        \* where each worker is
  loaded,    \* @account.plaid_access_tokens as the worker loaded it
  mem,       \* the cursor and status of those records in the worker's memory
  phase,     \* inside sync_transactions or inside sync_balances
  queue,     \* items its loop has still to visit
  item,      \* the item being visited
  resp,      \* the last response: the position it reaches, and has_more
  left,      \* positions of the response not applied yet
  code,      \* the error code a rescue is about to record
  passed,    \* history: transactions an entry of which was passed over
  faults     \* history: faults so far

bankVars   == <<bank>>
dbVars     == <<tokens, cursor, status, accounts, archived, rows>>
workerVars == <<pc, loaded, mem, phase, queue, item, resp, left, code>>
vars       == <<bankVars, dbVars, workerVars, passed, faults>>

Status   == {"active", "login_required", "error"}
Codes    == {"REAUTH", "OTHER", "INTERNAL_ERROR"}

(* by tells two copies of one transaction apart: the worker that inserted it *)
Row  == [txn : Txns, by : Workers, version : Versions]
Copy == [cursor : Nat, status : Status]
PCs  == {"idle", "begin", "next", "fetch", "apply", "insert", "finish", "mark"}

NoCopy  == [k \in Items |-> [cursor |-> 0, status |-> "active"]]
AnyItem == CHOOSE k \in Items : TRUE
NoResp  == [upto |-> 0, more |-> FALSE]

TypeOK ==
  /\ bank \in [Items -> Seq(Entry)]
  /\ tokens \subseteq Items
  /\ cursor \in [Items -> Nat]
  /\ status \in [Items -> Status]
  /\ accounts \subseteq Accts
  /\ archived \subseteq Accts
  /\ rows \subseteq Row
  /\ pc \in [Workers -> PCs]
  /\ loaded \in [Workers -> SUBSET Items]
  /\ mem \in [Workers -> [Items -> Copy]]
  /\ phase \in [Workers -> {"transactions", "balances"}]
  /\ queue \in [Workers -> SUBSET Items]
  /\ item \in [Workers -> Items]
  /\ resp \in [Workers -> [upto : Nat, more : BOOLEAN]]
  /\ left \in [Workers -> SUBSET Nat]
  /\ code \in [Workers -> Codes]
  /\ passed \subseteq Txns
  /\ faults \in 0 .. MaxFaults

-----------------------------------------------------------------------------
(* Reading the tables. *)

Live(a)      == a \in accounts \ archived
RowsOf(t)    == {r \in rows : r.txn = t}
AccountsOf(k) == {a \in accounts : ItemOf[a] = k}

(* Mutant: an item in error is left alone too. *)
FrozenOrFailed(k) == (AccountsOf(k) # {} /\ AccountsOf(k) \subseteq archived) \/ status[k] # "active"

(* plaid_accounts.any? && plaid_accounts.not_archived.none? *)
Frozen(k) == AccountsOf(k) # {} /\ AccountsOf(k) \subseteq archived

-----------------------------------------------------------------------------
Init ==
  /\ BankInit
  /\ tokens = Connected
  /\ cursor = [k \in Items |-> 0]
  /\ status = [k \in Items |-> "active"]
  /\ accounts = {a \in Accts : ItemOf[a] \in Connected}
  /\ archived = {}
  /\ rows = {}
  /\ pc = [w \in Workers |-> "idle"]
  /\ loaded = [w \in Workers |-> {}]
  /\ mem = [w \in Workers |-> NoCopy]
  /\ phase = [w \in Workers |-> "transactions"]
  /\ queue = [w \in Workers |-> {}]
  /\ item = [w \in Workers |-> AnyItem]
  /\ resp = [w \in Workers |-> NoResp]
  /\ left = [w \in Workers |-> {}]
  /\ code = [w \in Workers |-> "INTERNAL_ERROR"]
  /\ passed = {}
  /\ faults = 0

-----------------------------------------------------------------------------
(* The bank. *)
Bank ==
  /\ BankNext
  /\ UNCHANGED <<dbVars, workerVars, passed, faults>>

-----------------------------------------------------------------------------
(* The user. *)

Archive(a) ==
  /\ a \in Togglable \cap accounts
  /\ archived' = archived \cup {a}
  /\ archived' # archived
  /\ UNCHANGED <<bankVars, tokens, cursor, status, accounts, rows, workerVars, passed, faults>>

Unarchive(a) ==
  /\ a \in Togglable \cap archived
  /\ archived' = archived \ {a}
  /\ UNCHANGED <<bankVars, tokens, cursor, status, accounts, rows, workerVars, passed, faults>>

User == \E a \in Accts : Archive(a) \/ Unarchive(a)

-----------------------------------------------------------------------------
(* A run of the service. *)

(* GET /api/update_all or the rake task; exchange_public_token ends the     *)
(* same way.                                                                *)
Trigger(w) ==
  /\ pc[w] = "idle"
  /\ pc' = [pc EXCEPT ![w] = "begin"]
  /\ UNCHANGED <<bankVars, dbVars, loaded, mem, phase, queue, item, resp, left, code, passed, faults>>

(* POST /api/plaid_accounts/reconnect: a freshly loaded record is marked    *)
(* healthy, then a new service instance runs.                               *)
Reconnect(w, k) ==
  /\ pc[w] = "idle"
  /\ k \in tokens
  /\ status' = [status EXCEPT ![k] = "active"]
  /\ pc' = [pc EXCEPT ![w] = "begin"]
  /\ UNCHANGED <<bankVars, tokens, cursor, accounts, archived, rows,
                 loaded, mem, phase, queue, item, resp, left, code, passed, faults>>

(* `access_tokens.each` loads all the records at once: what the worker knows *)
(* of an item's cursor and status dates from here, not from its turn.        *)
Load(w) ==
  /\ pc[w] = "begin"
  /\ pc' = [pc EXCEPT ![w] = "next"]
  /\ loaded' = [loaded EXCEPT ![w] = tokens]
  /\ queue' = [queue EXCEPT ![w] = tokens]
  /\ mem' = [mem EXCEPT ![w] = [k \in Items |->
               [cursor |-> cursor[k], status |-> status[k]]]]
  /\ UNCHANGED <<bankVars, dbVars, phase, item, resp, left, code, passed, faults>>

(* Both loops: an item whose accounts are all archived is not visited. *)
SkipFrozen(w, k) ==
  /\ pc[w] = "next"
  /\ k \in queue[w]
  /\ Frozen(k)
  /\ queue' = [queue EXCEPT ![w] = @ \ {k}]
  /\ UNCHANGED <<bankVars, dbVars, pc, loaded, mem, phase, item, resp, left, code, passed, faults>>

(* Mutant: an item whose accounts are all archived is synchronised too. *)
StartFrozenItem(w, k) ==
  /\ pc[w] = "next"
  /\ phase[w] = "transactions"
  /\ k \in queue[w] \cap tokens
  /\ pc' = [pc EXCEPT ![w] = "fetch"]
  /\ item' = [item EXCEPT ![w] = k]
  /\ queue' = [queue EXCEPT ![w] = @ \ {k}]
  /\ UNCHANGED <<bankVars, dbVars, loaded, mem, phase, resp, left, code, passed, faults>>

(* PlaidSyncEvent.create! for an item whose row exists. *)
StartItem(w, k) ==
  /\ pc[w] = "next"
  /\ phase[w] = "transactions"
  /\ k \in queue[w] \cap tokens
  /\ ~Frozen(k)
  /\ pc' = [pc EXCEPT ![w] = "fetch"]
  /\ item' = [item EXCEPT ![w] = k]
  /\ queue' = [queue EXCEPT ![w] = @ \ {k}]
  /\ UNCHANGED <<bankVars, dbVars, loaded, mem, phase, resp, left, code, passed, faults>>

(* The worker's local variables when its run is over. *)
Leave(w) ==
  /\ pc' = [pc EXCEPT ![w] = "idle"]
  /\ loaded' = [loaded EXCEPT ![w] = {}]
  /\ mem' = [mem EXCEPT ![w] = NoCopy]
  /\ phase' = [phase EXCEPT ![w] = "transactions"]
  /\ queue' = [queue EXCEPT ![w] = {}]
  /\ item' = [item EXCEPT ![w] = AnyItem]
  /\ resp' = [resp EXCEPT ![w] = NoResp]
  /\ left' = [left EXCEPT ![w] = {}]
  /\ code' = [code EXCEPT ![w] = "INTERNAL_ERROR"]

(* create! is outside the begin block and belongs_to :plaid_access_token is *)
(* required: when the row has been destroyed since Load the exception ends  *)
(* the whole run.                                                           *)
ItemGone(w, k) ==
  /\ pc[w] = "next"
  /\ phase[w] = "transactions"
  /\ k \in queue[w] \ tokens
  /\ ~Frozen(k)
  /\ Leave(w)
  /\ UNCHANGED <<bankVars, dbVars, passed, faults>>

(* sync_transactions returns; its callers go on to sync_balances with the   *)
(* same, already loaded, records.                                           *)
SyncsDone(w) ==
  /\ pc[w] = "next"
  /\ phase[w] = "transactions"
  /\ queue[w] = {}
  /\ phase' = [phase EXCEPT ![w] = "balances"]
  /\ queue' = [queue EXCEPT ![w] = loaded[w]]
  /\ UNCHANGED <<bankVars, dbVars, pc, loaded, mem, item, resp, left, code, passed, faults>>

(* accounts_get answered: balance rows are appended, the status stays. *)
BalancesOk(w, k) ==
  /\ pc[w] = "next"
  /\ phase[w] = "balances"
  /\ k \in queue[w]
  /\ ~Frozen(k)
  /\ queue' = [queue EXCEPT ![w] = @ \ {k}]
  /\ UNCHANGED <<bankVars, dbVars, pc, loaded, mem, phase, item, resp, left, code, passed, faults>>

(* accounts_get raised an ApiError with an error code. *)
BalancesFail(w, k, c) ==
  /\ pc[w] = "next"
  /\ phase[w] = "balances"
  /\ k \in queue[w]
  /\ ~Frozen(k)
  /\ faults < MaxFaults
  /\ faults' = faults + 1
  /\ queue' = [queue EXCEPT ![w] = @ \ {k}]
  /\ item' = [item EXCEPT ![w] = k]
  /\ code' = [code EXCEPT ![w] = c]
  /\ pc' = [pc EXCEPT ![w] = "mark"]
  /\ UNCHANGED <<bankVars, dbVars, loaded, mem, phase, resp, left, passed>>

(* The run is over; the rake task ends without the balances. *)
RunDone(w) ==
  /\ pc[w] = "next"
  /\ queue[w] = {}
  /\ Leave(w)
  /\ UNCHANGED <<bankVars, dbVars, passed, faults>>

-----------------------------------------------------------------------------
(* sync_transactions_for_token: one page after another. *)

(* Mutant: the cursor is saved when the page arrives, not when it is applied. *)
FetchAndSave(w) ==
  LET k    == item[w]
      from == mem[w][k].cursor
      size == Len(bank[k])
      upto == IF from + PageSize < size THEN from + PageSize ELSE size
  IN /\ pc[w] = "fetch"
     /\ cursor' = [cursor EXCEPT ![k] = upto]
     /\ mem' = [mem EXCEPT ![w][k].cursor = upto]
     /\ resp' = [resp EXCEPT ![w] = [upto |-> upto, more |-> upto < size]]
     /\ left' = [left EXCEPT ![w] = from + 1 .. upto]
     /\ pc' = [pc EXCEPT ![w] = "apply"]
     /\ UNCHANGED <<bankVars, tokens, status, accounts, archived, rows,
                    loaded, phase, queue, item, code, passed, faults>>

Fetch(w) ==
  LET k    == item[w]
      from == mem[w][k].cursor
      size == Len(bank[k])
      upto == IF from + PageSize < size THEN from + PageSize ELSE size
  IN /\ pc[w] = "fetch"
     /\ resp' = [resp EXCEPT ![w] = [upto |-> upto, more |-> upto < size]]
     /\ left' = [left EXCEPT ![w] = from + 1 .. upto]
     /\ pc' = [pc EXCEPT ![w] = "apply"]
     /\ UNCHANGED <<bankVars, dbVars, loaded, mem, phase, queue, item, code, passed, faults>>

(* Plaid::ApiError: the sync event becomes ERROR and a code, if the body    *)
(* has one, is recorded.                                                    *)
FetchFails(w) ==
  /\ pc[w] = "fetch"
  /\ faults < MaxFaults
  /\ faults' = faults + 1
  /\ \/ /\ pc' = [pc EXCEPT ![w] = "next"]
        /\ UNCHANGED code
     \/ \E c \in {"REAUTH", "OTHER"} :
          /\ pc' = [pc EXCEPT ![w] = "mark"]
          /\ code' = [code EXCEPT ![w] = c]
  /\ UNCHANGED <<bankVars, dbVars, loaded, mem, phase, queue, item, resp, left, passed>>

(* Mutant: removals are applied first. *)
RemovedFirst(kind) == CASE kind = "added" -> 2 [] kind = "modified" -> 3 [] kind = "removed" -> 1

(* add_transactions, then update_transactions, then remove_transactions,    *)
(* each in the order of its list.                                           *)
Rank(kind) == CASE kind = "added" -> 1 [] kind = "modified" -> 2 [] kind = "removed" -> 3

EntryAt(w, i) == bank[item[w]][i]

Before(w, i, j) ==
  \/ Rank(EntryAt(w, i).kind) < Rank(EntryAt(w, j).kind)
  \/ EntryAt(w, i).kind = EntryAt(w, j).kind /\ i < j

Turn(w, i) == i \in left[w] /\ \A j \in left[w] : ~Before(w, j, i)

Done(w, i) == left' = [left EXCEPT ![w] = @ \ {i}]

(* An entry of an account that has no row or is archived changes nothing.   *)
(* update_ and remove_transactions look the transaction up first, and       *)
(* remove_transactions asks its account only whether it is archived.        *)
PassOver(w, i) ==
  LET e == EntryAt(w, i)
      a == AcctOf[e.txn]
  IN /\ pc[w] = "apply"
     /\ Turn(w, i)
     /\ \/ e.kind = "added" /\ ~Live(a)
        \/ e.kind = "modified" /\ RowsOf(e.txn) # {} /\ ~Live(a)
        \/ e.kind = "removed" /\ RowsOf(e.txn) # {} /\ a \in archived
     /\ passed' = passed \cup {e.txn}
     /\ Done(w, i)
     /\ UNCHANGED <<bankVars, dbVars, pc, loaded, mem, phase, queue, item, resp, code, faults>>

(* Nothing to do: `save` finds the plaid_id taken and returns false, or the *)
(* transaction to change or to remove is not there.                         *)
Ignore(w, i) ==
  LET e == EntryAt(w, i)
  IN /\ pc[w] = "apply"
     /\ Turn(w, i)
     /\ \/ e.kind = "added" /\ Live(AcctOf[e.txn]) /\ RowsOf(e.txn) # {}
        \/ e.kind # "added" /\ RowsOf(e.txn) = {}
     /\ Done(w, i)
     /\ UNCHANGED <<bankVars, dbVars, pc, loaded, mem, phase, queue, item, resp, code, passed, faults>>

(* Mutant: the row is inserted whatever the table holds (save(validate: false)). *)
ValidateNothing(w, i) ==
  LET e == EntryAt(w, i)
  IN /\ pc[w] = "apply"
     /\ Turn(w, i)
     /\ e.kind = "added" /\ Live(AcctOf[e.txn])
     /\ pc' = [pc EXCEPT ![w] = "insert"]
     /\ UNCHANGED <<bankVars, dbVars, loaded, mem, phase, queue, item, resp, left, code, passed, faults>>

(* `save`, first half: the uniqueness validation finds no row. *)
Validate(w, i) ==
  LET e == EntryAt(w, i)
  IN /\ pc[w] = "apply"
     /\ Turn(w, i)
     /\ e.kind = "added" /\ Live(AcctOf[e.txn]) /\ RowsOf(e.txn) = {}
     /\ pc' = [pc EXCEPT ![w] = "insert"]
     /\ UNCHANGED <<bankVars, dbVars, loaded, mem, phase, queue, item, resp, left, code, passed, faults>>

(* `save`, second half: the INSERT, which no unique index guards. *)
Insert(w, i) ==
  LET e == EntryAt(w, i)
  IN /\ pc[w] = "insert"
     /\ Turn(w, i)
     /\ rows' = rows \cup {[txn |-> e.txn, by |-> w, version |-> e.version]}
     /\ Done(w, i)
     /\ pc' = [pc EXCEPT ![w] = "apply"]
     /\ UNCHANGED <<bankVars, tokens, cursor, status, accounts, archived,
                    loaded, mem, phase, queue, item, resp, code, passed, faults>>

(* `existing_transaction.update`: the uniqueness validation runs here too,  *)
(* so a transaction stored twice is refused and stays as it is.             *)
Modify(w, i) ==
  LET e == EntryAt(w, i)
  IN /\ pc[w] = "apply"
     /\ Turn(w, i)
     /\ e.kind = "modified" /\ Live(AcctOf[e.txn])
     /\ \E r \in RowsOf(e.txn) :
          rows' = IF RowsOf(e.txn) = {r}
                    THEN (rows \ {r}) \cup {[r EXCEPT !.version = e.version]}
                    ELSE rows
     /\ Done(w, i)
     /\ UNCHANGED <<bankVars, tokens, cursor, status, accounts, archived, pc,
                    loaded, mem, phase, queue, item, resp, code, passed, faults>>

(* find_by returns one row, of any copies there are, and it is destroyed. *)
Remove(w, i) ==
  LET e == EntryAt(w, i)
  IN /\ pc[w] = "apply"
     /\ Turn(w, i)
     /\ e.kind = "removed" /\ AcctOf[e.txn] \notin archived
     /\ \E r \in RowsOf(e.txn) : rows' = rows \ {r}
     /\ Done(w, i)
     /\ UNCHANGED <<bankVars, tokens, cursor, status, accounts, archived, pc,
                    loaded, mem, phase, queue, item, resp, code, passed, faults>>

ApplyEntry(w) ==
  \E i \in left[w] : \/ PassOver(w, i) \/ Ignore(w, i) \/ Validate(w, i)
                     \/ Insert(w, i) \/ Modify(w, i) \/ Remove(w, i)

(* access_token.update(next_cursor: ...): ActiveRecord writes the column    *)
(* only when it differs from the copy in memory.                            *)
SaveCursor(w) ==
  LET k == item[w]
      n == resp[w].upto
  IN /\ pc[w] = "apply"
     /\ left[w] = {}
     /\ cursor' = IF mem[w][k].cursor = n THEN cursor ELSE [cursor EXCEPT ![k] = n]
     /\ mem' = [mem EXCEPT ![w][k].cursor = n]
     /\ pc' = [pc EXCEPT ![w] = IF resp[w].more THEN "fetch" ELSE "finish"]
     /\ resp' = [resp EXCEPT ![w] = NoResp]
     /\ UNCHANGED <<bankVars, tokens, status, accounts, archived, rows,
                    loaded, phase, queue, item, left, code, passed, faults>>

(* Mutant: the error code goes into the status column. *)
WriteCode(w, s) ==
  LET k == item[w]
  IN /\ status' = IF mem[w][k].status = s THEN status ELSE [status EXCEPT ![k] = code[w]]
     /\ mem' = [mem EXCEPT ![w][k].status = s]

(* The same rule for the status column in mark_healthy! and mark_error!. *)
WriteStatus(w, s) ==
  LET k == item[w]
  IN /\ status' = IF mem[w][k].status = s THEN status ELSE [status EXCEPT ![k] = s]
     /\ mem' = [mem EXCEPT ![w][k].status = s]

(* event COMPLETED, access_token.mark_healthy! *)
Finish(w) ==
  /\ pc[w] = "finish"
  /\ WriteStatus(w, "active")
  /\ pc' = [pc EXCEPT ![w] = "next"]
  /\ UNCHANGED <<bankVars, tokens, cursor, accounts, archived, rows,
                 loaded, phase, queue, item, resp, left, code, passed, faults>>

(* Any other exception while a response is fetched or applied. *)
Raise(w) ==
  /\ pc[w] \in {"fetch", "apply", "insert"}
  /\ faults < MaxFaults
  /\ faults' = faults + 1
  /\ pc' = [pc EXCEPT ![w] = "mark"]
  /\ code' = [code EXCEPT ![w] = "INTERNAL_ERROR"]
  /\ left' = [left EXCEPT ![w] = {}]
  /\ resp' = [resp EXCEPT ![w] = NoResp]
  /\ UNCHANGED <<bankVars, dbVars, loaded, mem, phase, queue, item, passed>>

(* Mutant: only codes that ask for a new login are recorded. *)
MarkReauthOnly(w) ==
  /\ pc[w] = "mark"
  /\ IF code[w] = "REAUTH" THEN WriteStatus(w, "login_required") ELSE UNCHANGED <<status, mem>>
  /\ pc' = [pc EXCEPT ![w] = "next"]
  /\ code' = [code EXCEPT ![w] = "INTERNAL_ERROR"]
  /\ UNCHANGED <<bankVars, tokens, cursor, accounts, archived, rows,
                 loaded, phase, queue, item, resp, left, passed, faults>>

(* Mutant: the rescue raises again after it has recorded the code. *)
MarkAndRaise(w) ==
  /\ pc[w] = "mark"
  /\ status' = [status EXCEPT ![item[w]] = "error"]
  /\ Leave(w)
  /\ UNCHANGED <<bankVars, tokens, cursor, accounts, archived, rows, passed, faults>>

(* access_token.mark_error!(code) *)
MarkError(w) ==
  /\ pc[w] = "mark"
  /\ WriteStatus(w, IF code[w] = "REAUTH" THEN "login_required" ELSE "error")
  /\ pc' = [pc EXCEPT ![w] = "next"]
  /\ code' = [code EXCEPT ![w] = "INTERNAL_ERROR"]
  /\ UNCHANGED <<bankVars, tokens, cursor, accounts, archived, rows,
                 loaded, phase, queue, item, resp, left, passed, faults>>

(* The process dies; nothing of the run resumes. *)
Crash(w) ==
  /\ pc[w] # "idle"
  /\ faults < MaxFaults
  /\ faults' = faults + 1
  /\ Leave(w)
  /\ UNCHANGED <<bankVars, dbVars, passed>>

-----------------------------------------------------------------------------
(* The steps a running worker takes of its own accord. *)
Work(w) ==
  \/ Load(w) \/ SyncsDone(w) \/ RunDone(w)
  \/ \E k \in queue[w] : SkipFrozen(w, k) \/ StartItem(w, k) \/ ItemGone(w, k) \/ BalancesOk(w, k)
  \/ Fetch(w) \/ ApplyEntry(w) \/ SaveCursor(w) \/ Finish(w) \/ MarkError(w)

Fault(w) ==
  \/ FetchFails(w) \/ Raise(w) \/ Crash(w)
  \/ \E k \in queue[w], c \in {"REAUTH", "OTHER"} : BalancesFail(w, k, c)

Next ==
  \/ Bank
  \/ User
  \/ \E w \in Workers : Trigger(w) \/ Work(w) \/ Fault(w) \/ \E k \in Items : Reconnect(w, k)

Spec == Init /\ [][Next]_vars

(* The scheduler keeps calling update_all, and a worker that runs goes on. *)
Fairness == \A w \in Workers : WF_vars(Trigger(w)) /\ WF_vars(Work(w))

FairSpec == Spec /\ Fairness

(* The user archives and unarchives only while no sync is running. *)
QuietNext == Next /\ (archived' # archived => \A w \in Workers : pc[w] = "idle")
QuietSpec == Init /\ [][QuietNext]_vars /\ Fairness

-----------------------------------------------------------------------------
(* Properties. *)

Delivered(t) == RowsOf(t) # {} \/ RemovedUpstream(t) \/ t \in passed

(* No gap: once an item's saved cursor has moved past the entry that added a *)
(* transaction, the transaction is stored, unless the bank has removed it    *)
(* since or the entry was passed over for an archived or missing account.    *)
(* Holds with any number of workers, crashes and replays, because the cursor *)
(* is saved after the page is applied (plaid_service.rb:79-85, 103-108).     *)
NoGap ==
  \A t \in Txns : \A i \in MentionsOf(t, cursor[Home(t)]) :
     bank[Home(t)][i].kind = "added" => Delivered(t)

(* One row per bank transaction, what `validates :plaid_id, uniqueness`      *)
(* (plaid_transaction.rb:26) is there for.                                   *)
OneRow == \A t \in Txns : Cardinality(RowsOf(t)) <= 1

(* The stored book is never older than the saved cursor: what is stored of a *)
(* transaction is what the bank said of it at some point from the cursor on, *)
(* also in the middle of a page and of a replay after a crash.  A removed    *)
(* transaction does not come back, an amended amount does not revert.        *)
Mirror ==
  \A t \in Txns \ passed : \E n \in cursor[Home(t)] .. BankLength(t) :
     {r.version : r \in RowsOf(t)} = HistoryAt(t, n)

(* When a sync was ended by an unexpected exception its item does not stay   *)
(* "active" ("a silent crash still surfaces on the Accounts page",           *)
(* plaid_service.rb:122).                                                    *)
CrashSurfaces ==
  [][\A w \in Workers :
       (pc[w] = "mark" /\ code[w] = "INTERNAL_ERROR" /\ pc'[w] = "next")
         => status'[item[w]] # "active"]_vars

(* While every account of an item is archived its cursor does not move       *)
(* ("its sync cursor freezes, so unarchiving replays the gap", API.md:1373). *)
CursorFrozen ==
  [][\A k \in Items : Frozen(k) => cursor'[k] = cursor[k]]_vars

(* Once the user leaves the accounts as they are, the book becomes the       *)
(* bank's: every transaction of a live account that was not passed over is   *)
(* stored in its last version, or gone if the bank removed it, whatever      *)
(* state the failed runs before left (util_controller.rb:5-15).              *)
CatchesUp ==
  <>[][FALSE]_archived =>
    <>[](\A t \in Txns \ passed :
           AcctOf[t] \notin archived =>
             {r.version : r \in RowsOf(t)} = HistoryAt(t, BankLength(t)))

(* The promise: with at most one sync at a time the tables behave like the   *)
(* book, an item's cursor being the settled part of its log.                 *)
Book == INSTANCE BankBook WITH
          acked <- cursor,
          book <- [t \in Txns |-> {r.version : r \in RowsOf(t)}],
          waived <- passed

KeepsBook == Book!BookSpec
=============================================================================
