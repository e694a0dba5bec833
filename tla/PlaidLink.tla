------------------------------ MODULE PlaidLink ------------------------------
(***************************************************************************)
(* Connecting a bank: POST /api/plaid_accounts/exchange_public_token       *)
(* (app/controllers/plaid_accounts_controller.rb), composed with the syncs *)
(* of PlaidSync that may run at the same time.  The request is a sequence  *)
(* of Plaid calls and separately committed inserts; when it succeeds, its  *)
(* thread goes on as a sync worker.                                        *)
(***************************************************************************)
EXTENDS PlaidSync

CONSTANT RealOf   \* the real bank account (institution, mask, subtype) behind an account

VARIABLES
  link,      \* the request each worker serves: where it is, for which item
  todo,      \* accounts of the response it has still to look at
  created,   \* accounts it has created
  owned,     \* plaid_accounts with a plaid_accounts_users row
  used,      \* items Plaid has handed out, connected or not
  evented    \* items with a plaid_sync_events row

linkVars == <<link, todo, created, owned, used, evented>>
allVars  == <<vars, linkVars>>

LinkPCs == {"none", "accounts", "check", "create", "own", "discard"}
NoLink  == [pc |-> "none", item |-> AnyItem]

LinkTypeOK ==
  /\ TypeOK
  /\ link \in [Workers -> [pc : LinkPCs, item : Items]]
  /\ todo \in [Workers -> SUBSET Accts]
  /\ created \in [Workers -> SUBSET Accts]
  /\ owned \subseteq accounts
  /\ used \subseteq Items
  /\ evented \subseteq used

LinkInit ==
  /\ Init
  /\ link = [w \in Workers |-> NoLink]
  /\ todo = [w \in Workers |-> {}]
  /\ created = [w \in Workers |-> {}]
  /\ owned = accounts
  /\ used = Connected
  /\ evented = {}

-----------------------------------------------------------------------------
(* Mutant: only the plaid_id is compared. *)
DuplicateById(a) == a \in accounts

(* PlaidAccount.active at the same institution with the same mask and subtype *)
Duplicate(a) == \E b \in accounts : RealOf[b] = RealOf[a]

EndLink(w) ==
  /\ link' = [link EXCEPT ![w] = NoLink]
  /\ todo' = [todo EXCEPT ![w] = {}]
  /\ created' = [created EXCEPT ![w] = {}]

Goto(w, p) == link' = [link EXCEPT ![w].pc = p]

(* Mutant: a request that failed before its accounts were created is retried *)
(* with the item it left behind.                                            *)
RetryToken(w, k) ==
  /\ pc[w] = "idle" /\ link[w].pc = "none"
  /\ k \notin used \/ AccountsOf(k) = {}
  /\ used' = used \cup {k}
  /\ tokens' = tokens \cup {k}
  /\ link' = [link EXCEPT ![w] = [pc |-> "accounts", item |-> k]]
  /\ UNCHANGED <<bankVars, cursor, status, accounts, archived, rows, workerVars,
                 passed, faults, todo, created, owned, evented>>

(* The public token is exchanged for an access token of a new item (each    *)
(* Link session makes one) and its row is created.                          *)
CreateToken(w, k) ==
  /\ pc[w] = "idle" /\ link[w].pc = "none"
  /\ k \notin used
  /\ used' = used \cup {k}
  /\ tokens' = tokens \cup {k}
  /\ link' = [link EXCEPT ![w] = [pc |-> "accounts", item |-> k]]
  /\ UNCHANGED <<bankVars, cursor, status, accounts, archived, rows, workerVars,
                 passed, faults, todo, created, owned, evented>>

GetAccounts(w) ==
  /\ link[w].pc = "accounts"
  /\ Goto(w, "check")
  /\ todo' = [todo EXCEPT ![w] = {a \in Accts : ItemOf[a] = link[w].item}]
  /\ UNCHANGED <<vars, created, owned, used, evented>>

SkipDuplicate(w, a) ==
  /\ link[w].pc = "check"
  /\ a \in todo[w]
  /\ Duplicate(a)
  /\ todo' = [todo EXCEPT ![w] = @ \ {a}]
  /\ UNCHANGED <<vars, link, created, owned, used, evented>>

(* Mutant: the account is shared with the user without being inserted. *)
AcceptUnsaved(w, a) ==
  /\ link[w].pc = "check"
  /\ a \in todo[w]
  /\ ~Duplicate(a)
  /\ Goto(w, "own")
  /\ todo' = [todo EXCEPT ![w] = @ \ {a}]
  /\ created' = [created EXCEPT ![w] = @ \cup {a}]
  /\ UNCHANGED <<vars, owned, used, evented>>

(* duplicate_plaid_account? has answered no. *)
AcceptAccount(w, a) ==
  /\ link[w].pc = "check"
  /\ a \in todo[w]
  /\ ~Duplicate(a)
  /\ Goto(w, "create")
  /\ todo' = [todo EXCEPT ![w] = @ \ {a}]
  /\ created' = [created EXCEPT ![w] = @ \cup {a}]
  /\ UNCHANGED <<vars, owned, used, evented>>

(* PlaidAccount.create!, which validates only the uniqueness of plaid_id *)
CreateAccount(w) ==
  /\ link[w].pc = "create"
  /\ accounts' = accounts \cup created[w]
  /\ Goto(w, "own")
  /\ UNCHANGED <<bankVars, tokens, cursor, status, archived, rows, workerVars,
                 passed, faults, todo, created, owned, used, evented>>

(* PlaidAccountsUser.create!: from now on the user sees the account *)
OwnAccount(w) ==
  /\ link[w].pc = "own"
  /\ owned' = owned \cup created[w]
  /\ Goto(w, "check")
  /\ UNCHANGED <<vars, todo, created, used, evented>>

(* The initial sync: the thread goes on like update_all. *)
StartInitialSync(w) ==
  /\ link[w].pc = "check"
  /\ todo[w] = {} /\ created[w] # {}
  /\ EndLink(w)
  /\ pc' = [pc EXCEPT ![w] = "begin"]
  /\ UNCHANGED <<bankVars, dbVars, loaded, mem, phase, queue, item, resp, left, code,
                 passed, faults, owned, used, evented>>

(* Every account was a duplicate: remove_item, then the token row.  Its     *)
(* destruction fails on the foreign key of plaid_sync_events when a sync    *)
(* has already visited the item.                                            *)
Refuse(w) ==
  /\ link[w].pc = "check"
  /\ todo[w] = {} /\ created[w] = {}
  /\ Goto(w, "discard")
  /\ UNCHANGED <<vars, todo, created, owned, used, evented>>

DestroyToken(w) ==
  /\ link[w].pc = "discard"
  /\ tokens' = IF link[w].item \in evented THEN tokens ELSE tokens \ {link[w].item}
  /\ EndLink(w)
  /\ UNCHANGED <<bankVars, cursor, status, accounts, archived, rows, workerVars,
                 passed, faults, owned, used, evented>>

(* An exception (500) or the death of the process: what was inserted stays. *)
LinkFails(w) ==
  /\ link[w].pc # "none"
  /\ faults < MaxFaults
  /\ faults' = faults + 1
  /\ EndLink(w)
  /\ UNCHANGED <<bankVars, dbVars, workerVars, passed, owned, used, evented>>

-----------------------------------------------------------------------------
LinkStep(w) ==
  \/ \E k \in Items : CreateToken(w, k)
  \/ \E a \in todo[w] : SkipDuplicate(w, a) \/ AcceptAccount(w, a)
  \/ GetAccounts(w) \/ CreateAccount(w) \/ OwnAccount(w)
  \/ StartInitialSync(w) \/ Refuse(w) \/ DestroyToken(w) \/ LinkFails(w)

(* A sync step; PlaidSyncEvent.create! leaves its row. *)
SyncStep ==
  /\ Next
  /\ \A w \in Workers : link[w].pc # "none" => pc'[w] = "idle"
  /\ evented' = evented \cup
       {k \in Items : \E w \in Workers : pc[w] = "next" /\ pc'[w] = "fetch" /\ item'[w] = k}
  /\ UNCHANGED <<link, todo, created, owned, used>>

LinkNext == SyncStep \/ \E w \in Workers : LinkStep(w)

LinkSpec == LinkInit /\ [][LinkNext]_allVars

-----------------------------------------------------------------------------
(* Properties. *)

(* A real bank account is connected once: connecting skips accounts "that    *)
(* already exist for this account" (plaid_accounts_controller.rb:120).       *)
RealAccountOnce ==
  \A a, b \in accounts : RealOf[a] = RealOf[b] => a = b

(* Connecting a bank imports its history: the only transactions passed over  *)
(* are those of accounts that were not connected, so the initial sync of a   *)
(* new account misses nothing (no account is archived here).                 *)
HistoryImported == \A t \in passed : AcctOf[t] \notin accounts

(* A run ends by itself only after every item it loaded had its turn ("a     *)
(* failure on one Item must not abort syncing for the others",               *)
(* plaid_service.rb:40).                                                     *)
ItemsIsolated ==
  [][\A w \in Workers :
       (pc[w] # "idle" /\ pc'[w] = "idle" /\ faults' = faults) => queue[w] = {}]_allVars
=============================================================================
