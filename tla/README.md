# Bear Budget in TLA+

A verification project for Bear Budget, a household budgeting application: a
Rails 8 JSON API (`src/app`, `src/lib`, `src/db`) on Postgres, a React client
(`src/ui`), an Android client (`src/apps/mobile-app`), and Plaid, the external
service that delivers bank transactions. The specifications model the parts of
the code in which the *order* of steps matters: what the database looks like
after syncs, requests, failures and retries have interleaved. TLC checks them on
small instances; the theorems of the `*Proofs` modules hold for every value of
the constants and are checked by TLAPS.

Paths below are relative to the repository's root (`src/`). "Finding" means a run
in which the code does something that a comment, a document or a validation of
the repository says it does not do.

## 1. Inventory

Requests are served by Puma with several threads; rake tasks and jobs are other
processes. The database runs at READ COMMITTED. Except where a service opens a
`transaction do` block, every `save`, `update` or `create` of the code is a
database transaction of its own, so everything may happen between two of them.

| component | state | operations | what makes it hard | what makes it correct |
|---|---|---|---|---|
| Plaid synchronisation (`app/services/plaid_service.rb`, `plaid_access_token.rb`, `plaid_account.rb`, `plaid_transaction.rb`, `util_controller.rb`, `lib/tasks/sync_transactions.rake`) | per item (a bank login): cursor, status; per account: archived; transaction rows; each worker's in-memory copies of the token records | `update_all`, `reconnect`, rake task; fetch a page, apply it, save the cursor; mark healthy / in error; archive / unarchive | several syncs at once; a crash between applying a page and saving its cursor; replays; stale in-memory records; archiving during a sync | no gap behind the cursor; one row per transaction; what is stored is never older than the cursor; it catches up; a failure is visible |
| Connecting a bank (`plaid_accounts_controller.rb#exchange_public_token`) | tokens, accounts, access rows, sync events | exchange, create the token, look for duplicates, create accounts, refuse, initial sync | six separate commits and two Plaid calls; syncs of other threads see half-made items; two requests at once | a real account is connected once; its history is imported; a refusal is truthful |
| Category tree (`merchant_tag.rb`, `merchant_tags_controller.rb`, `default_merchant_tags_service.rb`) | forest of categories: parent, leaf flag, type, budget | create, rename, move, retype, set a budget, destroy; callbacks cascade up and down | callbacks on other records; concurrent requests; no check against cycles | one type per tree; the leaf flag is truthful; budgets only on leaves; no cycle |
| Transactions and splits (`transaction_split_service.rb`, `transactions_controller.rb`, `plaid_transaction.rb`) | transaction rows, parent links, split flag, amounts | split, unsplit, edit, sync modifies or removes | checks outside the database transaction; syncs change split parents | children sum to the parent; nothing counted twice |
| Classification (`plaid_transaction.rb#set_default_categories`, `merchant.rb`, `merchants_controller.rb`) | a transaction's type, category and the source of the decision | on create; when a merchant's default changes | precedence of six sources, backfills | a user's decision is never overwritten |
| Recurring streams (`recurring_detection_service.rb`, `recurring_stream.rb`, `recurring_streams_controller.rb`) | streams with identity and status, links from transactions and their recurring mark | detect (after every sync, on demand), confirm, dismiss | detection, three commits per cluster, concurrent with itself and with the user's decisions; a crash between two of them | no decision is taken back; marks follow the status; no stream is left half made |
| Merchant groups (`merchant_group.rb`, `merchant_grouping_service.rb`, `merchant_groups_controller.rb`) | groups, memberships, primary merchant | create, add, remove, set primary | one merchant in one group, exactly one primary | membership is a partition; one primary |
| Duplicate item merger (`plaid_duplicate_item_merger.rb`, `lib/tasks/plaid_cleanup.rake`) | two items of one bank, their accounts and rows | plan, apply, retire the old item | the plan is memoised and applied later; a Plaid call inside a database transaction | no user data lost; the old item is gone on both sides or on neither |
| Tags, tag joins, tag reports; users, sessions, sign-up; account access; balances; sync events endpoint | rows | create, update, destroy | little: single-row operations | validations |
| Reports and search (`*_spend_service.rb`, `profit_and_loss_service.rb`, `*_search_service.rb`, `charts/`, daily report mailer and job) | none (read-only SQL) | queries | arithmetic over the other components' rows | totals agree with each other |
| Web lists (`ui/src/hooks/useTransactions.tsx`, `useMerchants.ts`, their tables, filters and row controls) | rows, search, page, flags in a hook; a copy of the search in localStorage, of the list in sessionStorage; what the table shows while it fades | open, leave, filter, clear, scroll, edit a row, change a merchant's group | debounce, fade and `setTimeout` timers; several requests under way; the server's pages shift while one scrolls | no row twice; what is shown was asked for and is the server's; the table never stays empty |
| Web tag spend (`pages/TagsSpendPage`, `views/TagsSpendView`) | selection, active report, statistics, list of reports | include, omit, select, save, delete a report | a report replaces a selection that the two selectors keep apart | no tag on both sides; the active report is the one selected |
| Web session (`providers/CurrentUser`, `api/base-client.tsx`, login, sign-up and profile pages) | token in localStorage, user, spinner, forms | log in, sign up, save the profile, log out, load, reload, go back and forward, refused token | late answers; a load drops what is under way and a navigation does not; the history of a tab outlives the program in it | the user shown is the token's; no page without a user, but where the history leads to one |
| Web merchant page (`pages/MerchantPage`, `components/MerchantLinking`) | merchant, search, statistics, a pending change | default category and tags with "apply to existing?", group details, members | edits send whole lists, and the server copies what they make to the rest of the group; the page goes over to another merchant while requests run | the change confirmed is the one asked for; no edit undoes another; a page at rest shows its merchant |
| Web categories page (`hooks/useCategorySpendData.ts`, `components/MerchantCategoryTree`) | forest as loaded, range, dialogs, drag | move by drag or dialog, create, rename, budget, delete | every change refetches; the server accepts any parent | only forests are asked for; every category is drawn, every budget counted once |
| Web accounts page (`pages/AccountsPage`, `hooks/usePlaidAccount.ts`, `usePlaidLink.ts`) | list, balances, a link per button, access boxes | connect, reconnect, rename, archive, give access | the spinner of a reload unmounts links and boxes | archived accounts count for nothing; the boxes say who has access |
| Web transaction page (`pages/TransactionPage`, `views/TransactionView`) | transaction, split dialog, confirmations | edit, tag, default tags, split, unsplit | partial answers put into a captured transaction; default tags applied to all behind the page's back; the dialog is filled anew | at rest the server's transaction, but for what was so applied; only splits that add up are sent |
| Web recurring page (`pages/RecurringPage`) | list of streams, tab, busy rows | run the detection, confirm, dismiss | two decisions about one row under way together; a list served before a decision and answered after it | at rest the streams as decided on |
| Android client (`apps/mobile-app`) | token store, auth state, paging | log in, validate, log out, page | a validation racing a log-in or log-out | the session shown is the one stored |

Interactions: a sync (any worker) reads the accounts the connect request writes,
writes the transaction rows that splits, classification, streams and reports
read, and ends by running the recurring detection; archiving changes what the
next statement of a running sync does; a split parent is still modified and
removed by the sync; destroying a category takes it off transactions and
merchants; the clients poll and edit the same rows through the API. The web
client is one tab whose pages are drawn one at a time; within a page everything
that is awaited (a request, a timer) may end in any order. The categories page
and the category table meet in one model: the page is what keeps the forest that
the server's proofs assume.

## 2. Modules

Every module says in its header what it leaves out. The operators and actions
with the comment "Mutant:" are not part of the model: each is a way
in which the code could plausibly be wrong, and replacing the definition after
it by the mutant makes TLC report the property it belongs to as violated.

| module | models |
|---|---|
| `BankLog` | Plaid (external): per item a log of added / modified / removed entries; a cursor is a position in it |
| `BankBook` | abstract: what the synchronisation promises, without workers, pages or replays |
| `PlaidSync` | `PlaidService#sync_transactions` and `#sync_balances`, update_all, reconnect, archiving, faults; refines `BankBook` |
| `PlaidLink` | extends `PlaidSync` with `exchange_public_token` |
| `CategoryTree` | abstract: each category request, with all of its callbacks, in one step |
| `CategoryRequests` | extends `CategoryTree`: the same requests statement by statement, several at once; one at a time it refines `CategoryTree` |
| `TransactionSplit` | split and unsplit statement by statement, several at once, beside the sync |
| `Filters` | a filter that keeps the order, as a function of the places it keeps |
| `PagedList` | the state of an endlessly scrolled list of the web client and its updates, shared by the next two |
| `TransactionList`, `MerchantList` | the two lists, with table, filters, timers, caches, row controls |
| `TagSpend`, `WebSession` | the tag spend page; token, user and forms of a tab |
| `WebLists` | composes the four: a behaviour is on one of the pages |
| `MerchantPage`, `AccountScreen`, `TransactionScreen` | the pages of a merchant, of the bank accounts, of a transaction |
| `RecurringStreams` | detection runs statement by statement, several at once, beside the requests that confirm and dismiss |
| `RecurringScreen` | extends `RecurringStreams` with the recurring page; refines it (proved) |
| `CategoryScreen` | the categories page, over `CategoryTree` as its server |
| `WebScreens` | composes the five pages that show one thing |
| `MC*` | the finite instances TLC checks |
| `*Proofs` | the theorems about the module they are named after; `CategoryProofs` about `CategoryTree`, `WebListsProofs` about the pages of `WebLists`, `WebScreensProofs` about those of `WebScreens` and about the streams |
| `ListLemmas` | what the proofs share: queues of requests, filters of a list, sums over a finite set, induction over the numbers |

### PlaidSync: a step is one statement or one Plaid call

`PlaidService` opens no database transaction, so a Rails process can be
interrupted, or overtaken by another one, after each of its statements. An action
is one statement (or one call to Plaid); what lies between is in the variables
of the worker.

| variable | code |
|---|---|
| `tokens`, `cursor`, `status` | rows of `plaid_access_tokens`, `next_cursor` (as a position in the bank's log), `status` |
| `accounts`, `archived` | rows of `plaid_accounts`, those with `archived_at` |
| `rows` | rows of `plaid_transactions`; `by` tells duplicates apart |
| `loaded`, `mem` | the token records `access_tokens.each` has loaded, with the cursor and status they had then |
| `pc`, `phase`, `queue`, `item` | where the call stack of the worker is |
| `resp`, `left`, `code` | the response being applied, its entries still to apply, the error code on its way to `mark_error!` |
| `passed`, `faults` | history: transactions passed over for an archived or unknown account; faults so far |

`Load` reads every token at once, which is why `mem` can be stale by the time an
item has its turn. `StartItem` is `PlaidSyncEvent.create!`, which is outside the
`begin` block: when the token is gone it ends the run (`ItemGone`). `Fetch`,
`ApplyEntry` (`PassOver`, `Validate` and `Insert`, `Modify`, `Remove` in the
order added, modified, removed), `SaveCursor` and the loop over `has_more` are
the page loop. `WriteStatus` writes the status only when it differs from the
worker's copy, as ActiveRecord does. `FetchFails`, `BalancesFail`, `Raise` and
`Crash` are the failures: an ApiError, any other exception, the death of the
process. The uniqueness validation and the INSERT of an added row are two
steps. `find_by` and the write of `update_transactions` and
`remove_transactions` are one: nothing the model keeps can change the outcome in
between, except the archiving of the account, which may as well come right
before.

Two abstractions to know: an exception raised by the success path itself
(`mark_healthy!`) is not modelled, and a sync event's state is the `pc` of its
worker, since nothing reads events back into a sync.

### PlaidLink: connecting a bank

`exchange_public_token` is a sequence of steps of a worker that is not syncing:
`CreateToken`, `GetAccounts`, for each account `SkipDuplicate` or
`AcceptAccount` / `CreateAccount` / `OwnAccount`, then `StartInitialSync` (the
worker goes on as a sync) or, when every account was a duplicate, `Refuse` and
`DestroyToken`. `RealOf` says which accounts are the same account at the bank: a
second login gives it another id, and `duplicate_plaid_account?` goes by
institution, mask and subtype. A token visited by a sync has an event row, and its foreign key makes
the destruction fail (`evented`). `LinkFails` ends the request anywhere.

### CategoryTree and CategoryRequests

`tree` is the `merchant_tags` table (existing rows, parent, tag type, leaf flag,
whether there is a budget); `label` the category of each transaction or
merchant. In `CategoryTree`, `Save` composes what a save does: `BeforeSave`
(inherit the parent's type, recompute `is_leaf`, drop the budget of a tag with
children), `SyncParents` (re-save the old and the new parent) and `Cascade`
(retype all descendants). The server accepts any parent; the client offers none
among the tag and its descendants (`View.tsx` `canDropOn`, `EditCategoryModal.tsx`
`excludedIds`), and that is the guard of `Update`.

`CategoryRequests` takes requests apart: `todo` is the list of callbacks a
transaction still has to run, each with the values the record in memory was
loaded with; a callback first computes the columns its UPDATE will write
(`Dirty`: only those that differ from what was loaded) and then waits for its
locks (`Execute`). `pend` is what the transaction has written and not committed.
Postgres is external: statement snapshots at READ COMMITTED (`View`), row locks
(`Locked`), and foreign keys that lock what they refer to (`ForeignKeysHold`).
A waiting request may always be rolled back (`Rollback`): a deadlock victim, an
exception, a crash.

### TransactionSplit

`book`, `amount`, `pending`, `split` are columns of the bank transactions and
`kids` the child rows. A request loads the parent and runs the checks
(`StartSplit`, `StartUnsplit`; `Accepted` is `check_split_params`), then in one
database transaction reads the children to destroy (`FindKids`), deletes them
(`ClearKids`), inserts the new ones (`InsertKids`), writes the flag if it
differs from the record's (`Mark`) and commits. `added`, `deleted` and `wrote`
are its uncommitted writes. Amounts are in thirds of a cent: small enough that
`round(2)` does something and that the tolerance of half a cent is visible. The
sync's modification (`BankModify`) writes the amount and whether the transaction
is pending, and leaves the flag alone.

### RecurringStreams

A run of the detection opens no database transaction: loading its candidates
(`Detect`), looking for a stream near a cluster (`Match`, `MatchNone`, and
`MatchFails` when a stream has no average), `create!` and its rescue
(`CreateStream`), `update!` (`Fill`), and the two `update_all` of
`link_transactions` (`Link`, `Flag`) are steps of their own, and a run may be cut
between any two (`Cut`). What a run remembers is in its record: the candidates
left, which of them had a stream when they were loaded, the status of the stream
it read. Streams of one merchant and frequency are told apart by their signature;
which amounts cluster, and which stream lies nearest, is a choice. A transaction
may have a mark and no stream to begin with: the part of a split has its
parent's. Requests load a row (`Find`) and write it with its transactions' marks (`Decide`, which is one
database transaction in the code as well).

### The web client: a step is one callback

JavaScript runs one callback at a time, so an action is what happens between two
of them: a click with its handler, a timer that fires, a request that is served,
one that is answered (with the continuation of the `await` or `then`), one that
fails. Every module keeps its requests under way in a sequence in the order sent
(`tlNet`, `mlNet`, `tsNet`, ...); each is *served* at some moment (the server's
state then changes and the answer is fixed) and *answered* at a later one, and
the sequence may be left in any order: nothing in the client ties an answer to
what is asked by then. What the server does is external and as simple as the
page can tell: a row is a record with what the page's edits change.

* **`PagedList`** is the state of both hooks as a record (`on`, `rows`,
  `search`, `page`, `loading`, `loadingMore`, `error`, `hasMore`) and a pure
  operator for each `setState`: `Mounted`, `FetchBegun`, `Fetched` (with `Merged`,
  which drops repeated ids), `FetchFailed`, `SearchSet`, `RowReplaced`. The fade of
  a table (`StartsFade`, `FadedOut`) is there as well. The refs beside the state
  are written when it is and are not told apart.
* **`TransactionList`**: `tlTyped` is the debounce of the filters, `tlDue` the
  `setTimeout(..., 0)` between a search and its fetch, `tlFade` the running
  fade-outs, `tlSaved` and `tlCache` the two storages; `TLOpen` and `TLLeave` are
  mount and unmount. `EditRow` is the row's confirm button, type or category,
  and tags.
* **`MerchantList`** has the two requests by which a merchant changes its group,
  after which the list is fetched again.
* **`TagSpend`**: effects follow the selection (`Selected`), a report is selected
  in one step on all three pieces of state (`SelectReport`).
* **`WebSession`**: what begins the program anew (`Started`) drops what was under
  way: another address (`Load`), the same one again (`Reload`), an entry of the
  history that belongs to another document (`LoadFromHistory`), a refused token
  (401), which is answered by leaving for the login page. The `navigate` calls
  (`HandleNavigation`, `HandleLogout`, the end of a login) and going back or
  forward among the entries they made (`Traverse`) keep the program and what is
  under way. `wsHere` are the paths the history has for the document in the tab:
  they are still its own after a reload. `wsLeft` are those of other documents.
* **`MerchantPage`** keeps the pending change twice, as the code does: `mpModal` in
  state, `mpRef` in a ref. Of its server it has `MerchantsController#update`
  (`ServedStore`): the list of default tags is applied to the merchant
  (`TagsGiven`), and what the merchant then has is copied to every other member of
  its group, whether or not the edit was of the tags (`PropagateDefaults`).
  `mpMeant` is what each merchant was meant to have, an edit of one being meant for
  its whole group.
* **`CategoryScreen`**: the state `csFlat` is the forest as last loaded; `Mutate`
  sends a change and then a load; `CSServe` lets `CategoryTree`'s own operators
  change `tree`. `CanDropOn` and `ParentOptions` are the two places that keep a
  category from being moved below itself.
* **`AccountScreen`**: `ListLoads` and `BodyDrawn` are what the spinner does to
  everything below it; `acLink` is the state of each `usePlaidLink`.
* **`TransactionScreen`**: an answer that brings only a tag or the merchant is put
  into the transaction the page held when the request was sent (`was`). `Seeded`
  fills the split dialog, again whenever the transaction is set under it. A tag of
  the transaction is a row with an id (`TagRows`), of which one tag may have two.
  Default tags that are applied to all of the merchant's transactions (`Applies`)
  give this one the tags it lacks (`RowsApplied`) and the merchant's category,
  while the page takes only the merchant from the answer; `txApplied` keeps which
  rows they were until the server next gives the transaction whole.
* **`RecurringScreen`**: `rcHeard` holds the requests whose row is still on
  screen; only those free their row when they end (`act` belongs to a row that a
  change of tab unmounts). Its server is `RecurringStreams`, with a second worker
  that runs the detection after a sync, unknown to the page.

History variables ending in `Calm` say that so far requests were served and
answered in the order sent and none failed; `tlEdited`, `txWhole`, `csAsSeen`
say the same of other writers. Nothing else ends them but what their comments
name, `mpCalm` for one an edit begun while another request was under way. The properties about a page at rest assume them,
because the code does not tell late answers apart: an older search answered last
*is* the list. Those behaviours are in the state space, and the properties
without such an assumption hold in them too. The hazards that such an assumption
sets aside are listed without a property, with the reason.

## 3. Runs

All instances are small on purpose: the hazards are interleavings of two actors
around one row, and every counterexample met while modelling needed at most two
workers, two items and two transactions.

| run | instance | checks |
|---|---|---|
| `PlaidSync_one` | 1 worker, 1 item with 2 accounts (one may be archived at any moment), 2 transactions with 2 versions, pages of 2, 1 fault; 252 000 states | `TypeOK`, `NoGap`, `OneRow`, `Mirror`, `CrashSurfaces`, `KeepsBook` (refinement of `BankBook`) |
| `PlaidSync_quiet` | 1 worker, 2 items with an account each, both archived and unarchived while no sync runs, 2 versions, 1 fault, fair; 142 000 states | `CursorFrozen`, `CatchesUp` |
| `PlaidSync_unfrozen` | as `PlaidSync_one` but both accounts archived at any moment | finding: `CursorFrozen` is violated |
| `PlaidLink_one` | 1 worker, 1 connected item, 2 more that may be connected (one repeats an account), 1 fault | `LinkTypeOK`, `RealAccountOnce`, `HistoryImported`, `ItemsIsolated` |
| `CategoryTree_forest` | 4 categories, 1 labelled row | `TreeTypeOK`, `Forest`, `OneTypePerTree`, `LeafTruthful`, `LabelsExist`, `DestroyKeepsTheRest` |
| `CategoryRequests_one` | 1 worker beside categorising, 3 categories, 1 labelled row; 56 000 states | `LinksExist`, `OneAtATime` (refinement of `CategoryTree`) |
| `CategoryRequests_type` | 2 workers, 2 categories | finding: `OneTypePerTree` is violated |
| `TransactionSplit_one` | 1 worker beside the sync, 2 parents, 5 child ids, four divisions; 43 000 states | `SplitTypeOK`, `CountedOnce`, `NothingLost`, `NoOrphans`, `SumsToParent` |
| `TransactionSplit_twice` | 2 workers, 1 parent | finding: `SumsToParent` is violated |
| `WebLists_one` | pages of 1 row, 3 transactions, 2 merchants and 2 groups, 2 tags, 2 users; 3 requests per page, 2 visits of the transactions; 457 000 states, fair | `WebTypeOK`, `ListsSettled`, `SearchesAsked`, `GroupAsChosen`, `ReportsSound`, `SessionSound`, `PagesAppear` |
| `WebScreens_one` | a chain of 3 categories or 2 of them, 2 bank accounts and 2 actions on them, 1 tag, a split dialog of 3 rows, 3 requests (6 for the merchant's page, 3 of them at once); 2 streams (one suggested to begin with), 1 transaction, a sync beside the page, 2 decisions under way; 1 288 000 states, decisions and accounts alike by symmetry | `ScreenTypeOK`, `ScreensSettled`, `MerchantEditsKept`, `DrawnSound`, `StreamsSound`, `ChangesAsProved`, `SplitsAccepted`, `NeverSuggestedAgain` |
| `TransactionList_restored` | the transactions page alone | finding: `RestoredFits` is violated |

The properties of the two web runs are conjunctions; what each page contributes
is stated and named in its module.

| property | conjuncts |
|---|---|
| `ListsSettled` | `RowsOnce`, `SettledPrefix`, `RowsFresh` (`TransactionList`), `MerchantsSettled`, `SpendSettled` |
| `SearchesAsked` | `AskedForShown`, `MerchantSearchAsked` |
| `ReportsSound` | `TagsApart`, `ActiveIsSelected` |
| `SessionSound` | `UserIsTokens`, `PagesHaveUser` |
| `PagesAppear` | `ShownSettles`, `MerchantsShown`, `SpinnerEnds` |
| `ScreensSettled` | `PageSettled`, `CategoriesSettled`, `AccountsSettled`, `NetWorthActive`, `BoxesTruthful`, `TransactionSettled`, `StreamsSettled` |
| `MerchantEditsKept` | `PendingTogether`, `DefaultsAsMeant` |
| `DrawnSound` | `EveryCategoryDrawn`, `BudgetsOnce`, `LinksAnswered`, `RowKeysApart` |
| `StreamsSound` | `MarksFollow`, `HalfMade` |

Bounds, all named constants: `MaxVersion` (how often the bank modifies a
transaction), `MaxFaults`, `PageSize`, `KidIds`, `Amounts`, `PartLists`,
`TypeInputs`, `BudgetInputs`. A page of two holds an added and a removed entry of
one transaction, which is what `Mirror` is sensitive to. Four categories give a tree of depth three with a
sibling, the smallest in which the cascade, the promotion and the re-saved
parents can differ. Five child ids let a split replace another's children
without running out. In the splits TLC's deadlock check is off: once the bank
has removed every transaction there is nothing left to do.

In the browser the bounds are on what the user does: `MaxSent`,
`MaxMerchantsSent`, `MaxSpendSent`, `MaxWebSent`, `MaxPageSent`, `MaxAsked`,
`MaxActs`, `MaxTxSent`, `MaxStreamActs` count requests (a page's first loads among
them), `MaxUnderWay` those of the merchant's page that are under way at once,
`MaxMounts` visits, `MaxTransactions` the rows that arrive, `MaxRows` the rows of
the split dialog, and `MaxRemainder` is the largest remainder put into one. A list with one row to a page and three rows has a page that moves under
the reader's hands; three requests are a search, another and a further page, or
an edit between two searches, and the races met while modelling had no more.
In the session three are enough, since a token may be left over from another
load and loads, logouts and ways through the history cost no request unless a
page asks for its user: a login, a late answer, and the question of a page. The
merchant's page needs six: the first load and its statistics, an edit of a
merchant, the other member of the group with its own statistics, or an edit of
it. No report with tags to include is selected within three requests of the tag
spend page; for those `ReportsSound` rests on its theorem. In the web runs the deadlock check is
off as well: a page whose requests are used up and answered is left alone.

Fairness is used by `CatchesUp` and `PagesAppear` only. For the first, weak fairness of `Trigger` (a scheduler
calls update_all again and again) and of `Work` (a thread that runs goes on).
Nothing is assumed about faults except that they are finitely many, nor about
the user except, in `CatchesUp` itself, that the accounts are eventually left as
they are. For the second, a browser runs the timers that are due and a request
ends, one way or the other (weak fairness of the fades, of the scheduled fetch,
and of serving, answering or failing the oldest request); nothing is assumed of
the user.

### What the findings show

* `PlaidSync_unfrozen`: `sync_transactions` looks once whether the accounts of an
  item are all archived. Archived during its sync, the rest of the page is
  passed over and the cursor saved past it, so that unarchiving does not "replay
  the gap" (`plaid_service.rb:44`, `API.md:1373`). `PlaidSync_quiet` shows the
  promise kept when archiving and syncing do not overlap.
* `CategoryRequests_type`: a category created under a parent while another
  request retypes it takes the old type from the committed row, and the cascade,
  which walks the children read before, does not find it: two types in one tree.
  The next change of the type repairs it.
* `TransactionSplit_twice`: the split flag is read with the transaction, before
  the database transaction and without a lock. Two splits that both loaded it
  whole both insert, and nothing is replaced.
* `TransactionList_restored`: a cached list is restored "only ... if the search
  params match" (`useTransactions.tsx:103`). Unmounting caches the search of the
  moment with the rows of the moment. Left after the fetch of a new search began
  (which writes that search to localStorage) and before it is answered, the cache
  holds the new search with the old rows; the next visit finds the two searches
  equal, restores rows that do not belong to the filter shown, and skips the fetch.

### What does not hold with several workers

The single-worker runs are single-worker because the code promises no more;
`Workers = {w1, w2}` in the same configuration makes TLC report:

* `OneRow` (`PlaidSync_one` with two workers): two syncs both pass
  `validates :plaid_id, uniqueness`, and no unique index stands behind it.
* `CrashSurfaces` (with `MaxFaults = 2`): a worker whose copy already says
  "error" does not write it again after `reconnect` has set the row to "active".
* `RealAccountOnce` (`PlaidLink_one`, where both new items hold one real account):
  two exchanges both find no duplicate.
* `ItemsIsolated` (`PlaidLink_one`): a token destroyed while a sync has it loaded
  ends that sync before the other items had their turn.
* `HistoryImported` (`PlaidLink_one`): a sync that visits a token before its
  accounts are inserted passes their history over and saves the cursor.
* `LeafTruthful` (`CategoryRequests_one`): a save of a parent that counted its
  children before another request changed them writes the older answer last.
* `CountedOnce` (`TransactionSplit_one` with `Bank = {p1}`): an unsplit that read the old children
  leaves those a concurrent split commits, under a parent that counts itself.

A saved cursor may go back as well, when a sync that loaded an older one saves
it; that costs repeated work and no gap. What does hold with any number of
workers is proved: `NoGap` (also while banks are connected and refused),
`CursorFrozen` when accounts are archived only between syncs, `LinksExist`,
`NothingLost`, `NoOrphans`, `StreamsSound`, `NeverSuggestedAgain`. Each property
of the list above is proved for one worker, whatever the number of items, accounts,
categories, transactions and faults; the race itself no run forbids.

And with one worker, `PartLists <- FractionalDivisions` in `TransactionSplit_one`:
amounts with fractions of a cent pass the check on their sum, are rounded one by
one when stored, and no longer sum to the parent: two parts of 4/3 of a cent are
accepted for three cents and stored as a cent each. The web client sends whole
cents (`SplitTransactionModal.tsx:150`), which is the hypothesis `InCents` of
`SplitsSumUp` below.

## 4. Proofs

TLAPS checks the theorems for every value of the constants under the named
assumptions `BankAssumption`, `SyncAssumption` (the constants are what their
names say, pages are not empty), `TagsAssumption` (`None` is no tag),
`SplitAssumption` (amounts are integers), `NoStreamAssumption`, `StartAssumption`
(any statuses to begin with), `PostAssumption` (the page's detection is one of
the workers) and `InputsAssumption` (a request asks for a valid type).
Those of the web client:

- what stands for "none" is no search, group, report, user, account, merchant,
  list of tags or transaction: `NoneAssumption`, `GroupAssumption`,
  `SpendAssumption`, `SessionAssumption`, `AccountsAssumption`,
  `NoMerchantAssumption`, `NotOpenAssumption`;
- what the counts are: `BoundsAssumption`, `MerchantsAssumption`,
  `PerPageAssumption` (a page has rows), `MaxPageSentAssumption`,
  `MaxStreamActsAssumption` (a page may load), `MaxActsAssumption`,
  `TxBoundsAssumption` (and the split dialog may have two rows);
- what there is to begin with: `FirstTransactionsAssumption` (a list of rows),
  `StartForestsAssumption` (a forest of finitely many categories),
  `AccountsAssumption` (finitely many bank accounts), `RangesAssumption` (a range
  to choose), `AmountAssumption` (a transaction's amount is an integer, not 0).

The bounds on requests, visits and rows that the runs set are parameters of the
theorems like the others.

Some theorems have a hypothesis of their own:

- `OneWorker`, at most one worker: one sync or one request at a time, which may
  still fail or die after any statement and leave its work half done to the next.
  The properties under it are those that two workers break (section 3).
- `InCents`, amounts and parts in whole cents, for `SplitsSumUp`, which without it
  is false (end of section 3).
- `ConnectedOnce` (the accounts connected to begin with are different accounts
  of the bank), for `AccountsConnectOnce`.
- `Togglable = {}` (nothing is archived), for `HistoryIsImported`: the history of
  an archived account is passed over on purpose.

| theorem | states |
|---|---|
| `PlaidSyncProofs!TypeCorrect` | `Spec => []TypeOK` |
| `PlaidSyncProofs!CursorNeverLeavesAGap` | `Spec => []NoGap` |
| `PlaidSyncProofs!FrozenCursorStays` | `QuietSpec => CursorFrozen` |
| `PlaidSyncProofs!OneRowPerTransaction`, `BookNeverOlder`, `CrashAlwaysSurfaces` | one worker: `Spec =>` `[]OneRow`, `[]Mirror`, `CrashSurfaces` |
| `PlaidSyncProofs!SyncImplementsBook` | one worker: `Spec => KeepsBook`, the refinement of `BankBook` |
| `PlaidLinkProofs!LinkTypeCorrect`, `LinkingLeavesNoGap` | `LinkSpec => []` of `LinkTypeOK`, `NoGap` |
| `PlaidLinkProofs!AccountsConnectOnce`, `HistoryIsImported`, `EveryItemHasItsTurn` | one worker: `LinkSpec =>` `[]RealAccountOnce`, `[]HistoryImported`, `ItemsIsolated` |
| `CategoryRequestsProofs!LinksNeverDangle` | `CRSpec => []LinksExist` |
| `CategoryProofs!DestroysKeepTheRest` | `TreeSpec => DestroyKeepsTheRest` |
| `CategoryRequestsProofs!OneAtATimeIsAtomic`, `OneAtATimeSound` | one worker: `CRSpec => OneAtATime`, the refinement of `CategoryTree`, and so `[]` of `Forest`, `OneTypePerTree`, `LeafTruthful` |
| `CategoryProofs!TreeTypeCorrect`, `ForestStaysForest`, `TypesStayUniform`, `LeavesStayTruthful`, `LabelsStayValid` | `TreeSpec => []` of `TreeTypeOK`, `Forest`, `OneTypePerTree`, `LeafTruthful`, `LabelsExist` |
| `WebScreensProofs!StreamsTypeCorrect`, `StreamsStaySound`, `DecisionsStand` | `RSSpec =>` `[]RSTypeOK`, `[]StreamsSound`, `NeverSuggestedAgain` |
| `WebScreensProofs!PageImplementsStreams`, `PageStreamsSound` | `RCSpec => RSSpec`, and so the same of the streams behind the page |
| `WebScreensProofs!RecurringTypeCorrect`, `StreamsSettle` | `RCSpec => []` of `RCTypeOK`, `StreamsSettled` |
| `WebScreensProofs!MerchantTypeCorrect`, `PageSettles` | `MPSpec => []` of `MPTypeOK`, `PageSettled` |
| `WebScreensProofs!TransactionTypeCorrect`, `TransactionSettles`, `RowsApart`, `SplitsAreAccepted` | `TXSpec =>` `[]` of `TXTypeOK`, `TransactionSettled`, `RowKeysApart`; `SplitsAccepted` |
| `WebScreensProofs!CategoriesTypeCorrect`, `CategoriesSettle`, `BudgetsCountOnce` | `CSSpec => []` of `CSTypeOK`, `CategoriesSettled`, `BudgetsOnce` |
| `WebScreensProofs!AccountsTypeCorrect`, `AccountsSettle`, `LinksAreAnswered` | `ACSpec => []` of `ACTypeOK`; `AccountsSettled`, `NetWorthActive`, `BoxesTruthful`; `LinksAnswered` |
| `WebScreensProofs!ChangesAreSteps`, `ServerStaysSound`, `EveryCategoryIsDrawn` | `CSSpec =>` `ChangesAsProved`; `[]` of `Forest`, `OneTypePerTree`, `LeafTruthful`, `LabelsExist` as long as `csAsSeen`; `[]EveryCategoryDrawn` |
| `WebScreensProofs!ScreensImplementPages` | `ScreenSpec => MPSpec /\ CSSpec /\ ACSpec /\ TXSpec /\ RCSpec` |
| `WebScreensProofs!ScreenTypesCorrect`, `ScreensSettle`, `PagesDrawSound` | `ScreenSpec => []` of `ScreenTypeOK`, `ScreensSettled`, `DrawnSound` |
| `WebScreensProofs!MerchantEditsStay`, `PagesStaySound` | `ScreenSpec =>` `[]MerchantEditsKept`; `[]StreamsSound`, `NeverSuggestedAgain`, `SplitsAccepted`, `ChangesAsProved` |
| `TransactionSplitProofs!SplitTypeCorrect`, `SplitsLoseNothing`, `NoChildIsOrphaned` | `SplitSpec => []` of `SplitTypeOK`, `NothingLost`, `NoOrphans` |
| `TransactionSplitProofs!SplitsCountOnce` | one worker: `SplitSpec => []CountedOnce` |
| `TransactionSplitProofs!SplitsSumUp` | one worker, whole cents: `SplitSpec => SumsToParent` |
| `WebListsProofs!WebTypesCorrect`, `ListsSettle` | `WebSpec => []` of `WebTypeOK`, `ListsSettled` |
| `WebListsProofs!SearchesStayAsked`, `GroupsEndAsChosen` | `WebSpec => []` of `SearchesAsked`, `GroupAsChosen` |
| `WebListsProofs!ReportsStaySound`, `SessionStaysSound` | `WebSpec => []` of `ReportsSound`, `SessionSound` |

`NoGap` speaks about the saved cursor only, and a worker may save any cursor it
has in memory, so it is not inductive. `IInv` says the same of everything that
may become the saved cursor: every position up to the saved cursor is handled
(`CursorCovered`), up to every cursor in a worker's memory (`MemCovered`), and up
to the end of the response being applied except for the entries `left` to apply
(`PageInLog`, `PageCovered`); `LogsApart` keeps an item's log to its own
transactions. "Handled" survives every step: rows are only deleted for a removal
in the log, logs only grow, `passed` only grows.

`FrozenCursorStays` needs to know that no worker is inside an item whose accounts
are all archived (`NoneFrozen`): `StartItem` does not enter one, and nobody
archives while a sync runs.

`BookInv` is what one sync keeps besides, in two parts. About the page
(`PageInv`): the worker's copy of the cursor is the saved one (`MemCurrent`), the
page starts at it and reaches to the end of the response (`PageAhead`), what is
`left` is left in the order added, modified, removed (`PageInOrder`), and an
entry whose validation has passed has no row yet (`InsertPending`). About the
rows (`RowInv`): a transaction has at most one row (`RowsSingle`), and the row is
what the log says of it at some position from the cursor on, beyond which the
page has applied nothing of it (`BookMirrors`). This is where order matters: an added entry read again
after a crash is older than the row it finds, and is dropped as a duplicate; a
removed one read again finds nothing. `BankBook` sees only the
saved cursor and the rows, and every step maps to one of its steps or to none.
That a log has a last entry of each transaction up to a position is an induction
over positions, made by the well-founded minimum of a set of naturals.

`LinkInv` adds to `IInv` that tokens in use are used by what a request holds
(`TokensUsed`) and that an account waiting to be written belongs to the token of
its request (`Accepted`), so that `IInv` survives tokens that come and go. Three properties each need one
more fact about the request under way, with one worker: what it is about to connect is not
connected (`NewIsNew`), the token it made has not been synced (`OwnItem`), and
the items a sync still has to visit exist (`QueueThere`).

`TreeInv` is the conjunction of the five properties: each needs the others (a
type cascades along links that must not form a cycle and is inherited from a
parent that must exist). That a move makes no cycle is a fact about sets:
`Below` is the smallest set closed under children, so a set of tags without a
root would have to contain the new parent among the descendants of the moved tag.
`DestroysKeepTheRest` shows both inclusions the same way: the descendants of a
tag after a destroy, with the one gone put back where it was, are closed under
the children of before, and the other way round.

`CRInv` proves `LinksExist` about statements of concurrent requests. `LinksExist`
is about committed rows, while what could break it is in uncommitted ones. So
`CommitsSound` says of every transaction that it commits nothing broken: a parent
it writes is a row it sees (`ParentsWritten`), and whatever refers to a row it
deletes it has rewritten or deleted as well (`DeletesDetached`). Between two transactions, `Apart`: what
one refers to the other has not deleted, which is what the row locks
of foreign keys are for. A rollback drops writes and is harmless.

`OneAtATimeIsAtomic` rests on `ServeInv`. With one worker the committed table
stands still under a request, so what the request sees is that table with its own
writes. `Serving` names the stage it has reached: nothing written yet, with the
task it started with (`Creating`, `Updating`, `Destroying`); the children moved
up and the row not yet deleted (`Detached`); or past its first write of the row
(`Finishing`), when the table it will see after its waiting statement and the
callbacks it still has to run lead to the table the atomic request makes
(`LeadsTo`, `Asked`). `LeadsTo` has only four shapes, at most two saved parents
and a retyping, because a callback of a callback never comes about: the parent
saved again is already of its own parent's type (`LikeParent`, an invariant of
the forest), so its save changes neither type nor parent. That a statement that
writes only the columns that differ makes the whole row is `OntoDirty`; that it
reaches the row although it was prepared from an earlier read is `WriteView`. A
commit is then the atomic request, and every other statement a stutter, but for
the categorising beside it, which the foreign keys keep off a category that is
being deleted.

`SplitInv` adds to the properties what the workers hold: the children a worker
inserted belong to its request's parent, which nobody can remove meanwhile; what
it is about to mark as split has children of its own to add (`WorkersHonest`),
and a transaction not yet added has none (`NewIsWhole`). Then a commit that
deletes the last child either clears the flag or brings new ones. `CountedOnce`
needs one worker and `OnceInv`: what the request has read of its parent is still so
(`ReadingHolds`), so that the children it deletes are all there are. `SumsToParent`
needs `PartsKept` besides: what a split has inserted are its parts, each rounded,
under ids of their own, and the parts were accepted for the amount it loaded. In
whole cents rounding changes nothing, a sum is a whole number of cents again
(`SumOfCents`), and two of those that are within half a cent are equal. That the
sum over the children is the sum over the parts, although the one is a fold over
a set of rows and the other over a sequence, is `SumRenamed`.

`RSIInv` adds `Linked` to the properties of the streams: a run that has a stream
has one with a row, what it took for linked when it loaded its candidates still is (links are moved, never removed). `MarksFollow` and `HalfMade` would be false as plain statements; the
history variables say by which accidents, all of them in the code: `rsAstray`
collects the transactions of a stream whose status changed between reading and
linking or marking, those taken over from another stream (which keep
their mark), those that joined a dismissed stream with the mark of a split, those a run did not come to mark before it was cut, and those of a stream
whose row a decision had loaded before another changed it; a later decision about
their stream puts them right and takes them out again. `rsCut` says that a run was cut between
creating and filling. The theorem is that nothing else goes wrong, with any
number of runs and decisions. `DecisionsStand` rests on `create!` being the only
statement of the detection that writes a status, and only of a new row. That
each step of the page is one of the streams or none (`PageImplementsStreams`)
carries both over to the page.

Of the web client's lists, these invariants hold for any number of requests:

- `TLAskedInv`, `MLAskedInv`: of the hook's state only its mount and its search
  matter. Every step keeps both and what is due, or fetches for the search, or
  makes a fetch due; so the hook's other fields are left open and the rows never
  looked at.
- `GroupInv`: a request of a change of group says how far the change has come
  (`Reached`); while all comes in order the merchant has at most one such request
  and the server has it exactly there. Without "at most one" the claim is false
  (two changes of a merchant under way), so it is part of the invariant, and kept
  because a choice made beside an open change ends `mlCalm`. The steps of the
  network are told by which request each request was before (`Carried`).
- `SpendInv`: the reports on screen are replaced by those of an answer under way,
  so every report `Listed`, on screen, on the server or in an answer, must have
  its tags apart, and be what is selected if it has the active id; ids are never
  given twice.
- `SessionInv`: while the program starts, nothing but the question for the user is
  under way, with the token of the moment (`Starting`). It speaks of no path the
  history has: `Traverse` may lead to a page without a user, which `wsCameBack`
  then says, until the program starts again.

- `RowsInv`: no transaction is twice on the list, in the cache or in an answer,
  in whatever order answers come. A page of the server's list has none twice
  because a filter keeps the order; `Merged` drops those that are there.
- `TLCalmInv`, `MLCalmInv`, about what is under way while all comes in order. `InTurn`
  splits the requests where the first request of the search of the moment stands
  (`a`): what comes before it no longer matters, and once the first k requests
  are answered the list is on page `pg[k]` of the server's list, so that every
  further page asked for is that one again or the one after it. `TLFresh` says of
  each row on its way that it is what the server has, or that the answer to an
  edit that makes it so comes after. An edit that takes a row out of the search
  (`tlEdited`) spoils the first, which is about which rows there are, and not the
  second.
- `SpendCalmInv`: the last statistics under way are those of the selection, and with
  none under way they are shown (`StatsCome`); a list of reports that was served is
  the server's, unless a report made or deleted comes after it, whose answer is
  followed by another list (`ReportsCome`).

These proofs found two things that no run reaches within its bounds. An older
search's further page, answered first, puts the page number back while the first
page of the new search is under way; the next scroll then asks for the third page
and the second is never fetched (`useTransactions.tsx:115-133`, `:186`, `:236`; TLC
confirms it with 5 requests and 3 transactions). `tlCalm` and `mlCalm` exclude it
(`NoneSkipped`), and section 5 lists it. The other is of the merchant's page, next.

Of the pages that show one thing:

- `PageInv` of the merchant's page. `PendingTogether` is inductive as it stands;
  the rest holds while `mpCalm`. A question is open over a page at rest and still
  fits the server's merchant, or its answer alone is awaited (`AskedAtRest`); a
  change of the user's is the first request, what follows it are reloads and
  statistics (`UserFirst`); the tags meant are those the server will have once the edit under
  way is served, for the merchant it is of and for those it is copied to
  (`MeantComes`). The last request that is not for
  statistics will show the server's merchant (`LastComes`, `WillShow`), and with
  only statistics to come the page shows it already (`RestShows`). The proof
  found what no run reaches within its bound of requests: a merchant gone to
  *during* a change of the group, whose end fetches the first merchant again and
  puts it on the second one's page. `mpCalm` excludes it, and section 5 lists it.
- `SplitInv` of the transaction's page (the server's splits have one of the same
  name): every split under way adds up to the amount it was made for, and no
  transaction that is pending, on screen, in a request or in an answer, has
  children, or a split dialog over it. The form's sum needs no arithmetic: what
  is checked and what is sent are one fold over the same numbers.
- `ShownInv` of the categories page: while `csAsSeen`, every tree that the page,
  its dialogs or an answer hold is `Sound` (the five properties of
  `CategoryTree`), and every change asked for, or waiting to be confirmed, is a
  step of `CategoryTree` from the tree it was chosen on (`MayAsk`). So the
  argument goes both ways: the server's theorems assume that no category is moved
  below itself, and the page, which keeps that, does so because what it was sent
  is a forest. `SoundDrawn` is the same fact about sets as before: what is not
  drawn would be a set of categories without a root.
- `BudgetsOnce` rests on `ShownInv` too. The subtrees of two roots, or of two
  siblings, have no category in common (`BelowApart`), so the budgets in them add
  up (`SizesAddUp`). `TotalBudget` is a recursive function along the forest: that
  there is one is shown by giving it (the number of budgets below a category),
  that there is no other by a category of fewest descendants on which two differ.
  Both need the categories to be finitely many (`Finitely`).
- `TXInv` of the transaction's page: what the page will hold once the first n
  requests are answered, each answer put into the transaction its request had
  (`HeldAfter`), is the server's transaction as far as the server has served
  (`WillHold`), although partial answers lie in between; all of it but the rows and
  the category that were applied to all (`AsKnown`), which an answer with the whole
  transaction brings. That a row keeps the id of the request that made it tells the
  rows applied from those the page has put in itself.
- `CSInv` of the categories page: the last request under way is for the range
  chosen (`LastInRange`), and what a load brings is the server's tree unless a
  change after it was served, which another load follows (`LoadsNew`).
- `ACInv` of the accounts page. `LinksHeard` holds in any order: a link is open, or
  has something under way that is heard, only while its button is drawn. The rest
  holds while `acCalm`: a list that was served is the server's, unless a change after it was
  served, which another list follows (`ListsNew`, `ListComes`); no box is clicked
  after a list was asked for (`BoxesFirst`); and each box is as the last click on
  it that the server has yet to take, or as the server has it (`BoxesFollow`).
- `RCInv` of the recurring page: at most one list is under way and no decision
  beside it (`ListAlone`), two decisions are never about one stream
  (`DecisionsApart`), and each row shows its stream's status or a decision made
  that will give it (`RowFollows`). `RunAwaited`, that the page's own detection is
  over whenever the page is not waiting for it, holds in any order.

`ScreensImplementPages` carries them over to the composition: a behaviour of
`WebScreens` is a behaviour of each page.

Sums and filters are folds and recursive functions over sets and sequences, and
what such a definition computes is an induction. The library's induction theorems
take an operator for the predicate, which these provers cannot instantiate;
`NatInduces` and `LeastMeasure` in `ListLemmas`, from the well-founded minimum of a
set of naturals, take a set of numbers or a measure instead. So `SumExists` shows
by induction that a function adds up a finite set in every order, and `SumAllIs`
that the fold computes it.

Only model-checked are `CatchesUp` and `PagesAppear`: liveness under fairness is out
of this prover's reach, as is `ENABLED`. Every other property of a passing run is
a theorem. Of these the runs show that the hypotheses can be met and that each
property can fail (the mutants), the theorems that the bounds hide nothing.

## 5. Not modelled

* `remove_item` and `transactions_refresh` outside of a connection, link tokens,
  the merchant lookup inside the sync, the amounts of balances, the shape of
  Plaid's error bodies (`plaid_service.rb:134` assumes an object).
* The page cache of browsers, which may revive a document with its program, and
  what the forms say of a failure. In `WebSession` an entry of the history that a
  new one cuts off may still be gone to.
* The date and the note of a transaction, which the transaction page sends and gets
  back as it does a category; tags of more than one user.
* Dates, names and categories of split children; a date edited while a split
  copies it leaves the child on the old date.
* Moves of categories checked against concurrent ones. Two moves from two stale screens, A under B
  and B under A, do make a cycle, and `parent_ids` then does not return; nothing
  in the repository says otherwise, so it is a listed hazard and no finding.
* Of recurring streams the `active` flag, dates, and the arithmetic by which
  amounts and gaps become clusters; lists of more than one page of 200.
* Tags, users and sessions of the API, balances: single-row operations guarded by
  validations. Statistics, search, charts, mail: read-only SQL. Import, backfill
  and seed tasks: run once by hand.
* Of the web client the dashboards and reports (each draws what one request
  brought), the drawers that repeat the filters on small screens, the picker of
  group members (`MerchantLinking.tsx`) and that of categories
  (`CategoryEdit.tsx`, `useMerchantCategories.ts`), layout and styling.
* The Android client, and classification, merchant groups and the item merger on
  the server: see the plan.

### In the models, and promised by nothing

The models contain these behaviours of the code. No comment, document or test
says otherwise, so that no property forbids them, and each property above that
could meet them names the assumption under which it holds.

Server:

* A failure between the two inserts of a connection (`plaid_accounts_controller.rb:131`
  and `:143`) leaves an account that no user sees, and the retry is refused because
  of it ("already connected"): `PlaidLink_one` contains those states.
* A stream created and not filled makes `matching_stream` raise on a nil average
  (`recurring_detection_service.rb:141`), in this and every later detection of
  the account, which `detect_safely` logs and nobody repairs.
* A cluster whose signature is taken by a dismissed stream with another average
  (`recurring_detection_service.rb:157`) fills and links that stream, while
  `:22` leaves dismissed streams "completely untouched"; it is not suggested
  again, and its transactions are not marked.
* A run that read a stream as confirmed marks its new transactions after a
  dismissal; a transaction taken over from another stream keeps its mark
  (`:166`).
* A confirmation and a dismissal of one stream under way together: the later one
  wins, also when `confirm` has looked before the dismissal, so that a dismissed
  stream is confirmed; and one that loaded the status it is to write writes only
  the marks (`recurring_stream.rb:22`).

Client:

* "Clear filters" does not cancel the debounce of a filter changed just before
  (`SearchFilters.tsx:65`): the filter comes back.
* A further page of an older search answered while a new one is under way puts
  the page number back, and a page of the new search is skipped
  (`useTransactions.tsx:236`).
* A page that fails to load has already advanced the page number: scrolling on
  leaves a hole (`useTransactions.tsx:152`).
* The answer to an older search that comes last is the list (`useTransactions.tsx:186`,
  `MerchantPage.tsx:69`).
* The group of a merchant is removed and the new one cannot be added
  (`merchant-groups-client.ts:64`): the merchant is in none. A filter changed
  while a group is being changed is taken back (`MerchantsPage.tsx:66`).
* Statistics answered after the selection was emptied fill the empty chart
  (`TagsSpendPage.tsx:96`).
* The program started on a form and left by the history for a page of the same
  document: the page has no user, and nothing asks for one
  (`CurrentUserProvider.tsx:19`). Log out, reload the login page and go back: the
  entry of the page belongs to the same document, and nothing is loaded. The
  accounts page, which asserts that there is a user (`AccountPage.tsx:179`), never
  loads its list of users (`:70`). `PagesHaveUser` is about every other way to a
  page. If the history leads to a form
  while the user is being asked for and the token is refused, nobody leaves for the
  login page, and the spinner stays (`base-client.tsx:32-35`).
* A profile saved before a logout puts its token back after it
  (`ProfilePage.tsx:54`); a refused token is removed under another key than the
  one it is kept under (`base-client.tsx:36`); the program's spinner never ends
  when the user cannot be fetched (`CurrentUserProvider.tsx:25`).
* A member of the group gone to while the merchant leaves the group or becomes its
  primary: what is fetched at the end is the first merchant, and it is put on the
  page of the second (`MerchantLinking.tsx:52`, `:100`, `:115`).
* An edit of the defaults of one merchant of a group, be it of the category alone,
  overwrites the default tags of the others (`merchant.rb:79-87`). An edit from a
  page that is out of date puts back the list it shows, for the whole group
  (`MerchantDefaults.tsx:69`).
* "Yes, apply to all" on the page of a transaction gives it the default tags and
  category (`merchants_controller.rb:51-55`), and the page, which takes only the
  merchant from the answer (`TransactionView.tsx:77-79`), shows neither until an
  edit or a split brings the transaction whole. A tag that the user then adds by
  hand has two rows.
* Saved details of a group overwrite a merchant changed meanwhile
  (`MerchantGroup.tsx:44`); a save that ends closes whichever dialog is open by
  then (`View.tsx:68`).
* A change of a category that succeeded is reported as failed when the fetch
  after it fails (`useCategorySpendData.ts:72`), and that fetch is for the range
  chosen when the change began (`:77`).
* A change of access that fails leaves the box as clicked (`AccountPage.tsx:556`);
  a link token that could not be had leaves its button dead (`usePlaidLink.ts:35`).
* The split form is filled anew when the transaction changes under it: what was
  typed is lost (`SplitTransactionModal.tsx:56`).
* The tab chosen while the streams load is overridden by the automatic one, and a
  first load that failed uses that one up (`RecurringPage.tsx:30`).

## 6. Plan

What is left, in this order:

1. `Classification`: the six sources of a type or category, defaults of a
   merchant and their backfill; a user's decision is never overwritten
   (`plaid_transaction.rb`, `merchant.rb`, `merchants_controller.rb`,
   `transactions_controller.rb`).
2. `MerchantGroups`: memberships, the merchant's own column, the primary
   (`merchant_group.rb:13`, `:29`).
3. `ItemMerge`: plan, later apply, the old item at Plaid and in the database
   (`plaid_duplicate_item_merger.rb:42`, `:166`).
4. `AuthSession` (Android): a validation that answers after a login or logout.

Proofs to add: those of these modules. Of the modules there are, what is left is
liveness, and what two requests at a time still keep of the properties now
proved for one worker (section 3 says which of them they break).
