-------------------------- MODULE TransactionList --------------------------
(***************************************************************************)
(* The transactions page of the web UI: the hook useTransactions, the      *)
(* table that shows its rows, the filters beside it, and the controls of a *)
(* row.                                                                    *)
(*                                                                         *)
(* Every request goes to the server on its own; they are served and        *)
(* answered in any order, and may fail.  The store is the server's         *)
(* (external): transactions numbered as they come, newest listed first,    *)
(* each with the need for a review of its type and one tag or none.  The   *)
(* filter modelled is "needs review", the one whose result the page's own  *)
(* edits change.                                                           *)
(***************************************************************************)
EXTENDS PagedList, FiniteSets

CONSTANTS
  StartTransactions, \* the store as the page is first opened
  MaxTransactions,   \* bound: the transactions of the store
  MaxSent,           \* bound: the requests of a behaviour
  MaxMounts          \* bound: how often the page is opened

VARIABLES
  tl,        \* the hook's state; tl.on numbers the mount, 0 when the page is closed
  tlMounts,  \* how often the page was opened
  tlShown,   \* displayTransactions
  tlFade,    \* fade-out timers not yet over
  tlSpin,    \* rows whose confirm button spins
  tlTyped,   \* the filters a debounce timer will submit, or None
  tlDue,     \* fetches scheduled with setTimeout(..., 0)
  tlNet,     \* the requests under way, in the order sent
  tlSent,    \* the number of requests sent
  tlSaved,   \* localStorage: the search last made here, or None
  tlCache,   \* sessionStorage: the list as the page was last left, or None
  tlStore,   \* the server's transactions
  tlHeld,    \* history: the search the rows on the page were fetched for
  tlCalm,    \* history: all came in order, nothing between a search and its fetch;
             \* nothing failed, nobody else wrote, and no page was skipped
  tlEdited   \* history: the page itself wrote a transaction type

tlVars == <<tl, tlMounts, tlShown, tlFade, tlSpin, tlTyped, tlDue, tlNet, tlSent, tlSaved,
            tlCache, tlStore, tlHeld, tlCalm, tlEdited>>

tlScreen  == <<tl, tlShown, tlFade, tlSpin>>
tlSession == <<tlMounts, tlSaved, tlCache>>
tlInput   == <<tlTyped, tlDue>>
tlServer  == <<tlStore, tlEdited>>
tlHistory == <<tlHeld, tlCalm>>

\* A search is the set of the filters that are on.
Searches == SUBSET {"needs_review"}

ASSUME NoneAssumption == \A search \in Searches : search # None
ASSUME BoundsAssumption == {MaxTransactions, MaxSent, MaxMounts} \subseteq Nat
ASSUME FirstTransactionsAssumption ==
  StartTransactions \in Seq([review : BOOLEAN, tagged : BOOLEAN])

Row(store, id) == [id |-> id, review |-> store[id].review, tagged |-> store[id].tagged]

RowsOf(store) == [i \in 1..Len(store) |-> Row(store, Len(store) + 1 - i)]

Found(store, search) ==
  Filtered(RowsOf(store),
           {i \in 1..Len(store) : "needs_review" \in search => RowsOf(store)[i].review})

TLInit ==
  /\ tl = Unmounted /\ tlMounts = 0
  /\ tlShown = << >> /\ tlFade = 0 /\ tlSpin = {}
  /\ tlTyped = None /\ tlDue = 0 /\ tlNet = << >> /\ tlSent = 0
  /\ tlSaved = None /\ tlCache = None
  /\ tlStore = StartTransactions
  /\ tlHeld = None /\ tlCalm = TRUE /\ tlEdited = FALSE

-----------------------------------------------------------------------------
(* What every step of the hook does to the screen, and a request. *)

Becomes(l) ==
  /\ tl' = l
  /\ tlShown' = Drawn(l, tlShown)
  /\ tlFade' = tlFade + (IF StartsFade(tl, l, tlShown) THEN 1 ELSE 0)
  /\ tlSpin' = tlSpin \cap IdsOf(tlShown')

Send(q) ==
  /\ tlSent < MaxSent
  /\ tlSent' = tlSent + 1
  /\ tlNet' = Append(tlNet, q)

(* fetchTransactions: the state first, the search into localStorage, the request. *)
FetchTransactions(l, more) ==
  /\ Becomes(FetchBegun(l, more))
  /\ Send([kind |-> "fetch", on |-> l.on, served |-> FALSE, search |-> l.search,
           more |-> more, page |-> PageToFetch(l, more), items |-> << >>, pages |-> 1])
  /\ IF more THEN UNCHANGED <<tlSaved>>
             ELSE tlSaved' = l.search

-----------------------------------------------------------------------------
(* Opening and leaving the page. *)

SavedSearch == IF tlSaved # None THEN tlSaved ELSE {}

(* The search comes from localStorage, the rows from the cache if it is for  *)
(* that search and not older than five minutes; the cache is taken away at   *)
(* once.  Without rows the first page is fetched.  A debounce timer of an    *)
(* earlier mount is over by then (it takes 250 ms).                          *)
TLOpen ==
  /\ tl.on = 0 /\ tlMounts < MaxMounts /\ tlTyped = None
  /\ \E old \in BOOLEAN :
       LET search == SavedSearch
           entry  == Usable(tlCache, search, old)
           l      == Mounted(tlMounts + 1, search, entry)
       IN IF l.rows = << >>
          THEN FetchTransactions(l, FALSE) /\ tlHeld' = search
          ELSE /\ tl' = l /\ tlShown' = l.rows /\ tlFade' = 0 /\ tlSpin' = {}
               /\ UNCHANGED <<tlNet, tlSent, tlSaved, tlHeld>>
  /\ tlMounts' = tlMounts + 1
  /\ tlCache' = None
  /\ UNCHANGED <<tlInput, tlServer, tlCalm>>

(* The list goes into the cache unless it is empty.  Fetches due now and     *)
(* answers still to come find no page: they change nothing here.             *)
TLLeave ==
  /\ tl.on # 0
  /\ tlCache' = IF tl.rows # << >> THEN Entry(tl) ELSE tlCache
  /\ tlCalm' = (tlCalm /\ tlNet = << >> /\ tlDue = 0)
  /\ tl' = Unmounted /\ tlShown' = << >> /\ tlFade' = 0 /\ tlSpin' = {} /\ tlDue' = 0
  /\ UNCHANGED <<tlMounts, tlSaved, tlTyped, tlNet, tlSent, tlServer, tlHeld>>

-----------------------------------------------------------------------------
(* The filters. *)

(* A change of a filter is submitted 250 ms after the last one.  A timer of  *)
(* 0 ms is over before the next of 250 ms, or the next click.                *)
UpdateFilter ==
  /\ tl.on # 0
  /\ \E search \in Searches : tlTyped' = search
  /\ UNCHANGED <<tlScreen, tlDue, tlNet, tlSent, tlSession, tlServer, tlHistory>>

(* Mutant: the search is set and not asked for. *)
SetSearchUnasked(search) ==
  /\ tlCache' = None
  /\ Becomes(SearchSet(tl, search))
  /\ UNCHANGED tlDue

(* setSearchParams, and the fetch it schedules. *)
SetSearchParams(search) ==
  /\ tlCache' = None
  /\ Becomes(SearchSet(tl, search))
  /\ tlDue' = tlDue + 1

SubmitFilters ==
  /\ tlTyped # None /\ tlDue = 0
  /\ tlTyped' = None
  /\ IF tl.on # 0
     THEN SetSearchParams(tlTyped)
     ELSE UNCHANGED <<tlScreen, tlDue, tlCache>>
  /\ UNCHANGED <<tlMounts, tlSaved, tlNet, tlSent, tlServer, tlHistory>>

(* clearSearchParams.  A debounce timer that runs is not stopped by it. *)
ClearFilters ==
  /\ tl.on # 0 /\ tlDue = 0
  /\ SetSearchParams({})
  /\ tlSaved' = None
  /\ UNCHANGED <<tlMounts, tlTyped, tlNet, tlSent, tlServer, tlHistory>>

FetchDue ==
  /\ tlDue > 0
  /\ tlDue' = tlDue - 1
  /\ FetchTransactions(tl, FALSE)
  /\ UNCHANGED <<tlMounts, tlTyped, tlCache, tlServer, tlHeld, tlCalm>>

-----------------------------------------------------------------------------
(* The table. *)

ScrollToEnd ==
  /\ tl.on # 0
  /\ ScrollTriggers(tl, tlShown) /\ MayLoadMore(tl)
  /\ FetchTransactions(tl, TRUE)
  /\ tlCalm' = (tlCalm /\ tlDue = 0 /\ NoneSkipped(tlNet, PageToFetch(tl, TRUE)))
  /\ UNCHANGED <<tlMounts, tlInput, tlCache, tlServer, tlHeld>>

(* Mutant: a timer that is over runs again. *)
FadeEndsAgain ==
  /\ tlFade' = tlFade - 1
  /\ tlShown' = FadedOut(tl, tlShown)
  /\ tlSpin' = {}
  /\ UNCHANGED <<tl, tlInput, tlNet, tlSent, tlSession, tlServer, tlHistory>>

FadeEnds ==
  /\ tlFade > 0
  /\ tlFade' = tlFade - 1
  /\ tlShown' = FadedOut(tl, tlShown)
  /\ tlSpin' = {}
  /\ UNCHANGED <<tl, tlInput, tlNet, tlSent, tlSession, tlServer, tlHistory>>

-----------------------------------------------------------------------------
(* The controls of a row. *)

NeedsReview(r) == r.review

Edit(kind, r) ==
  /\ UNCHANGED <<tl, tlShown, tlFade, tlInput, tlSession, tlServer, tlHistory>>
  /\ Send([kind |-> kind, on |-> tl.on, served |-> FALSE, id |-> r.id, row |-> None])

(* The confirm button submits the type as it is; it spins from then on. *)
ConfirmType(r) ==
  /\ NeedsReview(r) /\ r.id \notin tlSpin
  /\ tlSpin' = tlSpin \cup {r.id}
  /\ Edit("classify", r)

(* A type, or a category, which sets the type as well; a category may be     *)
(* made the merchant's default, and then goes to all its transactions.       *)
ChooseTypeOrCategory(r) ==
  \E kind \in {"classify", "classify_all"} : Edit(kind, r) /\ UNCHANGED tlSpin

AddTag(r)    == ~r.tagged /\ Edit("tag", r) /\ UNCHANGED tlSpin
RemoveTag(r) == r.tagged /\ Edit("untag", r) /\ UNCHANGED tlSpin

EditRow ==
  \E i \in DOMAIN tlShown :
    LET r == tlShown[i] IN ConfirmType(r) \/ ChooseTypeOrCategory(r) \/ AddTag(r) \/ RemoveTag(r)

-----------------------------------------------------------------------------
(* Requests. *)

Edited(t, q, id) ==
  CASE q.kind = "classify"     -> IF id = q.id THEN [t EXCEPT !.review = FALSE] ELSE t
    [] q.kind = "classify_all" -> [t EXCEPT !.review = FALSE]
    [] OTHER                   -> IF id = q.id THEN [t EXCEPT !.tagged = q.kind = "tag"] ELSE t

(* The server answers with what it has then (external). *)
Serve(i) ==
  LET q == tlNet[i] IN
  /\ ~q.served
  /\ IF q.kind = "fetch"
     THEN /\ \E found \in {Found(tlStore, q.search)} :
               tlNet' = [tlNet EXCEPT ![i].served = TRUE,
                                      ![i].items  = PageOf(found, q.page),
                                      ![i].pages  = Pages(found)]
          /\ UNCHANGED tlServer
     ELSE /\ tlStore' = [id \in DOMAIN tlStore |-> Edited(tlStore[id], q, id)]
          /\ tlNet' = [tlNet EXCEPT ![i].served = TRUE, ![i].row = Row(tlStore', q.id)]
          /\ tlEdited' = (tlEdited \/ q.kind \in {"classify", "classify_all"})
  /\ tlCalm' = (tlCalm /\ q.kind # "classify_all" /\ \A j \in 1..(i - 1) : tlNet[j].served)
  /\ UNCHANGED <<tlScreen, tlInput, tlSent, tlSession, tlHeld>>

(* Mutant: the answer to an update is not used. *)
RowTagged(l, q) ==
  [l EXCEPT !.rows = [i \in DOMAIN @ |->
     IF @[i].id = q.id /\ q.kind \in {"tag", "untag"} THEN [@[i] EXCEPT !.tagged = q.kind = "tag"]
                                                     ELSE @[i]]]

\* The two tag controls touch the row that is there; an update replaces it.
RowAnswered(l, q) ==
  IF q.kind \in {"tag", "untag"}
  THEN [l EXCEPT !.rows = [i \in DOMAIN @ |->
          IF @[i].id = q.id THEN [@[i] EXCEPT !.tagged = q.kind = "tag"] ELSE @[i]]]
  ELSE RowReplaced(l, q.row)

(* An answer for a mount that is gone is dropped. *)
Answer(i) ==
  LET q == tlNet[i] IN
  /\ q.served
  /\ tlNet' = RemoveAt(tlNet, i)
  /\ IF q.on # tl.on THEN UNCHANGED tlScreen
     ELSE Becomes(IF q.kind = "fetch" THEN Fetched(tl, q) ELSE RowAnswered(tl, q))
  /\ tlHeld' = IF q.on = tl.on /\ q.kind = "fetch" /\ ~q.more THEN q.search ELSE tlHeld
  /\ tlCalm' = (tlCalm /\ i = 1 /\ tlDue = 0)
  /\ UNCHANGED <<tlInput, tlSent, tlSession, tlServer>>

(* A request fails, before the server acts on it or after.  An update's      *)
(* failure is not even caught: its button keeps spinning.                    *)
Fail(i) ==
  LET q == tlNet[i] IN
  /\ tlNet' = RemoveAt(tlNet, i)
  /\ IF q.kind = "fetch" /\ q.on = tl.on THEN Becomes(FetchFailed(tl)) ELSE UNCHANGED tlScreen
  /\ tlCalm' = FALSE
  /\ UNCHANGED <<tlInput, tlSent, tlSession, tlServer, tlHeld>>

(* The bank's sync adds a transaction. *)
TransactionArrives ==
  /\ Len(tlStore) < MaxTransactions
  /\ tlStore' = Append(tlStore, [review |-> TRUE, tagged |-> FALSE])
  /\ tlCalm' = FALSE
  /\ UNCHANGED <<tlScreen, tlInput, tlNet, tlSent, tlSession, tlEdited, tlHeld>>

TLNext ==
  \/ TLOpen \/ TLLeave
  \/ UpdateFilter \/ SubmitFilters \/ ClearFilters \/ FetchDue
  \/ ScrollToEnd \/ FadeEnds \/ EditRow
  \/ \E i \in DOMAIN tlNet : Serve(i) \/ Answer(i) \/ Fail(i)
  \/ TransactionArrives

(* The browser runs the timers that are due; a request ends, one way or the  *)
(* other.                                                                    *)
TLFairness ==
  /\ WF_tlVars(FadeEnds)
  /\ WF_tlVars(FetchDue)
  /\ WF_tlVars(tlNet # << >> /\ (Serve(1) \/ Answer(1) \/ Fail(1)))

TLSpec == TLInit /\ [][TLNext]_tlVars /\ TLFairness

-----------------------------------------------------------------------------
TLTypeOK ==
  /\ tl.on \in 0..MaxMounts /\ tl.search \in Searches \cup {None} /\ tl.page \in Nat
  /\ \A f \in {"loading", "loadingMore", "error", "hasMore"} : tl[f] \in BOOLEAN
  /\ IdsOf(tl.rows) \cup IdsOf(tlShown) \cup tlSpin \subseteq DOMAIN tlStore
  /\ tlFade \in Nat /\ tlDue \in 0..1 /\ tlTyped \in Searches \cup {None}
  /\ tlSaved \in Searches \cup {None}
  /\ tlCache = None \/ tlCache.search \in Searches
  /\ tlSent \in 0..MaxSent /\ Len(tlNet) <= tlSent

(* No transaction is listed twice, however the server's pages move while the *)
(* list is scrolled (a transaction that comes shifts every page).            *)
RowsOnce == Cardinality(IdsOf(tl.rows)) = Len(tl.rows)

TLQuiet == tl.on # 0 /\ tlNet = << >> /\ tlDue = 0

(* A list that is settled shows the server's result from its top: the pages  *)
(* fetched so far, none missing, and it says whether there is more.  So long *)
(* as all came in order and nobody wrote a transaction meanwhile.            *)
SettledPrefix ==
  TLQuiet /\ tlCalm /\ ~tlEdited =>
    /\ tl.rows = Upto(Found(tlStore, tl.search), tl.page)
    /\ tl.hasMore <=> tl.page < Pages(Found(tlStore, tl.search))

(* Every row of a settled list is what the server has of it, also after      *)
(* edits of several kinds were under way together.  So long as all came in   *)
(* order and nobody else wrote.                                              *)
RowsFresh ==
  TLQuiet /\ tlCalm => \A i \in DOMAIN tl.rows : tl.rows[i] \in ToSet(RowsOf(tlStore))

(* No change of the filters is left unasked, whatever was loading as it was  *)
(* made: the search last fetched for, which is the one the next visit will   *)
(* start with, is the one the page shows.                                    *)
AskedForShown == tl.on # 0 /\ tlDue = 0 => SavedSearch = tl.search

(* The rows on screen become those of the hook: no fade-out timer that fires *)
(* after the answer leaves the table empty.                                  *)
ShownSettles == []<>(tl.on = 0 \/ tlShown = tl.rows)

(* "Only use cache if the search params match": rows taken from the cache    *)
(* were fetched for the search that the page is opened with.                 *)
RestoredFits == [][tl.on = 0 /\ tl'.rows # << >> => tlHeld' = tl'.search]_tlVars
=============================================================================
