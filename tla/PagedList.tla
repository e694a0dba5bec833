----------------------------- MODULE PagedList -----------------------------
(***************************************************************************)
(* The state of an endlessly scrolled list of the web UI, and the updates  *)
(* that its hook makes of it.  useTransactions and useMerchants keep the   *)
(* same state and update it the same way; the modules TransactionList and  *)
(* MerchantList say when.                                                  *)
(*                                                                         *)
(* A row is a record with an id; the hooks never look at the rest of it.   *)
(* The refs that the hooks keep beside the state (current page, search)    *)
(* are written when the state is committed, or together with the update    *)
(* that changes them, and are not told apart from the state.               *)
(***************************************************************************)
EXTENDS Naturals, Sequences, SequencesExt, Filters

CONSTANTS
  None,      \* no value (null or undefined)
  PerPage    \* the rows of a page: 25 in the code

ASSUME PerPageAssumption == PerPage \in Nat \ {0}

IdsOf(rows) == {rows[i].id : i \in DOMAIN rows}

(* A hook as it is mounted: empty, or as a cache entry left it. *)
Mounted(n, search, entry) ==
  [on |-> n, search |-> search, loading |-> FALSE, loadingMore |-> FALSE, error |-> FALSE,
   rows    |-> IF entry = None THEN << >> ELSE entry.rows,
   hasMore |-> IF entry = None THEN TRUE ELSE entry.hasMore,
   page    |-> IF entry = None THEN 1 ELSE entry.page]

Unmounted == [Mounted(0, None, None) EXCEPT !.hasMore = FALSE]

(* The page a fetch asks for, and the state while it is under way.  The page *)
(* moves on before the answer is there.                                      *)
PageToFetch(l, more) == IF more THEN l.page + 1 ELSE l.page

FetchBegun(l, more) ==
  IF more THEN [l EXCEPT !.loadingMore = TRUE, !.error = FALSE, !.page = @ + 1]
          ELSE [l EXCEPT !.loading = TRUE, !.error = FALSE]

(* Mutant: a row is appended though it is there. *)
AppendedAll(rows, new) == rows \o new

(* Rows of a further page are appended, unless a row of that id is there. *)
Merged(rows, new) == rows \o Filtered(new, {i \in DOMAIN new : new[i].id \notin IdsOf(rows)})

Fetched(l, q) ==
  [l EXCEPT !.rows = IF q.more THEN Merged(@, q.items) ELSE q.items,
            !.loading = FALSE, !.loadingMore = FALSE, !.error = FALSE,
            !.hasMore = q.page < q.pages,
            !.page = q.page]

FetchFailed(l) == [l EXCEPT !.loading = FALSE, !.loadingMore = FALSE, !.error = TRUE]

(* Mutant: a new search begins on the page of the old one. *)
SearchSetOnPage(l, search) == [l EXCEPT !.search = search, !.hasMore = TRUE]

SearchSet(l, search) == [l EXCEPT !.search = search, !.page = 1, !.hasMore = TRUE]

MayLoadMore(l) == l.hasMore /\ ~l.loadingMore

RowReplaced(l, row) ==
  [l EXCEPT !.rows = [i \in DOMAIN @ |-> IF @[i].id = row.id THEN row ELSE @[i]]]

(* What the unmounting hook leaves in the session's cache, and what the next *)
(* hook at that path takes from it.                                          *)
Entry(l) == [search |-> l.search, rows |-> l.rows, hasMore |-> l.hasMore, page |-> l.page]

Usable(entry, search, old) ==
  IF entry # None /\ ~old /\ entry.search = search THEN entry ELSE None

-----------------------------------------------------------------------------
(* The rows on screen.  They follow the rows of the hook, except that while  *)
(* a search is loading the old ones fade out and are then taken away.        *)

Drawn(l, shown) == IF l.loading THEN shown ELSE l.rows

(* The effect runs when the flag, the rows or the number of rows shown       *)
(* change; while loading with rows on screen it starts a timer.              *)
StartsFade(before, after, shown) ==
  /\ after.loading
  /\ shown # << >>
  /\ before.loading # after.loading \/ before.rows # after.rows

\* Mutant: the timer takes away the rows whatever was answered meanwhile.
FadedOutAlways(l, shown) == << >>

FadedOut(l, shown) == IF shown = << >> THEN << >> ELSE Drawn(l, << >>)

ScrollTriggers(l, shown) == l.hasMore /\ ~l.loadingMore /\ shown # << >>

-----------------------------------------------------------------------------
(* The server's pager (external): a page of what the search finds. *)

Pages(found) == IF found = << >> THEN 1 ELSE (Len(found) + PerPage - 1) \div PerPage

Upto(found, page) == SubSeq(found, 1, IF page * PerPage < Len(found) THEN page * PerPage ELSE Len(found))

PageOf(found, page) == SubSeq(Upto(found, page), (page - 1) * PerPage + 1, Len(Upto(found, page)))

-----------------------------------------------------------------------------
(* For the histories: a page asked for is the one after the page last asked  *)
(* for and still to come, if any is, or that page again.  It is not when the *)
(* answer for an older search has put the page number back in between.       *)

LastFetches(net) ==
  {j \in DOMAIN net : /\ net[j].kind = "fetch"
                      /\ \A k \in DOMAIN net : k > j => net[k].kind # "fetch"}

NoneSkipped(net, page) == \A j \in LastFetches(net) : page \in {net[j].page, net[j].page + 1}
=============================================================================
