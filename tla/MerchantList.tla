---------------------------- MODULE MerchantList ----------------------------
(***************************************************************************)
(* The merchants page of the web UI: the hook useMerchants, the table, the *)
(* search above it, and the controls of a row.  The group of a merchant is *)
(* changed with one request or two (leave the old group, enter the new     *)
(* one), after which the list is fetched again.                            *)
(*                                                                         *)
(* The store is the server's (external): merchants in the order listed,    *)
(* each with the group its row names, the groups it is a member of, and a  *)
(* mark for what an edit of the row writes.  The page opens once: leaving  *)
(* it and coming back is as in TransactionList.                            *)
(***************************************************************************)
EXTENDS PagedList

CONSTANTS
  MerchantCount,     \* the merchants of the store
  MaxMerchantsSent   \* bound: the requests of a behaviour

VARIABLES
  ml,         \* the hook's state
  mlShown,    \* displayMerchants
  mlFade,     \* fade-out timers not yet over
  mlTyped,    \* the search a debounce timer will set, or None
  mlDue,      \* fetches scheduled with setTimeout(..., 0)
  mlNet,      \* the requests under way, in the order sent
  mlSent,     \* the number of requests sent
  mlSaved,    \* localStorage: the search last made here, or None
  mlStore,    \* the server's merchants
  mlChosen,   \* history: the group last chosen for each merchant
  mlCalm      \* history: all came in order, nothing failed, and each choice was
              \* made on a row that showed what the server has, and no page was
              \* skipped

mlVars == <<ml, mlShown, mlFade, mlTyped, mlDue, mlNet, mlSent, mlSaved, mlStore,
            mlChosen, mlCalm>>

Merchants == 1..MerchantCount
Groups    == {"g1", "g2"}
Terms     == {None, "t"}
GroupsSought == {None, "g1"}   \* bound: the groups searched for

ASSUME GroupAssumption == None \notin Groups
ASSUME MerchantsAssumption == {MerchantCount, MaxMerchantsSent} \subseteq Nat

MerchantSearches == [term : Terms, group : GroupsSought]
NoSearch == [term |-> None, group |-> None]

\* The term finds the first merchant only.
MerchantRow(store, m) ==
  [id |-> m, group |-> store[m].group, in |-> store[m].in, edited |-> store[m].edited]

MerchantsFound(store, search) ==
  Filtered([m \in Merchants |-> MerchantRow(store, m)],
           {m \in Merchants : /\ search.term # None => m = 1
                              /\ search.group # None => store[m].group = search.group})

MLInit ==
  /\ ml = Unmounted /\ mlShown = << >> /\ mlFade = 0
  /\ mlTyped = None /\ mlDue = 0 /\ mlNet = << >> /\ mlSent = 0 /\ mlSaved = None
  /\ mlStore = [m \in Merchants |->
                  IF m = 1 THEN [group |-> "g1", in |-> {"g1"}, edited |-> FALSE]
                           ELSE [group |-> None, in |-> {}, edited |-> FALSE]]
  /\ mlCalm = TRUE
  /\ mlChosen = [m \in Merchants |-> mlStore[m].group]

-----------------------------------------------------------------------------
MLBecomes(l) ==
  /\ ml' = l
  /\ mlShown' = Drawn(l, mlShown)
  /\ mlFade' = mlFade + (IF StartsFade(ml, l, mlShown) THEN 1 ELSE 0)

MLSend(q) ==
  /\ mlSent < MaxMerchantsSent
  /\ mlSent' = mlSent + 1
  /\ mlNet' = Append(mlNet, q)

FetchMerchantsData(l, more) ==
  /\ MLBecomes(FetchBegun(l, more))
  /\ MLSend([kind |-> "fetch", served |-> FALSE, search |-> l.search, more |-> more,
             page |-> PageToFetch(l, more), items |-> << >>, pages |-> 1])
  /\ IF more THEN UNCHANGED mlSaved
             ELSE mlSaved' = l.search

MLOpen ==
  /\ ml.on = 0
  /\ FetchMerchantsData(Mounted(1, NoSearch, None), FALSE)
  /\ UNCHANGED <<mlTyped, mlDue, mlStore, mlChosen, mlCalm>>

-----------------------------------------------------------------------------
(* The search.  What a control sets is merged into the search of the moment, *)
(* but each names all of it, as it was when the control was drawn.           *)

(* Mutant: the search is set and not asked for. *)
SetMerchantSearchOnly(search) == MLBecomes(SearchSet(ml, search)) /\ UNCHANGED mlDue

SetMerchantSearch(search) ==
  /\ MLBecomes(SearchSet(ml, search))
  /\ mlDue' = mlDue + 1

\* The debounce timer of the term sets the rest of the search back to what it
\* was at the keystroke.
UpdateSearchTerm ==
  /\ ml.on # 0
  /\ \E t \in Terms : mlTyped' = [ml.search EXCEPT !.term = t]
  /\ UNCHANGED <<ml, mlShown, mlFade, mlDue, mlNet, mlSent, mlSaved, mlStore,
                 mlChosen, mlCalm>>

SubmitSearchTerm ==
  /\ mlTyped # None /\ mlDue = 0
  /\ SetMerchantSearch(mlTyped)
  /\ mlTyped' = None
  /\ UNCHANGED <<mlNet, mlSent, mlSaved, mlStore, mlChosen, mlCalm>>

UpdateMerchantGroupFilter ==
  /\ ml.on # 0 /\ mlDue = 0
  /\ \E g \in GroupsSought : SetMerchantSearch([ml.search EXCEPT !.group = g])
  /\ UNCHANGED <<mlTyped, mlNet, mlSent, mlSaved, mlStore, mlChosen, mlCalm>>

HasActiveFilters == ml.search.term # None \/ ml.search.group # None

\* A term that waits for its timer comes back after this.
ClearAllFilters ==
  /\ ml.on # 0 /\ mlDue = 0 /\ HasActiveFilters
  /\ SetMerchantSearch(NoSearch)
  /\ mlSaved' = None
  /\ UNCHANGED <<mlTyped, mlNet, mlSent, mlStore, mlChosen, mlCalm>>

MLFetchDue ==
  /\ mlDue > 0
  /\ mlDue' = mlDue - 1
  /\ FetchMerchantsData(ml, FALSE)
  /\ UNCHANGED <<mlTyped, mlStore, mlChosen, mlCalm>>

-----------------------------------------------------------------------------
(* The table and its rows. *)

MLScrollToEnd ==
  /\ ScrollTriggers(ml, mlShown) /\ MayLoadMore(ml)
  /\ FetchMerchantsData(ml, TRUE)
  /\ mlCalm' = (mlCalm /\ mlDue = 0 /\ NoneSkipped(mlNet, PageToFetch(ml, TRUE)))
  /\ UNCHANGED <<mlTyped, mlDue, mlStore, mlChosen>>

MLFadeEnds ==
  /\ mlFade > 0
  /\ mlFade' = mlFade - 1
  /\ mlShown' = FadedOut(ml, mlShown)
  /\ UNCHANGED <<ml, mlTyped, mlDue, mlNet, mlSent, mlSaved, mlStore, mlChosen, mlCalm>>

(* updateMerchant: a name, a type or a category.  The list says it loads. *)
UpdateMerchant ==
  \E i \in DOMAIN mlShown :
    /\ MLBecomes([ml EXCEPT !.loading = TRUE, !.error = FALSE])
    /\ MLSend([kind |-> "update", served |-> FALSE, id |-> mlShown[i].id, row |-> None])
    /\ UNCHANGED <<mlTyped, mlDue, mlSaved, mlStore, mlChosen, mlCalm>>

(* Mutant: the merchant is not taken out of its old group. *)
GroupStepsAdding(current, new) == IF new # None /\ current # new THEN <<"add">> ELSE << >>

\* The requests that take a merchant from one group to another.
GroupSteps(current, new) ==
  CASE current # None /\ new # None /\ current # new -> <<"remove", "add">>
    [] current = None /\ new # None                  -> <<"add">>
    [] current # None /\ new = None                  -> <<"remove">>
    [] OTHER                                         -> << >>

(* handleUpdateMerchantGroup.  The search is the one of the row that was     *)
(* clicked; it is set again when the last request is answered, which fetches *)
(* the list, and takes back a filter chosen in between.                      *)
UpdateMerchantGroup ==
  \E i \in DOMAIN mlShown, g \in Groups \cup {None} :
    LET id    == mlShown[i].id
        row   == CHOOSE r \in ToSet(ml.rows) : r.id = id
        steps == GroupSteps(row.group, g)
    IN /\ id \in IdsOf(ml.rows)
       /\ mlChosen' = [mlChosen EXCEPT ![id] = g]
       /\ mlCalm' = (mlCalm /\ row.group = mlStore[id].group
                     /\ \A j \in DOMAIN mlNet : mlNet[j].kind = "move" => mlNet[j].id # id)
       /\ IF steps = << >>
          THEN /\ mlDue = 0 /\ SetMerchantSearch(ml.search)
               /\ UNCHANGED <<mlNet, mlSent>>
          ELSE /\ MLSend([kind |-> "move", served |-> FALSE, id |-> id, from |-> row.group,
                          to |-> g, steps |-> steps, search |-> ml.search])
               /\ UNCHANGED <<ml, mlShown, mlFade, mlDue>>
       /\ UNCHANGED <<mlTyped, mlSaved, mlStore>>

-----------------------------------------------------------------------------
(* Requests. *)

\* The server (external): a merchant can only leave a group it is a member of.
Accepts(q) == q.kind = "move" /\ Head(q.steps) = "remove" => q.from \in mlStore[q.id].in

Written(t, q) ==
  IF q.kind = "update"          THEN [t EXCEPT !.edited = TRUE]
  ELSE IF Head(q.steps) = "add" THEN [t EXCEPT !.group = q.to, !.in = @ \cup {q.to}]
                                ELSE [t EXCEPT !.group = None, !.in = @ \ {q.from}]

MLServe(i) ==
  LET q == mlNet[i] IN
  /\ ~q.served /\ Accepts(q)
  /\ IF q.kind = "fetch"
     THEN /\ \E found \in {MerchantsFound(mlStore, q.search)} :
               mlNet' = [mlNet EXCEPT ![i].served = TRUE,
                                      ![i].items = PageOf(found, q.page),
                                      ![i].pages = Pages(found)]
          /\ UNCHANGED mlStore
     ELSE /\ mlStore' = [mlStore EXCEPT ![q.id] = Written(@, q)]
          /\ mlNet' = [mlNet EXCEPT ![i] = IF q.kind = "move" THEN [@ EXCEPT !.served = TRUE]
                                           ELSE [@ EXCEPT !.served = TRUE,
                                                          !.row = MerchantRow(mlStore', q.id)]]
  /\ mlCalm' = (mlCalm /\ \A j \in 1..(i - 1) : mlNet[j].served)
  /\ UNCHANGED <<ml, mlShown, mlFade, mlTyped, mlDue, mlSent, mlSaved, mlChosen>>

(* Mutant: the row that was updated is lost. *)
MerchantLost(l, q) ==
  [l EXCEPT !.rows = SelectSeq(@, LAMBDA r : r.id # q.row.id), !.loading = FALSE, !.error = FALSE]

(* Mutant: the list goes on loading. *)
MerchantStillLoading(l, q) == RowReplaced(l, q.row)

MerchantUpdated(l, q) == [RowReplaced(l, q.row) EXCEPT !.loading = FALSE, !.error = FALSE]

(* The next request of a change of group is sent when the one before is      *)
(* answered.                                                                 *)
MoveAnswered(i, q) ==
  IF Len(q.steps) > 1
  THEN /\ mlSent < MaxMerchantsSent
       /\ mlSent' = mlSent + 1
       /\ mlNet' = Append(RemoveAt(mlNet, i), [q EXCEPT !.steps = Tail(@), !.served = FALSE])
       /\ UNCHANGED <<ml, mlShown, mlFade, mlDue>>
  ELSE /\ mlDue = 0
       /\ SetMerchantSearch(q.search)
       /\ mlNet' = RemoveAt(mlNet, i)
       /\ UNCHANGED mlSent

MLAnswer(i) ==
  LET q == mlNet[i] IN
  /\ q.served
  /\ CASE q.kind = "fetch"  -> /\ MLBecomes(Fetched(ml, q))
                               /\ mlNet' = RemoveAt(mlNet, i)
                               /\ UNCHANGED <<mlDue, mlSent>>
       [] q.kind = "update" -> /\ MLBecomes(MerchantUpdated(ml, q))
                               /\ mlNet' = RemoveAt(mlNet, i)
                               /\ UNCHANGED <<mlDue, mlSent>>
       [] OTHER             -> MoveAnswered(i, q)
  /\ mlCalm' = (mlCalm /\ i = 1 /\ mlDue = 0)
  /\ UNCHANGED <<mlTyped, mlSaved, mlStore, mlChosen>>

\* The rest of a change of group that fails is not sent, and the list stays.
MLFail(i) ==
  LET q == mlNet[i] IN
  /\ mlNet' = RemoveAt(mlNet, i)
  /\ IF q.kind = "move" THEN UNCHANGED <<ml, mlShown, mlFade>> ELSE MLBecomes(FetchFailed(ml))
  /\ mlCalm' = FALSE
  /\ UNCHANGED <<mlTyped, mlDue, mlSent, mlSaved, mlStore, mlChosen>>

MLNext ==
  \/ MLOpen
  \/ UpdateSearchTerm \/ SubmitSearchTerm \/ UpdateMerchantGroupFilter \/ ClearAllFilters
  \/ MLFetchDue \/ MLScrollToEnd \/ MLFadeEnds
  \/ UpdateMerchant \/ UpdateMerchantGroup
  \/ \E i \in DOMAIN mlNet : MLServe(i) \/ MLAnswer(i) \/ MLFail(i)

\* Timers that are due run; a request ends, one way or the other.
MLFairness ==
  /\ WF_mlVars(MLFadeEnds)
  /\ WF_mlVars(MLFetchDue)
  /\ WF_mlVars(mlNet # << >> /\ (MLServe(1) \/ MLAnswer(1) \/ MLFail(1)))

MLSpec == MLInit /\ [][MLNext]_mlVars /\ MLFairness

-----------------------------------------------------------------------------
MLTypeOK ==
  /\ ml.on \in 0..1 /\ ml.search \in MerchantSearches \cup {None} /\ ml.page \in Nat
  /\ IdsOf(ml.rows) \cup IdsOf(mlShown) \subseteq Merchants
  /\ mlTyped \in MerchantSearches \cup {None} /\ mlDue \in 0..1 /\ mlFade \in Nat
  /\ mlSent \in 0..MaxMerchantsSent /\ Len(mlNet) <= mlSent

MLQuiet == ml.on # 0 /\ mlNet = << >> /\ mlDue = 0

(* A merchant ends in the group chosen for it last, and is a member of no    *)
(* other, when the requests of the change were not disturbed.                *)
GroupAsChosen ==
  mlCalm /\ (\A j \in DOMAIN mlNet : mlNet[j].kind # "move") =>
    \A m \in Merchants : /\ mlStore[m].group = mlChosen[m]
                         /\ mlStore[m].in = {mlChosen[m]} \ {None}

(* A settled list of merchants is what the server has for the search shown,  *)
(* from the top, also where the page's own changes move merchants into the   *)
(* result or out of it.                                                      *)
MerchantsSettled ==
  MLQuiet /\ mlCalm =>
    /\ ml.rows = Upto(MerchantsFound(mlStore, ml.search), ml.page)
    /\ ml.hasMore <=> ml.page < Pages(MerchantsFound(mlStore, ml.search))

(* The search that the list was last fetched for, which is the one kept for  *)
(* the next visit, is the one shown: no change of a filter, and none taken   *)
(* back by a late change of group, is left without its fetch.                *)
MerchantSearchAsked == ml.on # 0 /\ mlDue = 0 => mlSaved = ml.search

(* The merchants' table leaves its loading state, with the hook's rows on    *)
(* screen, however the searches and the updates that set it overlap.         *)
MerchantsShown == []<>(ml.on = 0 \/ (~ml.loading /\ mlShown = ml.rows))
=============================================================================
