------------------------------ MODULE TagSpend ------------------------------
(***************************************************************************)
(* The tag spend page of the web UI: tags are included in a report or      *)
(* omitted from it, the statistics follow the selection, and selections    *)
(* are kept as named reports on the server (external).  Every request is   *)
(* answered on its own time, or fails.  A report cannot be changed, only   *)
(* made and deleted.  The list of transactions below the chart is          *)
(* TransactionList's, searched for the selection.                          *)
(***************************************************************************)
EXTENDS Naturals, Sequences, SequencesExt

CONSTANTS
  SpendTags,       \* the tags there are
  NoReport,        \* no report is active
  MaxSpendSent     \* bound: the requests of a behaviour

ASSUME SpendAssumption == NoReport \notin Nat /\ MaxSpendSent \in Nat

VARIABLES
  tsOn,        \* the page is open
  tsSelected,  \* includedTagIds, omittedTagIds and monthsBack
  tsActive,    \* activeReportId, or NoReport
  tsStats,     \* what the statistics on screen were computed for
  tsLoading,   \* loadingStats
  tsReports,   \* tagReports, the list on screen: a set of reports
  tsNet,       \* the requests under way, in the order sent
  tsSent,      \* the number of requests sent
  tsServer,    \* the server's reports (external)
  tsMade,      \* the number of reports ever made (external)
  tsCalm       \* history: all came in order, nothing failed

tsVars == <<tsOn, tsSelected, tsActive, tsStats, tsLoading, tsReports, tsNet, tsSent,
            tsServer, tsMade, tsCalm>>

Selections == [included : SUBSET SpendTags, omitted : SUBSET SpendTags, months : {6, 12}]
Start      == [included |-> {}, omitted |-> {}, months |-> 6]
NoStats    == [included |-> {}, omitted |-> {}, months |-> 0]

Disjoint(s) == s.included \cap s.omitted = {}

TSInit ==
  /\ tsOn = FALSE /\ tsSelected = Start /\ tsActive = NoReport
  /\ tsStats = NoStats /\ tsLoading = FALSE /\ tsReports = {}
  /\ tsNet = << >> /\ tsSent = 0 /\ tsServer = {} /\ tsMade = 0 /\ tsCalm = TRUE

Sending(q) ==
  /\ tsSent < MaxSpendSent
  /\ tsSent' = tsSent + 1
  /\ tsNet' = Append(tsNet, q)

LoadReports == [served |-> FALSE, kind |-> "load", found |-> {}]

StatsFor(s)  == [served |-> FALSE, kind |-> "stats", for |-> s]
ReportOf(s)  == [served |-> FALSE, kind |-> "save", included |-> s.included, omitted |-> s.omitted]
Deletion(id) == [served |-> FALSE, kind |-> "delete", id |-> id, active |-> tsActive]

-----------------------------------------------------------------------------
(* Mutant: the effect does not look at the months and the omitted tags. *)
SelectedByIncluded(s) ==
  /\ tsSelected' = s
  /\ IF s.included = {}
     THEN /\ tsStats' = NoStats
          /\ tsCalm' = (tsCalm /\ \A j \in DOMAIN tsNet : tsNet[j].kind # "stats")
          /\ UNCHANGED <<tsLoading, tsNet, tsSent>>
     ELSE IF s.included = tsSelected.included
     THEN UNCHANGED <<tsStats, tsLoading, tsNet, tsSent, tsCalm>>
     ELSE /\ tsLoading' = TRUE
          /\ Sending(StatsFor(s))
          /\ UNCHANGED <<tsStats, tsCalm>>
  /\ UNCHANGED <<tsOn, tsReports, tsServer, tsMade>>

(* The statistics effect: it runs when the selection becomes another object, *)
(* so also when it is set to what it was.  Without included tags the         *)
(* statistics are emptied and none are asked for; an answer that is under    *)
(* way still comes in afterwards.                                            *)
Selected(s) ==
  /\ tsSelected' = s
  /\ IF s.included = {}
     THEN /\ tsStats' = NoStats
          /\ tsCalm' = (tsCalm /\ \A j \in DOMAIN tsNet : tsNet[j].kind # "stats")
          /\ UNCHANGED <<tsLoading, tsNet, tsSent>>
     ELSE /\ tsLoading' = TRUE
          /\ Sending(StatsFor(s))
          /\ UNCHANGED <<tsStats, tsCalm>>
  /\ UNCHANGED <<tsOn, tsReports, tsServer, tsMade>>

TSOpen ==
  /\ ~tsOn /\ tsOn' = TRUE
  /\ Sending(LoadReports)
  /\ UNCHANGED <<tsSelected, tsActive, tsStats, tsLoading, tsReports, tsServer, tsMade, tsCalm>>

(* Mutant: the active report stays active. *)
IncludeTagsInReport ==
  /\ tsOn
  /\ \E tags \in SUBSET (SpendTags \ tsSelected.omitted) :
       Selected([tsSelected EXCEPT !.included = tags])
  /\ UNCHANGED tsActive

\* The selector offers no tag for one list that the other holds.  A change by
\* hand leaves the active report.
IncludeTags ==
  /\ tsOn
  /\ \E tags \in SUBSET (SpendTags \ tsSelected.omitted) :
       Selected([tsSelected EXCEPT !.included = tags])
  /\ tsActive' = NoReport

(* Mutant: the selector offers every tag. *)
OmitAnyTags ==
  /\ tsOn
  /\ \E tags \in SUBSET SpendTags : Selected([tsSelected EXCEPT !.omitted = tags])
  /\ tsActive' = NoReport

OmitTags ==
  /\ tsOn
  /\ \E tags \in SUBSET (SpendTags \ tsSelected.included) :
       Selected([tsSelected EXCEPT !.omitted = tags])
  /\ tsActive' = NoReport

SetMonthsBack ==
  /\ tsOn
  /\ \E m \in {6, 12} \ {tsSelected.months} : Selected([tsSelected EXCEPT !.months = m])
  /\ UNCHANGED tsActive

SelectReport ==
  \E r \in tsReports :
    /\ tsActive' = r.id
    /\ Selected([tsSelected EXCEPT !.included = r.included, !.omitted = r.omitted])

HasSelection == tsSelected.included # {} \/ tsSelected.omitted # {}

SaveReport ==
  /\ tsOn /\ HasSelection
  /\ Sending(ReportOf(tsSelected))
  /\ UNCHANGED <<tsOn, tsSelected, tsActive, tsStats, tsLoading, tsReports, tsServer, tsMade, tsCalm>>

\* Whether the report is the active one is decided as the click is made.
DeleteReport ==
  /\ \E r \in tsReports : Sending(Deletion(r.id))
  /\ UNCHANGED <<tsOn, tsSelected, tsActive, tsStats, tsLoading, tsReports, tsServer, tsMade, tsCalm>>

-----------------------------------------------------------------------------
(* The server acts on a request; a report is deleted once. *)
TSServe(i) ==
  LET q == tsNet[i] IN
  /\ ~q.served
  /\ q.kind = "delete" => \E r \in tsServer : r.id = q.id
  /\ tsMade' = IF q.kind = "save" THEN tsMade + 1 ELSE tsMade
  /\ tsServer' =
       CASE q.kind = "save"   -> tsServer \cup {[id |-> tsMade', included |-> q.included,
                                                 omitted |-> q.omitted]}
         [] q.kind = "delete" -> {r \in tsServer : r.id # q.id}
         [] OTHER             -> tsServer
  /\ tsNet' = [tsNet EXCEPT ![i] = IF q.kind = "load"
                                   THEN [q EXCEPT !.served = TRUE, !.found = tsServer]
                                   ELSE [q EXCEPT !.served = TRUE]]
  /\ tsCalm' = (tsCalm /\ \A j \in 1..(i - 1) : tsNet[j].served)
  /\ UNCHANGED <<tsOn, tsSelected, tsActive, tsStats, tsLoading, tsReports, tsSent>>

\* After a report is made or deleted the list of them is fetched again.
TSAnswer(i) ==
  LET q == tsNet[i] IN
  /\ q.served
  /\ tsStats'   = IF q.kind = "stats" THEN q.for ELSE tsStats
  /\ tsLoading' = IF q.kind = "stats" THEN FALSE ELSE tsLoading
  /\ tsReports' = IF q.kind = "load" THEN q.found ELSE tsReports
  /\ tsActive'  = IF q.kind = "delete" /\ q.active = q.id THEN NoReport ELSE tsActive
  /\ IF q.kind \in {"save", "delete"}
     THEN /\ tsSent < MaxSpendSent /\ tsSent' = tsSent + 1
          /\ tsNet' = Append(RemoveAt(tsNet, i), LoadReports)
     ELSE tsNet' = RemoveAt(tsNet, i) /\ UNCHANGED tsSent
  /\ tsCalm' = (tsCalm /\ i = 1)
  /\ UNCHANGED <<tsOn, tsSelected, tsServer, tsMade>>

TSFail(i) ==
  /\ tsNet' = RemoveAt(tsNet, i)
  /\ tsLoading' = IF tsNet[i].kind = "stats" THEN FALSE ELSE tsLoading
  /\ tsCalm' = FALSE
  /\ UNCHANGED <<tsOn, tsSelected, tsActive, tsStats, tsReports, tsSent, tsServer, tsMade>>

TSNext ==
  \/ TSOpen \/ IncludeTags \/ OmitTags \/ SetMonthsBack
  \/ SelectReport \/ SaveReport \/ DeleteReport
  \/ \E i \in DOMAIN tsNet : TSServe(i) \/ TSAnswer(i) \/ TSFail(i)

TSSpec == TSInit /\ [][TSNext]_tsVars

-----------------------------------------------------------------------------
TSTypeOK ==
  /\ tsSelected \in Selections /\ tsStats \in Selections \cup {NoStats}
  /\ tsActive \in (1..tsMade) \cup {NoReport}
  /\ \A r \in tsServer \cup tsReports : r.id \in 1..tsMade
  /\ tsSent \in 0..MaxSpendSent

(* No tag is both included and omitted: in the selection, in a report of the *)
(* server's or of a list on its way, or in a report still being saved.  The  *)
(* selector keeps the two apart only against the selection on screen, which  *)
(* a report replaces.                                                        *)
TagsApart ==
  /\ Disjoint(tsSelected)
  /\ \A r \in tsServer \cup tsReports : Disjoint(r)
  /\ \A i \in DOMAIN tsNet :
       /\ tsNet[i].kind = "save" => Disjoint(tsNet[i])
       /\ tsNet[i].kind = "load" => \A r \in tsNet[i].found : Disjoint(r)

(* The report marked as active is the one whose tags are selected, also when *)
(* the list of reports on screen has been exchanged since.                   *)
ActiveIsSelected ==
  \A r \in tsServer \cup tsReports :
    r.id = tsActive => r.included = tsSelected.included /\ r.omitted = tsSelected.omitted

(* When all is answered, in order, the statistics on screen are those of the *)
(* selection and the reports listed are the server's.                        *)
SpendSettled ==
  tsOn /\ tsNet = << >> /\ tsCalm =>
    /\ tsStats = IF tsSelected.included = {} THEN NoStats ELSE tsSelected
    /\ ~tsLoading
    /\ tsReports = tsServer
=============================================================================
