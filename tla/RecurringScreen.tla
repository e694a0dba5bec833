--------------------------- MODULE RecurringScreen ---------------------------
(***************************************************************************)
(* The recurring page of the web UI over RecurringStreams: the hook        *)
(* useRecurringStreams, the tabs, and the two buttons of a row.  Syncs run *)
(* the detection as well, unknown to the page.  A list is taken to fit     *)
(* into one response: the hook asks for 200 streams at a time.             *)
(***************************************************************************)
EXTENDS RecurringStreams, Sequences, SequencesExt

CONSTANTS
  Post,            \* the worker that runs the page's POST detect
  MaxStreamActs    \* bound: decisions, lists and runs, those of syncs included

ASSUME PostAssumption == Post \in Workers
ASSUME MaxStreamActsAssumption == MaxStreamActs \in Nat \ {0}

VARIABLES
  rcList,      \* streams: the status of each that is listed, "none" of the others
  rcLoading,   \* isLoading
  rcTab,       \* activeTab
  rcTabbed,    \* hasAutoSelectedTab
  rcDetecting, \* isDetecting: "no", or what runDetection waits for
  rcBusy,      \* the rows on screen that are busy
  rcHeard,     \* the requests whose row is still on screen
  rcNet,       \* the lists under way, in the order asked for
  rcActs,      \* the number of decisions, lists and runs
  rcCalm       \* history: lists and decisions did not overlap, and only the page's
               \* own runs made streams

rcRow  == <<rcBusy, rcHeard>>
rcView == <<rcList, rcLoading, rcTab, rcTabbed>>
rcVars == <<rsVars, rcView, rcDetecting, rcRow, rcNet, rcActs, rcCalm>>

ListRequest == [served |-> FALSE, found |-> [s \in Streams |-> "none"]]

RCInit ==
  /\ RSInit
  /\ rcList = [s \in Streams |-> "none"] /\ rcLoading = TRUE
  /\ rcTab = "suggested" /\ rcTabbed = FALSE /\ rcDetecting = "no"
  /\ rcBusy = {} /\ rcHeard = {}
  /\ rcNet = <<ListRequest>> /\ rcActs = 1 /\ rcCalm = TRUE

StreamActs == rcActs < MaxStreamActs /\ rcActs' = rcActs + 1

\* The rows on screen when the list is such and the tab is such.
RowsOf(list, tab) == {s \in Streams : list[s] = tab}
ShownRows == IF rcLoading THEN {} ELSE RowsOf(rcList, rcTab)

UnderWay(d) == rsAsk[d].stream # NoStream

(* Rows that leave the screen forget that they were busy. *)
RowsKept(list, tab) ==
  /\ rcBusy' = rcBusy \cap RowsOf(list, tab)
  /\ rcHeard' = {d \in rcHeard : rsAsk[d].stream \in RowsOf(list, tab)}

-----------------------------------------------------------------------------
(* What the user does. *)

SetActiveTab ==
  /\ rcTab' \in {"suggested", "confirmed", "dismissed"} \ {rcTab}
  /\ RowsKept([s \in Streams |-> "none"], rcTab')
  /\ UNCHANGED <<rsVars, rcList, rcLoading, rcTabbed, rcDetecting, rcNet, rcActs, rcCalm>>

(* act: the row is busy.  On the first tab that stops a second confirmation, *)
(* not a dismissal.                                                          *)
RowAction(s, to) ==
  /\ StreamActs
  /\ \E d \in Decisions :
       /\ ~UnderWay(d) /\ AskFor(d, s, to)
       /\ rcHeard' = rcHeard \cup {d}
  /\ rcBusy' = rcBusy \cup {s}
  /\ rcCalm' = (rcCalm /\ rcNet = << >> /\ \A d \in Decisions : rsAsk[d].stream # s)
  /\ UNCHANGED <<rcView, rcDetecting, rcNet>>

ConfirmStream ==
  \E s \in ShownRows \ rcBusy : rcTab = "suggested" /\ RowAction(s, "confirmed")

DismissStream ==
  \E s \in ShownRows :
    /\ rcTab = "suggested" \/ (rcTab = "confirmed" /\ s \notin rcBusy)
    /\ RowAction(s, "dismissed")

RunDetection ==
  /\ rcDetecting = "no" /\ rcDetecting' = "run"
  /\ StreamActs /\ Detect(Post)
  /\ UNCHANGED <<rcView, rcRow, rcNet, rcCalm>>

-----------------------------------------------------------------------------
(* The server, at work for the page or by itself. *)

SyncDetects ==
  /\ StreamActs
  /\ \E w \in Workers \ {Post} : Detect(w)
  /\ UNCHANGED <<rcView, rcDetecting, rcRow, rcNet, rcCalm>>

ServerRuns ==
  /\ \E w \in Workers :
       /\ RunNext(w)
       /\ rcCalm' = (rcCalm /\ (w # Post => rsStatus' = rsStatus))
  /\ UNCHANGED <<rcView, rcDetecting, rcRow, rcNet, rcActs>>

ServerDecides ==
  /\ \E d \in Decisions : AskNext(d)
  /\ UNCHANGED <<rcView, rcDetecting, rcRow, rcNet, rcActs, rcCalm>>

ListServed(i) ==
  /\ ~rcNet[i].served
  /\ rcNet' = [rcNet EXCEPT ![i] = [served |-> TRUE, found |-> rsStatus]]
  /\ UNCHANGED <<rsVars, rcView, rcDetecting, rcRow, rcActs, rcCalm>>

-----------------------------------------------------------------------------
(* Answers. *)

(* The tab is chosen once, when the first list has come or failed. *)
AutoSelected(list) ==
  /\ rcTabbed' = TRUE
  /\ rcTab' = IF ~rcTabbed /\ RowsOf(list, "suggested") = {} /\ RowsOf(list, "confirmed") # {}
              THEN "confirmed" ELSE rcTab

(* The end of loadStreams; the list that a run waited for is the last one.   *)
ListLoaded(i, list) ==
  /\ rcList' = list /\ rcLoading' = FALSE
  /\ AutoSelected(list)
  /\ RowsKept(list, rcTab')
  /\ rcDetecting' = IF rcDetecting = "list" /\ i = Len(rcNet) THEN "no" ELSE rcDetecting
  /\ rcNet' = RemoveAt(rcNet, i)
  /\ UNCHANGED <<rsVars, rcActs>>

ListAnswered(i) ==
  /\ rcNet[i].served
  /\ ListLoaded(i, rcNet[i].found)
  /\ rcCalm' = (rcCalm /\ i = 1 /\ ~ \E d \in Decisions : UnderWay(d))

ListFails(i) ==
  /\ ListLoaded(i, rcList)
  /\ rcCalm' = FALSE

(* The row is no longer busy when the first of its requests has ended.       *)
RowEnds(d, list) ==
  /\ rcList' = list
  /\ rcBusy' = (rcBusy \cap RowsOf(list, rcTab))
                 \ (IF d \in rcHeard THEN {rsAsk[d].stream} ELSE {})
  /\ rcHeard' = {e \in rcHeard \ {d} : rsAsk[e].stream \in RowsOf(list, rcTab)}
  /\ Answered(d)
  /\ UNCHANGED <<rcLoading, rcTab, rcTabbed, rcDetecting, rcNet, rcActs>>

(* replaceStream: the row of that id, if it is listed, as the answer has it. *)
RowReplaced(d) ==
  LET s == rsAsk[d].stream IN
  /\ UnderWay(d) /\ rsAsk[d].pc = "done"
  /\ RowEnds(d, IF rcList[s] = "none" THEN rcList ELSE [rcList EXCEPT ![s] = rsAsk[d].to])
  /\ UNCHANGED rcCalm

(* Refused, or an answer that was lost. *)
RowFails(d) ==
  /\ UnderWay(d)
  /\ RowEnds(d, rcList)
  /\ rcCalm' = FALSE

(* Mutant: the list is not loaded again. *)
DetectedOnly ==
  /\ rcDetecting = "run" /\ rsRun[Post].pc = "done"
  /\ rcDetecting' = "no"
  /\ UNCHANGED <<rsVars, rcView, rcRow, rcNet, rcActs, rcCalm>>

(* The streams are loaded when the run has ended well. *)
Detected ==
  /\ rcDetecting = "run" /\ rsRun[Post].pc = "done"
  /\ rcDetecting' = "list"
  /\ StreamActs
  /\ rcNet' = Append(rcNet, ListRequest)
  /\ rcCalm' = (rcCalm /\ rcNet = << >> /\ ~ \E d \in Decisions : UnderWay(d))
  /\ UNCHANGED <<rsVars, rcView, rcRow>>

DetectionFails ==
  /\ rcDetecting = "run" /\ rsRun[Post].pc = "failed"
  /\ rcDetecting' = "no"
  /\ rcCalm' = FALSE
  /\ UNCHANGED <<rsVars, rcView, rcRow, rcNet, rcActs>>

-----------------------------------------------------------------------------
RCNext ==
  \/ SetActiveTab \/ ConfirmStream \/ DismissStream \/ RunDetection
  \/ SyncDetects \/ ServerRuns \/ ServerDecides
  \/ \E i \in DOMAIN rcNet : ListServed(i) \/ ListAnswered(i) \/ ListFails(i)
  \/ \E d \in Decisions : RowReplaced(d) \/ RowFails(d)
  \/ Detected \/ DetectionFails

RCSpec == RCInit /\ [][RCNext]_rcVars

-----------------------------------------------------------------------------
RCTypeOK ==
  /\ RSTypeOK
  /\ rcList \in [Streams -> Statuses] /\ rcLoading \in BOOLEAN
  /\ rcTab \in Statuses \ {"none"} /\ rcTabbed \in BOOLEAN
  /\ rcDetecting \in {"no", "run", "list"}
  /\ rcBusy \subseteq ShownRows /\ rcHeard \subseteq Decisions
  /\ rcActs \in 0..MaxStreamActs /\ rcCalm \in BOOLEAN

(* At rest the page lists the streams there are, each under the tab of its   *)
(* status: those a run of the page's has made and those decided on since.    *)
StreamsSettled ==
  rcCalm /\ ~rcLoading /\ rcDetecting = "no" /\ (\A d \in Decisions : ~UnderWay(d)) =>
    rcList = rsStatus
=============================================================================
