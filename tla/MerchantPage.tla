---------------------------- MODULE MerchantPage ----------------------------
(***************************************************************************)
(* The page of one merchant in the web UI: the merchant, the statistics    *)
(* and the search that follow it, the editor of its default category and   *)
(* tags with the question "apply to existing transactions?", and the card  *)
(* of its group, whose members are links to each other's pages.            *)
(*                                                                         *)
(* Nothing that is under way is dropped when the page goes over to another *)
(* merchant, and an edit works on the merchant as it was on screen when    *)
(* the control was drawn.  Of the server, which serves a request in one    *)
(* transaction, the module has the default tags and the group: an edit of  *)
(* the defaults is of every merchant of the group.                         *)
(***************************************************************************)
EXTENDS Naturals, Sequences, SequencesExt

CONSTANTS
  NoMerchant,     \* null: no merchant, no pending change
  MaxPageSent,    \* bound: the requests of a behaviour
  MaxUnderWay     \* bound: the requests under way at once

ASSUME MaxPageSentAssumption == MaxPageSent \in Nat \ {0}

VARIABLES
  mpId,        \* the merchant of the page's path
  mpMerchant,  \* the merchant on screen
  mpLoading,   \* merchantLoading
  mpModal,     \* confirmModal.pendingUpdate: the update with apply-to-existing
  mpRef,       \* pendingNoApplyFn: the same update without
  mpSearch,    \* what the transactions below are searched for
  mpStats,     \* what the statistics on screen are of
  mpNet,       \* the requests under way, in the order sent
  mpSent,      \* the number of requests sent
  mpServer,    \* the server's merchants
  mpMeant,     \* history: the default tags each merchant was meant to have
  mpCalm       \* history: all came in order, nothing failed, every edit began with
               \* nothing else under way, and the page was not left for another
               \* merchant during a change of the group

mpVars == <<mpId, mpMerchant, mpLoading, mpModal, mpRef, mpSearch, mpStats, mpNet, mpSent,
            mpServer, mpMeant, mpCalm>>
mpScreen == <<mpMerchant, mpLoading, mpSearch, mpStats>>

PageIds  == {1, 2}
PageTags == {"a", "b"}

MerchantRows ==
  [id : PageIds, tags : SUBSET PageTags, grouped : BOOLEAN, primary : BOOLEAN, described : BOOLEAN]

PendingChanges ==
  [kind : {"update"}, id : PageIds, tags : (SUBSET PageTags) \cup {NoMerchant}, apply : BOOLEAN,
   served : {FALSE}, row : {NoMerchant}, new : SUBSET PageTags]

(* null is no merchant, no change and no list of tags.                       *)
ASSUME NoMerchantAssumption ==
  \A x \in MerchantRows \cup PendingChanges \cup (SUBSET PageTags) : x # NoMerchant

\* Search and statistics are of the merchant's group where it has one, and of
\* the page's path where it has none.
TheGroup == 0

SubjectOf(merchant, id) == IF merchant.grouped THEN TheGroup ELSE id

\* Who shares the defaults of a merchant.
GroupOf(id) == {m \in PageIds : m = id \/ (mpServer[id].grouped /\ mpServer[m].grouped)}

StatsRequest(merchant, id) ==
  [kind |-> "stats", of |-> SubjectOf(merchant, id), served |-> FALSE]

FetchRequest(id) == [kind |-> "merchant", id |-> id, served |-> FALSE, row |-> NoMerchant]

MPInit ==
  /\ mpId = 1 /\ mpMerchant = NoMerchant /\ mpLoading = TRUE
  /\ mpModal = NoMerchant /\ mpRef = NoMerchant /\ mpSearch = 1 /\ mpStats = NoMerchant
  /\ mpNet = <<FetchRequest(1)>> /\ mpSent = 1
  /\ mpServer = [m \in PageIds |-> [id |-> m, tags |-> IF m = 1 THEN {"a"} ELSE {}, grouped |-> TRUE,
                                    primary |-> m = 1, described |-> FALSE]]
  /\ mpMeant = [m \in PageIds |-> mpServer[m].tags]
  /\ mpCalm = TRUE

-----------------------------------------------------------------------------
Visible == ~mpLoading /\ mpMerchant # NoMerchant
Idle    == mpNet = << >> /\ mpServer[mpId] = mpMerchant

PageSend(net, q) ==
  /\ mpSent < MaxPageSent /\ Len(net) < MaxUnderWay
  /\ mpSent' = mpSent + 1 /\ mpNet' = Append(net, q)

(* Mutant: the effects run only as the page is mounted. *)
SetMerchantAlone(net, merchant) ==
  /\ mpMerchant' = merchant
  /\ mpNet' = net
  /\ UNCHANGED <<mpSearch, mpStats, mpSent>>

(* The effects that run when the merchant on screen becomes another object:  *)
(* the search is set, and the statistics are asked for.                      *)
SetMerchant(net, merchant) ==
  /\ mpMerchant' = merchant
  /\ mpSearch' = SubjectOf(merchant, mpId)
  /\ PageSend(net, StatsRequest(merchant, mpId))
  /\ UNCHANGED mpStats

\* A change of the group, after which the merchant it was of is fetched again.
GroupChanging == \E i \in DOMAIN mpNet : mpNet[i].kind \in {"leave", "primary"}

\* A link to another member of the group.  While the new merchant is loading
\* the editors are not drawn, and forget what they held.
GoToMerchant ==
  /\ Visible /\ mpMerchant.grouped /\ Len(mpNet) + 1 < MaxUnderWay
  /\ \E m \in PageIds \ {mpId} :
       /\ mpId' = m
       /\ mpSearch' = SubjectOf(mpMerchant, m)
       /\ mpSent + 1 < MaxPageSent /\ mpSent' = mpSent + 2
       /\ mpNet' = mpNet \o <<FetchRequest(m), StatsRequest(mpMerchant, m)>>
  /\ mpLoading' = TRUE /\ mpModal' = NoMerchant /\ mpRef' = NoMerchant
  /\ mpCalm' = (mpCalm /\ ~GroupChanging)
  /\ UNCHANGED <<mpMerchant, mpStats, mpServer, mpMeant>>

-----------------------------------------------------------------------------
(* The editor of the defaults. *)

MPUpdate(tags, apply, new) ==
  [kind |-> "update", id |-> mpMerchant.id, tags |-> tags, apply |-> apply, served |-> FALSE,
   row |-> NoMerchant, new |-> new]

(* A change that asks first.  The whole list of tags is taken from the       *)
(* merchant on screen now; it is sent when the question is answered.  What is *)
(* meant by it is the new one.                                               *)
Ask(tags, new) ==
  /\ mpModal' = MPUpdate(tags, TRUE, new)
  /\ mpRef' = MPUpdate(tags, FALSE, new)
  /\ mpCalm' = (mpCalm /\ Idle)
  /\ UNCHANGED <<mpId, mpScreen, mpNet, mpSent, mpServer, mpMeant>>

(* Mutant: the tag alone is sent, where the server expects the list. *)
AddOneDefaultTag ==
  /\ Visible /\ mpModal = NoMerchant
  /\ \E t \in PageTags \ mpMerchant.tags : Ask({t}, {t})

AddDefaultTag ==
  /\ Visible /\ mpModal = NoMerchant
  /\ \E t \in PageTags \ mpMerchant.tags : Ask(mpMerchant.tags \cup {t}, {t})

\* A category, or none, leaves the tags alone.
ChangeDefaultCategory ==
  /\ Visible /\ mpModal = NoMerchant
  /\ Ask(NoMerchant, {})

(* Mutant: the ref is kept. *)
CloseModalOnly ==
  /\ mpModal # NoMerchant
  /\ mpModal' = NoMerchant
  /\ UNCHANGED <<mpId, mpScreen, mpRef, mpNet, mpSent, mpServer, mpMeant, mpCalm>>

CloseModal ==
  /\ mpModal # NoMerchant
  /\ mpModal' = NoMerchant /\ mpRef' = NoMerchant
  /\ UNCHANGED <<mpId, mpScreen, mpNet, mpSent, mpServer, mpMeant, mpCalm>>

MeantFor(id, tags) == [m \in PageIds |-> IF m \in GroupOf(id) THEN tags ELSE mpMeant[m]]

\* The buttons spin while an update that was confirmed is under way.
Saving == \E i \in DOMAIN mpNet : mpNet[i].kind = "update"

HandleConfirm ==
  /\ mpModal # NoMerchant /\ ~Saving
  /\ \E apply \in BOOLEAN :
       LET q == IF apply THEN mpModal ELSE mpRef
       IN PageSend(mpNet, q) /\ mpMeant' = MeantFor(q.id, mpMeant[q.id] \cup q.new)
  /\ UNCHANGED <<mpId, mpScreen, mpModal, mpRef, mpServer, mpCalm>>

\* A default tag is removed without a question.
RemoveDefaultTag ==
  /\ Visible /\ mpModal = NoMerchant
  /\ \E t \in mpMerchant.tags :
       /\ PageSend(mpNet, [MPUpdate(mpMerchant.tags \ {t}, FALSE, {}) EXCEPT !.kind = "remove_tag"])
       /\ mpMeant' = MeantFor(mpMerchant.id, mpMeant[mpMerchant.id] \ {t})
  /\ mpCalm' = (mpCalm /\ Idle)
  /\ UNCHANGED <<mpId, mpScreen, mpModal, mpRef, mpServer>>

-----------------------------------------------------------------------------
(* The card of the group, and the part of MerchantLinking that it shows. *)

GroupEdit(kind) ==
  /\ Visible /\ mpModal = NoMerchant /\ mpMerchant.grouped
  /\ \A i \in DOMAIN mpNet : mpNet[i].kind # kind
  /\ PageSend(mpNet, [kind |-> kind, id |-> mpMerchant.id, was |-> mpMerchant, served |-> FALSE])
  /\ mpCalm' = (mpCalm /\ Idle)
  /\ UNCHANGED <<mpId, mpScreen, mpModal, mpRef, mpServer, mpMeant>>

SaveGroupDetails == GroupEdit("details")
RemoveFromGroup  == GroupEdit("leave")
MakePrimary      == Visible /\ ~mpMerchant.primary /\ GroupEdit("primary")

-----------------------------------------------------------------------------
(* Requests. *)

\* The tags a merchant is left with: no list leaves them, and what they are
\* then is copied to the rest of the group.
TagsGiven(q) == IF q.tags = NoMerchant THEN mpServer[q.id].tags ELSE q.tags

WithTags(some, tags) ==
  [m \in PageIds |-> IF m \in some THEN [mpServer[m] EXCEPT !.tags = tags] ELSE mpServer[m]]

(* Mutant: the tags are copied to the group before the list is applied. *)
PropagateFirst(q) == [WithTags(GroupOf(q.id), mpServer[q.id].tags) EXCEPT ![q.id].tags = TagsGiven(q)]

PropagateDefaults(q) == WithTags(GroupOf(q.id), TagsGiven(q))

ServedStore(q) ==
  CASE q.kind \in {"update", "remove_tag"} -> PropagateDefaults(q)
    [] q.kind = "leave"   -> [mpServer EXCEPT ![q.id].grouped = FALSE]
    [] q.kind = "primary" -> [m \in PageIds |-> [mpServer[m] EXCEPT !.primary = m = q.id]]
    [] q.kind = "details" -> [m \in PageIds |-> IF mpServer[m].grouped
                                                THEN [mpServer[m] EXCEPT !.described = TRUE]
                                                ELSE mpServer[m]]
    [] OTHER              -> mpServer

MPServe(i) ==
  LET q == mpNet[i] IN
  /\ ~q.served
  /\ q.kind \in {"leave", "primary"} => mpServer[q.id].grouped
  /\ mpServer' = ServedStore(q)
  /\ mpNet' = [mpNet EXCEPT ![i] =
       IF q.kind \in {"merchant", "refresh", "update", "remove_tag"}
       THEN [q EXCEPT !.served = TRUE, !.row = mpServer'[q.id]]
       ELSE [q EXCEPT !.served = TRUE]]
  /\ mpCalm' = (mpCalm /\ \A j \in 1..(i - 1) : mpNet[j].served)
  /\ UNCHANGED <<mpId, mpScreen, mpModal, mpRef, mpSent, mpMeant>>

(* The answer of a confirmed update closes the question, whichever is open   *)
(* by then.  Leaving a group, or becoming its primary merchant, is followed  *)
(* by another fetch of the merchant.                                         *)
MPAnswer(i) ==
  LET q    == mpNet[i]
      rest == RemoveAt(mpNet, i)
  IN
  /\ q.served
  /\ CASE q.kind = "stats" ->
            /\ mpStats' = q.of /\ mpNet' = rest
            /\ UNCHANGED <<mpMerchant, mpSearch, mpSent, mpLoading, mpModal, mpRef>>
       [] q.kind \in {"merchant", "refresh", "update", "remove_tag"} ->
            /\ SetMerchant(rest, q.row)
            /\ mpLoading' = IF q.kind = "merchant" THEN FALSE ELSE mpLoading
            /\ IF q.kind = "update" THEN mpModal' = NoMerchant /\ mpRef' = NoMerchant
                                    ELSE UNCHANGED <<mpModal, mpRef>>
       [] q.kind = "details" ->
            /\ SetMerchant(rest, [q.was EXCEPT !.described = TRUE])
            /\ UNCHANGED <<mpLoading, mpModal, mpRef>>
       [] OTHER ->
            /\ PageSend(rest, [FetchRequest(q.id) EXCEPT !.kind = "refresh"])
            /\ UNCHANGED <<mpScreen, mpModal, mpRef>>
  /\ mpCalm' = (mpCalm /\ i = 1)
  /\ UNCHANGED <<mpId, mpServer, mpMeant>>

MPFail(i) ==
  LET q == mpNet[i] IN
  /\ mpNet' = RemoveAt(mpNet, i)
  /\ mpLoading' = IF q.kind = "merchant" THEN FALSE ELSE mpLoading
  /\ IF q.kind = "update" THEN mpModal' = NoMerchant /\ mpRef' = NoMerchant
                          ELSE UNCHANGED <<mpModal, mpRef>>
  /\ mpCalm' = FALSE
  /\ UNCHANGED <<mpId, mpMerchant, mpSearch, mpStats, mpSent, mpServer, mpMeant>>

MPNext ==
  \/ GoToMerchant \/ AddDefaultTag \/ ChangeDefaultCategory \/ CloseModal \/ HandleConfirm
  \/ RemoveDefaultTag \/ SaveGroupDetails \/ RemoveFromGroup \/ MakePrimary
  \/ \E i \in DOMAIN mpNet : MPServe(i) \/ MPAnswer(i) \/ MPFail(i)

MPSpec == MPInit /\ [][MPNext]_mpVars

-----------------------------------------------------------------------------
MPTypeOK ==
  /\ mpId \in PageIds
  /\ mpMerchant = NoMerchant \/ mpMerchant.tags \subseteq PageTags
  /\ mpSearch \in PageIds \cup {TheGroup} /\ mpStats \in PageIds \cup {TheGroup, NoMerchant}
  /\ mpSent \in 0..MaxPageSent

(* The two forms of the pending change are of the same change: the answer    *)
(* "no" sends what "yes" would have, though one is state and the other a     *)
(* ref that late answers clear as well.                                      *)
PendingTogether ==
  IF mpModal = NoMerchant THEN mpRef = NoMerchant
  ELSE mpRef = [mpModal EXCEPT !.apply = FALSE] /\ mpModal.apply

(* Every merchant of the server's has the tags it was meant to have: those   *)
(* it was given and left with, an edit of one in a group being meant for the *)
(* whole group, which loses what it had.  No edit, which each sends a list   *)
(* whole, undoes another, on whichever member's page, provided each began on *)
(* the merchant as the server had it and with nothing else under way: the    *)
(* list of a page that is out of date does undo.                             *)
DefaultsAsMeant ==
  mpCalm /\ ~Saving /\ (\A i \in DOMAIN mpNet : mpNet[i].kind # "remove_tag") =>
    \A m \in PageIds : mpServer[m].tags = mpMeant[m]

(* A page at rest shows the merchant of its path as the server has it, with  *)
(* the search and the statistics of its group or of itself, also after going *)
(* from one merchant to another and after leaving the group.  But not after  *)
(* both at once: who goes to another merchant while a change of the group is *)
(* under way may end up with the first one on the page of the second.        *)
PageSettled ==
  mpCalm /\ mpNet = << >> =>
    /\ mpMerchant = mpServer[mpId]
    /\ mpSearch = SubjectOf(mpMerchant, mpId)
    /\ mpStats = mpSearch
    /\ ~mpLoading
=============================================================================
