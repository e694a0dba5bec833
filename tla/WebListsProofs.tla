--------------------------- MODULE WebListsProofs ---------------------------
(***************************************************************************)
(* Theorems about the pages of WebLists: the tag spend page, the session,  *)
(* and the lists of transactions and of merchants, for any number of tags, *)
(* users, requests, visits and rows, with requests served, answered and    *)
(* lost in any order; and, where they are served and answered in the order *)
(* sent, that what a page shows once all is answered is what the server    *)
(* has.                                                                    *)
(***************************************************************************)
EXTENDS WebLists, ListLemmas

-----------------------------------------------------------------------------
(* The tag spend page.  TagsApart and ActiveIsSelected speak of the reports  *)
(* there are and those on screen; a list under way brings others, so that    *)
(* both must hold of everything Listed.  A report is known by its id: that   *)
(* no two different ones ever share one makes the active one unique.         *)

ReportRecords == [id : Nat, included : SUBSET SpendTags, omitted : SUBSET SpendTags]

SpendMessages ==
  [served : BOOLEAN, kind : {"load"}, found : SUBSET ReportRecords]
    \cup [served : BOOLEAN, kind : {"stats"}, for : Selections]
    \cup [served : BOOLEAN, kind : {"save"}, included : SUBSET SpendTags,
          omitted : SUBSET SpendTags]
    \cup [served : BOOLEAN, kind : {"delete"}, id : Nat, active : Nat \cup {NoReport}]

Listed(r) ==
  \/ r \in tsServer \cup tsReports
  \/ \E q \in Range(tsNet) : q.kind = "load" /\ r \in q.found

SpendTyped ==
  /\ tsMade \in Nat
  /\ tsSelected \in Selections
  /\ tsActive \in (1..tsMade) \cup {NoReport}
  /\ tsServer \subseteq ReportRecords /\ tsReports \subseteq ReportRecords
  /\ tsNet \in Seq(SpendMessages)

Selects(r) == r.included = tsSelected.included /\ r.omitted = tsSelected.omitted

ListedSound ==
  /\ \A r \in ReportRecords : Listed(r) => /\ r.id \in 1..tsMade /\ Disjoint(r)
                                           /\ r.id = tsActive => Selects(r)
  /\ \A r, o \in ReportRecords : Listed(r) /\ Listed(o) /\ r.id = o.id => r = o

SavesApart == \A q \in Range(tsNet) : q.kind = "save" => Disjoint(q)

SpendInv == SpendTyped /\ Disjoint(tsSelected) /\ ListedSound /\ SavesApart

LEMMA MessageTypes ==
  /\ LoadReports \in SpendMessages
  /\ \A s \in Selections : StatsFor(s) \in SpendMessages /\ ReportOf(s) \in SpendMessages
  /\ SpendTyped => \A id \in Nat : Deletion(id) \in SpendMessages
<1>1. LoadReports \in SpendMessages
  BY DEF LoadReports, SpendMessages
<1>2. ASSUME NEW s \in Selections PROVE StatsFor(s) \in SpendMessages /\ ReportOf(s) \in SpendMessages
  BY DEF StatsFor, ReportOf, SpendMessages, Selections
<1>3. ASSUME SpendTyped, NEW id \in Nat PROVE Deletion(id) \in SpendMessages
  BY <1>3 DEF SpendTyped, Deletion, SpendMessages
<1>4. QED
  BY <1>1, <1>2, <1>3

LEMMA MessageOf ==
  ASSUME SpendTyped, NEW i \in DOMAIN tsNet
  PROVE  tsNet[i] \in SpendMessages /\ tsNet[i] \in Range(tsNet)
BY DEF SpendTyped, Range

LEMMA SpendInit == TSInit => SpendInv
<1> SUFFICES ASSUME TSInit PROVE SpendInv
  OBVIOUS
<1>1. Range(tsNet) = {}
  BY DEF TSInit, Range
<1>2. SpendTyped
  BY DEF TSInit, SpendTyped, Selections, Start
<1>3. \A r : ~Listed(r)
  BY <1>1 DEF TSInit, Listed
<1>4. QED
  BY <1>1, <1>2, <1>3 DEF SpendInv, ListedSound, SavesApart, TSInit, Start, Disjoint

(* A step after which no report is listed that was not, and which keeps the  *)
(* active one selected.                                                      *)
LEMMA NoNewReport ==
  ASSUME SpendInv, SpendTyped', Disjoint(tsSelected)', SavesApart', tsMade' = tsMade,
         \A r \in ReportRecords : Listed(r)' => Listed(r),
         \A r \in ReportRecords : Listed(r) /\ r.id = tsActive' => Selects(r)'
  PROVE  SpendInv'
<1>1. ListedSound'
  BY DEF SpendInv, ListedSound
<1>2. QED
  BY <1>1 DEF SpendInv

(* Sending a request lists no report, when it is not itself a list.          *)
LEMMA SendLists ==
  ASSUME SpendTyped, SavesApart, NEW q \in SpendMessages, Sending(q),
         q.kind = "load" => q.found = {}, q.kind = "save" => Disjoint(q),
         UNCHANGED <<tsServer, tsReports>>
  PROVE  /\ tsNet' \in Seq(SpendMessages)
         /\ SavesApart'
         /\ \A r \in ReportRecords : Listed(r)' => Listed(r)
<1>1. tsNet' \in Seq(SpendMessages) /\ Range(tsNet') \subseteq Range(tsNet) \cup {q}
  BY EntriesAppended DEF Sending, SpendTyped
<1>2. QED
  BY <1>1 DEF SavesApart, Listed

LEMMA DropLists ==
  ASSUME SpendTyped, SavesApart, NEW i \in DOMAIN tsNet, tsNet' = RemoveAt(tsNet, i),
         UNCHANGED tsServer,
         tsReports' = tsReports \/ (tsNet[i].kind = "load" /\ tsReports' = tsNet[i].found)
  PROVE  /\ tsNet' \in Seq(SpendMessages)
         /\ SavesApart'
         /\ \A r \in ReportRecords : Listed(r)' => Listed(r)
<1>1. tsNet' \in Seq(SpendMessages) /\ Range(tsNet') \subseteq Range(tsNet)
  BY EntriesRemoved DEF SpendTyped
<1>2. QED
  BY <1>1, MessageOf DEF SavesApart, Listed

(* A selection whose sides are apart; the reports listed stay.               *)
LEMMA SelectedKeeps ==
  ASSUME SpendInv, NEW s \in Selections, Disjoint(s), Selected(s),
         tsActive' \in (1..tsMade) \cup {NoReport},
         \A r \in ReportRecords : Listed(r) /\ r.id = tsActive' =>
                                    r.included = s.included /\ r.omitted = s.omitted
  PROVE  SpendInv'
<1>1. UNCHANGED <<tsServer, tsReports, tsMade>> /\ tsSelected' = s
  BY DEF Selected
<1>2. /\ tsNet' \in Seq(SpendMessages)
      /\ SavesApart'
      /\ \A r \in ReportRecords : Listed(r)' => Listed(r)
  <2>1. CASE UNCHANGED tsNet
    BY <1>1, <2>1 DEF SpendInv, SpendTyped, SavesApart, Listed
  <2>2. CASE Sending(StatsFor(s))
    <3>1. StatsFor(s) \in SpendMessages /\ StatsFor(s).kind = "stats"
      BY MessageTypes DEF StatsFor
    <3>2. QED
      BY <1>1, <2>2, <3>1, SendLists DEF SpendInv
  <2>3. QED
    BY <2>1, <2>2 DEF Selected
<1>3. SpendTyped'
  BY <1>1, <1>2 DEF SpendInv, SpendTyped
<1>4. QED
  BY <1>1, <1>2, <1>3, NoNewReport DEF Selects

(* The user: what is selected by hand leaves the active report, and a report *)
(* that is selected is the only one of its id.                               *)
LEMMA SpendSelects ==
  ASSUME SpendInv, IncludeTags \/ OmitTags \/ SetMonthsBack \/ SelectReport
  PROVE  SpendInv'
<1> DEFINE Follows(s) == \A r \in ReportRecords : Listed(r) /\ r.id = tsActive' =>
                           r.included = s.included /\ r.omitted = s.omitted
<1>1. /\ tsSelected \in Selections /\ Disjoint(tsSelected)
      /\ tsActive \in (1..tsMade) \cup {NoReport} /\ tsMade \in Nat
  BY DEF SpendInv, SpendTyped
<1>2. tsActive' = NoReport => tsActive' \in (1..tsMade) \cup {NoReport} /\ \A s : Follows(s)
  BY SpendAssumption DEF ReportRecords
<1>3. CASE IncludeTags
  <2>1. PICK tags \in SUBSET (SpendTags \ tsSelected.omitted) :
          Selected([tsSelected EXCEPT !.included = tags])
    BY <1>3 DEF IncludeTags
  <2> DEFINE s == [tsSelected EXCEPT !.included = tags]
  <2>2. s \in Selections /\ Disjoint(s)
    BY <1>1 DEF Selections, Disjoint
  <2>3. QED
    BY <1>2, <1>3, <2>1, <2>2, SelectedKeeps DEF IncludeTags
<1>4. CASE OmitTags
  <2>1. PICK tags \in SUBSET (SpendTags \ tsSelected.included) :
          Selected([tsSelected EXCEPT !.omitted = tags])
    BY <1>4 DEF OmitTags
  <2> DEFINE s == [tsSelected EXCEPT !.omitted = tags]
  <2>2. s \in Selections /\ Disjoint(s)
    BY <1>1 DEF Selections, Disjoint
  <2>3. QED
    BY <1>2, <1>4, <2>1, <2>2, SelectedKeeps DEF OmitTags
<1>5. CASE SetMonthsBack
  <2>1. PICK m \in {6, 12} : Selected([tsSelected EXCEPT !.months = m])
    BY <1>5 DEF SetMonthsBack
  <2> DEFINE s == [tsSelected EXCEPT !.months = m]
  <2>2. s \in Selections /\ s.included = tsSelected.included /\ s.omitted = tsSelected.omitted
    BY <1>1 DEF Selections
  <2>3. Disjoint(s)
    BY <1>1, <2>2 DEF Disjoint
  <2>4. tsActive' = tsActive
    BY <1>5 DEF SetMonthsBack
  <2>5. Follows(s)
    BY <2>2, <2>4 DEF SpendInv, ListedSound, Selects
  <2>6. QED
    BY <1>1, <2>1, <2>2, <2>3, <2>4, <2>5, SelectedKeeps
<1>6. CASE SelectReport
  <2>1. PICK r \in tsReports :
          /\ tsActive' = r.id
          /\ Selected([tsSelected EXCEPT !.included = r.included, !.omitted = r.omitted])
    BY <1>6 DEF SelectReport
  <2> DEFINE s == [tsSelected EXCEPT !.included = r.included, !.omitted = r.omitted]
  <2>2. r \in ReportRecords /\ Listed(r)
    BY DEF SpendInv, SpendTyped, Listed
  <2>3. r.id \in 1..tsMade /\ Disjoint(r)
    BY <2>2 DEF SpendInv, ListedSound
  <2>4. s \in Selections /\ s.included = r.included /\ s.omitted = r.omitted
    BY <1>1, <2>2 DEF Selections, ReportRecords
  <2>5. Disjoint(s)
    BY <2>3, <2>4 DEF Disjoint
  <2>6. Follows(s)
    BY <2>1, <2>2, <2>4 DEF SpendInv, ListedSound
  <2>7. QED
    BY <2>1, <2>3, <2>4, <2>5, <2>6, SelectedKeeps
<1>7. QED
  BY <1>3, <1>4, <1>5, <1>6

LEMMA SpendSends ==
  ASSUME SpendInv, TSOpen \/ SaveReport \/ DeleteReport
  PROVE  SpendInv'
<1>1. UNCHANGED <<tsSelected, tsActive, tsReports, tsServer, tsMade>>
  BY DEF TSOpen, SaveReport, DeleteReport
<1>2. PICK q \in SpendMessages : /\ Sending(q)
                                 /\ q.kind = "load" => q.found = {}
                                 /\ q.kind = "save" => Disjoint(q)
  <2>1. CASE TSOpen
    <3>1. LoadReports.kind = "load" /\ LoadReports.found = {}
      BY DEF LoadReports
    <3>2. QED
      BY <2>1, <3>1, MessageTypes DEF TSOpen
  <2>2. CASE SaveReport
    <3>1. ReportOf(tsSelected) \in SpendMessages
      BY MessageTypes DEF SpendInv, SpendTyped
    <3>2. ReportOf(tsSelected).kind = "save" /\ Disjoint(ReportOf(tsSelected))
      BY DEF ReportOf, SpendInv, Disjoint
    <3>3. QED
      BY <2>2, <3>1, <3>2 DEF SaveReport
  <2>3. CASE DeleteReport
    <3>1. PICK r \in tsReports : Sending(Deletion(r.id))
      BY <2>3 DEF DeleteReport
    <3>2. r.id \in Nat
      BY DEF SpendInv, SpendTyped, ReportRecords
    <3>3. Deletion(r.id) \in SpendMessages /\ Deletion(r.id).kind = "delete"
      BY <3>2, MessageTypes DEF SpendInv, Deletion
    <3>4. QED
      BY <3>1, <3>3
  <2>4. QED
    BY <2>1, <2>2, <2>3
<1>3. /\ tsNet' \in Seq(SpendMessages)
      /\ SavesApart'
      /\ \A r \in ReportRecords : Listed(r)' => Listed(r)
  BY <1>1, <1>2, SendLists DEF SpendInv
<1>4. SpendTyped' /\ Disjoint(tsSelected)'
  BY <1>1, <1>3 DEF SpendInv, SpendTyped
<1>5. \A r \in ReportRecords : Listed(r) /\ r.id = tsActive' => Selects(r)'
  BY <1>1 DEF SpendInv, ListedSound, Selects
<1>6. QED
  BY <1>1, <1>3, <1>4, <1>5, NoNewReport

(* The server makes a report of an id that none had, or what it lists or     *)
(* deletes was listed already.                                               *)
LEMMA SpendServes ==
  ASSUME SpendInv, NEW i \in DOMAIN tsNet, TSServe(i)
  PROVE  SpendInv'
<1> DEFINE q == tsNet[i]
           m == IF q.kind = "load" THEN [q EXCEPT !.served = TRUE, !.found = tsServer]
                                   ELSE [q EXCEPT !.served = TRUE]
           n == [id |-> tsMade + 1, included |-> q.included, omitted |-> q.omitted]
<1>1. q \in SpendMessages /\ q \in Range(tsNet)
  BY MessageOf DEF SpendInv
<1>2. /\ m \in SpendMessages /\ m.kind = q.kind
      /\ q.kind = "load" => m.found = tsServer
      /\ q.kind = "save" => m.included = q.included /\ m.omitted = q.omitted
  <2>1. CASE q.kind = "load"
    <3>1. q \in [served : BOOLEAN, kind : {"load"}, found : SUBSET ReportRecords]
      BY <1>1, <2>1 DEF SpendMessages
    <3>2. tsServer \subseteq ReportRecords
      BY DEF SpendInv, SpendTyped
    <3>3. QED
      BY <2>1, <3>1, <3>2 DEF SpendMessages
  <2>2. CASE q.kind = "save"
    <3>1. q \in [served : BOOLEAN, kind : {"save"}, included : SUBSET SpendTags,
                 omitted : SUBSET SpendTags]
      BY <1>1, <2>2 DEF SpendMessages
    <3>2. QED
      BY <2>2, <3>1 DEF SpendMessages
  <2>3. CASE q.kind = "stats"
    <3>1. q \in [served : BOOLEAN, kind : {"stats"}, for : Selections]
      BY <1>1, <2>3 DEF SpendMessages
    <3>2. QED
      BY <2>3, <3>1 DEF SpendMessages
  <2>4. CASE q.kind = "delete"
    <3>1. q \in [served : BOOLEAN, kind : {"delete"}, id : Nat, active : Nat \cup {NoReport}]
      BY <1>1, <2>4 DEF SpendMessages
    <3>2. QED
      BY <2>4, <3>1 DEF SpendMessages
  <2>5. QED
    BY <1>1, <2>1, <2>2, <2>3, <2>4 DEF SpendMessages
<1>3. /\ UNCHANGED <<tsSelected, tsActive, tsReports>>
      /\ tsNet' = [tsNet EXCEPT ![i] = m]
  BY DEF TSServe
<1>4. tsNet' \in Seq(SpendMessages) /\ Range(tsNet') \subseteq Range(tsNet) \cup {m}
  <2> HIDE DEF m
  <2>1. tsNet \in Seq(SpendMessages)
    BY DEF SpendInv, SpendTyped
  <2>2. m \in SpendMessages
    BY <1>2
  <2>3. /\ [tsNet EXCEPT ![i] = m] \in Seq(SpendMessages)
        /\ Range([tsNet EXCEPT ![i] = m]) \subseteq Range(tsNet) \cup {m}
    BY <2>1, <2>2, EntriesReplaced
  <2>4. QED
    BY <1>3, <2>3
<1>5. SavesApart'
  <2>1. q.kind = "save" => Disjoint(q)
    BY <1>1 DEF SpendInv, SavesApart
  <2>2. m.kind = "save" => Disjoint(m)
    BY <1>2, <2>1 DEF Disjoint
  <2>3. QED
    BY ZenonT(30), <1>4, <2>2 DEF SpendInv, SavesApart
<1> HIDE DEF m
<1>6. CASE q.kind # "save"
  <2>1. tsMade' = tsMade /\ tsServer' \subseteq tsServer
    BY <1>6 DEF TSServe
  <2>2. \A r \in ReportRecords : Listed(r)' => Listed(r)
    BY <1>2, <1>3, <1>4, <2>1 DEF Listed
  <2>3. SpendTyped' /\ Disjoint(tsSelected)'
    BY <1>3, <1>4, <2>1 DEF SpendInv, SpendTyped
  <2>4. \A r \in ReportRecords : Listed(r) /\ r.id = tsActive' => Selects(r)'
    BY <1>3 DEF SpendInv, ListedSound, Selects
  <2>5. QED
    BY <1>3, <1>5, <2>1, <2>2, <2>3, <2>4, NoNewReport
<1>7. CASE q.kind = "save"
  <2>1. tsMade' = tsMade + 1 /\ tsServer' = tsServer \cup {n}
    BY <1>7 DEF TSServe
  <2>2. q.included \in SUBSET SpendTags /\ q.omitted \in SUBSET SpendTags /\ Disjoint(q)
    BY <1>1, <1>7 DEF SpendInv, SavesApart, SpendMessages
  <2>3. tsMade \in Nat
    BY DEF SpendInv, SpendTyped
  <2>4. n \in ReportRecords /\ n.id = tsMade + 1 /\ Disjoint(n)
    BY <2>2, <2>3 DEF ReportRecords, Disjoint
  <2> HIDE DEF n
  <2>5. \A r \in ReportRecords : Listed(r)' => Listed(r) \/ r = n
    BY <1>2, <1>3, <1>4, <1>7, <2>1 DEF Listed
  <2>6. SpendTyped' /\ Disjoint(tsSelected)'
    BY <1>3, <1>4, <2>1, <2>3, <2>4 DEF SpendInv, SpendTyped
  <2>7. \A r \in ReportRecords : Listed(r) => r.id # n.id
    BY <2>3, <2>4 DEF SpendInv, ListedSound
  <2>8. n.id # tsActive
    BY <2>3, <2>4, SpendAssumption DEF SpendInv, SpendTyped
  <2>9. ASSUME NEW r \in ReportRecords, Listed(r)'
        PROVE  /\ r.id \in 1..tsMade' /\ Disjoint(r)
               /\ r.id = tsActive' => Selects(r)'
    <3>1. CASE Listed(r)
      BY <1>3, <2>1, <2>3, <3>1 DEF SpendInv, ListedSound, Selects
    <3>2. CASE r = n
      BY <1>3, <2>1, <2>3, <2>4, <2>8, <3>2
    <3>3. QED
      BY <2>5, <2>9, <3>1, <3>2
  <2>10. ASSUME NEW r \in ReportRecords, NEW o \in ReportRecords, Listed(r)', Listed(o)', r.id = o.id
         PROVE  r = o
    BY <2>5, <2>7, <2>10 DEF SpendInv, ListedSound
  <2>11. ListedSound'
    BY <2>9, <2>10 DEF ListedSound
  <2>12. QED
    BY <1>5, <2>6, <2>11 DEF SpendInv
<1>8. QED
  BY <1>6, <1>7

(* An answer brings a list that was under way, or makes one be asked for.    *)
LEMMA SpendAnswers ==
  ASSUME SpendInv, NEW i \in DOMAIN tsNet, TSAnswer(i) \/ TSFail(i)
  PROVE  SpendInv'
<1> DEFINE q == tsNet[i]
           rest == RemoveAt(tsNet, i)
<1>1. q \in SpendMessages /\ q \in Range(tsNet)
  BY MessageOf DEF SpendInv
<1>2. /\ UNCHANGED <<tsSelected, tsServer, tsMade>>
      /\ tsReports' = tsReports \/ (q.kind = "load" /\ tsReports' = q.found)
      /\ tsActive' = tsActive \/ tsActive' = NoReport
      /\ tsNet' = rest \/ (tsNet' = Append(rest, LoadReports) /\ tsReports' = tsReports)
  BY DEF TSAnswer, TSFail
<1>3. rest \in Seq(SpendMessages) /\ Range(rest) \subseteq Range(tsNet)
  BY EntriesRemoved DEF SpendInv, SpendTyped
<1> HIDE DEF rest
<1>4. LoadReports \in SpendMessages /\ LoadReports.kind = "load" /\ LoadReports.found = {}
  BY MessageTypes DEF LoadReports
<1>5. tsNet' \in Seq(SpendMessages) /\ Range(tsNet') \subseteq Range(tsNet) \cup {LoadReports}
  <2>1. /\ Append(rest, LoadReports) \in Seq(SpendMessages)
        /\ Range(Append(rest, LoadReports)) \subseteq Range(rest) \cup {LoadReports}
    BY <1>3, <1>4, EntriesAppended
  <2>2. QED
    BY <1>2, <1>3, <2>1
<1>6. SavesApart'
  BY <1>4, <1>5 DEF SpendInv, SavesApart
<1>7. \A r \in ReportRecords : Listed(r)' => Listed(r)
  BY <1>1, <1>2, <1>4, <1>5 DEF Listed
<1>8. tsReports' \subseteq ReportRecords
  BY <1>1, <1>2 DEF SpendInv, SpendTyped, SpendMessages
<1>9. SpendTyped' /\ Disjoint(tsSelected)'
  BY <1>2, <1>5, <1>8 DEF SpendInv, SpendTyped
<1>10. \A r \in ReportRecords : Listed(r) /\ r.id = tsActive' => Selects(r)'
  BY <1>2, SpendAssumption DEF SpendInv, ListedSound, Selects, ReportRecords
<1>11. QED
  BY <1>2, <1>6, <1>7, <1>9, <1>10, NoNewReport

LEMMA SpendInvariant == TSSpec => []SpendInv
<1>1. SpendInv /\ [TSNext]_tsVars => SpendInv'
  <2> SUFFICES ASSUME SpendInv, [TSNext]_tsVars PROVE SpendInv'
    OBVIOUS
  <2>1. CASE UNCHANGED tsVars
    BY <2>1 DEF tsVars, SpendInv, SpendTyped, ListedSound, SavesApart, Listed, Selects
  <2>2. CASE TSNext
    BY <2>2, SpendSelects, SpendSends, SpendServes, SpendAnswers DEF TSNext
  <2>3. QED
    BY <2>1, <2>2
<1>2. QED
  BY <1>1, SpendInit, PTL DEF TSSpec

LEMMA SpendSound == SpendInv => ReportsSound
<1> SUFFICES ASSUME SpendInv PROVE ReportsSound
  OBVIOUS
<1>1. \A r \in tsServer \cup tsReports : r \in ReportRecords /\ Listed(r)
  BY DEF SpendInv, SpendTyped, Listed
<1>2. ActiveIsSelected
  BY <1>1 DEF ActiveIsSelected, SpendInv, ListedSound, Selects
<1>3. ASSUME NEW i \in DOMAIN tsNet
      PROVE  /\ tsNet[i].kind = "save" => Disjoint(tsNet[i])
             /\ tsNet[i].kind = "load" => \A r \in tsNet[i].found : Disjoint(r)
  <2>1. tsNet[i] \in SpendMessages /\ tsNet[i] \in Range(tsNet)
    BY MessageOf DEF SpendInv
  <2>2. ASSUME tsNet[i].kind = "load", NEW r \in tsNet[i].found PROVE Disjoint(r)
    <3>1. r \in ReportRecords /\ Listed(r)
      BY <2>1, <2>2 DEF SpendMessages, Listed
    <3>2. QED
      BY <3>1 DEF SpendInv, ListedSound
  <2>3. QED
    BY <2>1, <2>2 DEF SpendInv, SavesApart
<1>4. TagsApart
  BY <1>1, <1>3 DEF TagsApart, SpendInv, ListedSound
<1>5. QED
  BY <1>2, <1>4 DEF ReportsSound

-----------------------------------------------------------------------------
(* The session.  That an answer about the user is one about the token of the *)
(* moment holds because while the program starts nothing but the question    *)
(* for the user is under way and no page is there to change the token.       *)

Tokens == [user : WebUsers, n : Nat]

WebMessages ==
  [kind : {"current", "data", "profile"}, token : Tokens \cup {NoUser}, user : {NoUser},
   awaited : BOOLEAN]
    \cup [kind : {"login", "signup"}, token : Tokens \cup {NoUser}, user : WebUsers,
          awaited : BOOLEAN]

SessionTyped ==
  /\ wsPath \in wsHere /\ wsHere \subseteq Paths /\ wsLeft \subseteq Paths
  /\ wsUser \in WebUsers \cup {NoUser}
  /\ wsToken \in Tokens \cup {NoUser}
  /\ wsLoading \in BOOLEAN
  /\ wsIssued \in Nat
  /\ wsNet \in Seq(WebMessages)

Starting ==
  IF wsLoading
  THEN /\ Len(wsNet) <= 1
       /\ \A q \in Range(wsNet) : q.kind = "current" /\ q.token = wsToken
  ELSE \A q \in Range(wsNet) : q.kind # "current"

SessionInv == SessionTyped /\ SessionSound /\ Starting

LEMMA SessionInit == WSInit => SessionInv
<1> SUFFICES ASSUME WSInit PROVE SessionInv
  OBVIOUS
<1>1. Range(wsNet) = {}
  BY DEF WSInit, Range
<1>2. SessionTyped
  <2>1. wsNet \in Seq(WebMessages)
    BY DEF WSInit
  <2>2. QED
    BY <2>1 DEF WSInit, SessionTyped, Paths
<1>3. Starting
  BY <1>1 DEF WSInit, Starting
<1>4. QED
  BY <1>2, <1>3 DEF WSInit, SessionInv, SessionSound, UserIsTokens, PagesHaveUser

LEMMA RequestTypes ==
  ASSUME SessionTyped
  PROVE  /\ \A kind \in {"current", "data", "profile"} :
              /\ Request(kind) \in WebMessages
              /\ Request(kind).kind = kind /\ Request(kind).token = wsToken
         /\ \A kind \in {"login", "signup"}, u \in WebUsers :
              /\ [Request(kind) EXCEPT !.user = u] \in WebMessages
              /\ [Request(kind) EXCEPT !.user = u].kind = kind
<1>1. ASSUME NEW kind
      PROVE  Request(kind).kind = kind /\ Request(kind).token = wsToken
  BY DEF Request
<1>2. ASSUME NEW kind \in {"current", "data", "profile"} PROVE Request(kind) \in WebMessages
  <2>1. Request(kind) \in [kind : {"current", "data", "profile"}, token : Tokens \cup {NoUser},
                           user : {NoUser}, awaited : BOOLEAN]
    BY <1>2 DEF Request, SessionTyped
  <2>2. QED
    BY <2>1 DEF WebMessages
<1>3. ASSUME NEW kind \in {"login", "signup"}, NEW u \in WebUsers
      PROVE  /\ [Request(kind) EXCEPT !.user = u] \in WebMessages
             /\ [Request(kind) EXCEPT !.user = u].kind = kind
  <2>1. [Request(kind) EXCEPT !.user = u]
          = [kind |-> kind, token |-> wsToken, user |-> u,
             awaited |-> kind \in {"login", "signup", "profile"}]
    BY DEF Request
  <2>2. [Request(kind) EXCEPT !.user = u]
          \in [kind : {"login", "signup"}, token : Tokens \cup {NoUser}, user : WebUsers,
               awaited : BOOLEAN]
    BY <1>3, <2>1 DEF SessionTyped
  <2>3. QED
    BY <2>1, <2>2 DEF WebMessages
<1>4. QED
  BY <1>1, <1>2, <1>3

(* A request that nobody awaits any more is the same question.               *)
LEMMA UnawaitedIs ==
  ASSUME NEW net \in Seq(WebMessages)
  PROVE  /\ Unawaited(net) \in Seq(WebMessages) /\ Len(Unawaited(net)) = Len(net)
         /\ \A r \in Range(Unawaited(net)) :
              \E q \in Range(net) : r.kind = q.kind /\ r.token = q.token
<1>1. ASSUME NEW i \in DOMAIN net
      PROVE  /\ Unawaited(net)[i] \in WebMessages
             /\ Unawaited(net)[i].kind = net[i].kind /\ Unawaited(net)[i].token = net[i].token
  <2>1. net[i] \in WebMessages
    OBVIOUS
  <2>2. Unawaited(net)[i] = [net[i] EXCEPT !.awaited = FALSE]
    BY DEF Unawaited
  <2>3. QED
    BY <2>1, <2>2 DEF WebMessages
<1>2. DOMAIN Unawaited(net) = DOMAIN net /\ DOMAIN net = 1..Len(net) /\ Len(net) \in Nat
  BY DEF Unawaited
<1>3. Unawaited(net) \in [1..Len(net) -> WebMessages]
  <2>1. Unawaited(net) = [i \in 1..Len(net) |-> [net[i] EXCEPT !.awaited = FALSE]]
    BY <1>2 DEF Unawaited
  <2>2. \A i \in 1..Len(net) : [net[i] EXCEPT !.awaited = FALSE] \in WebMessages
    BY <1>1, <1>2, <2>1
  <2>3. QED
    BY <2>1, <2>2
<1>4. Unawaited(net) \in Seq(WebMessages) /\ Len(Unawaited(net)) = Len(net)
  BY <1>2, <1>3
<1>5. QED
  BY <1>1, <1>2, <1>4 DEF Range

LEMMA StartedKeeps ==
  ASSUME SessionInv, NEW path \in Paths, Started(path),
         path \in wsHere', wsHere' \subseteq Paths, wsLeft' \subseteq Paths,
         UNCHANGED <<wsToken, wsIssued>>
  PROVE  SessionInv'
<1>1. /\ wsPath' = path /\ wsUser' = NoUser
      /\ wsLoading' = ~IsAuthPage(path)
  BY DEF Started
<1>2. CASE IsAuthPage(path)
  <2>1. wsNet' = << >> /\ wsLoading' = FALSE /\ path # "main"
    BY <1>1, <1>2 DEF Started, IsAuthPage
  <2>2. wsNet' \in Seq(WebMessages) /\ Range(wsNet') = {}
    BY <2>1 DEF Range
  <2>3. QED
    BY <1>1, <2>1, <2>2 DEF SessionInv, SessionTyped, SessionSound, UserIsTokens, PagesHaveUser,
                           Starting
<1>3. CASE ~IsAuthPage(path)
  <2> DEFINE q == Request("current")
  <2>1. wsLoading' = TRUE /\ wsNet' = Append(<< >>, q)
    BY <1>1, <1>3 DEF Started, Transmit
  <2>2. q \in WebMessages /\ q.kind = "current" /\ q.token = wsToken
    BY RequestTypes DEF SessionInv
  <2> HIDE DEF q
  <2>3. wsNet' \in Seq(WebMessages) /\ Len(wsNet') = 1 /\ wsNet'[1] = q
    BY <2>1, <2>2
  <2>4. Range(wsNet') = {q}
    BY <2>3 DEF Range
  <2>5. SessionTyped'
    BY <1>1, <2>1, <2>3 DEF SessionInv, SessionTyped
  <2>6. Starting'
    BY <2>1, <2>2, <2>3, <2>4 DEF Starting
  <2>7. QED
    BY <1>1, <2>1, <2>5, <2>6 DEF SessionInv, SessionSound, UserIsTokens, PagesHaveUser
<1>4. QED
  BY <1>2, <1>3

(* A step that changes neither the user nor the token: what is under way is  *)
(* what was, awaited or not, or a request of a page or a form, which is      *)
(* there when nothing starts.                                                *)
LEMMA RequestsKeep ==
  ASSUME SessionInv, wsNet' \in Seq(WebMessages),
         wsLoading => Len(wsNet') <= Len(wsNet),
         \A r \in Range(wsNet') :
           \/ \E q \in Range(wsNet) : r.kind = q.kind /\ r.token = q.token
           \/ ~wsLoading /\ r.kind # "current",
         wsPath' \in wsHere', wsHere' \subseteq Paths, UNCHANGED wsLeft,
         PagesHaveUser', wsToken' = wsToken \/ (wsToken' = NoUser /\ ~wsLoading),
         UNCHANGED <<wsUser, wsLoading, wsIssued>>
  PROVE  SessionInv'
<1>1. SessionTyped'
  BY DEF SessionInv, SessionTyped
<1>2. Starting'
  <2>1. CASE wsLoading
    <3>1. \A r \in Range(wsNet') : r.kind = "current" /\ r.token = wsToken'
      BY <2>1 DEF SessionInv, Starting
    <3>2. Len(wsNet) \in Nat /\ Len(wsNet') \in Nat /\ Len(wsNet) <= 1
      BY <2>1 DEF SessionInv, SessionTyped, Starting
    <3>3. QED
      BY <2>1, <3>1, <3>2 DEF Starting
  <2>2. CASE ~wsLoading
    BY <2>2 DEF SessionInv, Starting
  <2>3. QED
    BY <2>1, <2>2
<1>3. UserIsTokens'
  BY DEF SessionInv, SessionSound, UserIsTokens
<1>4. QED
  BY <1>1, <1>2, <1>3 DEF SessionInv, SessionSound

LEMMA SendKeeps ==
  ASSUME SessionInv, NEW q \in WebMessages, q.kind # "current", WSSend(q)
  PROVE  SessionInv'
<1>1. Append(wsNet, q) \in Seq(WebMessages) /\ Range(Append(wsNet, q)) \subseteq Range(wsNet) \cup {q}
  BY EntriesAppended DEF SessionInv, SessionTyped
<1>2. ~wsLoading /\ wsNet' = Append(wsNet, q)
  BY DEF WSSend, Transmit
<1>3. \A r \in Range(wsNet') :
        \/ \E old \in Range(wsNet) : r.kind = old.kind /\ r.token = old.token
        \/ ~wsLoading /\ r.kind # "current"
  BY <1>1, <1>2
<1>4. UNCHANGED <<wsPath, wsHere, wsLeft, wsToken, wsUser, wsLoading, wsIssued, wsCameBack>>
  BY DEF WSSend, wsHistory, wsAuth
<1>5. PagesHaveUser' /\ wsPath' \in wsHere' /\ wsHere' \subseteq Paths
  BY <1>4 DEF SessionInv, SessionTyped, SessionSound, PagesHaveUser
<1>6. QED
  BY <1>1, <1>2, <1>3, <1>4, <1>5, RequestsKeep

LEMMA SessionLoads ==
  ASSUME SessionInv, Load \/ Reload \/ LoadFromHistory
  PROVE  SessionInv'
<1>1. CASE Load
  BY <1>1, StartedKeeps DEF Load, NewDocument, wsAuth, SessionInv, SessionTyped
<1>2. CASE Reload
  BY <1>2, StartedKeeps DEF Reload, wsHistory, wsAuth, SessionInv, SessionTyped
<1>3. CASE LoadFromHistory
  <2>1. PICK path \in wsLeft : Started(path) /\ \E others \in SUBSET wsLeft : wsHere' = others \cup {path}
    BY <1>3 DEF LoadFromHistory
  <2>2. wsLeft' = wsLeft \cup wsHere /\ UNCHANGED <<wsToken, wsIssued>>
    BY <1>3 DEF LoadFromHistory, wsAuth
  <2>3. path \in Paths /\ path \in wsHere' /\ wsHere' \subseteq Paths /\ wsLeft' \subseteq Paths
    BY <2>1, <2>2 DEF SessionInv, SessionTyped
  <2>4. QED
    BY <2>1, <2>2, <2>3, StartedKeeps
<1>4. QED
  BY <1>1, <1>2, <1>3

LEMMA SessionActs ==
  ASSUME SessionInv,
         Traverse \/ HandleNavigation \/ Login \/ Signup \/ SaveProfile \/ HandleLogout
                  \/ FetchPageData
  PROVE  SessionInv'
<1>1. CASE Traverse \/ HandleNavigation \/ HandleLogout
  <2>1. /\ wsNet' = Unawaited(wsNet)
        /\ UNCHANGED <<wsLeft, wsUser, wsLoading, wsIssued>>
    BY <1>1 DEF Traverse, HandleNavigation, HandleLogout, wsHistory, wsAuth
  <2>2. /\ wsNet' \in Seq(WebMessages) /\ Len(wsNet') = Len(wsNet)
        /\ \A r \in Range(wsNet') : \E q \in Range(wsNet) : r.kind = q.kind /\ r.token = q.token
    BY <2>1, UnawaitedIs DEF SessionInv, SessionTyped
  <2>3. Len(wsNet') <= Len(wsNet)
    <3>1. Len(wsNet) \in Nat
      BY DEF SessionInv, SessionTyped
    <3>2. QED
      BY <2>2, <3>1
  <2>4. wsPath' \in wsHere' /\ wsHere' \subseteq Paths
    BY <1>1 DEF Traverse, HandleNavigation, HandleLogout, wsHistory, SessionInv, SessionTyped, Paths
  <2>5. PagesHaveUser'
    BY <1>1 DEF Traverse, HandleNavigation, HandleLogout, SessionInv, SessionSound, PagesHaveUser
  <2>6. wsToken' = wsToken \/ (wsToken' = NoUser /\ ~wsLoading)
    BY <1>1 DEF Traverse, HandleNavigation, HandleLogout
  <2>7. QED
    BY <2>1, <2>2, <2>3, <2>4, <2>5, <2>6, RequestsKeep
<1>2. CASE Login \/ Signup
  <2>1. PICK kind \in {"login", "signup"}, u \in WebUsers : WSSend([Request(kind) EXCEPT !.user = u])
    BY <1>2 DEF Login, Signup
  <2>2. QED
    BY <2>1, RequestTypes, SendKeeps DEF SessionInv
<1>3. CASE SaveProfile \/ FetchPageData
  <2>1. PICK kind \in {"profile", "data"} : WSSend(Request(kind))
    BY <1>3 DEF SaveProfile, FetchPageData
  <2>2. QED
    BY <2>1, RequestTypes, SendKeeps DEF SessionInv
<1>4. QED
  BY <1>1, <1>2, <1>3

(* The answers.  A request for the user is answered alone, and for the token *)
(* there is; every other good answer that changes the user changes both.     *)
LEMMA SessionAnswers ==
  ASSUME SessionInv, NEW i \in DOMAIN wsNet, Respond(i)
  PROVE  SessionInv'
<1> DEFINE q == wsNet[i]
           rest == RemoveAt(wsNet, i)
<1>1. q \in WebMessages /\ q \in Range(wsNet)
  BY DEF SessionInv, SessionTyped, Range
<1>2. rest \in Seq(WebMessages) /\ Len(rest) = Len(wsNet) - 1 /\ Range(rest) \subseteq Range(wsNet)
  BY EntriesRemoved DEF SessionInv, SessionTyped
<1>3. Len(wsNet) \in Nat /\ Len(rest) \in Nat /\ Len(rest) <= Len(wsNet)
  BY <1>2 DEF SessionInv, SessionTyped
<1>4. wsLoading => Range(rest) = {}
  <2> SUFFICES ASSUME wsLoading PROVE Range(rest) = {}
    OBVIOUS
  <2>1. Len(wsNet) <= 1
    BY DEF SessionInv, Starting
  <2>2. Len(rest) = 0
    BY <1>2, <1>3, <2>1
  <2>3. QED
    BY <1>2, <2>2 DEF Range
<1>5. \A r \in Range(rest) : wsLoading = FALSE /\ r.kind # "current"
  BY <1>2, <1>4 DEF SessionInv, SessionTyped, Starting
<1> HIDE DEF rest
<1>6. CASE Accept(i)
  <2>1. ~Refused(q) /\ UNCHANGED <<wsLeft, wsCameBack>>
    BY <1>6 DEF Accept
  <2>2. CASE q.kind = "current"
    <3>1. /\ wsUser' = q.token.user /\ wsLoading' = FALSE /\ wsNet' = rest
          /\ UNCHANGED <<wsToken, wsIssued, wsPath, wsHere>>
      BY <1>6, <2>2 DEF Accept, rest
    <3>2. wsLoading /\ q.token = wsToken
      BY <1>1, <2>2 DEF SessionInv, Starting
    <3>3. q.token \in Tokens
      BY <1>1, <2>1, <2>2, <3>2 DEF Refused, SessionInv, SessionTyped
    <3>4. wsUser' \in WebUsers /\ wsUser' # NoUser
      BY <3>1, <3>3, SessionAssumption DEF Tokens
    <3>5. SessionTyped' /\ Starting'
      BY <1>2, <1>5, <2>1, <3>1, <3>4 DEF SessionInv, SessionTyped, Starting
    <3>6. QED
      BY <3>1, <3>2, <3>4, <3>5 DEF SessionInv, SessionSound, UserIsTokens, PagesHaveUser
  <2>3. CASE q.kind = "data"
    <3>1. UNCHANGED <<wsUser, wsLoading, wsToken, wsIssued, wsPath, wsHere>> /\ wsNet' = rest
      BY <1>6, <2>3 DEF Accept, rest
    <3>2. ~wsLoading
      BY <1>1, <2>3 DEF SessionInv, Starting
    <3>3. SessionTyped' /\ Starting'
      BY <1>2, <1>5, <2>1, <3>1, <3>2 DEF SessionInv, SessionTyped, Starting
    <3>4. QED
      BY <2>1, <3>1, <3>3 DEF SessionInv, SessionSound, UserIsTokens, PagesHaveUser
  <2>4. CASE q.kind \in {"profile", "login", "signup"}
    <3>1. PICK u \in WebUsers : /\ SignedIn(u) /\ wsLoading' = wsLoading
                                /\ \/ UNCHANGED <<wsPath, wsHere>>
                                   \/ wsPath' = "main" /\ wsHere' = wsHere \cup {"main"}
                                /\ wsNet' = rest \/ wsNet' = Unawaited(rest)
      <4>1. CASE q.kind = "profile"
        <5>1. q.token \in Tokens
          BY <1>1, <2>1, <4>1 DEF Refused, WebMessages
        <5>2. q.token.user \in WebUsers
          BY <5>1 DEF Tokens
        <5>3. QED
          BY <1>6, <4>1, <5>2 DEF Accept, rest
      <4>2. CASE q.kind \in {"login", "signup"}
        <5>1. q.user \in WebUsers
          BY <1>1, <4>2 DEF WebMessages
        <5>2. QED
          BY <1>6, <4>2, <5>1 DEF Accept, rest
      <4>3. QED
        BY <2>4, <4>1, <4>2
    <3>2. ~wsLoading
      BY <1>1, <2>4 DEF SessionInv, Starting
    <3>3. /\ wsUser' = u /\ wsToken' \in Tokens /\ wsToken'.user = u
          /\ wsIssued' \in Nat /\ u # NoUser
      BY <3>1, SessionAssumption DEF SignedIn, NewToken, Tokens, SessionInv, SessionTyped
    <3>4. wsNet' \in Seq(WebMessages) /\ \A r \in Range(wsNet') : r.kind # "current"
      BY <1>2, <1>5, <3>1, UnawaitedIs
    <3>5. wsPath' \in wsHere' /\ wsHere' \subseteq Paths
      BY <3>1 DEF SessionInv, SessionTyped, Paths
    <3>6. SessionTyped' /\ Starting'
      BY <2>1, <3>1, <3>2, <3>3, <3>4, <3>5 DEF SessionInv, SessionTyped, Starting
    <3>7. QED
      BY <3>3, <3>6 DEF SessionInv, SessionSound, UserIsTokens, PagesHaveUser
  <2>5. QED
    BY <1>1, <2>2, <2>3, <2>4 DEF WebMessages
<1>7. ASSUME wsNet' = rest, UNCHANGED <<wsPath, wsHere, wsLeft, wsToken, wsUser, wsLoading, wsIssued,
                                        wsCameBack>>
      PROVE  SessionInv'
  <2>1. \A r \in Range(wsNet') : \E old \in Range(wsNet) : r.kind = old.kind /\ r.token = old.token
    BY <1>2, <1>7
  <2>2. PagesHaveUser' /\ wsPath' \in wsHere' /\ wsHere' \subseteq Paths
    BY <1>7 DEF SessionInv, SessionTyped, SessionSound, PagesHaveUser
  <2>3. QED
    BY <1>2, <1>3, <1>7, <2>1, <2>2, RequestsKeep
<1>8. CASE Refuse(i)
  <2>1. CASE IsAuthPage(wsPath)
    BY <1>7, <1>8, <2>1 DEF Refuse, rest, wsHistory, wsAuth
  <2>2. CASE ~IsAuthPage(wsPath)
    <3>1. NewDocument("login") /\ UNCHANGED <<wsToken, wsIssued>>
      BY <1>8, <2>2 DEF Refuse, wsAuth
    <3>2. QED
      BY <3>1, StartedKeeps DEF NewDocument, SessionInv, SessionTyped, Paths
  <2>3. QED
    BY <2>1, <2>2
<1>9. CASE Reject(i)
  BY <1>7, <1>9 DEF Reject, rest, wsHistory, wsAuth
<1>10. QED
  BY <1>6, <1>8, <1>9 DEF Respond

LEMMA SessionStep == SessionInv /\ [WSNext]_wsVars => SessionInv'
<1> SUFFICES ASSUME SessionInv, [WSNext]_wsVars PROVE SessionInv'
  OBVIOUS
<1>1. CASE UNCHANGED wsVars
  BY <1>1 DEF wsVars, wsHistory, wsAuth, SessionInv, SessionTyped, SessionSound, UserIsTokens,
              PagesHaveUser, Starting
<1>2. CASE Expire
  BY <1>2 DEF Expire, wsHistory, SessionInv, SessionTyped, SessionSound, UserIsTokens,
              PagesHaveUser, Starting
<1>3. CASE WSNext /\ ~Expire
  BY <1>3, SessionLoads, SessionActs, SessionAnswers DEF WSNext
<1>4. QED
  BY <1>1, <1>2, <1>3

LEMMA SessionInvariant == WSInit /\ [][WSNext]_wsVars => []SessionInv
BY SessionInit, SessionStep, PTL

-----------------------------------------------------------------------------
(* In the composition each page takes steps of its own or none.              *)

LEMMA PagesStep == [WebNext]_webVars => [TSNext]_tsVars /\ [WSNext]_wsVars
BY DEF WebNext, webVars

(* TagsSpendPage: whatever is selected, saved, deleted and answered late, no *)
(* tag is on both sides of the selection or of a report, and the report      *)
(* marked as active is the one selected.                                     *)
THEOREM ReportsStaySound == WebSpec => []ReportsSound
<1>1. WebSpec => TSSpec
  <2>1. WebInit => TSInit
    BY DEF WebInit
  <2>2. QED
    BY <2>1, PagesStep, PTL DEF WebSpec, TSSpec
<1>2. QED
  BY <1>1, SpendInvariant, SpendSound, PTL

(* CurrentUserProvider, base-client and the forms: the user on screen is the *)
(* one of the token that requests are sent with, and a page of the layout is *)
(* drawn without a user only where the tab's history led to it, in a program *)
(* that was started on a form.                                               *)
THEOREM SessionStaysSound == WebSpec => []SessionSound
<1>1. WebInit => WSInit
  BY DEF WebInit
<1>2. SessionInv => SessionSound
  BY DEF SessionInv
<1>3. QED
  BY <1>1, <1>2, PagesStep, SessionInvariant, PTL DEF WebSpec

-----------------------------------------------------------------------------
(* The hook.  Of its state only the fields on and search matter here; what   *)
(* the rest holds is left open, so that an update is known by its fields.    *)

HookFields == {"on", "search", "loading", "loadingMore", "error", "rows", "hasMore", "page"}

IsHook(l) == l = [f \in HookFields |-> l[f]]

\* The update keeps which mount it is and what is searched for.
Keeps(l, k) == IsHook(k) /\ k.on = l.on /\ k.search = l.search

LEMMA MountedHook ==
  \A n, search, entry : LET l == Mounted(n, search, entry)
                        IN  IsHook(l) /\ l.on = n /\ l.search = search
<1> TAKE n, search, entry
<1> DEFINE l == Mounted(n, search, entry)
<1>1. l.on = n /\ l.search = search
  BY DEF Mounted
<1>2. DOMAIN l = HookFields
  BY DEF Mounted, HookFields
<1>3. IsHook(l)
  BY <1>2 DEF IsHook, Mounted
<1>4. QED
  BY <1>1, <1>3

LEMMA UnmountedHook == IsHook(Unmounted) /\ Unmounted.on = 0
<1>1. /\ IsHook(Mounted(0, None, None))
      /\ Mounted(0, None, None).on = 0
  BY MountedHook
<1>2. QED
  BY <1>1 DEF Unmounted, IsHook, HookFields

LEMMA UpdatesKeep ==
  ASSUME NEW l, IsHook(l)
  PROVE  /\ \A more \in BOOLEAN : Keeps(l, FetchBegun(l, more))
         /\ \A q : Keeps(l, Fetched(l, q))
         /\ Keeps(l, FetchFailed(l))
         /\ \A row : Keeps(l, RowReplaced(l, row))
         /\ \A search : /\ IsHook(SearchSet(l, search))
                        /\ SearchSet(l, search).on = l.on
                        /\ SearchSet(l, search).search = search
<1>1. ASSUME NEW more \in BOOLEAN PROVE Keeps(l, FetchBegun(l, more))
  BY DEF FetchBegun, Keeps, IsHook, HookFields
<1>2. ASSUME NEW q PROVE Keeps(l, Fetched(l, q))
  BY DEF Fetched, Keeps, IsHook, HookFields
<1>3. Keeps(l, FetchFailed(l))
  BY DEF FetchFailed, Keeps, IsHook, HookFields
<1>4. ASSUME NEW row PROVE Keeps(l, RowReplaced(l, row))
  BY DEF RowReplaced, Keeps, IsHook, HookFields
<1>5. ASSUME NEW search
      PROVE  /\ IsHook(SearchSet(l, search))
             /\ SearchSet(l, search).on = l.on
             /\ SearchSet(l, search).search = search
  BY DEF SearchSet, IsHook, HookFields
<1>6. QED
  BY <1>1, <1>2, <1>3, <1>4, <1>5

LEMMA FlagsKeep ==
  ASSUME NEW l, IsHook(l)
  PROVE  /\ Keeps(l, l)
         /\ \A a, b : Keeps(l, [l EXCEPT !.loading = a, !.error = b])
         /\ \A a : Keeps(l, [l EXCEPT !.rows = a])
<1>1. Keeps(l, l)
  BY DEF Keeps
<1>2. ASSUME NEW a, NEW b PROVE Keeps(l, [l EXCEPT !.loading = a, !.error = b])
  BY DEF Keeps, IsHook, HookFields
<1>3. ASSUME NEW a PROVE Keeps(l, [l EXCEPT !.rows = a])
  BY DEF Keeps, IsHook, HookFields
<1>4. QED
  BY <1>1, <1>2, <1>3

-----------------------------------------------------------------------------
(* The merchants' list.  A step either keeps the search and what was saved   *)
(* and is still due, or fetches for the search, or makes a fetch due.        *)

MLAskedInv == IsHook(ml) /\ mlDue \in Nat /\ MerchantSearchAsked

LEMMA MLAskedInit == MLInit => MLAskedInv
<1>1. ASSUME MLInit PROVE IsHook(ml) /\ ml.on = 0 /\ mlDue \in Nat
  BY <1>1, UnmountedHook DEF MLInit
<1>2. QED
  BY <1>1 DEF MLAskedInv, MerchantSearchAsked

LEMMA MLAskedKept ==
  ASSUME MLAskedInv, Keeps(ml, ml'), UNCHANGED <<mlDue, mlSaved>>
  PROVE  MLAskedInv'
BY DEF MLAskedInv, MerchantSearchAsked, Keeps, IsHook

LEMMA MLAskedDue ==
  ASSUME MLAskedInv, NEW search, SetMerchantSearch(search)
  PROVE  MLAskedInv'
<1>1. ml' = SearchSet(ml, search) /\ mlDue' = mlDue + 1
  BY DEF SetMerchantSearch, MLBecomes
<1>2. IsHook(ml')
  BY <1>1, UpdatesKeep DEF MLAskedInv
<1>3. mlDue' \in Nat /\ mlDue' # 0
  BY <1>1 DEF MLAskedInv
<1>4. QED
  BY <1>2, <1>3 DEF MLAskedInv, MerchantSearchAsked, IsHook

LEMMA MLAskedFetched ==
  ASSUME NEW l, IsHook(l), FetchMerchantsData(l, FALSE), mlDue' \in Nat
  PROVE  MLAskedInv'
<1>1. ml' = FetchBegun(l, FALSE) /\ mlSaved' = l.search
  BY DEF FetchMerchantsData, MLBecomes
<1>2. Keeps(l, ml')
  BY <1>1, UpdatesKeep
<1>3. QED
  BY <1>1, <1>2 DEF MLAskedInv, MerchantSearchAsked, Keeps, IsHook

LEMMA MLAskedStep == MLAskedInv /\ [MLNext]_mlVars => MLAskedInv'
<1> SUFFICES ASSUME MLAskedInv, [MLNext]_mlVars PROVE MLAskedInv'
  OBVIOUS
<1>0. IsHook(ml) /\ mlDue \in Nat
  BY DEF MLAskedInv
<1>1. CASE MLOpen
  <2>1. FetchMerchantsData(Mounted(1, NoSearch, None), FALSE) /\ mlDue' \in Nat
    BY <1>0, <1>1 DEF MLOpen
  <2>2. IsHook(Mounted(1, NoSearch, None))
    BY MountedHook
  <2>3. QED
    BY <2>1, <2>2, MLAskedFetched
<1>2. CASE UpdateSearchTerm
  <2>1. UNCHANGED <<ml, mlDue, mlSaved>>
    BY <1>2 DEF UpdateSearchTerm
  <2>2. QED
    BY <1>0, <2>1, FlagsKeep, MLAskedKept
<1>3. CASE SubmitSearchTerm
  BY <1>3, MLAskedDue DEF SubmitSearchTerm
<1>4. CASE UpdateMerchantGroupFilter
  <2>1. PICK g \in GroupsSought : SetMerchantSearch([ml.search EXCEPT !.group = g])
    BY <1>4 DEF UpdateMerchantGroupFilter
  <2>2. QED
    BY <2>1, MLAskedDue
<1>5. CASE ClearAllFilters
  BY <1>5, MLAskedDue DEF ClearAllFilters
<1>6. CASE MLFetchDue
  <2>1. FetchMerchantsData(ml, FALSE) /\ mlDue > 0 /\ mlDue' = mlDue - 1
    BY <1>6 DEF MLFetchDue
  <2>2. mlDue' \in Nat
    BY <1>0, <2>1
  <2>3. QED
    BY <1>0, <2>1, <2>2, MLAskedFetched
<1>7. CASE MLScrollToEnd
  <2>1. ml' = FetchBegun(ml, TRUE) /\ UNCHANGED <<mlDue, mlSaved>>
    BY <1>7 DEF MLScrollToEnd, FetchMerchantsData, MLBecomes
  <2>2. QED
    BY <1>0, <2>1, UpdatesKeep, MLAskedKept
<1>8. CASE MLFadeEnds
  <2>1. UNCHANGED <<ml, mlDue, mlSaved>>
    BY <1>8 DEF MLFadeEnds
  <2>2. QED
    BY <1>0, <2>1, FlagsKeep, MLAskedKept
<1>9. CASE UpdateMerchant
  <2>1. /\ ml' = [ml EXCEPT !.loading = TRUE, !.error = FALSE]
        /\ UNCHANGED <<mlDue, mlSaved>>
    BY <1>9 DEF UpdateMerchant, MLBecomes
  <2>2. Keeps(ml, [ml EXCEPT !.loading = TRUE, !.error = FALSE])
    BY <1>0, FlagsKeep
  <2>3. QED
    BY <2>1, <2>2, MLAskedKept
<1>10. CASE UpdateMerchantGroup
  <2>1. \/ SetMerchantSearch(ml.search)
        \/ UNCHANGED <<ml, mlDue, mlSaved>>
    BY <1>10 DEF UpdateMerchantGroup
  <2>2. QED
    BY <1>0, <2>1, FlagsKeep, MLAskedKept, MLAskedDue
<1>11. ASSUME NEW i \in DOMAIN mlNet, MLServe(i) PROVE MLAskedInv'
  <2>1. UNCHANGED <<ml, mlDue, mlSaved>>
    BY <1>11 DEF MLServe
  <2>2. QED
    BY <1>0, <2>1, FlagsKeep, MLAskedKept
<1>12. ASSUME NEW i \in DOMAIN mlNet, MLAnswer(i) PROVE MLAskedInv'
  <2>1. UNCHANGED mlSaved
    BY <1>12 DEF MLAnswer
  <2>2. \/ ml' = Fetched(ml, mlNet[i]) /\ UNCHANGED mlDue
        \/ ml' = MerchantUpdated(ml, mlNet[i]) /\ UNCHANGED mlDue
        \/ UNCHANGED <<ml, mlDue>>
        \/ SetMerchantSearch(mlNet[i].search)
    BY <1>12 DEF MLAnswer, MLBecomes, MoveAnswered
  <2>3. Keeps(ml, Fetched(ml, mlNet[i]))
    BY <1>0, UpdatesKeep
  <2>4. Keeps(ml, MerchantUpdated(ml, mlNet[i]))
    <3>1. Keeps(ml, RowReplaced(ml, mlNet[i].row))
      BY <1>0, UpdatesKeep
    <3> DEFINE r == RowReplaced(ml, mlNet[i].row)
    <3>2. IsHook(r)
      BY <3>1 DEF Keeps
    <3> HIDE DEF r
    <3>3. Keeps(r, [r EXCEPT !.loading = FALSE, !.error = FALSE])
      BY <3>2, FlagsKeep
    <3>4. MerchantUpdated(ml, mlNet[i]) = [r EXCEPT !.loading = FALSE, !.error = FALSE]
      BY DEF MerchantUpdated, r
    <3>5. Keeps(ml, r)
      BY <3>1 DEF r
    <3>6. QED
      BY <3>3, <3>4, <3>5 DEF Keeps
  <2>5. Keeps(ml, ml)
    BY <1>0, FlagsKeep
  <2>6. QED
    BY <2>1, <2>2, <2>3, <2>4, <2>5, MLAskedKept, MLAskedDue
<1>13. ASSUME NEW i \in DOMAIN mlNet, MLFail(i) PROVE MLAskedInv'
  <2>1. /\ UNCHANGED <<mlDue, mlSaved>>
        /\ UNCHANGED ml \/ ml' = FetchFailed(ml)
    BY <1>13 DEF MLFail, MLBecomes
  <2>2. QED
    BY <1>0, <2>1, FlagsKeep, UpdatesKeep, MLAskedKept
<1>14. CASE UNCHANGED mlVars
  <2>1. UNCHANGED <<ml, mlDue, mlSaved>>
    BY <1>14 DEF mlVars
  <2>2. QED
    BY <1>0, <2>1, FlagsKeep, MLAskedKept
<1>15. QED
  BY <1>1, <1>2, <1>3, <1>4, <1>5, <1>6, <1>7, <1>8, <1>9, <1>10, <1>11, <1>12, <1>13, <1>14
     DEF MLNext

-----------------------------------------------------------------------------
(* The transactions' list.  A search is never None, which stands for nothing *)
(* saved.                                                                    *)

TLAskedInv ==
  /\ IsHook(tl) /\ tlDue \in Nat
  /\ tl.on # 0 => tl.search # None
  /\ AskedForShown

LEMMA TLAskedInit == TLInit => TLAskedInv
<1>1. ASSUME TLInit PROVE IsHook(tl) /\ tl.on = 0 /\ tlDue \in Nat
  BY <1>1, UnmountedHook DEF TLInit
<1>2. QED
  BY <1>1 DEF TLAskedInv, AskedForShown

LEMMA TLAskedKept ==
  ASSUME TLAskedInv, Keeps(tl, tl'), UNCHANGED <<tlDue, tlSaved>>
  PROVE  TLAskedInv'
BY DEF TLAskedInv, AskedForShown, SavedSearch, Keeps, IsHook

LEMMA TLAskedDue ==
  ASSUME TLAskedInv, NEW search, search # None, SetSearchParams(search)
  PROVE  TLAskedInv'
<1>1. tl' = SearchSet(tl, search) /\ tlDue' = tlDue + 1
  BY DEF SetSearchParams, Becomes
<1>2. IsHook(tl') /\ tl'.search = search
  BY <1>1, UpdatesKeep DEF TLAskedInv
<1>3. tlDue' \in Nat /\ tlDue' # 0
  BY <1>1 DEF TLAskedInv
<1>4. QED
  BY <1>2, <1>3 DEF TLAskedInv, AskedForShown, IsHook

LEMMA TLAskedFetched ==
  ASSUME NEW l, IsHook(l), l.on # 0 => l.search # None, FetchTransactions(l, FALSE), tlDue' \in Nat
  PROVE  TLAskedInv'
<1>1. tl' = FetchBegun(l, FALSE) /\ tlSaved' = l.search
  BY DEF FetchTransactions, Becomes
<1>2. Keeps(l, tl')
  BY <1>1, UpdatesKeep
<1>3. QED
  BY <1>1, <1>2 DEF TLAskedInv, AskedForShown, SavedSearch, Keeps, IsHook

LEMMA TLAskedStep == TLAskedInv /\ [TLNext]_tlVars => TLAskedInv'
<1> SUFFICES ASSUME TLAskedInv, [TLNext]_tlVars PROVE TLAskedInv'
  OBVIOUS
<1>0. IsHook(tl) /\ tlDue \in Nat
  BY DEF TLAskedInv
<1>00. {} # None
  BY NoneAssumption DEF Searches
<1>1. CASE TLOpen
  <2>1. PICK old \in BOOLEAN :
          LET entry == Usable(tlCache, SavedSearch, old)
              l     == Mounted(tlMounts + 1, SavedSearch, entry)
          IN  \/ FetchTransactions(l, FALSE)
              \/ tl' = l /\ UNCHANGED tlSaved
    BY <1>1, Zenon DEF TLOpen
  <2> DEFINE l == Mounted(tlMounts + 1, SavedSearch, Usable(tlCache, SavedSearch, old))
  <2>2. IsHook(l) /\ l.search = SavedSearch
    BY MountedHook
  <2>3. SavedSearch # None
    BY <1>00 DEF SavedSearch
  <2>4. tlDue' \in Nat
    BY <1>0, <1>1 DEF TLOpen, tlInput
  <2> HIDE DEF l
  <2>5. CASE FetchTransactions(l, FALSE)
    BY <2>2, <2>3, <2>4, <2>5, TLAskedFetched
  <2>6. CASE tl' = l /\ UNCHANGED tlSaved
    BY <2>2, <2>3, <2>4, <2>6 DEF TLAskedInv, AskedForShown, SavedSearch, IsHook
  <2>7. QED
    BY <2>1, <2>5, <2>6 DEF l
<1>2. CASE TLLeave
  <2>1. tl' = Unmounted /\ tlDue' = 0
    BY <1>2 DEF TLLeave
  <2>2. IsHook(tl') /\ tl'.on = 0
    BY <2>1, UnmountedHook
  <2>3. QED
    BY <2>1, <2>2 DEF TLAskedInv, AskedForShown, IsHook
<1>3. CASE UpdateFilter
  <2>1. UNCHANGED <<tl, tlDue, tlSaved>>
    BY <1>3 DEF UpdateFilter, tlScreen, tlSession
  <2>2. QED
    BY <1>0, <2>1, FlagsKeep, TLAskedKept
<1>4. CASE SubmitFilters
  <2>1. UNCHANGED tlSaved /\ tlTyped # None
    BY <1>4 DEF SubmitFilters
  <2>2. SetSearchParams(tlTyped) \/ UNCHANGED <<tl, tlDue>>
    BY <1>4 DEF SubmitFilters, tlScreen
  <2>3. QED
    BY <1>0, <2>1, <2>2, FlagsKeep, TLAskedKept, TLAskedDue
<1>5. CASE ClearFilters
  BY <1>00, <1>5, TLAskedDue DEF ClearFilters
<1>6. CASE FetchDue
  <2>1. FetchTransactions(tl, FALSE) /\ tlDue > 0 /\ tlDue' = tlDue - 1
    BY <1>6 DEF FetchDue
  <2>2. tlDue' \in Nat
    BY <1>0, <2>1
  <2>3. tl.on # 0 => tl.search # None
    BY DEF TLAskedInv
  <2>4. QED
    BY <1>0, <2>1, <2>2, <2>3, TLAskedFetched
<1>7. CASE ScrollToEnd
  <2>1. tl' = FetchBegun(tl, TRUE) /\ UNCHANGED <<tlDue, tlSaved>>
    BY <1>7 DEF ScrollToEnd, FetchTransactions, Becomes, tlInput
  <2>2. QED
    BY <1>0, <2>1, UpdatesKeep, TLAskedKept
<1>8. CASE FadeEnds
  <2>1. UNCHANGED <<tl, tlDue, tlSaved>>
    BY <1>8 DEF FadeEnds, tlInput, tlSession
  <2>2. QED
    BY <1>0, <2>1, FlagsKeep, TLAskedKept
<1>9. CASE EditRow
  <2>1. PICK kind, r : Edit(kind, r)
    BY <1>9 DEF EditRow, ConfirmType, ChooseTypeOrCategory, AddTag, RemoveTag
  <2>2. UNCHANGED <<tl, tlDue, tlSaved>>
    BY <2>1 DEF Edit, tlInput, tlSession
  <2>3. QED
    BY <1>0, <2>2, FlagsKeep, TLAskedKept
<1>10. ASSUME NEW i \in DOMAIN tlNet, Serve(i) PROVE TLAskedInv'
  <2>1. UNCHANGED <<tl, tlDue, tlSaved>>
    BY <1>10 DEF Serve, tlScreen, tlInput, tlSession
  <2>2. QED
    BY <1>0, <2>1, FlagsKeep, TLAskedKept
<1>11. ASSUME NEW i \in DOMAIN tlNet, Answer(i) PROVE TLAskedInv'
  <2>1. UNCHANGED <<tlDue, tlSaved>>
    BY <1>11 DEF Answer, tlInput, tlSession
  <2>2. \/ UNCHANGED tl
        \/ tl' = Fetched(tl, tlNet[i])
        \/ tl' = RowAnswered(tl, tlNet[i])
    BY <1>11 DEF Answer, Becomes, tlScreen
  <2>3. Keeps(tl, RowAnswered(tl, tlNet[i]))
    BY <1>0, FlagsKeep, UpdatesKeep DEF RowAnswered
  <2>4. Keeps(tl, Fetched(tl, tlNet[i])) /\ Keeps(tl, tl)
    BY <1>0, FlagsKeep, UpdatesKeep
  <2>5. Keeps(tl, tl')
    BY <2>2, <2>3, <2>4
  <2>6. QED
    BY <2>1, <2>5, TLAskedKept
<1>12. ASSUME NEW i \in DOMAIN tlNet, Fail(i) PROVE TLAskedInv'
  <2>1. /\ UNCHANGED <<tlDue, tlSaved>>
        /\ UNCHANGED tl \/ tl' = FetchFailed(tl)
    BY <1>12 DEF Fail, Becomes, tlScreen, tlInput, tlSession
  <2>2. QED
    BY <1>0, <2>1, FlagsKeep, UpdatesKeep, TLAskedKept
<1>13. CASE TransactionArrives
  <2>1. UNCHANGED <<tl, tlDue, tlSaved>>
    BY <1>13 DEF TransactionArrives, tlScreen, tlInput, tlSession
  <2>2. QED
    BY <1>0, <2>1, FlagsKeep, TLAskedKept
<1>14. CASE UNCHANGED tlVars
  <2>1. UNCHANGED <<tl, tlDue, tlSaved>>
    BY <1>14 DEF tlVars
  <2>2. QED
    BY <1>0, <2>1, FlagsKeep, TLAskedKept
<1>15. QED
  BY <1>1, <1>2, <1>3, <1>4, <1>5, <1>6, <1>7, <1>8, <1>9, <1>10, <1>11, <1>12, <1>13, <1>14
     DEF TLNext

-----------------------------------------------------------------------------
(* On both lists, whatever is asked, answered, edited or lost, in any order  *)
(* and on any visit: the search shown is the one last fetched for, which is  *)
(* the one kept for the next visit, unless its fetch is due.  So no change   *)
(* of a filter is forgotten while another fetch is under way.                *)
THEOREM SearchesStayAsked == WebSpec => []SearchesAsked
<1>1. WebInit => TLAskedInv /\ MLAskedInv
  BY TLAskedInit, MLAskedInit DEF WebInit
<1>2. TLAskedInv /\ MLAskedInv /\ [WebNext]_webVars => TLAskedInv' /\ MLAskedInv'
  <2>1. [WebNext]_webVars => [TLNext]_tlVars /\ [MLNext]_mlVars
    BY DEF WebNext, webVars
  <2>2. QED
    BY <2>1, TLAskedStep, MLAskedStep
<1>3. TLAskedInv /\ MLAskedInv => SearchesAsked
  BY DEF TLAskedInv, MLAskedInv, SearchesAsked
<1>4. QED
  BY <1>1, <1>2, <1>3, PTL DEF WebSpec

-----------------------------------------------------------------------------
(* The groups of the merchants' list.  While all comes in order, a merchant  *)
(* has at most one change of group under way, and the server has it where    *)
(* the requests served so far have brought it.                               *)

MoveFields == {"kind", "served", "id", "from", "to", "steps", "search"}

Steps(q) ==
  \/ q.steps = <<"remove", "add">> /\ q.from # None /\ q.to # None
  \/ q.steps = <<"add">> /\ q.to # None
  \/ q.steps = <<"remove">> /\ q.from # None /\ q.to = None

Message(q) ==
  /\ "kind" \in DOMAIN q /\ q.kind \in {"fetch", "update", "move"}
  /\ q.kind = "move" => q = [f \in MoveFields |-> q[f]] /\ q.served \in BOOLEAN /\ Steps(q)

Moves(q, m) == q.kind = "move" /\ q.id = m

Reached(q) ==
  CASE Head(q.steps) = "remove" /\ ~q.served -> q.from
    [] Head(q.steps) = "add" /\ q.served     -> q.to
    [] OTHER                                 -> None

StoredAs(m, g) == mlStore[m].group = g /\ mlStore[m].in = {g} \ {None}

GroupTyped ==
  /\ mlNet \in Seq(Range(mlNet))
  /\ \A j \in DOMAIN mlNet : Message(mlNet[j])
  /\ mlStore = [m \in Merchants |-> mlStore[m]]
  /\ \A m \in Merchants : {"group", "in"} \subseteq DOMAIN mlStore[m]
  /\ mlChosen = [m \in Merchants |-> mlChosen[m]]

OneMove == \A j, k \in DOMAIN mlNet :
             mlNet[j].kind = "move" /\ mlNet[k].kind = "move" /\ mlNet[j].id = mlNet[k].id => j = k

AtRest(m) == (\A j \in DOMAIN mlNet : ~Moves(mlNet[j], m)) => StoredAs(m, mlChosen[m])

UnderWay(m) == \A j \in DOMAIN mlNet :
                 Moves(mlNet[j], m) => /\ StoredAs(m, Reached(mlNet[j]))
                                       /\ mlNet[j].to = mlChosen[m]

GroupsFollow == GroupTyped /\ OneMove /\ \A m \in Merchants : AtRest(m) /\ UnderWay(m)

GroupInv == mlCalm \in BOOLEAN /\ (mlCalm => GroupsFollow)

LEMMA GroupInit == MLInit => GroupInv
<1> SUFFICES ASSUME MLInit PROVE GroupInv
  OBVIOUS
<1>1. mlNet = << >> /\ DOMAIN mlNet = {}
  BY DEF MLInit
<1>2. mlNet \in Seq(Range(mlNet))
  BY <1>1
<1>3. mlStore = [m \in Merchants |-> mlStore[m]] /\ mlChosen = [m \in Merchants |-> mlChosen[m]]
  BY DEF MLInit
<1>4. \A m \in Merchants : {"group", "in"} \subseteq DOMAIN mlStore[m]
  BY DEF MLInit
<1>5. \A m \in Merchants : StoredAs(m, mlChosen[m])
  BY GroupAssumption DEF MLInit, StoredAs, Groups
<1>6. mlCalm \in BOOLEAN
  BY DEF MLInit
<1>7. QED
  BY <1>1, <1>2, <1>3, <1>4, <1>5, <1>6
     DEF GroupInv, GroupsFollow, GroupTyped, OneMove, AtRest, UnderWay

(* f says which request each request there is now was before.                *)
Carried(f) ==
  /\ \A j \in DOMAIN mlNet' : mlNet'[j].kind = "move" =>
       /\ f[j] \in DOMAIN mlNet
       /\ mlNet[f[j]].kind = "move"
       /\ mlNet[f[j]].id = mlNet'[j].id
       /\ mlNet[f[j]].to = mlNet'[j].to
  /\ \A j, k \in DOMAIN mlNet' : f[j] = f[k] => j = k
  /\ \A k \in DOMAIN mlNet : mlNet[k].kind = "move" =>
       \E j \in DOMAIN mlNet' : f[j] = k /\ mlNet'[j].kind = "move"

LEMMA GroupsCarried ==
  ASSUME GroupsFollow, GroupTyped', NEW f, Carried(f), UNCHANGED mlChosen,
         \A m \in Merchants : (\A j \in DOMAIN mlNet : ~Moves(mlNet[j], m)) =>
            mlStore'[m].group = mlStore[m].group /\ mlStore'[m].in = mlStore[m].in,
         \A m \in Merchants : \A j \in DOMAIN mlNet' :
            Moves(mlNet'[j], m) => StoredAs(m, Reached(mlNet[j]))'
  PROVE  GroupsFollow'
<1>1. OneMove'
  BY DEF GroupsFollow, OneMove, Carried
<1>2. ASSUME NEW m \in Merchants PROVE AtRest(m)'
  BY DEF GroupsFollow, AtRest, StoredAs, Carried, Moves
<1>3. ASSUME NEW m \in Merchants, NEW j \in DOMAIN mlNet', Moves(mlNet'[j], m)
      PROVE  StoredAs(m, Reached(mlNet[j]))' /\ mlNet'[j].to = mlChosen'[m]
  <2>1. StoredAs(m, Reached(mlNet[j]))'
    BY <1>3
  <2>2. f[j] \in DOMAIN mlNet /\ Moves(mlNet[f[j]], m) /\ mlNet[f[j]].to = mlNet'[j].to
    BY <1>3 DEF Carried, Moves
  <2>3. mlNet[f[j]].to = mlChosen[m]
    BY <2>2 DEF GroupsFollow, UnderWay
  <2>4. QED
    BY <2>1, <2>2, <2>3
<1>4. ASSUME NEW m \in Merchants PROVE UnderWay(m)'
  BY <1>3 DEF UnderWay
<1>5. QED
  BY <1>1, <1>2, <1>4 DEF GroupsFollow

(* A request that moves no merchant is sent, or leaves.                      *)
LEMMA NoMoveSent ==
  ASSUME GroupsFollow, NEW q, Message(q), q.kind # "move", mlNet' = Append(mlNet, q),
         UNCHANGED <<mlStore, mlChosen>>
  PROVE  GroupsFollow'
<1> DEFINE f == [j \in DOMAIN mlNet' |-> j]
<1>1. mlNet \in Seq(Range(mlNet)) /\ \A j \in DOMAIN mlNet : Message(mlNet[j])
  BY DEF GroupsFollow, GroupTyped
<1>2. /\ mlNet' \in Seq(Range(mlNet'))
      /\ DOMAIN mlNet' = 1..(Len(mlNet) + 1)
      /\ DOMAIN mlNet = 1..Len(mlNet) /\ Len(mlNet) \in Nat
      /\ \A j \in DOMAIN mlNet : mlNet'[j] = mlNet[j]
      /\ mlNet'[Len(mlNet) + 1] = q
  BY <1>1, NetAppended
<1>3. \A j \in DOMAIN mlNet' : j \in DOMAIN mlNet \/ mlNet'[j] = q
  BY <1>2
<1>4. \A j \in DOMAIN mlNet : j \in DOMAIN mlNet'
  BY <1>2
<1>5. GroupTyped'
  <2>1. \A j \in DOMAIN mlNet' : Message(mlNet'[j])
    BY <1>1, <1>2, <1>3
  <2>2. QED
    BY <1>2, <2>1 DEF GroupsFollow, GroupTyped
<1>6. Carried(f)
  BY <1>2, <1>3, <1>4 DEF Carried
<1>7. ASSUME NEW m \in Merchants, NEW j \in DOMAIN mlNet', Moves(mlNet'[j], m)
      PROVE  StoredAs(m, Reached(mlNet[j]))'
  <2>1. j \in DOMAIN mlNet /\ mlNet'[j] = mlNet[j]
    BY <1>2, <1>3, <1>7 DEF Moves
  <2>2. StoredAs(m, Reached(mlNet[j]))
    BY <1>7, <2>1 DEF GroupsFollow, UnderWay
  <2>3. QED
    BY <2>1, <2>2 DEF StoredAs, Reached
<1> HIDE DEF f
<1>8. QED
  BY <1>5, <1>6, <1>7, GroupsCarried

LEMMA NoMoveLeft ==
  ASSUME GroupsFollow, NEW i \in DOMAIN mlNet, mlNet[i].kind # "move",
         mlNet' = RemoveAt(mlNet, i), UNCHANGED <<mlStore, mlChosen>>
  PROVE  GroupsFollow'
<1> DEFINE f == [j \in DOMAIN mlNet' |-> IF j < i THEN j ELSE j + 1]
<1>1. mlNet \in Seq(Range(mlNet)) /\ \A j \in DOMAIN mlNet : Message(mlNet[j])
  BY DEF GroupsFollow, GroupTyped
<1>2. /\ mlNet' \in Seq(Range(mlNet'))
      /\ DOMAIN mlNet = 1..Len(mlNet) /\ Len(mlNet) \in Nat
      /\ DOMAIN mlNet' = 1..(Len(mlNet) - 1)
      /\ \A j \in DOMAIN mlNet' : mlNet'[j] = IF j < i THEN mlNet[j] ELSE mlNet[j + 1]
  BY <1>1, NetRemoved
<1>3. \A j \in DOMAIN mlNet' : f[j] \in DOMAIN mlNet /\ mlNet'[j] = mlNet[f[j]]
  BY <1>2
<1>4. \A j, k \in DOMAIN mlNet' : f[j] = f[k] => j = k
  BY <1>2
<1>5. ASSUME NEW k \in DOMAIN mlNet, k # i PROVE \E j \in DOMAIN mlNet' : f[j] = k
  <2>1. CASE k < i
    BY <1>2, <2>1
  <2>2. CASE k > i
    <3>1. k - 1 \in DOMAIN mlNet' /\ ~(k - 1 < i) /\ (k - 1) + 1 = k
      BY <1>2, <2>2
    <3>2. f[k - 1] = k
      BY <3>1
    <3>3. QED
      BY <3>1, <3>2
  <2>3. QED
    BY <1>2, <1>5, <2>1, <2>2
<1> HIDE DEF f
<1>6. GroupTyped'
  <2>1. \A j \in DOMAIN mlNet' : Message(mlNet'[j])
    BY <1>1, <1>2, <1>3
  <2>2. QED
    BY <1>2, <2>1 DEF GroupsFollow, GroupTyped
<1>7. Carried(f)
  BY <1>3, <1>4, <1>5 DEF Carried
<1>8. ASSUME NEW m \in Merchants, NEW j \in DOMAIN mlNet', Moves(mlNet'[j], m)
      PROVE  StoredAs(m, Reached(mlNet[j]))'
  <2>1. f[j] \in DOMAIN mlNet /\ mlNet'[j] = mlNet[f[j]]
    BY <1>3
  <2>2. StoredAs(m, Reached(mlNet[f[j]]))
    BY <1>8, <2>1 DEF GroupsFollow, UnderWay
  <2>3. QED
    BY <2>1, <2>2 DEF StoredAs, Reached
<1>9. QED
  BY <1>6, <1>7, <1>8, GroupsCarried

(* A request is served: it stays what it asks for, and the server writes at  *)
(* most the group of the merchant that it moves.                             *)
LEMMA EntryServed ==
  ASSUME GroupsFollow, NEW i \in DOMAIN mlNet, mlNet' = [mlNet EXCEPT ![i] = mlNet'[i]],
         Message(mlNet'[i]), mlNet'[i].kind = mlNet[i].kind,
         mlNet[i].kind = "move" => mlNet'[i].id = mlNet[i].id /\ mlNet'[i].to = mlNet[i].to,
         UNCHANGED mlChosen,
         mlStore' = [m \in Merchants |-> mlStore'[m]],
         \A m \in Merchants : {"group", "in"} \subseteq DOMAIN mlStore'[m],
         \A m \in Merchants : ~Moves(mlNet[i], m) =>
            mlStore'[m].group = mlStore[m].group /\ mlStore'[m].in = mlStore[m].in,
         \A m \in Merchants : Moves(mlNet[i], m) => StoredAs(m, Reached(mlNet[i]))'
  PROVE  GroupsFollow'
<1> DEFINE f == [j \in DOMAIN mlNet' |-> j]
<1>1. mlNet \in Seq(Range(mlNet)) /\ \A j \in DOMAIN mlNet : Message(mlNet[j])
  BY DEF GroupsFollow, GroupTyped
<1>2. /\ mlNet' \in Seq(Range(mlNet'))
      /\ DOMAIN mlNet' = DOMAIN mlNet
      /\ \A j \in DOMAIN mlNet : j # i => mlNet'[j] = mlNet[j]
  <2> DEFINE e == mlNet'[i]
             t == [mlNet EXCEPT ![i] = e]
  <2>1. mlNet' = t
    OBVIOUS
  <2> HIDE DEF e
  <2>2. /\ t \in Seq(Range(t))
        /\ DOMAIN t = DOMAIN mlNet
        /\ \A j \in DOMAIN mlNet : t[j] = IF j = i THEN e ELSE mlNet[j]
    BY <1>1, NetReplaced
  <2> HIDE DEF t
  <2>3. QED
    BY <2>1, <2>2
<1>3. GroupTyped'
  <2>1. \A j \in DOMAIN mlNet' : Message(mlNet'[j])
    BY <1>1, <1>2
  <2>2. QED
    BY <1>2, <2>1 DEF GroupsFollow, GroupTyped
<1>4. Carried(f)
  BY <1>2 DEF Carried
<1>5. \A m \in Merchants : (\A j \in DOMAIN mlNet : ~Moves(mlNet[j], m)) =>
         mlStore'[m].group = mlStore[m].group /\ mlStore'[m].in = mlStore[m].in
  OBVIOUS
<1>6. ASSUME NEW m \in Merchants, NEW j \in DOMAIN mlNet', Moves(mlNet'[j], m)
      PROVE  StoredAs(m, Reached(mlNet[j]))'
  <2>1. CASE j = i
    <3>1. Moves(mlNet[i], m)
      BY <1>6, <2>1 DEF Moves
    <3>2. QED
      BY <2>1, <3>1
  <2>2. CASE j # i
    <3>1. j \in DOMAIN mlNet /\ mlNet'[j] = mlNet[j] /\ Moves(mlNet[j], m)
      BY <1>2, <1>6, <2>2
    <3>2. ~Moves(mlNet[i], m)
      BY <2>2, <3>1 DEF GroupsFollow, OneMove, Moves
    <3>3. StoredAs(m, Reached(mlNet[j]))
      BY <3>1 DEF GroupsFollow, UnderWay
    <3>4. mlStore'[m].group = mlStore[m].group /\ mlStore'[m].in = mlStore[m].in
      BY <3>2
    <3>5. QED
      BY <3>1, <3>3, <3>4 DEF StoredAs, Reached
  <2>3. QED
    BY <2>1, <2>2
<1> HIDE DEF f
<1>7. QED
  BY <1>3, <1>4, <1>5, <1>6, GroupsCarried

LEMMA GroupServes ==
  ASSUME GroupsFollow, NEW i \in DOMAIN mlNet, MLServe(i)
  PROVE  GroupsFollow'
<1> DEFINE q == mlNet[i]
<1>1. Message(q) /\ UNCHANGED mlChosen
  BY DEF GroupsFollow, GroupTyped, MLServe
<1>2. /\ mlStore = [m \in Merchants |-> mlStore[m]]
      /\ \A m \in Merchants : {"group", "in"} \subseteq DOMAIN mlStore[m]
  BY DEF GroupsFollow, GroupTyped
<1>3. CASE q.kind = "fetch"
  <2> DEFINE e == [q EXCEPT !.served = TRUE,
                            !.items = PageOf(MerchantsFound(mlStore, q.search), q.page),
                            !.pages = Pages(MerchantsFound(mlStore, q.search))]
  <2>1. mlNet' = [mlNet EXCEPT ![i] = e] /\ UNCHANGED mlStore
    BY <1>3 DEF MLServe
  <2>2. Message(e) /\ e.kind = "fetch"
    BY <1>1, <1>3 DEF Message
  <2>3. mlNet'[i] = e
    BY <2>1
  <2> HIDE DEF e
  <2>4. QED
    BY <1>1, <1>2, <1>3, <2>1, <2>2, <2>3, EntryServed DEF Moves
<1>4. CASE q.kind = "update"
  <2> DEFINE e == [q EXCEPT !.served = TRUE, !.row = MerchantRow(mlStore', q.id)]
  <2>1. mlNet' = [mlNet EXCEPT ![i] = e]
    BY <1>4 DEF MLServe
  <2>2. Message(e) /\ e.kind = "update"
    BY <1>1, <1>4 DEF Message
  <2>3. mlNet'[i] = e
    BY <2>1
  <2>4. mlStore' = [mlStore EXCEPT ![q.id] = [@ EXCEPT !.edited = TRUE]]
    <3>1. mlStore' = [mlStore EXCEPT ![q.id] = Written(@, q)]
      BY <1>4 DEF MLServe
    <3>2. Written(mlStore[q.id], q) = [mlStore[q.id] EXCEPT !.edited = TRUE]
      BY <1>4 DEF Written
    <3>3. QED
      BY <3>1, <3>2
  <2>5. /\ mlStore' = [m \in Merchants |-> mlStore'[m]]
        /\ \A m \in Merchants : /\ {"group", "in"} \subseteq DOMAIN mlStore'[m]
                                /\ mlStore'[m].group = mlStore[m].group
                                /\ mlStore'[m].in = mlStore[m].in
    BY <1>2, <2>4
  <2> HIDE DEF e
  <2>6. QED
    BY <1>1, <1>4, <2>1, <2>2, <2>3, <2>5, EntryServed DEF Moves
<1>5. CASE q.kind = "move"
  <2> DEFINE e == [q EXCEPT !.served = TRUE]
  <2>1. mlNet' = [mlNet EXCEPT ![i] = e] /\ ~q.served
    BY <1>5 DEF MLServe
  <2>2. q = [x \in MoveFields |-> q[x]] /\ q.served \in BOOLEAN /\ Steps(q)
    BY <1>1, <1>5 DEF Message
  <2>3. /\ e = [x \in MoveFields |-> e[x]] /\ e.served = TRUE
        /\ e.kind = "move" /\ e.id = q.id /\ e.from = q.from /\ e.to = q.to /\ e.steps = q.steps
    BY <1>5, <2>2 DEF MoveFields
  <2>4. mlNet'[i] = e
    BY <2>1
  <2>5. mlStore' = [mlStore EXCEPT ![q.id] = Written(@, q)]
    BY <1>5 DEF MLServe
  <2> HIDE DEF e
  <2>6. Message(e)
    BY <2>2, <2>3 DEF Message, Steps, MoveFields
  <2>7. /\ mlStore' = [m \in Merchants |-> mlStore'[m]]
        /\ \A m \in Merchants : m # q.id => mlStore'[m] = mlStore[m]
        /\ q.id \in Merchants => mlStore'[q.id] = Written(mlStore[q.id], q)
    BY <1>2, <2>5
  <2>8. ASSUME NEW m \in Merchants, m = q.id
        PROVE  {"group", "in"} \subseteq DOMAIN mlStore'[m] /\ StoredAs(m, Reached(mlNet[i]))'
    <3>1. StoredAs(m, Reached(q))
      BY <1>5, <2>8 DEF GroupsFollow, UnderWay, Moves
    <3>2. CASE Head(q.steps) = "add"
      <4>1. q.steps # <<"remove", "add">> /\ q.steps # <<"remove">>
        BY <3>2
      <4>2. q.to # None
        BY <2>2, <4>1 DEF Steps
      <4>3. mlStore[m].in = {}
        BY <2>1, <3>1, <3>2 DEF StoredAs, Reached
      <4>4. mlStore'[m] = [mlStore[m] EXCEPT !.group = q.to, !.in = @ \cup {q.to}]
        BY <1>5, <2>7, <2>8, <3>2 DEF Written
      <4>5. /\ {"group", "in"} \subseteq DOMAIN mlStore'[m]
            /\ mlStore'[m].group = q.to /\ mlStore'[m].in = {q.to}
        BY <1>2, <2>8, <4>3, <4>4
      <4>6. Reached(mlNet'[i]) = q.to
        BY <2>3, <2>4, <3>2 DEF Reached
      <4>7. QED
        BY <4>2, <4>5, <4>6 DEF StoredAs
    <3>3. CASE Head(q.steps) = "remove"
      <4>1. q.from # None
        BY <2>2, <3>3 DEF Steps
      <4>2. mlStore[m].in = {q.from}
        BY <2>1, <3>1, <3>3, <4>1 DEF StoredAs, Reached
      <4>3. mlStore'[m] = [mlStore[m] EXCEPT !.group = None, !.in = @ \ {q.from}]
        BY <1>5, <2>7, <2>8, <3>3 DEF Written
      <4>4. /\ {"group", "in"} \subseteq DOMAIN mlStore'[m]
            /\ mlStore'[m].group = None /\ mlStore'[m].in = {}
        BY <1>2, <2>8, <4>2, <4>3
      <4>5. Reached(mlNet'[i]) = None
        BY <2>3, <2>4, <3>3 DEF Reached
      <4>6. QED
        BY <4>4, <4>5 DEF StoredAs
    <3>4. QED
      BY <2>2, <3>2, <3>3 DEF Steps
  <2>9. QED
    BY <1>1, <1>2, <1>5, <2>1, <2>3, <2>4, <2>6, <2>7, <2>8, EntryServed DEF Moves
<1>6. QED
  BY <1>1, <1>3, <1>4, <1>5 DEF Message

LEMMA StepLists ==
  /\ \A q : q.steps = <<"add">> => Len(q.steps) = 1 /\ Head(q.steps) = "add"
  /\ \A q : q.steps = <<"remove">> => Len(q.steps) = 1 /\ Head(q.steps) = "remove"
  /\ \A q : q.steps = <<"remove", "add">> => /\ Len(q.steps) = 2
                                             /\ Head(q.steps) = "remove"
                                             /\ Tail(q.steps) = <<"add">>
<1>1. Len(<<"add">>) = 1 /\ Head(<<"add">>) = "add"
  OBVIOUS
<1>2. Len(<<"remove">>) = 1 /\ Head(<<"remove">>) = "remove"
  OBVIOUS
<1>3. Len(<<"remove", "add">>) = 2 /\ Head(<<"remove", "add">>) = "remove"
  OBVIOUS
<1>4. Tail(<<"remove", "add">>) = <<"add">>
  OBVIOUS
<1>5. QED
  BY <1>1, <1>2, <1>3, <1>4, Zenon

(* The next request of a change of group is sent: the one that is answered   *)
(* leaves, and takes nothing that was reached with it.                       *)
LEMMA MoveGoesOn ==
  ASSUME GroupsFollow, NEW i \in DOMAIN mlNet, mlNet[i].kind = "move", mlNet[i].served,
         Len(mlNet[i].steps) > 1,
         mlNet' = Append(RemoveAt(mlNet, i), [mlNet[i] EXCEPT !.steps = Tail(@), !.served = FALSE]),
         UNCHANGED <<mlStore, mlChosen>>
  PROVE  GroupsFollow'
<1> DEFINE q == mlNet[i]
           e == [q EXCEPT !.steps = Tail(@), !.served = FALSE]
           n == Len(mlNet)
           f == [j \in DOMAIN mlNet' |-> IF j = n THEN i ELSE IF j < i THEN j ELSE j + 1]
<1>1. mlNet \in Seq(Range(mlNet)) /\ \A j \in DOMAIN mlNet : Message(mlNet[j])
  BY DEF GroupsFollow, GroupTyped
<1>2. q = [x \in MoveFields |-> q[x]] /\ q.served = TRUE /\ Steps(q)
  BY <1>1 DEF Message
<1>3. q.steps = <<"remove", "add">> /\ q.from # None /\ q.to # None
  <2>0. ~(1 > 1)
    OBVIOUS
  <2>1. Len(q.steps) # 1
    BY <2>0, Zenon
  <2>2. q.steps # <<"add">> /\ q.steps # <<"remove">>
    BY <2>1, StepLists, Zenon
  <2>3. QED
    BY <1>2, <2>2, Zenon DEF Steps
<1>4. /\ e = [x \in MoveFields |-> e[x]] /\ e.served = FALSE /\ e.steps = <<"add">>
      /\ e.kind = "move" /\ e.id = q.id /\ e.to = q.to
  <2>1. Tail(q.steps) = <<"add">>
    BY <1>3, StepLists, Zenon
  <2>2. QED
    BY <1>2, <2>1 DEF MoveFields
<1> HIDE DEF e
<1>5. Message(e)
  <2>1. "kind" \in DOMAIN e
    BY <1>4 DEF MoveFields
  <2>2. Steps(e)
    BY <1>3, <1>4 DEF Steps
  <2>3. QED
    BY <1>4, <2>1, <2>2 DEF Message
<1>6. Reached(q) = None /\ Reached(e) = None
  <2>1. Head(q.steps) = "remove" /\ Head(e.steps) = "add"
    BY <1>3, <1>4, StepLists, Zenon
  <2>2. QED
    BY <1>2, <1>4, <2>1 DEF Reached
<1>7. /\ mlNet' \in Seq(Range(mlNet'))
      /\ n \in Nat /\ DOMAIN mlNet = 1..n /\ DOMAIN mlNet' = 1..n /\ i \in 1..n
      /\ \A j \in 1..n : j # n => mlNet'[j] = IF j < i THEN mlNet[j] ELSE mlNet[j + 1]
      /\ mlNet'[n] = e
  <2> DEFINE r == RemoveAt(mlNet, i)
  <2>1. /\ r \in Seq(Range(r)) /\ Len(r) = n - 1
        /\ n \in Nat /\ DOMAIN mlNet = 1..n /\ DOMAIN r = 1..(n - 1)
        /\ \A j \in 1..(n - 1) : r[j] = IF j < i THEN mlNet[j] ELSE mlNet[j + 1]
    BY <1>1, NetRemoved
  <2>2. mlNet' = Append(r, e)
    BY DEF e
  <2> HIDE DEF r
  <2>3. i \in 1..n /\ (n - 1) + 1 = n
    BY <2>1
  <2> HIDE DEF n
  <2>4. /\ mlNet' \in Seq(Range(mlNet'))
        /\ DOMAIN mlNet' = 1..n
        /\ \A j \in 1..(n - 1) : mlNet'[j] = r[j]
        /\ mlNet'[n] = e
    <3>1. /\ Append(r, e) \in Seq(Range(Append(r, e)))
          /\ DOMAIN Append(r, e) = 1..(Len(r) + 1)
          /\ \A j \in 1..Len(r) : Append(r, e)[j] = r[j]
          /\ Append(r, e)[Len(r) + 1] = e
      BY <2>1, NetAppended
    <3>2. Len(r) + 1 = n
      BY <2>1, <2>3
    <3>3. QED
      BY <2>1, <2>2, <3>1, <3>2
  <2>5. \A j \in 1..n : j # n => j \in 1..(n - 1)
    BY <2>1
  <2>6. QED
    BY <2>1, <2>3, <2>4, <2>5
<1> HIDE DEF n
<1>8. \A j \in DOMAIN mlNet' : /\ f[j] \in DOMAIN mlNet
                               /\ j # n => mlNet'[j] = mlNet[f[j]] /\ f[j] # i
                               /\ j = n => mlNet'[j] = e /\ f[j] = i
  BY <1>7
<1>9. \A j, k \in DOMAIN mlNet' : f[j] = f[k] => j = k
  BY <1>7
<1>10. ASSUME NEW k \in DOMAIN mlNet PROVE \E j \in DOMAIN mlNet' : f[j] = k
  <2>1. CASE k = i
    BY <1>7, <2>1
  <2>2. CASE k < i
    BY <1>7, <2>2
  <2>3. CASE k > i
    <3>1. k - 1 \in DOMAIN mlNet' /\ ~(k - 1 < i) /\ (k - 1) + 1 = k /\ k - 1 # n
      BY <1>7, <2>3
    <3>2. f[k - 1] = k
      BY <3>1
    <3>3. QED
      BY <3>1, <3>2
  <2>4. QED
    BY <1>7, <2>1, <2>2, <2>3
<1> HIDE DEF f
<1>11. GroupTyped'
  <2>1. \A j \in DOMAIN mlNet' : Message(mlNet'[j])
    BY <1>1, <1>5, <1>8
  <2>2. QED
    BY <1>7, <2>1 DEF GroupsFollow, GroupTyped
<1>12. \A j \in DOMAIN mlNet' : /\ mlNet[f[j]].kind = mlNet'[j].kind
                                /\ mlNet[f[j]].id = mlNet'[j].id
                                /\ mlNet[f[j]].to = mlNet'[j].to
  BY <1>4, <1>8
<1>13. Carried(f)
  BY SMTT(30), <1>8, <1>9, <1>10, <1>12 DEF Carried
<1>14. ASSUME NEW m \in Merchants, NEW j \in DOMAIN mlNet', Moves(mlNet'[j], m)
       PROVE  StoredAs(m, Reached(mlNet[j]))'
  <2>1. StoredAs(m, Reached(mlNet[f[j]]))
    BY <1>8, <1>12, <1>14 DEF GroupsFollow, UnderWay, Moves
  <2>2. Reached(mlNet'[j]) = Reached(mlNet[f[j]])
    <3>1. CASE j = n
      BY <1>6, <1>8, <3>1
    <3>2. CASE j # n
      BY <1>8, <3>2
    <3>3. QED
      BY <3>1, <3>2
  <2>3. QED
    BY <2>1, <2>2 DEF StoredAs
<1>15. QED
  BY <1>11, <1>13, <1>14, GroupsCarried

(* The last request of a change of group is answered: the merchant is where  *)
(* it was to go, and no change of it is under way.                           *)
LEMMA MoveEnds ==
  ASSUME GroupsFollow, NEW i \in DOMAIN mlNet, mlNet[i].kind = "move", mlNet[i].served,
         ~(Len(mlNet[i].steps) > 1),
         mlNet' = RemoveAt(mlNet, i), UNCHANGED <<mlStore, mlChosen>>
  PROVE  GroupsFollow'
<1> DEFINE q == mlNet[i]
           n == Len(mlNet)
<1>1. mlNet \in Seq(Range(mlNet)) /\ \A j \in DOMAIN mlNet : Message(mlNet[j])
  BY DEF GroupsFollow, GroupTyped
<1>2. q.served = TRUE /\ Steps(q)
  BY <1>1 DEF Message
<1>3. Reached(q) = q.to
  <2>0. 2 > 1
    OBVIOUS
  <2>1. Len(q.steps) # 2
    BY <2>0, Zenon
  <2>2. q.steps # <<"remove", "add">>
    BY <2>1, StepLists, Zenon
  <2>3. \/ Head(q.steps) = "add"
        \/ Head(q.steps) = "remove" /\ q.to = None
    BY <1>2, <2>2, StepLists, Zenon DEF Steps
  <2>4. QED
    BY <1>2, <2>3 DEF Reached
<1>4. /\ mlNet' \in Seq(Range(mlNet'))
      /\ n \in Nat /\ DOMAIN mlNet = 1..n /\ DOMAIN mlNet' = 1..(n - 1)
      /\ \A j \in DOMAIN mlNet' : mlNet'[j] = IF j < i THEN mlNet[j] ELSE mlNet[j + 1]
  BY <1>1, NetRemoved
<1>5. ASSUME NEW j \in DOMAIN mlNet'
      PROVE  \E k \in DOMAIN mlNet : k # i /\ mlNet'[j] = mlNet[k] /\ k = IF j < i THEN j ELSE j + 1
  BY <1>4
<1>6. ASSUME NEW k \in DOMAIN mlNet, k # i PROVE \E j \in DOMAIN mlNet' : mlNet'[j] = mlNet[k]
  <2>1. CASE k < i
    BY <1>4, <2>1
  <2>2. CASE k > i
    <3>1. k - 1 \in DOMAIN mlNet' /\ ~(k - 1 < i) /\ (k - 1) + 1 = k
      BY <1>4, <2>2
    <3>2. mlNet'[k - 1] = mlNet[k]
      BY <1>4, <3>1
    <3>3. QED
      BY <3>1, <3>2
  <2>3. QED
    BY <1>4, <1>6, <2>1, <2>2
<1>7. GroupTyped'
  <2>1. \A j \in DOMAIN mlNet' : Message(mlNet'[j])
    BY <1>1, <1>5
  <2>2. QED
    BY <1>4, <2>1 DEF GroupsFollow, GroupTyped
<1>8. OneMove'
  <2> SUFFICES ASSUME NEW j \in DOMAIN mlNet', NEW k \in DOMAIN mlNet',
                      mlNet'[j].kind = "move", mlNet'[k].kind = "move", mlNet'[j].id = mlNet'[k].id
               PROVE  j = k
    BY DEF OneMove
  <2>1. PICK a \in DOMAIN mlNet : mlNet'[j] = mlNet[a] /\ a = IF j < i THEN j ELSE j + 1
    BY <1>5
  <2>2. PICK b \in DOMAIN mlNet : mlNet'[k] = mlNet[b] /\ b = IF k < i THEN k ELSE k + 1
    BY <1>5
  <2>3. a = b
    BY <2>1, <2>2 DEF GroupsFollow, OneMove
  <2>4. QED
    BY <1>4, <2>1, <2>2, <2>3
<1>9. ASSUME NEW m \in Merchants PROVE AtRest(m)'
  <2>1. CASE Moves(q, m)
    BY <1>3, <2>1 DEF GroupsFollow, UnderWay, AtRest, StoredAs
  <2>2. CASE ~Moves(q, m)
    BY <1>6, <2>2 DEF GroupsFollow, AtRest, StoredAs
  <2>3. QED
    BY <2>1, <2>2
<1>10. ASSUME NEW m \in Merchants PROVE UnderWay(m)'
  BY <1>5 DEF GroupsFollow, UnderWay, StoredAs
<1>11. QED
  BY <1>7, <1>8, <1>9, <1>10 DEF GroupsFollow

LEMMA GroupStepsOf ==
  ASSUME NEW current, NEW new
  PROVE  /\ GroupSteps(current, new) = << >> => new = current
         /\ GroupSteps(current, new) # << >> =>
              \/ GroupSteps(current, new) = <<"remove", "add">> /\ current # None /\ new # None
              \/ GroupSteps(current, new) = <<"add">> /\ current = None /\ new # None
              \/ GroupSteps(current, new) = <<"remove">> /\ current # None /\ new = None
<1>1. CASE current # None /\ new # None /\ current # new
  <2>1. GroupSteps(current, new) = <<"remove", "add">>
    BY <1>1 DEF GroupSteps
  <2>2. <<"remove", "add">> # << >>
    OBVIOUS
  <2>3. QED
    BY <1>1, <2>1, <2>2, Zenon
<1>2. CASE current = None /\ new # None
  <2>1. GroupSteps(current, new) = <<"add">>
    BY <1>2 DEF GroupSteps
  <2>2. <<"add">> # << >>
    OBVIOUS
  <2>3. QED
    BY <1>2, <2>1, <2>2, Zenon
<1>3. CASE current # None /\ new = None
  <2>1. GroupSteps(current, new) = <<"remove">>
    BY <1>3 DEF GroupSteps
  <2>2. <<"remove">> # << >>
    OBVIOUS
  <2>3. QED
    BY <1>3, <2>1, <2>2, Zenon
<1>4. CASE current = new
  <2>1. GroupSteps(current, new) = << >>
    BY <1>4 DEF GroupSteps
  <2>2. QED
    BY <1>4, <2>1, Zenon
<1>5. QED
  BY <1>1, <1>2, <1>3, <1>4, Zenon

(* A group is chosen on a row that shows what the server has, and no change  *)
(* of the merchant is under way.                                             *)
LEMMA MoveChosen ==
  ASSUME GroupsFollow, NEW id, NEW g, NEW current, NEW search, current = mlStore[id].group,
         \A j \in DOMAIN mlNet : ~Moves(mlNet[j], id),
         UNCHANGED mlStore, mlChosen' = [mlChosen EXCEPT ![id] = g],
         \/ GroupSteps(current, g) = << >> /\ UNCHANGED mlNet
         \/ /\ GroupSteps(current, g) # << >>
            /\ mlNet' = Append(mlNet, [kind |-> "move", served |-> FALSE, id |-> id,
                                       from |-> current, to |-> g,
                                       steps |-> GroupSteps(current, g), search |-> search])
  PROVE  GroupsFollow'
<1>1. mlNet \in Seq(Range(mlNet)) /\ \A j \in DOMAIN mlNet : Message(mlNet[j])
  BY DEF GroupsFollow, GroupTyped
<1>2. /\ mlChosen' = [m \in Merchants |-> mlChosen'[m]]
      /\ \A m \in Merchants : mlChosen'[m] = IF m = id THEN g ELSE mlChosen[m]
  BY DEF GroupsFollow, GroupTyped
<1>3. id \in Merchants => StoredAs(id, current)
  <2>1. id \in Merchants => StoredAs(id, mlChosen[id])
    BY DEF GroupsFollow, AtRest
  <2>2. QED
    BY <2>1 DEF StoredAs
<1>4. CASE GroupSteps(current, g) = << >> /\ UNCHANGED mlNet
  <2>1. g = current
    BY <1>4, GroupStepsOf
  <2>2. GroupTyped' /\ OneMove'
    BY <1>2, <1>4 DEF GroupsFollow, GroupTyped, OneMove
  <2>3. ASSUME NEW m \in Merchants PROVE AtRest(m)'
    <3>1. CASE m = id
      BY <1>2, <1>3, <1>4, <2>1, <3>1 DEF AtRest, StoredAs
    <3>2. CASE m # id
      BY <1>2, <1>4, <3>2 DEF GroupsFollow, AtRest, StoredAs
    <3>3. QED
      BY <3>1, <3>2
  <2>4. ASSUME NEW m \in Merchants PROVE UnderWay(m)'
    <3>1. CASE m = id
      BY <1>4, <3>1 DEF UnderWay
    <3>2. CASE m # id
      BY <1>2, <1>4, <3>2 DEF GroupsFollow, UnderWay, StoredAs
    <3>3. QED
      BY <3>1, <3>2
  <2>5. QED
    BY <2>2, <2>3, <2>4 DEF GroupsFollow
<1>5. CASE GroupSteps(current, g) # << >>
  <2> DEFINE q == [kind |-> "move", served |-> FALSE, id |-> id, from |-> current, to |-> g,
                   steps |-> GroupSteps(current, g), search |-> search]
             n == Len(mlNet) + 1
  <2>1. mlNet' = Append(mlNet, q)
    BY <1>5
  <2>2. /\ q = [x \in MoveFields |-> q[x]] /\ "kind" \in DOMAIN q
        /\ q.kind = "move" /\ q.served = FALSE /\ q.id = id /\ q.from = current /\ q.to = g
        /\ q.steps = GroupSteps(current, g)
    BY DEF MoveFields
  <2> HIDE DEF q
  <2>3. Message(q)
    <3>1. Steps(q)
      BY <1>5, <2>2, GroupStepsOf, Zenon DEF Steps
    <3>2. QED
      BY <2>2, <3>1 DEF Message
  <2>4. Reached(q) = current
    <3>1. \/ Head(q.steps) = "remove"
          \/ Head(q.steps) = "add" /\ q.from = None
      <4>1. \/ q.steps = <<"remove", "add">> \/ q.steps = <<"remove">>
            \/ q.steps = <<"add">> /\ q.from = None
        BY <1>5, <2>2, GroupStepsOf, Zenon
      <4>2. QED
        BY <4>1, StepLists, Zenon
    <3>2. QED
      BY <2>2, <3>1 DEF Reached
  <2>5. /\ mlNet' \in Seq(Range(mlNet'))
        /\ DOMAIN mlNet' = 1..n
        /\ DOMAIN mlNet = 1..(n - 1) /\ n \in Nat /\ n >= 1
        /\ \A j \in 1..(n - 1) : mlNet'[j] = mlNet[j]
        /\ mlNet'[n] = q
    <3>1. /\ Append(mlNet, q) \in Seq(Range(Append(mlNet, q)))
          /\ DOMAIN Append(mlNet, q) = 1..n
          /\ DOMAIN mlNet = 1..Len(mlNet) /\ Len(mlNet) \in Nat
          /\ \A j \in 1..Len(mlNet) : Append(mlNet, q)[j] = mlNet[j]
          /\ Append(mlNet, q)[n] = q
      BY <1>1, NetAppended
    <3>2. n - 1 = Len(mlNet) /\ n \in Nat /\ n >= 1
      BY <3>1
    <3>3. QED
      BY <2>1, <3>1, <3>2
  <2> HIDE DEF n
  <2>6. \A j \in DOMAIN mlNet' : \/ j = n /\ mlNet'[j] = q
                                 \/ j # n /\ j \in DOMAIN mlNet /\ mlNet'[j] = mlNet[j]
    BY <2>5
  <2>7. \A j \in DOMAIN mlNet : j \in DOMAIN mlNet' /\ mlNet'[j] = mlNet[j]
    BY <2>5
  <2>8. GroupTyped'
    <3>1. \A j \in DOMAIN mlNet' : Message(mlNet'[j])
      BY <1>1, <2>3, <2>6
    <3>2. QED
      BY <1>2, <2>5, <3>1 DEF GroupsFollow, GroupTyped
  <2>9. OneMove'
    BY <2>2, <2>6 DEF GroupsFollow, OneMove, Moves
  <2>10. ASSUME NEW m \in Merchants PROVE AtRest(m)'
    <3>1. CASE m = id
      <4>1. n \in DOMAIN mlNet' /\ Moves(mlNet'[n], m)
        BY <2>2, <2>5, <3>1 DEF Moves
      <4>2. QED
        BY <4>1 DEF AtRest
    <3>2. CASE m # id
      BY <1>2, <2>7, <3>2 DEF GroupsFollow, AtRest, StoredAs
    <3>3. QED
      BY <3>1, <3>2
  <2>11. ASSUME NEW m \in Merchants, NEW j \in DOMAIN mlNet', Moves(mlNet'[j], m)
         PROVE  StoredAs(m, Reached(mlNet[j]))' /\ mlNet'[j].to = mlChosen'[m]
    <3>1. CASE j = n
      <4>1. mlNet'[j] = q /\ m = id
        BY <2>2, <2>6, <2>11, <3>1 DEF Moves
      <4>2. QED
        BY <1>2, <1>3, <2>2, <2>4, <4>1 DEF StoredAs
    <3>2. CASE j # n
      <4>1. j \in DOMAIN mlNet /\ mlNet'[j] = mlNet[j] /\ m # id
        BY <2>6, <2>11, <3>2
      <4>2. StoredAs(m, Reached(mlNet[j])) /\ mlNet[j].to = mlChosen[m]
        BY <2>11, <4>1 DEF GroupsFollow, UnderWay
      <4>3. QED
        BY <1>2, <4>1, <4>2 DEF StoredAs
    <3>3. QED
      BY <3>1, <3>2
  <2>12. ASSUME NEW m \in Merchants PROVE UnderWay(m)'
    BY <2>11 DEF UnderWay
  <2>13. QED
    BY <2>8, <2>9, <2>10, <2>12 DEF GroupsFollow
<1>6. QED
  BY <1>4, <1>5

LEMMA GroupStep == GroupInv /\ [MLNext]_mlVars => GroupInv'
<1> SUFFICES ASSUME GroupInv, [MLNext]_mlVars PROVE GroupInv'
  OBVIOUS
<1> DEFINE Fetch(l, more) == [kind |-> "fetch", served |-> FALSE, search |-> l.search, more |-> more,
                              page |-> PageToFetch(l, more), items |-> << >>, pages |-> 1]
           Update(id) == [kind |-> "update", served |-> FALSE, id |-> id, row |-> None]
<1>1. ASSUME NEW l, NEW more PROVE Message(Fetch(l, more)) /\ Fetch(l, more).kind # "move"
  BY DEF Message
<1>2. ASSUME NEW id PROVE Message(Update(id)) /\ Update(id).kind # "move"
  BY DEF Message
<1> HIDE DEF Fetch, Update
<1>3. ASSUME UNCHANGED <<mlNet, mlStore, mlChosen, mlCalm>> PROVE GroupInv'
  BY <1>3 DEF GroupInv, GroupsFollow, GroupTyped, OneMove, AtRest, UnderWay, StoredAs
<1>4. CASE MLOpen
  <2>1. /\ mlNet' = Append(mlNet, Fetch(Mounted(1, NoSearch, None), FALSE))
        /\ UNCHANGED <<mlStore, mlChosen, mlCalm>>
    BY <1>4 DEF MLOpen, FetchMerchantsData, MLSend, Fetch
  <2>2. QED
    BY <1>1, <2>1, NoMoveSent DEF GroupInv
<1>5. CASE UpdateSearchTerm \/ SubmitSearchTerm \/ UpdateMerchantGroupFilter \/ ClearAllFilters
           \/ MLFadeEnds
  <2>1. UNCHANGED <<mlNet, mlStore, mlChosen, mlCalm>>
    BY <1>5 DEF UpdateSearchTerm, SubmitSearchTerm, UpdateMerchantGroupFilter, ClearAllFilters,
                MLFadeEnds
  <2>2. QED
    BY <1>3, <2>1
<1>6. CASE MLFetchDue
  <2>1. /\ mlNet' = Append(mlNet, Fetch(ml, FALSE))
        /\ UNCHANGED <<mlStore, mlChosen, mlCalm>>
    BY <1>6 DEF MLFetchDue, FetchMerchantsData, MLSend, Fetch
  <2>2. QED
    BY <1>1, <2>1, NoMoveSent DEF GroupInv
<1>7. CASE MLScrollToEnd
  <2>1. /\ mlNet' = Append(mlNet, Fetch(ml, TRUE))
        /\ UNCHANGED <<mlStore, mlChosen>>
        /\ mlCalm' = (mlCalm /\ mlDue = 0 /\ NoneSkipped(mlNet, PageToFetch(ml, TRUE)))
    BY <1>7 DEF MLScrollToEnd, FetchMerchantsData, MLSend, Fetch
  <2>2. QED
    BY <1>1, <2>1, NoMoveSent DEF GroupInv
<1>8. CASE UpdateMerchant
  <2>1. PICK j \in DOMAIN mlShown : mlNet' = Append(mlNet, Update(mlShown[j].id))
    BY <1>8 DEF UpdateMerchant, MLSend, Update
  <2>2. UNCHANGED <<mlStore, mlChosen, mlCalm>>
    BY <1>8 DEF UpdateMerchant
  <2>3. QED
    BY <1>2, <2>1, <2>2, NoMoveSent DEF GroupInv
<1>9. CASE UpdateMerchantGroup
  <2>0. PICK i \in DOMAIN mlShown, g \in Groups \cup {None} :
          LET id    == mlShown[i].id
              row   == CHOOSE r \in ToSet(ml.rows) : r.id = id
              steps == GroupSteps(row.group, g)
          IN  /\ mlChosen' = [mlChosen EXCEPT ![id] = g]
              /\ mlCalm' = (mlCalm /\ row.group = mlStore[id].group
                            /\ \A j \in DOMAIN mlNet : mlNet[j].kind = "move" => mlNet[j].id # id)
              /\ IF steps = << >> THEN UNCHANGED mlNet
                 ELSE MLSend([kind |-> "move", served |-> FALSE, id |-> id, from |-> row.group,
                              to |-> g, steps |-> steps, search |-> ml.search])
    BY <1>9 DEF UpdateMerchantGroup
  <2> DEFINE id      == mlShown[i].id
             current == (CHOOSE r \in ToSet(ml.rows) : r.id = id).group
  <2>1. /\ mlChosen' = [mlChosen EXCEPT ![id] = g]
        /\ mlCalm' = (mlCalm /\ current = mlStore[id].group
                      /\ \A j \in DOMAIN mlNet : mlNet[j].kind = "move" => mlNet[j].id # id)
        /\ \/ GroupSteps(current, g) = << >> /\ UNCHANGED mlNet
           \/ /\ GroupSteps(current, g) # << >>
              /\ mlNet' = Append(mlNet, [kind |-> "move", served |-> FALSE, id |-> id,
                                         from |-> current, to |-> g,
                                         steps |-> GroupSteps(current, g), search |-> ml.search])
    BY <2>0 DEF MLSend
  <2> HIDE DEF id, current
  <2>2. UNCHANGED mlStore
    BY <1>9 DEF UpdateMerchantGroup
  <2>3. mlCalm' \in BOOLEAN
    BY <2>1
  <2>4. ASSUME mlCalm' PROVE GroupsFollow'
    <3>1. /\ GroupsFollow /\ current = mlStore[id].group
          /\ \A j \in DOMAIN mlNet : ~Moves(mlNet[j], id)
      BY <2>1, <2>4 DEF GroupInv, Moves
    <3>2. QED
      BY <2>1, <2>2, <3>1, MoveChosen
  <2>5. QED
    BY <2>3, <2>4 DEF GroupInv
<1>10. ASSUME NEW i \in DOMAIN mlNet, MLServe(i) PROVE GroupInv'
  <2>1. mlCalm' = (mlCalm /\ \A j \in 1..(i - 1) : mlNet[j].served)
    BY <1>10 DEF MLServe
  <2>2. mlCalm' => GroupsFollow'
    BY <1>10, <2>1, GroupServes DEF GroupInv
  <2>3. QED
    BY <2>1, <2>2 DEF GroupInv
<1>11. ASSUME NEW i \in DOMAIN mlNet, MLAnswer(i) PROVE GroupInv'
  <2>1. /\ mlCalm' = (mlCalm /\ i = 1 /\ mlDue = 0) /\ UNCHANGED <<mlStore, mlChosen>>
        /\ mlNet[i].served
    BY <1>11 DEF MLAnswer
  <2>2. ASSUME mlCalm' PROVE GroupsFollow'
    <3>1. GroupsFollow
      BY <2>1, <2>2 DEF GroupInv
    <3>2. CASE mlNet[i].kind # "move"
      <4>1. Message(mlNet[i])
        BY <3>1 DEF GroupsFollow, GroupTyped
      <4>2. mlNet' = RemoveAt(mlNet, i)
        BY <1>11, <3>2, <4>1 DEF MLAnswer, Message
      <4>3. QED
        BY <2>1, <3>1, <3>2, <4>2, NoMoveLeft
    <3>3. CASE mlNet[i].kind = "move"
      <4>1. MoveAnswered(i, mlNet[i])
        BY <1>11, <3>3 DEF MLAnswer
      <4>2. CASE Len(mlNet[i].steps) > 1
        <5>1. mlNet' = Append(RemoveAt(mlNet, i),
                              [mlNet[i] EXCEPT !.steps = Tail(@), !.served = FALSE])
          BY <4>1, <4>2 DEF MoveAnswered
        <5>2. QED
          BY <2>1, <3>1, <3>3, <4>2, <5>1, MoveGoesOn
      <4>3. CASE ~(Len(mlNet[i].steps) > 1)
        <5>1. mlNet' = RemoveAt(mlNet, i)
          BY <4>1, <4>3 DEF MoveAnswered
        <5>2. QED
          BY <2>1, <3>1, <3>3, <4>3, <5>1, MoveEnds
      <4>4. QED
        BY <4>2, <4>3
    <3>4. QED
      BY <3>2, <3>3
  <2>3. QED
    BY <2>1, <2>2 DEF GroupInv
<1>12. ASSUME NEW i \in DOMAIN mlNet, MLFail(i) PROVE GroupInv'
  BY <1>12 DEF MLFail, GroupInv
<1>13. CASE UNCHANGED mlVars
  BY <1>3, <1>13 DEF mlVars
<1>14. QED
  BY <1>4, <1>5, <1>6, <1>7, <1>8, <1>9, <1>10, <1>11, <1>12, <1>13 DEF MLNext

(* Changes of a group that are not disturbed, each of one request or of two, *)
(* bring the merchant into the group chosen last and leave it in no other,   *)
(* for any number of changes under way on other merchants.                   *)
THEOREM GroupsEndAsChosen == WebSpec => []GroupAsChosen
<1>1. WebInit => GroupInv
  BY GroupInit DEF WebInit
<1>2. GroupInv /\ [WebNext]_webVars => GroupInv'
  <2>1. [WebNext]_webVars => [MLNext]_mlVars
    BY DEF WebNext, webVars
  <2>2. QED
    BY <2>1, GroupStep
<1>3. GroupInv => GroupAsChosen
  BY DEF GroupInv, GroupsFollow, AtRest, StoredAs, Moves, GroupAsChosen
<1>4. QED
  BY <1>1, <1>2, <1>3, PTL DEF WebSpec

-----------------------------------------------------------------------------
(* Pages of what a search finds.  Only the ids of rows matter to them.       *)

SameIds(r, s) == Len(r) = Len(s) /\ \A i \in 1..Len(r) : r[i].id = s[i].id

Apart(rows) == \A i, j \in DOMAIN rows : rows[i].id = rows[j].id => i = j

\* How many of them the first p pages are.
Reach(found, p) == IF p * PerPage < Len(found) THEN p * PerPage ELSE Len(found)

LEMMA ReachIs ==
  ASSUME NEW S, NEW found \in Seq(S), NEW p \in Nat
  PROVE  /\ Reach(found, p) \in 0..Len(found) /\ Reach(found, p + 1) \in 0..Len(found)
         /\ Reach(found, p) <= Reach(found, p + 1)
         /\ Reach(found, 0) = 0
         /\ p * PerPage >= Reach(found, p)
         /\ p * PerPage < Len(found) => Reach(found, p) = p * PerPage
         /\ p * PerPage >= Len(found) => Reach(found, p) = Len(found) /\ Reach(found, p + 1) = Len(found)
<1>1. PerPage \in Nat \ {0} /\ Len(found) \in Nat
  BY PerPageAssumption
<1>2. p * PerPage \in Nat /\ (p + 1) * PerPage = p * PerPage + PerPage /\ 0 * PerPage = 0
  BY <1>1
<1>3. QED
  BY <1>1, <1>2 DEF Reach

LEMMA ReachGrows ==
  ASSUME NEW S, NEW found \in Seq(S), NEW p \in Nat
  PROVE  /\ Reach(found, p) \in 0..Len(found) /\ Reach(found, p + 1) \in 0..Len(found)
         /\ Reach(found, p) <= Reach(found, p + 1)
         /\ Reach(found, 0) = 0
BY ReachIs

LEMMA UptoIs ==
  ASSUME NEW S, NEW found \in Seq(S), NEW p \in Nat
  PROVE  /\ Upto(found, p) \in Seq(S)
         /\ Len(Upto(found, p)) = Reach(found, p)
         /\ DOMAIN Upto(found, p) = 1..Reach(found, p)
         /\ \A i \in 1..Reach(found, p) : Upto(found, p)[i] = found[i]
<1> DEFINE n == Reach(found, p)
<1>1. n \in 0..Len(found) /\ Len(found) \in Nat
  <2>1. Reach(found, p) \in 0..Len(found)
    BY ReachGrows
  <2>2. QED
    BY <2>1
<1>2. Upto(found, p) = SubSeq(found, 1, n)
  BY DEF Upto, Reach
<1> HIDE DEF n
<1>3. /\ SubSeq(found, 1, n) \in Seq(S) /\ Len(SubSeq(found, 1, n)) = n
      /\ \A i \in 1..n : SubSeq(found, 1, n)[i] = found[i]
  BY <1>1
<1>4. QED
  BY <1>2, <1>3 DEF n

LEMMA PageOfIs ==
  ASSUME NEW S, NEW found \in Seq(S), NEW p \in Nat
  PROVE  LET b == Reach(found, p)
             c == Reach(found, p + 1)
             s == PageOf(found, p + 1)
         IN  /\ s \in Seq(S) /\ Len(s) = c - b /\ DOMAIN s = 1..(c - b)
             /\ \A i \in 1..(c - b) : s[i] = found[b + i]
<1> DEFINE b == Reach(found, p)
           c == Reach(found, p + 1)
           u == Upto(found, p + 1)
           m == p * PerPage
<1>0. Len(found) \in Nat /\ p + 1 \in Nat /\ (p + 1) - 1 = p
  OBVIOUS
<1>1. /\ b \in 0..Len(found) /\ c \in 0..Len(found) /\ b <= c
      /\ m >= b /\ (m < Len(found) => b = m) /\ (m >= Len(found) => b = Len(found) /\ c = Len(found))
  BY ReachIs
<1>2. /\ u \in Seq(S) /\ Len(u) = c
      /\ \A i \in 1..c : u[i] = found[i]
  BY <1>0, UptoIs
<1>3. PageOf(found, p + 1) = SubSeq(u, m + 1, c)
  BY <1>0, <1>2 DEF PageOf
<1>4. m \in Nat
  BY PerPageAssumption
<1> HIDE DEF b, c, u, m
<1>5. CASE m < Len(found)
  <2>1. m = b /\ m + 1 \in 1..(Len(u) + 1) /\ c \in Nat
    BY <1>0, <1>1, <1>2, <1>4, <1>5
  <2> DEFINE s == SubSeq(u, m + 1, c)
  <2>2. s \in Seq(S) /\ Len(s) = c - b /\ \A i \in 1..(c - b) : s[i] = u[b + i]
    BY SMTT(30), <1>1, <1>2, <2>1
  <2>3. \A i \in 1..(c - b) : b + i \in 1..c
    BY <1>1
  <2> HIDE DEF s
  <2>4. \A i \in 1..(c - b) : s[i] = found[b + i]
    BY <1>2, <2>2, <2>3
  <2>5. DOMAIN s = 1..(c - b)
    BY <2>2
  <2>6. PageOf(found, p + 1) = s
    BY <1>3 DEF s
  <2>7. QED
    BY <2>2, <2>4, <2>5, <2>6 DEF b, c
<1>6. CASE m >= Len(found)
  <2>1. b = c /\ m + 1 > c
    BY <1>0, <1>1, <1>4, <1>6
  <2>2. SubSeq(u, m + 1, c) \in Seq(S) /\ Len(SubSeq(u, m + 1, c)) = 0
    BY <1>1, <1>2, <1>4, <2>1
  <2>3. c - b = 0
    BY <1>1, <2>1
  <2>4. QED
    BY <1>3, <2>2, <2>3 DEF b, c
<1>7. QED
  BY <1>0, <1>4, <1>5, <1>6

(* Searches that find the same ids have the same pages.                      *)
LEMMA SamePages ==
  ASSUME NEW S, NEW T, NEW found \in Seq(S), NEW other \in Seq(T), SameIds(found, other), NEW p \in Nat
  PROVE  /\ SameIds(Upto(found, p), Upto(other, p))
         /\ SameIds(PageOf(found, p + 1), PageOf(other, p + 1))
         /\ Pages(found) = Pages(other)
<1>1. Len(found) = Len(other) /\ Len(found) \in Nat /\ \A i \in 1..Len(found) : found[i].id = other[i].id
  BY DEF SameIds
<1>2. Reach(found, p) = Reach(other, p) /\ Reach(found, p + 1) = Reach(other, p + 1)
  BY <1>1 DEF Reach
<1>3. Reach(found, p) \in 0..Len(found) /\ Reach(found, p + 1) \in 0..Len(found)
  BY ReachGrows
<1>4. SameIds(Upto(found, p), Upto(other, p))
  <2>1. \A i \in 1..Reach(found, p) : i \in 1..Len(found)
    BY <1>3
  <2>2. /\ Len(Upto(found, p)) = Reach(found, p) /\ Len(Upto(other, p)) = Reach(found, p)
        /\ \A i \in 1..Reach(found, p) : Upto(found, p)[i] = found[i] /\ Upto(other, p)[i] = other[i]
    BY <1>2, UptoIs
  <2>3. QED
    BY <1>1, <2>1, <2>2 DEF SameIds
<1>5. SameIds(PageOf(found, p + 1), PageOf(other, p + 1))
  <2> DEFINE b == Reach(found, p)
             c == Reach(found, p + 1)
  <2>1. \A i \in 1..(c - b) : b + i \in 1..Len(found)
    BY <1>1, <1>3
  <2>2. /\ Len(PageOf(found, p + 1)) = c - b
        /\ \A i \in 1..(c - b) : PageOf(found, p + 1)[i] = found[b + i]
    BY PageOfIs
  <2> DEFINE d == Reach(other, p)
             e == Reach(other, p + 1)
  <2>3. /\ Len(PageOf(other, p + 1)) = e - d
        /\ \A i \in 1..(e - d) : PageOf(other, p + 1)[i] = other[d + i]
    BY PageOfIs
  <2>5. b = d /\ c = e
    BY <1>2
  <2> HIDE DEF b, c, d, e
  <2>4. QED
    BY SMTT(30), <1>1, <2>1, <2>2, <2>3, <2>5 DEF SameIds
<1>6. (found = << >>) <=> (other = << >>)
  <2>1. (found = << >> <=> Len(found) = 0) /\ (other = << >> <=> Len(other) = 0)
    OBVIOUS
  <2>2. QED
    BY <1>1, <2>1
<1>7. Pages(found) = Pages(other)
  BY <1>1, <1>6 DEF Pages
<1>8. QED
  BY <1>4, <1>5, <1>7

LEMMA FirstPage ==
  ASSUME NEW S, NEW found \in Seq(S)
  PROVE  SameIds(PageOf(found, 1), Upto(found, 1))
<1> DEFINE z == 0
           c == Reach(found, z + 1)
           s == PageOf(found, z + 1)
           u == Upto(found, z + 1)
<1>1. Reach(found, z) = 0 /\ c \in 0..Len(found) /\ Len(found) \in Nat
  BY ReachGrows
<1>2. /\ Len(s) = c - Reach(found, z)
      /\ \A i \in 1..(c - Reach(found, z)) : s[i] = found[Reach(found, z) + i]
  BY PageOfIs
<1>3. /\ Len(u) = c
      /\ \A i \in 1..c : u[i] = found[i]
  BY UptoIs
<1>4. SameIds(s, u)
  <2> HIDE DEF c, s, u
  <2>1. c - Reach(found, z) = c /\ \A i \in 1..c : Reach(found, z) + i = i
    BY <1>1
  <2>2. QED
    BY <1>2, <1>3, <2>1 DEF SameIds
<1>5. z + 1 = 1
  OBVIOUS
<1>6. QED
  BY <1>4, <1>5

LEMMA FilterOfAll ==
  ASSUME NEW S, NEW s \in Seq(S)
  PROVE  Filtered(s, DOMAIN s) = s /\ Filtered(s, {}) = << >>
<1>1. Len(s) \in Nat /\ DOMAIN s = 1..Len(s)
  OBVIOUS
<1>2. IsFiniteSet(1..Len(s)) /\ Cardinality(1..Len(s)) = Len(s) /\ Cardinality({}) = 0
  <2>1. Cardinality(1..Len(s)) = IF 1 > Len(s) THEN 0 ELSE Len(s) - 1 + 1
    BY <1>1, FS_Interval
  <2>2. Cardinality(1..Len(s)) = Len(s)
    BY <1>1, <2>1
  <2>3. IsFiniteSet(1..Len(s))
    BY <1>1, FS_Interval
  <2>4. QED
    BY <2>2, <2>3, FS_EmptySet
<1>3. ASSUME NEW i \in 1..Len(s) PROVE Place(1..Len(s), i) = i
  <2>1. {h \in 1..Len(s) : h <= i} = 1..i
    BY <1>1
  <2>2. Cardinality(1..i) = i
    BY FS_Interval
  <2>3. Rank(1..Len(s), i) = i
    BY <2>1, <2>2 DEF Rank
  <2>4. \A h \in 1..Len(s) : Place(1..Len(s), Rank(1..Len(s), h)) = h
    BY <1>1, PlaceIs
  <2>5. QED
    BY <2>3, <2>4
<1>4. Filtered(s, DOMAIN s) = [j \in 1..Len(s) |-> s[j]]
  BY <1>1, <1>2, <1>3 DEF Filtered
<1>5. Filtered(s, DOMAIN s) = s
  BY <1>1, <1>4
<1>6. Filtered(s, {}) = << >>
  BY <1>2 DEF Filtered
<1>7. QED
  BY <1>5, <1>6

(* A page merged into the pages before it, again or for the first time.      *)
LEMMA MergedPage ==
  ASSUME NEW S, NEW rows \in Seq(S), NEW items \in Seq(S), NEW T, NEW found \in Seq(T), Apart(found),
         NEW p \in Nat \ {0}, NEW q \in {p, p + 1},
         SameIds(rows, Upto(found, p)), SameIds(items, PageOf(found, q))
  PROVE  SameIds(Merged(rows, items), Upto(found, q))
<1> DEFINE a == Reach(found, p - 1)
           b == Reach(found, p)
           c == Reach(found, p + 1)
           I == {i \in DOMAIN items : items[i].id \notin IdsOf(rows)}
<1>1. p - 1 \in Nat /\ (p - 1) + 1 = p /\ p \in Nat /\ p + 1 \in Nat
  OBVIOUS
<1>2. /\ a \in 0..Len(found) /\ b \in 0..Len(found) /\ c \in 0..Len(found) /\ a <= b /\ b <= c
      /\ Len(found) \in Nat /\ DOMAIN found = 1..Len(found)
  <2>1. a \in 0..Len(found) /\ Reach(found, (p - 1) + 1) \in 0..Len(found) /\ a <= Reach(found, (p - 1) + 1)
    BY <1>1, ReachGrows
  <2>2. b \in 0..Len(found) /\ c \in 0..Len(found) /\ b <= c
    BY <1>1, ReachGrows
  <2>3. Reach(found, (p - 1) + 1) = b
    BY <1>1
  <2> HIDE DEF a, b, c
  <2>4. QED
    BY <2>1, <2>2, <2>3
<1>3. /\ DOMAIN rows = 1..b /\ Len(rows) = b
      /\ \A i \in 1..b : rows[i].id = found[i].id
  <2>1. /\ Len(Upto(found, p)) = b
        /\ \A i \in 1..b : Upto(found, p)[i] = found[i]
    BY <1>1, UptoIs
  <2>2. Len(rows) = b /\ \A i \in 1..b : rows[i].id = Upto(found, p)[i].id
    BY <2>1 DEF SameIds
  <2> HIDE DEF b
  <2>3. QED
    BY <2>1, <2>2
<1>4. CASE q = p
  <2>1. /\ Len(PageOf(found, p)) = b - a
        /\ \A i \in 1..(b - a) : PageOf(found, p)[i] = found[a + i]
    <3> DEFINE o == p - 1
    <3>1. o \in Nat /\ o + 1 = p
      BY <1>1
    <3> HIDE DEF o
    <3>2. /\ Len(PageOf(found, o + 1)) = Reach(found, o + 1) - Reach(found, o)
          /\ \A i \in 1..(Reach(found, o + 1) - Reach(found, o)) :
               PageOf(found, o + 1)[i] = found[Reach(found, o) + i]
      BY ZenonT(30), <3>1, PageOfIs
    <3>3. QED
      BY <3>1, <3>2 DEF o
  <2>2. DOMAIN items = 1..(b - a) /\ \A i \in 1..(b - a) : items[i].id = found[a + i].id
    <3>1. Len(items) = b - a /\ \A i \in 1..(b - a) : items[i].id = PageOf(found, p)[i].id
      BY <1>4, <2>1 DEF SameIds
    <3> HIDE DEF a, b
    <3>3. DOMAIN items = 1..Len(items)
      OBVIOUS
    <3>2. QED
      BY <2>1, <3>1, <3>3
  <2>3. ASSUME NEW i \in DOMAIN items PROVE items[i].id \in IdsOf(rows)
    <3>1. i \in 1..(b - a) /\ a + i \in 1..b
      BY <1>2, <2>2
    <3>2. items[i].id = rows[a + i].id /\ a + i \in DOMAIN rows
      BY <1>3, <2>2, <3>1
    <3>3. QED
      BY <3>2 DEF IdsOf
  <2>4. I = {}
    BY <2>3
  <2>5. Merged(rows, items) = rows \o << >>
    BY <2>4, FilterOfAll DEF Merged
  <2>6. rows \o << >> = rows
    OBVIOUS
  <2>7. QED
    BY <1>4, <2>5, <2>6
<1>5. CASE q = p + 1
  <2>1. /\ Len(PageOf(found, p + 1)) = c - b
        /\ \A i \in 1..(c - b) : PageOf(found, p + 1)[i] = found[b + i]
    BY <1>1, PageOfIs
  <2>2. Len(items) = c - b /\ DOMAIN items = 1..(c - b) /\ \A i \in 1..(c - b) : items[i].id = found[b + i].id
    <3>1. Len(items) = c - b /\ \A i \in 1..(c - b) : items[i].id = PageOf(found, p + 1)[i].id
      BY <1>5, <2>1 DEF SameIds
    <3> HIDE DEF c, b
    <3>2. QED
      BY <2>1, <3>1
  <2>3. ASSUME NEW i \in DOMAIN items PROVE items[i].id \notin IdsOf(rows)
    <3>1. i \in 1..(c - b) /\ b + i \in 1..Len(found) /\ \A k \in 1..b : k # b + i /\ k \in 1..Len(found)
      BY SMTT(30), <1>2, <2>2
    <3>2. \A k \in 1..b : rows[k].id # items[i].id
      BY <1>2, <1>3, <2>2, <3>1 DEF Apart
    <3>3. QED
      BY <1>3, <3>2 DEF IdsOf
  <2>4. I = DOMAIN items
    BY <2>3
  <2>5. Merged(rows, items) = rows \o items
    BY <2>4, FilterOfAll DEF Merged
  <2> DEFINE t == rows \o items
  <2>6. /\ Len(t) = Len(rows) + Len(items)
        /\ \A i \in 1..Len(rows) : t[i] = rows[i]
        /\ \A i \in 1..Len(items) : t[Len(rows) + i] = items[i]
    OBVIOUS
  <2> HIDE DEF t
  <2>7. Len(t) = c
    BY <1>2, <1>3, <2>2, <2>6
  <2>8. ASSUME NEW i \in 1..c PROVE t[i].id = found[i].id
    <3>1. CASE i \in 1..b
      BY <1>3, <2>6, <3>1
    <3>2. CASE i \notin 1..b
      <4>1. i - b \in 1..(c - b) /\ b + (i - b) = i
        BY <1>2, <3>2
      <4>2. t[b + (i - b)] = items[i - b] /\ items[i - b].id = found[b + (i - b)].id
        BY <1>3, <2>2, <2>6, <4>1
      <4>3. QED
        BY <4>1, <4>2
    <3>3. QED
      BY <3>1, <3>2
  <2>9. /\ Len(Upto(found, p + 1)) = c
        /\ \A i \in 1..c : Upto(found, p + 1)[i] = found[i]
    BY <1>1, UptoIs
  <2> HIDE DEF c
  <2>10. SameIds(t, Upto(found, p + 1))
    BY <2>7, <2>8, <2>9 DEF SameIds
  <2>11. QED
    BY <1>5, <2>5, <2>10 DEF t
<1>6. QED
  BY <1>4, <1>5

-----------------------------------------------------------------------------
(* What the hooks of both lists keep, by its types. *)

ListStates(searches, rows) ==
  [on : Nat, search : searches, loading : BOOLEAN, loadingMore : BOOLEAN, error : BOOLEAN,
   hasMore : BOOLEAN, rows : Seq(rows), page : Nat \ {0}]

Entries(searches, rows) ==
  [search : searches, rows : Seq(rows), hasMore : BOOLEAN, page : Nat \ {0}]

LEMMA MergedTyped ==
  ASSUME NEW R, NEW rows \in Seq(R), NEW items \in Seq(R)
  PROVE  Merged(rows, items) \in Seq(R)
<1> DEFINE I == {i \in DOMAIN items : items[i].id \notin IdsOf(rows)}
<1>1. I \in SUBSET DOMAIN items
  OBVIOUS
<1> HIDE DEF I
<1>2. Filtered(items, I) \in Seq(R)
  BY <1>1, FilterKeeps
<1>3. Merged(rows, items) = rows \o Filtered(items, I)
  BY DEF Merged, I
<1>4. QED
  BY <1>2, <1>3

LEMMA PageTyped ==
  ASSUME NEW R, NEW found \in Seq(R), NEW p \in Nat \ {0}
  PROVE  PageOf(found, p) \in Seq(R) /\ Pages(found) \in Nat
<1>1. PageOf(found, p) \in Seq(R)
  <2> DEFINE o == p - 1
  <2>1. o \in Nat /\ o + 1 = p
    OBVIOUS
  <2> HIDE DEF o
  <2>2. PageOf(found, o + 1) \in Seq(R)
    BY <2>1, PageOfIs
  <2>3. QED
    BY <2>1, <2>2
<1>2. Pages(found) \in Nat
  <2>1. Len(found) \in Nat /\ PerPage \in Nat /\ PerPage > 0
    BY PerPageAssumption
  <2> DEFINE n == Len(found) + PerPage - 1
  <2>2. n \in Nat
    BY <2>1
  <2> HIDE DEF n
  <2>3. n \div PerPage \in Nat
    BY <2>1, <2>2
  <2>4. QED
    BY <2>3 DEF Pages, n
<1>3. QED
  BY <1>1, <1>2

LEMMA HookTypes ==
  ASSUME NEW X, NEW R, NEW l \in ListStates(X, R)
  PROVE  /\ IsHook(l)
         /\ \A more \in BOOLEAN : /\ FetchBegun(l, more) \in ListStates(X, R)
                                  /\ FetchBegun(l, more).rows = l.rows
                                  /\ PageToFetch(l, more) \in Nat \ {0}
         /\ FetchFailed(l) \in ListStates(X, R) /\ FetchFailed(l).rows = l.rows
         /\ \A search \in X : /\ SearchSet(l, search) \in ListStates(X, R)
                              /\ SearchSet(l, search).rows = l.rows
         /\ \A r \in Seq(R) : [l EXCEPT !.rows = r] \in ListStates(X, R)
         /\ \A a, b \in BOOLEAN : [l EXCEPT !.loading = a, !.error = b] \in ListStates(X, R)
<1>1. IsHook(l)
  BY DEF IsHook, ListStates, HookFields
<1>2. ASSUME NEW more \in BOOLEAN
      PROVE  /\ FetchBegun(l, more) \in ListStates(X, R) /\ FetchBegun(l, more).rows = l.rows
             /\ PageToFetch(l, more) \in Nat \ {0}
  <2>1. l.page \in Nat \ {0} /\ l.page + 1 \in Nat \ {0}
    BY DEF ListStates
  <2>2. /\ [l EXCEPT !.loadingMore = TRUE, !.error = FALSE, !.page = l.page + 1] \in ListStates(X, R)
        /\ [l EXCEPT !.loadingMore = TRUE, !.error = FALSE, !.page = l.page + 1].rows = l.rows
    BY <2>1 DEF ListStates
  <2>3. /\ [l EXCEPT !.loading = TRUE, !.error = FALSE] \in ListStates(X, R)
        /\ [l EXCEPT !.loading = TRUE, !.error = FALSE].rows = l.rows
    BY DEF ListStates
  <2>4. FetchBegun(l, more) = IF more THEN [l EXCEPT !.loadingMore = TRUE, !.error = FALSE, !.page = l.page + 1]
                                      ELSE [l EXCEPT !.loading = TRUE, !.error = FALSE]
    BY DEF FetchBegun, ListStates
  <2>5. QED
    BY <2>1, <2>2, <2>3, <2>4 DEF PageToFetch
<1>3. FetchFailed(l) \in ListStates(X, R) /\ FetchFailed(l).rows = l.rows
  BY DEF ListStates, FetchFailed
<1>4. ASSUME NEW search \in X
      PROVE  SearchSet(l, search) \in ListStates(X, R) /\ SearchSet(l, search).rows = l.rows
  <2>1. 1 \in Nat \ {0}
    OBVIOUS
  <2>2. SearchSet(l, search) = [l EXCEPT !.search = search, !.page = 1, !.hasMore = TRUE]
    BY DEF SearchSet
  <2>3. QED
    BY <2>1, <2>2 DEF ListStates
<1>5. ASSUME NEW r \in Seq(R) PROVE [l EXCEPT !.rows = r] \in ListStates(X, R)
  BY DEF ListStates
<1>6. ASSUME NEW a \in BOOLEAN, NEW b \in BOOLEAN
      PROVE  [l EXCEPT !.loading = a, !.error = b] \in ListStates(X, R)
  BY DEF ListStates
<1>7. QED
  BY <1>1, <1>2, <1>3, <1>4, <1>5, <1>6

LEMMA ReplacedTyped ==
  ASSUME NEW X, NEW R, NEW l \in ListStates(X, R), NEW row \in R
  PROVE  /\ RowReplaced(l, row) \in ListStates(X, R)
         /\ DOMAIN RowReplaced(l, row).rows = DOMAIN l.rows
         /\ \A i \in DOMAIN l.rows :
              RowReplaced(l, row).rows[i] = IF l.rows[i].id = row.id THEN row ELSE l.rows[i]
<1> DEFINE t == [i \in DOMAIN l.rows |-> IF l.rows[i].id = row.id THEN row ELSE l.rows[i]]
<1>1. l.rows \in Seq(R)
  BY DEF ListStates
<1>2. t \in Seq(R)
  <2>1. \A i \in DOMAIN l.rows : l.rows[i] \in R
    BY <1>1
  <2>2. t \in [1..Len(l.rows) -> R] /\ Len(l.rows) \in Nat
    BY <1>1, <2>1
  <2> HIDE DEF t
  <2>3. QED
    BY <2>2
<1>3. RowReplaced(l, row) = [l EXCEPT !.rows = t]
  BY DEF RowReplaced, ListStates
<1>4. [l EXCEPT !.rows = t].rows = t
  BY DEF ListStates
<1>5. [l EXCEPT !.rows = t] \in ListStates(X, R)
  BY <1>2, HookTypes
<1>6. QED
  BY <1>3, <1>4, <1>5 DEF t

LEMMA FetchedTyped ==
  ASSUME NEW X, NEW R, NEW l \in ListStates(X, R), NEW q,
         q.more \in BOOLEAN, q.items \in Seq(R), q.page \in Nat \ {0}
  PROVE  /\ Fetched(l, q) \in ListStates(X, R)
         /\ Fetched(l, q).rows = IF q.more THEN Merged(l.rows, q.items) ELSE q.items
         /\ Fetched(l, q).page = q.page /\ (Fetched(l, q).hasMore <=> q.page < q.pages)
<1> DEFINE r == IF q.more THEN Merged(l.rows, q.items) ELSE q.items
<1>1. r \in Seq(R)
  BY MergedTyped DEF ListStates
<1>2. Fetched(l, q) = [l EXCEPT !.rows = r, !.loading = FALSE, !.loadingMore = FALSE, !.error = FALSE,
                                !.hasMore = q.page < q.pages, !.page = q.page]
  BY DEF Fetched, ListStates
<1> DEFINE m == q.page < q.pages
           k == [l EXCEPT !.rows = r, !.loading = FALSE, !.loadingMore = FALSE, !.error = FALSE,
                          !.hasMore = m, !.page = q.page]
<1>3. m \in BOOLEAN /\ Fetched(l, q) = k
  BY <1>2
<1> HIDE DEF r, m
<1>4. k \in ListStates(X, R) /\ k.rows = r /\ k.page = q.page /\ k.hasMore = m
  BY <1>1, <1>3 DEF ListStates
<1> HIDE DEF k
<1>5. QED
  BY <1>3, <1>4 DEF r, m

LEMMA MountedTyped ==
  ASSUME NEW X, NEW R, NEW n \in Nat, NEW search \in X,
         NEW entry, entry = None \/ entry \in Entries(X, R)
  PROVE  /\ Mounted(n, search, entry) \in ListStates(X, R)
         /\ entry = None => /\ Mounted(n, search, entry).rows = << >>
                            /\ Mounted(n, search, entry).page = 1
         /\ entry # None => /\ Mounted(n, search, entry).rows = entry.rows
                            /\ Mounted(n, search, entry).page = entry.page
                            /\ Mounted(n, search, entry).hasMore = entry.hasMore
<1>1. CASE entry = None
  BY <1>1 DEF Mounted, ListStates
<1>2. CASE entry # None
  BY <1>2 DEF Mounted, ListStates, Entries
<1>3. QED
  BY <1>1, <1>2

LEMMA UnmountedTyped ==
  ASSUME NEW X, NEW R, None \in X
  PROVE  /\ Unmounted \in ListStates(X, R)
         /\ Unmounted.on = 0 /\ Unmounted.rows = << >>
<1>1. Mounted(0, None, None) \in ListStates(X, R) /\ Mounted(0, None, None).rows = << >>
  <2>1. 0 \in Nat /\ 1 \in Nat \ {0} /\ << >> \in Seq(R)
    OBVIOUS
  <2>2. Mounted(0, None, None) = [on |-> 0, search |-> None, loading |-> FALSE, loadingMore |-> FALSE,
                                  error |-> FALSE, rows |-> << >>, hasMore |-> TRUE, page |-> 1]
    BY DEF Mounted
  <2> DEFINE m == Mounted(0, None, None)
  <2>3. m.rows = << >>
    BY <2>2
  <2>4. /\ m.on = 0 /\ m.search = None /\ m.loading = FALSE /\ m.loadingMore = FALSE
        /\ m.error = FALSE /\ m.hasMore = TRUE /\ m.page = 1
    BY <2>2
  <2>8. m = [f \in HookFields |-> m[f]]
    BY MountedHook DEF IsHook
  <2>5. m.rows \in Seq(R)
    BY <2>1, <2>3
  <2> HIDE DEF m
  <2>6. m \in ListStates(X, R)
    BY <2>1, <2>4, <2>5, <2>8 DEF ListStates, HookFields
  <2>7. QED
    BY <2>3, <2>6 DEF m
<1>2. QED
  BY <1>1, UnmountedHook DEF Unmounted, ListStates

LEMMA DrawnTyped ==
  ASSUME NEW X, NEW R, NEW l \in ListStates(X, R), NEW shown \in Seq(R)
  PROVE  Drawn(l, shown) \in Seq(R) /\ FadedOut(l, shown) \in Seq(R)
BY DEF Drawn, FadedOut, ListStates

-----------------------------------------------------------------------------
(* The transactions page, by the types of what it keeps. *)

TLRows == [id : DOMAIN tlStore, review : BOOLEAN, tagged : BOOLEAN]

Mounts == 1..MaxMounts

TLFetches ==
  [kind : {"fetch"}, on : Mounts, served : BOOLEAN, search : Searches, more : BOOLEAN,
   page : Nat \ {0}, items : Seq(TLRows), pages : Nat]

TLEdits ==
  [kind : {"classify", "classify_all", "tag", "untag"}, on : Mounts, served : BOOLEAN,
   id : DOMAIN tlStore, row : TLRows \cup {None}]

TLRequests == TLFetches \cup TLEdits

\* An edit that is served has a row to answer with.
EditServed(q) == q.kind # "fetch" /\ q.served => q.row \in TLRows /\ q.row.id = q.id

TLHookTyped ==
  /\ tl \in ListStates(Searches \cup {None}, TLRows) /\ tl.on \in 0..MaxMounts
  /\ tl.on = 0 => tlShown = << >> /\ tlDue = 0
  /\ tl.on # 0 => tl.search \in Searches
  /\ tlShown \in Seq(TLRows) /\ tlFade \in Nat /\ tlSpin \subseteq DOMAIN tlStore

TLKeptTyped ==
  /\ tlMounts \in 0..MaxMounts /\ tlSaved \in Searches \cup {None}
  /\ tlCache = None \/ (tlCache \in Entries(Searches, TLRows) /\ tlCache.rows # << >>)
  /\ tl.on # 0 => tlCache = None

TLNetTyped ==
  /\ tlNet \in Seq(TLRequests) /\ tlSent \in 0..MaxSent /\ Len(tlNet) <= tlSent
  /\ \A j \in DOMAIN tlNet : EditServed(tlNet[j])

TLTyped ==
  /\ TLHookTyped /\ TLKeptTyped /\ TLNetTyped
  /\ tlDue \in 0..1 /\ tlTyped \in Searches \cup {None}
  /\ tlStore \in Seq([review : BOOLEAN, tagged : BOOLEAN])
  /\ tlCalm \in BOOLEAN /\ tlEdited \in BOOLEAN

LEMMA TLInitTyped == TLInit => TLTyped
<1> SUFFICES ASSUME TLInit PROVE TLTyped
  OBVIOUS
<1>1. /\ tl = Unmounted
      /\ Unmounted \in ListStates(Searches \cup {None}, TLRows) /\ Unmounted.on = 0
  <2>1. None \in Searches \cup {None}
    OBVIOUS
  <2>2. QED
    BY <2>1, UnmountedTyped DEF TLInit
<1>2. {MaxTransactions, MaxSent, MaxMounts} \subseteq Nat
  BY BoundsAssumption
<1>3. TLHookTyped
  BY <1>1, <1>2 DEF TLInit, TLHookTyped
<1>4. TLKeptTyped
  <2>1. tlMounts \in 0..MaxMounts
    BY <1>2 DEF TLInit
  <2>2. tlSaved \in Searches \cup {None} /\ tlCache = None
    BY DEF TLInit
  <2>3. QED
    BY <2>1, <2>2 DEF TLKeptTyped
<1>7. TLNetTyped
  <2>1. tlNet = << >> /\ tlSent = 0
    BY DEF TLInit
  <2>2. << >> \in Seq(TLRequests) /\ Len(<< >>) = 0 /\ DOMAIN << >> = {} /\ 0 \in 0..MaxSent
    BY <1>2
  <2>3. QED
    BY <2>1, <2>2 DEF TLNetTyped
<1>8. tlDue \in 0..1 /\ tlTyped \in Searches \cup {None}
  BY DEF TLInit
<1>9. tlCalm \in BOOLEAN /\ tlEdited \in BOOLEAN
  BY DEF TLInit
<1>5. tlStore \in Seq([review : BOOLEAN, tagged : BOOLEAN])
  BY FirstTransactionsAssumption DEF TLInit
<1>6. QED
  BY <1>3, <1>4, <1>5, <1>7, <1>8, <1>9 DEF TLTyped

(* What a step of the hook leaves on screen; what is sent.                   *)
LEMMA TLScreenTyped ==
  ASSUME TLTyped, NEW l \in ListStates(Searches \cup {None}, TLRows),
         l.on \in Mounts, l.search \in Searches, Becomes(l), UNCHANGED tlStore
  PROVE  TLHookTyped' /\ tl' = l /\ TLRows' = TLRows
<1>1. tl' = l /\ TLRows' = TLRows
  BY DEF Becomes, TLRows
<1>2. tlShown' \in Seq(TLRows)
  BY DrawnTyped DEF TLTyped, TLHookTyped, Becomes
<1>3. tlFade' \in Nat
  BY DEF TLTyped, TLHookTyped, Becomes
<1>4. tlSpin' \subseteq DOMAIN tlStore
  BY DEF TLTyped, TLHookTyped, Becomes
<1>5. l.on \in 0..MaxMounts /\ l.on # 0
  BY BoundsAssumption DEF Mounts
<1>6. QED
  BY <1>1, <1>2, <1>3, <1>4, <1>5 DEF TLHookTyped

LEMMA TLSendTyped ==
  ASSUME TLTyped, NEW q \in TLRequests, ~q.served, Send(q), UNCHANGED tlStore
  PROVE  TLNetTyped'
<1>1. TLRequests' = TLRequests /\ TLRows' = TLRows
  BY DEF TLRequests, TLFetches, TLEdits, TLRows
<1>2. tlNet \in Seq(TLRequests) /\ tlSent \in 0..MaxSent /\ Len(tlNet) <= tlSent
  BY DEF TLTyped, TLNetTyped
<1>3. tlNet' = Append(tlNet, q) /\ tlSent' = tlSent + 1 /\ tlSent < MaxSent
  BY DEF Send
<1>4. /\ tlNet' \in Seq(TLRequests) /\ Len(tlNet') = Len(tlNet) + 1 /\ Len(tlNet) \in Nat
      /\ \A j \in DOMAIN tlNet' : tlNet'[j] = q \/ (j \in DOMAIN tlNet /\ tlNet'[j] = tlNet[j])
  <2> DEFINE s == tlNet
             S == TLRequests
  <2>1. s \in Seq(S) /\ q \in S
    BY <1>2
  <2> HIDE DEF s, S
  <2>2. /\ Append(s, q) \in Seq(S) /\ Len(Append(s, q)) = Len(s) + 1 /\ Len(s) \in Nat
        /\ \A j \in DOMAIN Append(s, q) :
             Append(s, q)[j] = q \/ (j \in DOMAIN s /\ Append(s, q)[j] = s[j])
    BY <2>1
  <2>3. QED
    BY <1>3, <2>2 DEF s, S
<1>5. tlSent' \in 0..MaxSent /\ Len(tlNet') <= tlSent'
  BY <1>2, <1>3, <1>4, BoundsAssumption
<1>6. ASSUME NEW j \in DOMAIN tlNet' PROVE EditServed(tlNet[j])'
  <2>1. EditServed(tlNet'[j])
    BY <1>4 DEF TLTyped, TLNetTyped, EditServed
  <2>2. QED
    BY <1>1, <2>1 DEF EditServed
<1>7. QED
  BY <1>1, <1>4, <1>5, <1>6 DEF TLNetTyped

LEMMA TLFetchTyped ==
  ASSUME TLTyped, NEW l \in ListStates(Searches \cup {None}, TLRows),
         l.on \in Mounts, l.search \in Searches, NEW more \in BOOLEAN,
         FetchTransactions(l, more), UNCHANGED tlStore
  PROVE  /\ TLHookTyped' /\ TLNetTyped' /\ tlSaved' \in Searches \cup {None}
         /\ tl' = FetchBegun(l, more) /\ tl'.on = l.on /\ tl'.search = l.search
<1> DEFINE q == [kind |-> "fetch", on |-> l.on, served |-> FALSE, search |-> l.search,
                 more |-> more, page |-> PageToFetch(l, more), items |-> << >>, pages |-> 1]
<1>1. Becomes(FetchBegun(l, more)) /\ Send(q) /\ (tlSaved' = tlSaved \/ tlSaved' = l.search)
  BY DEF FetchTransactions
<1>2. /\ FetchBegun(l, more) \in ListStates(Searches \cup {None}, TLRows)
      /\ PageToFetch(l, more) \in Nat \ {0}
      /\ FetchBegun(l, more).on = l.on /\ FetchBegun(l, more).search = l.search
  BY HookTypes, UpdatesKeep DEF Keeps
<1>3. q \in TLRequests
  <2>1. q \in TLFetches
    BY <1>2 DEF TLFetches
  <2> HIDE DEF q
  <2>2. QED
    BY <2>1 DEF TLRequests
<1>4. ~q.served
  OBVIOUS
<1> HIDE DEF q
<1>5. TLNetTyped'
  BY <1>1, <1>3, <1>4, TLSendTyped
<1>6. TLHookTyped' /\ tl' = FetchBegun(l, more)
  BY <1>1, <1>2, TLScreenTyped
<1>7. QED
  BY <1>1, <1>2, <1>5, <1>6 DEF TLTyped, TLKeptTyped

\* The parts that a step leaves as they are.
LEMMA TLPartsKept ==
  ASSUME TLTyped, UNCHANGED tlStore
  PROVE  /\ UNCHANGED <<tlScreen, tlDue>> => TLHookTyped'
         /\ UNCHANGED <<tl, tlMounts, tlSaved, tlCache>> => TLKeptTyped'
         /\ UNCHANGED <<tlNet, tlSent>> => TLNetTyped'
         /\ UNCHANGED <<tlDue, tlTyped>> => tlDue' \in 0..1 /\ tlTyped' \in Searches \cup {None}
         /\ tlStore' \in Seq([review : BOOLEAN, tagged : BOOLEAN])
         /\ TLRows' = TLRows /\ TLRequests' = TLRequests
<1>1. TLRows' = TLRows /\ TLRequests' = TLRequests
  BY DEF TLRows, TLRequests, TLFetches, TLEdits
<1>2. ASSUME UNCHANGED <<tlScreen, tlDue>> PROVE TLHookTyped'
  BY <1>1, <1>2 DEF TLTyped, TLHookTyped, tlScreen
<1>3. ASSUME UNCHANGED <<tl, tlMounts, tlSaved, tlCache>> PROVE TLKeptTyped'
  BY <1>1, <1>3 DEF TLTyped, TLKeptTyped
<1>4. ASSUME UNCHANGED <<tlNet, tlSent>> PROVE TLNetTyped'
  BY <1>1, <1>4 DEF TLTyped, TLNetTyped, EditServed
<1>5. QED
  BY <1>1, <1>2, <1>3, <1>4 DEF TLTyped

LEMMA TLOpenTyped == TLTyped /\ TLOpen => TLTyped'
<1> SUFFICES ASSUME TLTyped, TLOpen PROVE TLTyped'
  OBVIOUS
<1>0. /\ UNCHANGED <<tlInput, tlServer, tlCalm>> /\ tlCache' = None /\ tlMounts' = tlMounts + 1
      /\ tl.on = 0 /\ tlMounts < MaxMounts
  BY DEF TLOpen
<1>1. tlMounts + 1 \in Mounts /\ tlMounts + 1 \in 0..MaxMounts /\ tlDue = 0 /\ tlDue' = 0
  BY <1>0, BoundsAssumption DEF TLTyped, TLKeptTyped, TLHookTyped, Mounts, tlInput
<1>2. SavedSearch \in Searches
  BY DEF SavedSearch, TLTyped, TLKeptTyped, Searches
<1>3. PICK old \in BOOLEAN :
        LET entry == Usable(tlCache, SavedSearch, old)
            l     == Mounted(tlMounts + 1, SavedSearch, entry)
        IN  IF l.rows = << >>
            THEN FetchTransactions(l, FALSE) /\ tlHeld' = SavedSearch
            ELSE /\ tl' = l /\ tlShown' = l.rows /\ tlFade' = 0 /\ tlSpin' = {}
                 /\ UNCHANGED <<tlNet, tlSent, tlSaved, tlHeld>>
  BY DEF TLOpen
<1> DEFINE entry == Usable(tlCache, SavedSearch, old)
           l == Mounted(tlMounts + 1, SavedSearch, entry)
           X == Searches \cup {None}
<1>4. entry = None \/ entry \in Entries(Searches, TLRows)
  BY DEF Usable, TLTyped, TLKeptTyped
<1>5. l \in ListStates(X, TLRows) /\ l.on = tlMounts + 1 /\ l.search = SavedSearch
  <2>1. entry = None \/ entry \in Entries(X, TLRows)
    BY <1>4 DEF Entries
  <2>2. tlMounts + 1 \in Nat /\ SavedSearch \in X
    BY <1>1, <1>2 DEF Mounts
  <2> HIDE DEF entry, X
  <2>3. Mounted(tlMounts + 1, SavedSearch, entry) \in ListStates(X, TLRows)
    BY <2>1, <2>2, MountedTyped
  <2>4. /\ Mounted(tlMounts + 1, SavedSearch, entry).on = tlMounts + 1
        /\ Mounted(tlMounts + 1, SavedSearch, entry).search = SavedSearch
    BY MountedHook
  <2>5. QED
    BY <2>3, <2>4
<1> HIDE DEF entry, X, l
<1>6. UNCHANGED tlStore /\ UNCHANGED <<tlDue, tlTyped, tlCalm, tlEdited>>
  BY <1>0 DEF tlServer, tlInput
<1>7. TLHookTyped' /\ TLNetTyped' /\ tlSaved' \in X
  <2>1. CASE l.rows = << >>
    <3>1. FetchTransactions(l, FALSE)
      BY <1>3, <2>1 DEF l, entry
    <3>2. QED
      BY <1>1, <1>2, <1>5, <1>6, <3>1, TLFetchTyped DEF X
  <2>2. CASE l.rows # << >>
    <3>1. /\ tl' = l /\ tlShown' = l.rows /\ tlFade' = 0 /\ tlSpin' = {}
          /\ UNCHANGED <<tlNet, tlSent, tlSaved>>
      BY <1>3, <2>2 DEF l, entry
    <3>2. TLNetTyped' /\ tlSaved' \in X
      BY <1>6, <3>1, TLPartsKept DEF X, TLTyped, TLKeptTyped
    <3>3. TLRows' = TLRows
      BY <1>6 DEF TLRows
    <3>4. tl' \in ListStates(X, TLRows) /\ tlShown' \in Seq(TLRows) /\ tl'.on \in Mounts
          /\ tl'.search \in Searches
      BY <1>1, <1>2, <1>5, <3>1 DEF ListStates
    <3>5. tl'.on \in 0..MaxMounts /\ tl'.on # 0
      BY <3>4, BoundsAssumption DEF Mounts
    <3>6. TLHookTyped'
      BY <3>1, <3>3, <3>4, <3>5 DEF TLHookTyped, X
    <3>7. QED
      BY <3>2, <3>6
  <2>3. QED
    BY <2>1, <2>2
<1>8. TLKeptTyped'
  BY <1>0, <1>1, <1>7 DEF TLKeptTyped, X
<1>9. QED
  BY <1>6, <1>7, <1>8, TLPartsKept DEF TLTyped

LEMMA TLLeaveTyped == TLTyped /\ TLLeave => TLTyped'
<1> SUFFICES ASSUME TLTyped, TLLeave PROVE TLTyped'
  OBVIOUS
<1>1. /\ tl' = Unmounted /\ tlShown' = << >> /\ tlFade' = 0 /\ tlSpin' = {} /\ tlDue' = 0
      /\ UNCHANGED <<tlMounts, tlSaved, tlTyped, tlNet, tlSent, tlStore, tlEdited>>
      /\ tlCache' = IF tl.rows # << >> THEN Entry(tl) ELSE tlCache
      /\ tl.on # 0
      /\ tlCalm' = (tlCalm /\ tlNet = << >> /\ tlDue = 0)
  BY DEF TLLeave, tlServer
<1>2. TLRows' = TLRows /\ TLNetTyped' /\ tlStore' \in Seq([review : BOOLEAN, tagged : BOOLEAN])
  BY <1>1, TLPartsKept
<1>3. Unmounted \in ListStates(Searches \cup {None}, TLRows) /\ Unmounted.on = 0
  BY UnmountedTyped
<1>4. TLHookTyped'
  BY <1>1, <1>2, <1>3, BoundsAssumption DEF TLHookTyped
<1>5. Entry(tl) \in Entries(Searches, TLRows) /\ Entry(tl).rows = tl.rows
  BY <1>1 DEF Entry, Entries, TLTyped, TLHookTyped, ListStates
<1>6. TLKeptTyped'
  BY <1>1, <1>2, <1>3, <1>5 DEF TLTyped, TLKeptTyped
<1>7. QED
  BY <1>1, <1>2, <1>4, <1>6 DEF TLTyped

LEMMA TLFiltersTyped ==
  TLTyped /\ (UpdateFilter \/ SubmitFilters \/ ClearFilters \/ FetchDue) => TLTyped'
<1> SUFFICES ASSUME TLTyped, UpdateFilter \/ SubmitFilters \/ ClearFilters \/ FetchDue PROVE TLTyped'
  OBVIOUS
<1>0. tl \in ListStates(Searches \cup {None}, TLRows) /\ (tl.on # 0 => tl.on \in Mounts /\ tl.search \in Searches)
  BY BoundsAssumption DEF TLTyped, TLHookTyped, Mounts
<1>1. CASE UpdateFilter
  <2>1. /\ UNCHANGED <<tlScreen, tlDue, tlNet, tlSent, tlMounts, tlSaved, tlCache, tlStore, tlEdited, tlCalm, tl>>
        /\ tlTyped' \in Searches
    BY <1>1 DEF UpdateFilter, tlScreen, tlSession, tlServer, tlHistory
  <2>2. QED
    BY <2>1, TLPartsKept DEF TLTyped
<1>2. ASSUME NEW search \in Searches, tl.on # 0, tlDue = 0, SetSearchParams(search),
             UNCHANGED <<tlMounts, tlNet, tlSent, tlServer, tlHistory>>,
             tlSaved' = tlSaved \/ tlSaved' = None, tlTyped' = tlTyped \/ tlTyped' = None
      PROVE  TLTyped'
  <2>1. UNCHANGED <<tlStore, tlEdited, tlCalm>>
    BY <1>2 DEF tlServer, tlHistory
  <2>2. tlCache' = None /\ Becomes(SearchSet(tl, search)) /\ tlDue' = 1
    BY <1>2 DEF SetSearchParams
  <2>3. /\ SearchSet(tl, search) \in ListStates(Searches \cup {None}, TLRows)
        /\ SearchSet(tl, search).on = tl.on /\ SearchSet(tl, search).search = search
    BY <1>0, HookTypes, UpdatesKeep
  <2>4. TLHookTyped' /\ tl' = SearchSet(tl, search)
    BY <1>0, <1>2, <2>1, <2>2, <2>3, TLScreenTyped
  <2>5. TLKeptTyped'
    BY <1>2, <2>2 DEF TLTyped, TLKeptTyped
  <2>6. TLNetTyped' /\ tlStore' \in Seq([review : BOOLEAN, tagged : BOOLEAN])
    BY <1>2, <2>1, TLPartsKept
  <2>7. tlDue' \in 0..1 /\ tlTyped' \in Searches \cup {None}
    BY <1>2, <2>2 DEF TLTyped
  <2>8. QED
    BY <2>1, <2>4, <2>5, <2>6, <2>7 DEF TLTyped
<1>3. CASE SubmitFilters
  <2>1. CASE tl.on # 0
    <3>1. tlTyped \in Searches /\ SetSearchParams(tlTyped) /\ tlTyped' = None /\ tlDue = 0 /\ UNCHANGED tlSaved
      BY <1>3, <2>1 DEF SubmitFilters, TLTyped
    <3>2. QED
      BY <1>2, <1>3, <2>1, <3>1 DEF SubmitFilters
  <2>2. CASE tl.on = 0
    <3>1. /\ UNCHANGED <<tlScreen, tlDue, tlCache, tlMounts, tlSaved, tlNet, tlSent, tlStore, tlEdited, tlCalm, tl>>
          /\ tlTyped' = None
      BY <1>3, <2>2 DEF SubmitFilters, tlServer, tlHistory, tlScreen
    <3>2. QED
      BY <3>1, TLPartsKept DEF TLTyped
  <2>3. QED
    BY <2>1, <2>2
<1>4. CASE ClearFilters
  <2>1. {} \in Searches /\ SetSearchParams({}) /\ tlSaved' = None /\ tlDue = 0 /\ tl.on # 0 /\ UNCHANGED tlTyped
    BY <1>4 DEF ClearFilters, Searches
  <2>2. QED
    BY <1>2, <1>4, <2>1 DEF ClearFilters
<1>5. CASE FetchDue
  <2>1. /\ FetchTransactions(tl, FALSE) /\ tlDue > 0 /\ tlDue' = tlDue - 1
        /\ UNCHANGED <<tlMounts, tlTyped, tlCache, tlStore, tlEdited, tlCalm>>
    BY <1>5 DEF FetchDue, tlServer
  <2>2. tl.on # 0
    BY <2>1 DEF TLTyped, TLHookTyped
  <2>3. TLHookTyped' /\ TLNetTyped' /\ tlSaved' \in Searches \cup {None} /\ tl'.on = tl.on
    BY <1>0, <2>1, <2>2, TLFetchTyped
  <2>4. TLRows' = TLRows
    BY <2>1 DEF TLRows
  <2>5. TLKeptTyped'
    BY <2>1, <2>3, <2>2, <2>4 DEF TLTyped, TLKeptTyped
  <2>6. tlDue' \in 0..1
    BY <2>1 DEF TLTyped
  <2>7. QED
    BY <2>1, <2>3, <2>5, <2>6 DEF TLTyped
<1>6. QED
  BY <1>1, <1>3, <1>4, <1>5

IsFetch(q) == q.kind = "fetch"

-----------------------------------------------------------------------------
(* What the server has, and what a search finds of it. *)

LEMMA FilterApart ==
  ASSUME NEW S, NEW s \in Seq(S), NEW I \in SUBSET DOMAIN s
  PROVE  /\ Apart(s) => Apart(Filtered(s, I))
         /\ \A j \in DOMAIN Filtered(s, I) : \E i \in I : Filtered(s, I)[j] = s[i]
         /\ \A i \in I : \E j \in DOMAIN Filtered(s, I) : Filtered(s, I)[j] = s[i]
<1> DEFINE t == Filtered(s, I)
           n == Cardinality(I)
<1>1. /\ DOMAIN t = 1..n
      /\ \A j \in 1..n : Place(I, j) \in I /\ t[j] = s[Place(I, j)]
      /\ \A j, k \in 1..n : j < k => Place(I, j) < Place(I, k)
      /\ \A i \in I : \E j \in 1..n : Place(I, j) = i
  BY FilterKeeps
<1>2. n \in Nat /\ \A i \in I : i \in Nat
  <2>1. n \in 0..Len(s)
    BY FilterKeeps
  <2> HIDE DEF n
  <2>2. QED
    BY <2>1
<1> HIDE DEF t, n
<1>3. ASSUME Apart(s), NEW j \in DOMAIN t, NEW k \in DOMAIN t, t[j].id = t[k].id PROVE j = k
  <2>1. Place(I, j) \in I /\ Place(I, k) \in I /\ s[Place(I, j)].id = s[Place(I, k)].id
    BY <1>1, <1>3
  <2>2. Place(I, j) = Place(I, k)
    BY <1>3, <2>1 DEF Apart
  <2>3. Place(I, j) \in Nat /\ j \in 1..n /\ k \in 1..n
    BY <1>1, <1>2, <2>1
  <2>4. ~(j < k) /\ ~(k < j)
    BY <1>1, <2>2, <2>3
  <2>5. QED
    BY <1>2, <2>3, <2>4
<1>4. Apart(s) => Apart(t)
  BY <1>3 DEF Apart
<1>5. QED
  BY <1>1, <1>4 DEF t

LEMMA StoreRows ==
  ASSUME NEW store \in Seq([review : BOOLEAN, tagged : BOOLEAN])
  PROVE  LET R == [id : DOMAIN store, review : BOOLEAN, tagged : BOOLEAN]
             s == RowsOf(store)
         IN  /\ \A id \in DOMAIN store : Row(store, id) \in R /\ Row(store, id).id = id
             /\ s \in Seq(R) /\ DOMAIN s = 1..Len(store) /\ Len(s) = Len(store)
             /\ Apart(s)
             /\ \A i \in DOMAIN s : s[i].id \in DOMAIN store /\ s[i] = Row(store, s[i].id)
             /\ \A id \in DOMAIN store : \E i \in DOMAIN s : s[i] = Row(store, id)
<1> DEFINE R == [id : DOMAIN store, review : BOOLEAN, tagged : BOOLEAN]
           s == RowsOf(store)
           n == Len(store)
<1>1. n \in Nat /\ DOMAIN store = 1..n
  OBVIOUS
<1>2. ASSUME NEW id \in DOMAIN store PROVE Row(store, id) \in R /\ Row(store, id).id = id
  <2> DEFINE T == [review : BOOLEAN, tagged : BOOLEAN]
  <2>4. store \in Seq(T)
    OBVIOUS
  <2> HIDE DEF T
  <2>5. store[id] \in T
    BY <2>4
  <2>1. store[id] \in [review : BOOLEAN, tagged : BOOLEAN]
    BY <2>5 DEF T
  <2>2. store[id].review \in BOOLEAN /\ store[id].tagged \in BOOLEAN
    BY <2>1
  <2>3. QED
    BY <2>2 DEF Row
<1> HIDE DEF R, n
<1>3. \A i \in 1..n : n + 1 - i \in DOMAIN store
  BY <1>1
<1>4. s = [i \in 1..n |-> Row(store, n + 1 - i)]
  BY DEF RowsOf, n
<1> HIDE DEF s
<1>5. s \in [1..n -> R]
  BY <1>2, <1>3, <1>4
<1>6. s \in Seq(R) /\ Len(s) = n /\ DOMAIN s = 1..n
  BY <1>1, <1>5
<1>7. \A i \in 1..n : s[i] = Row(store, n + 1 - i) /\ s[i].id = n + 1 - i
  BY <1>2, <1>3, <1>4
<1>8. Apart(s)
  BY <1>1, <1>6, <1>7 DEF Apart
<1>9. ASSUME NEW i \in DOMAIN s PROVE s[i].id \in DOMAIN store /\ s[i] = Row(store, s[i].id)
  BY <1>3, <1>6, <1>7
<1>10. ASSUME NEW id \in DOMAIN store PROVE \E i \in DOMAIN s : s[i] = Row(store, id)
  <2>1. n + 1 - id \in 1..n /\ n + 1 - (n + 1 - id) = id
    BY <1>1
  <2>2. s[n + 1 - id] = Row(store, id)
    BY <1>7, <2>1
  <2>3. QED
    BY <1>6, <2>1, <2>2
<1>11. QED
  BY <1>2, <1>6, <1>8, <1>9, <1>10 DEF R, s, n

LEMMA FoundRows ==
  ASSUME NEW store \in Seq([review : BOOLEAN, tagged : BOOLEAN]), NEW search
  PROVE  LET R == [id : DOMAIN store, review : BOOLEAN, tagged : BOOLEAN]
             s == Found(store, search)
         IN  /\ s \in Seq(R) /\ Apart(s)
             /\ \A i \in DOMAIN s : s[i].id \in DOMAIN store /\ s[i] = Row(store, s[i].id)
<1> DEFINE R == [id : DOMAIN store, review : BOOLEAN, tagged : BOOLEAN]
           r == RowsOf(store)
           I == {i \in 1..Len(store) : "needs_review" \in search => RowsOf(store)[i].review}
<1>1. /\ r \in Seq(R) /\ DOMAIN r = 1..Len(store) /\ Apart(r)
      /\ \A i \in DOMAIN r : r[i].id \in DOMAIN store /\ r[i] = Row(store, r[i].id)
  BY StoreRows
<1>2. I \in SUBSET DOMAIN r
  BY <1>1
<1>3. Found(store, search) = Filtered(r, I)
  BY DEF Found
<1> HIDE DEF R, r, I
<1>4. Filtered(r, I) \in Seq(R) /\ Apart(Filtered(r, I))
  BY <1>1, <1>2, FilterKeeps, FilterApart
<1>5. \A j \in DOMAIN Filtered(r, I) : \E i \in I : Filtered(r, I)[j] = r[i]
  BY <1>1, <1>2, FilterApart
<1>6. \A i \in DOMAIN Filtered(r, I) : /\ Filtered(r, I)[i].id \in DOMAIN store
                                       /\ Filtered(r, I)[i] = Row(store, Filtered(r, I)[i].id)
  BY <1>1, <1>2, <1>5
<1>7. QED
  BY <1>3, <1>4, <1>6 DEF R

LEMMA TLTableTyped == TLTyped /\ (ScrollToEnd \/ FadeEnds \/ EditRow) => TLTyped'
<1> SUFFICES ASSUME TLTyped, ScrollToEnd \/ FadeEnds \/ EditRow PROVE TLTyped'
  OBVIOUS
<1>0. /\ tl \in ListStates(Searches \cup {None}, TLRows)
      /\ tl.on # 0 => tl.on \in Mounts /\ tl.search \in Searches
      /\ tlShown \in Seq(TLRows) /\ (tlShown # << >> => tl.on # 0)
  BY BoundsAssumption DEF TLTyped, TLHookTyped, Mounts
<1>1. CASE ScrollToEnd
  <2>1. /\ FetchTransactions(tl, TRUE) /\ tl.on # 0
        /\ UNCHANGED <<tlMounts, tlTyped, tlDue, tlCache, tlStore, tlEdited>>
        /\ tlCalm' \in BOOLEAN
    BY <1>1 DEF ScrollToEnd, tlServer, tlInput
  <2>2. TLHookTyped' /\ TLNetTyped' /\ tlSaved' \in Searches \cup {None} /\ tl'.on = tl.on
    BY <1>0, <2>1, TLFetchTyped
  <2>3. TLKeptTyped'
    BY <2>1, <2>2 DEF TLTyped, TLKeptTyped
  <2>4. QED
    BY <2>1, <2>2, <2>3 DEF TLTyped
<1>2. CASE FadeEnds
  <2>1. /\ tlFade > 0 /\ tlFade' = tlFade - 1 /\ tlShown' = FadedOut(tl, tlShown) /\ tlSpin' = {}
        /\ UNCHANGED <<tl, tlDue, tlTyped, tlNet, tlSent, tlMounts, tlSaved, tlCache, tlStore,
                       tlEdited, tlCalm>>
    BY <1>2 DEF FadeEnds, tlInput, tlSession, tlServer, tlHistory
  <2>2. TLRows' = TLRows /\ TLKeptTyped' /\ TLNetTyped'
    BY <2>1, TLPartsKept
  <2>3. tlShown' \in Seq(TLRows) /\ (tlShown = << >> => tlShown' = << >>)
    BY <1>0, <2>1, DrawnTyped DEF FadedOut
  <2>4. tlFade' \in Nat
    BY <2>1 DEF TLTyped, TLHookTyped
  <2>5. TLHookTyped'
    BY <2>1, <2>2, <2>3, <2>4 DEF TLTyped, TLHookTyped
  <2>6. QED
    BY <2>1, <2>2, <2>5 DEF TLTyped
<1>3. CASE EditRow
  <2>1. PICK i \in DOMAIN tlShown :
          \/ ConfirmType(tlShown[i]) \/ ChooseTypeOrCategory(tlShown[i])
          \/ AddTag(tlShown[i]) \/ RemoveTag(tlShown[i])
    BY <1>3 DEF EditRow
  <2> DEFINE r == tlShown[i]
             E == {"classify", "classify_all", "tag", "untag"}
  <2>2. r \in TLRows /\ r.id \in DOMAIN tlStore /\ tl.on \in Mounts
    <3>1. r \in TLRows /\ tlShown # << >>
      BY <1>0
    <3>2. QED
      BY <1>0, <3>1 DEF TLRows
  <2>3. /\ \E kind \in E : Edit(kind, r)
        /\ tlSpin' = tlSpin \/ tlSpin' = tlSpin \cup {r.id}
    BY <2>1 DEF ConfirmType, ChooseTypeOrCategory, AddTag, RemoveTag
  <2>4. PICK kind \in E : Edit(kind, r)
    BY <2>3
  <2> DEFINE q == [kind |-> kind, on |-> tl.on, served |-> FALSE, id |-> r.id, row |-> None]
  <2>5. /\ Send(q)
        /\ UNCHANGED <<tl, tlShown, tlFade, tlDue, tlTyped, tlMounts, tlSaved, tlCache, tlStore, tlEdited, tlCalm>>
    BY <2>4 DEF Edit, tlInput, tlSession, tlServer, tlHistory
  <2>6. q \in TLRequests
    <3>1. q \in TLEdits
      BY <2>2 DEF TLEdits
    <3> HIDE DEF q
    <3>2. QED
      BY <3>1 DEF TLRequests
  <2>7. ~q.served
    OBVIOUS
  <2> HIDE DEF q
  <2>8. TLNetTyped'
    BY <2>5, <2>6, <2>7, TLSendTyped
  <2>9. TLRows' = TLRows /\ TLKeptTyped'
    BY <2>5, TLPartsKept
  <2>10. tlSpin' \subseteq DOMAIN tlStore
    BY <2>2, <2>3 DEF TLTyped, TLHookTyped
  <2>11. TLHookTyped'
    BY <2>5, <2>9, <2>10 DEF TLTyped, TLHookTyped
  <2>12. QED
    BY <2>5, <2>8, <2>9, <2>11 DEF TLTyped
<1>4. QED
  BY <1>1, <1>2, <1>3

LEMMA StoreServed ==
  ASSUME TLTyped, NEW i \in DOMAIN tlNet, Serve(i)
  PROVE  /\ tlStore' \in Seq([review : BOOLEAN, tagged : BOOLEAN])
         /\ DOMAIN tlStore' = DOMAIN tlStore
         /\ IsFetch(tlNet[i]) => UNCHANGED tlServer
         /\ ~IsFetch(tlNet[i]) =>
              /\ tlStore' = [id \in DOMAIN tlStore |-> Edited(tlStore[id], tlNet[i], id)]
              /\ tlEdited' = (tlEdited \/ tlNet[i].kind \in {"classify", "classify_all"})
<1> DEFINE T == [review : BOOLEAN, tagged : BOOLEAN]
           q == tlNet[i]
<1>1. tlStore \in Seq(T)
  BY DEF TLTyped
<1>2. CASE IsFetch(q)
  BY <1>1, <1>2 DEF Serve, IsFetch, tlServer
<1>3. CASE ~IsFetch(q)
  <2>1. tlStore' = [id \in DOMAIN tlStore |-> Edited(tlStore[id], q, id)]
        /\ tlEdited' = (tlEdited \/ q.kind \in {"classify", "classify_all"})
    BY <1>3 DEF Serve, IsFetch
  <2>2. ASSUME NEW id \in DOMAIN tlStore PROVE Edited(tlStore[id], q, id) \in T
    <3> HIDE DEF T
    <3>1. tlStore[id] \in T
      BY <1>1
    <3> USE DEF T
    <3>2. /\ [tlStore[id] EXCEPT !.review = FALSE] \in T
          /\ [tlStore[id] EXCEPT !.tagged = q.kind = "tag"] \in T
      <4>1. (q.kind = "tag") \in BOOLEAN
        OBVIOUS
      <4> DEFINE b == q.kind = "tag"
      <4> HIDE DEF b
      <4>2. b \in BOOLEAN
        BY <4>1 DEF b
      <4>3. [tlStore[id] EXCEPT !.tagged = b] \in T
        BY <3>1, <4>2
      <4>4. [tlStore[id] EXCEPT !.review = FALSE] \in T
        BY <3>1
      <4>5. QED
        BY <4>3, <4>4 DEF b
    <3>3. QED
      BY <3>1, <3>2 DEF Edited
  <2> DEFINE f == [id \in DOMAIN tlStore |-> Edited(tlStore[id], q, id)]
  <2>3. f \in [1..Len(tlStore) -> T] /\ Len(tlStore) \in Nat
    BY <1>1, <2>2
  <2> HIDE DEF f
  <2>4. f \in Seq(T)
    <3> HIDE DEF T
    <3>1. QED
      BY <2>3
  <2>5. DOMAIN f = DOMAIN tlStore
    BY <1>1, <2>3
  <2>6. QED
    BY <1>3, <2>1, <2>4, <2>5 DEF f
<1>4. QED
  BY <1>2, <1>3

LEMMA TLServeTyped == ASSUME TLTyped, NEW i \in DOMAIN tlNet, Serve(i) PROVE TLTyped'
<1> DEFINE q == tlNet[i]
           T == [review : BOOLEAN, tagged : BOOLEAN]
<1>1. /\ tlStore' \in Seq(T) /\ DOMAIN tlStore' = DOMAIN tlStore
      /\ UNCHANGED <<tl, tlShown, tlFade, tlSpin, tlDue, tlTyped, tlSent, tlMounts, tlSaved, tlCache>>
      /\ ~q.served /\ tlCalm' \in BOOLEAN
  BY StoreServed DEF Serve, tlScreen, tlInput, tlSession
<1>2. TLRows' = TLRows /\ TLRequests' = TLRequests
  BY <1>1 DEF TLRows, TLRequests, TLFetches, TLEdits
<1>3. tlNet \in Seq(TLRequests) /\ q \in TLRequests /\ tlStore \in Seq(T)
  BY DEF TLTyped, TLNetTyped
<1>4. PICK e \in TLRequests : tlNet' = [tlNet EXCEPT ![i] = e] /\ EditServed(e)
  <2>1. CASE IsFetch(q)
    <3> DEFINE found == Found(tlStore, q.search)
               items == PageOf(found, q.page)
               pages == Pages(found)
               e == [q EXCEPT !.served = TRUE, !.items = items, !.pages = pages]
    <3>1. q \in TLFetches
      BY <1>3, <2>1 DEF TLRequests, TLEdits, IsFetch
    <3>2. found \in Seq(TLRows)
      BY <1>3, FoundRows DEF TLRows
    <3>3. q.page \in Nat \ {0}
      BY <3>1 DEF TLFetches
    <3> HIDE DEF found
    <3>4. items \in Seq(TLRows) /\ pages \in Nat
      BY <3>2, <3>3, PageTyped
    <3>5. tlNet' = [tlNet EXCEPT ![i] = [q EXCEPT !.served = TRUE, !.items = items, !.pages = pages]]
      BY <1>3, <2>1 DEF Serve, IsFetch, found
    <3> HIDE DEF items, pages
    <3>6. e \in TLFetches /\ e.kind = "fetch"
      BY <3>1, <3>4 DEF TLFetches
    <3> HIDE DEF e
    <3>7. e \in TLRequests /\ EditServed(e)
      BY <3>6 DEF TLRequests, EditServed
    <3>8. QED
      BY <3>5, <3>7 DEF e
  <2>2. CASE ~IsFetch(q)
    <3> DEFINE row == Row(tlStore', q.id)
               e == [q EXCEPT !.served = TRUE, !.row = row]
    <3>1. q \in TLEdits
      BY <1>3, <2>2 DEF TLRequests, TLFetches, IsFetch
    <3>2. q.id \in DOMAIN tlStore'
      BY <1>1, <3>1 DEF TLEdits
    <3>3. row \in TLRows /\ row.id = q.id
      BY <1>1, <3>2, StoreRows DEF TLRows
    <3>4. tlNet' = [tlNet EXCEPT ![i] = [q EXCEPT !.served = TRUE, !.row = row]]
      BY <1>3, <2>2 DEF Serve, IsFetch
    <3> HIDE DEF row
    <3>5. e \in TLEdits /\ e.row = row /\ e.id = q.id
      BY <3>1, <3>3 DEF TLEdits
    <3> HIDE DEF e
    <3>6. e \in TLRequests /\ EditServed(e)
      BY <3>3, <3>5 DEF TLRequests, EditServed
    <3>7. QED
      BY <3>4, <3>6 DEF e
  <2>3. QED
    BY <2>1, <2>2
<1>5. TLNetTyped'
  <2>1. tlNet' \in Seq(TLRequests) /\ Len(tlNet') = Len(tlNet) /\ DOMAIN tlNet' = DOMAIN tlNet
    BY <1>3, <1>4
  <2>2. \A j \in DOMAIN tlNet : tlNet'[j] = IF j = i THEN e ELSE tlNet[j]
    BY <1>3, <1>4
  <2>3. ASSUME NEW j \in DOMAIN tlNet PROVE EditServed(tlNet'[j])
    BY <1>4, <2>2 DEF TLTyped, TLNetTyped
  <2>4. ASSUME NEW j \in DOMAIN tlNet' PROVE EditServed(tlNet[j])'
    BY <1>2, <2>1, <2>3 DEF EditServed
  <2>5. QED
    BY <1>1, <1>2, <2>1, <2>4 DEF TLTyped, TLNetTyped
<1>6. TLHookTyped' /\ TLKeptTyped'
  BY <1>1, <1>2 DEF TLTyped, TLHookTyped, TLKeptTyped
<1>7. tlEdited' \in BOOLEAN
  <2>1. tlEdited \in BOOLEAN
    BY DEF TLTyped
  <2>2. CASE IsFetch(q)
    BY <2>1, <2>2 DEF Serve, IsFetch, tlServer
  <2>3. CASE ~IsFetch(q)
    BY <2>3, StoreServed
  <2>4. QED
    BY <2>2, <2>3
<1>8. QED
  BY <1>1, <1>5, <1>6, <1>7 DEF TLTyped

LEMMA TLDropTyped ==
  ASSUME TLTyped, NEW i \in DOMAIN tlNet, tlNet' = RemoveAt(tlNet, i), UNCHANGED <<tlSent, tlStore>>
  PROVE  TLNetTyped'
<1>1. tlNet \in Seq(TLRequests) /\ tlSent \in 0..MaxSent /\ Len(tlNet) <= tlSent /\ Len(tlNet) \in Nat
  BY DEF TLTyped, TLNetTyped
<1>2. /\ tlNet' \in Seq(TLRequests) /\ Len(tlNet') = Len(tlNet) - 1
      /\ Range(tlNet') \subseteq Range(tlNet)
  BY <1>1, EntriesRemoved
<1>3. TLRows' = TLRows /\ TLRequests' = TLRequests
  BY DEF TLRows, TLRequests, TLFetches, TLEdits
<1>4. ASSUME NEW j \in DOMAIN tlNet' PROVE EditServed(tlNet[j])'
  <2>1. tlNet'[j] \in Range(tlNet)
    BY <1>2 DEF Range
  <2>2. EditServed(tlNet'[j])
    BY <2>1 DEF TLTyped, TLNetTyped, Range
  <2>3. QED
    BY <1>3, <2>2 DEF EditServed
<1>5. Len(tlNet') <= tlSent
  BY <1>1, <1>2, BoundsAssumption
<1>6. QED
  BY <1>1, <1>2, <1>3, <1>4, <1>5 DEF TLNetTyped

(* An answer to an edit: the rows of that id change, and keep it.            *)
LEMMA RowAnsweredTyped ==
  ASSUME NEW X, NEW l \in ListStates(X, TLRows), NEW q \in TLEdits, q.row \in TLRows, q.row.id = q.id
  PROVE  LET k == RowAnswered(l, q)
         IN  /\ k \in ListStates(X, TLRows) /\ k.on = l.on /\ k.search = l.search
             /\ k.page = l.page /\ k.hasMore = l.hasMore
             /\ DOMAIN k.rows = DOMAIN l.rows /\ Len(k.rows) = Len(l.rows)
             /\ \A i \in DOMAIN l.rows :
                  k.rows[i] = IF l.rows[i].id # q.id THEN l.rows[i]
                              ELSE IF q.kind \in {"tag", "untag"}
                              THEN [l.rows[i] EXCEPT !.tagged = (q.kind = "tag")] ELSE q.row
<1> DEFINE b == q.kind = "tag"
           t == [i \in DOMAIN l.rows |-> IF l.rows[i].id # q.id THEN l.rows[i]
                                         ELSE IF q.kind \in {"tag", "untag"}
                                         THEN [l.rows[i] EXCEPT !.tagged = b] ELSE q.row]
<1>1. b \in BOOLEAN
  OBVIOUS
<1>2. l.rows \in Seq(TLRows) /\ DOMAIN l.rows = 1..Len(l.rows) /\ Len(l.rows) \in Nat
  BY DEF ListStates
<1>3. RowAnswered(l, q) = [l EXCEPT !.rows = t]
  <2>1. CASE q.kind \in {"tag", "untag"}
    BY <2>1 DEF RowAnswered, ListStates
  <2>2. CASE q.kind \notin {"tag", "untag"}
    BY <2>2 DEF RowAnswered, RowReplaced, ListStates
  <2>3. QED
    BY <2>1, <2>2
<1> HIDE DEF b
<1>4. ASSUME NEW i \in DOMAIN l.rows PROVE t[i] \in TLRows
  <2>1. l.rows[i] \in TLRows
    BY <1>2
  <2>2. [l.rows[i] EXCEPT !.tagged = b] \in TLRows
    BY <1>1, <2>1 DEF TLRows
  <2>3. QED
    BY <2>1, <2>2
<1>5. t \in [1..Len(l.rows) -> TLRows]
  BY <1>2, <1>4
<1>6. \A i \in DOMAIN l.rows :
        t[i] = IF l.rows[i].id # q.id THEN l.rows[i]
               ELSE IF q.kind \in {"tag", "untag"}
               THEN [l.rows[i] EXCEPT !.tagged = b] ELSE q.row
  OBVIOUS
<1> HIDE DEF t
<1>7. t \in Seq(TLRows) /\ Len(t) = Len(l.rows) /\ DOMAIN t = DOMAIN l.rows
  BY <1>2, <1>5
<1>8. /\ [l EXCEPT !.rows = t] \in ListStates(X, TLRows)
      /\ [l EXCEPT !.rows = t].on = l.on /\ [l EXCEPT !.rows = t].search = l.search
      /\ [l EXCEPT !.rows = t].page = l.page /\ [l EXCEPT !.rows = t].hasMore = l.hasMore
      /\ [l EXCEPT !.rows = t].rows = t
  BY <1>7 DEF ListStates
<1>9. QED
  BY <1>3, <1>6, <1>7, <1>8 DEF b

LEMMA TLAnswerTyped == ASSUME TLTyped, NEW i \in DOMAIN tlNet, Answer(i) PROVE TLTyped'
<1> DEFINE q == tlNet[i]
           X == Searches \cup {None}
<1>1. /\ q.served /\ tlNet' = RemoveAt(tlNet, i)
      /\ UNCHANGED <<tlDue, tlTyped, tlSent, tlMounts, tlSaved, tlCache, tlStore, tlEdited>>
      /\ tlCalm' \in BOOLEAN
  BY DEF Answer, tlInput, tlSession, tlServer
<1>2. /\ q \in TLRequests /\ EditServed(q)
      /\ tl \in ListStates(X, TLRows) /\ (tl.on # 0 => tl.search \in Searches)
  BY DEF TLTyped, TLNetTyped, TLHookTyped
<1>3. TLNetTyped'
  BY <1>1, TLDropTyped
<1>4. TLHookTyped' /\ tl'.on = tl.on
  <2>1. CASE q.on # tl.on
    <3>1. UNCHANGED <<tlScreen, tlDue, tl>>
      BY <1>1, <2>1 DEF Answer, tlScreen
    <3>2. QED
      BY <1>1, <3>1, TLPartsKept
  <2>2. CASE q.on = tl.on /\ IsFetch(q)
    <3>1. q \in TLFetches
      BY <1>2, <2>2 DEF TLRequests, TLEdits, IsFetch
    <3>2. Becomes(Fetched(tl, q)) /\ q.on \in Mounts
      BY <2>2, <3>1 DEF Answer, IsFetch, TLFetches
    <3>3. q.more \in BOOLEAN /\ q.items \in Seq(TLRows) /\ q.page \in Nat \ {0}
      BY <3>1 DEF TLFetches
    <3>4. Fetched(tl, q) \in ListStates(X, TLRows)
      BY <1>2, <3>3, FetchedTyped
    <3>5. Fetched(tl, q).on = tl.on /\ Fetched(tl, q).search = tl.search
      BY <1>2, HookTypes, UpdatesKeep DEF Keeps
    <3>6. tl.search \in Searches /\ tl.on \in Mounts
      BY <1>2, <2>2, <3>2 DEF Mounts
    <3>7. QED
      BY <1>1, <3>2, <3>4, <3>5, <3>6, TLScreenTyped
  <2>3. CASE q.on = tl.on /\ ~IsFetch(q)
    <3>1. q \in TLEdits
      BY <1>2, <2>3 DEF TLRequests, TLFetches, IsFetch
    <3>2. Becomes(RowAnswered(tl, q)) /\ q.on \in Mounts
      BY <2>3, <3>1 DEF Answer, IsFetch, TLEdits
    <3>3. q.row \in TLRows /\ q.row.id = q.id
      BY <1>1, <1>2, <2>3 DEF EditServed, IsFetch
    <3>4. /\ RowAnswered(tl, q) \in ListStates(X, TLRows)
          /\ RowAnswered(tl, q).on = tl.on /\ RowAnswered(tl, q).search = tl.search
      BY <1>2, <3>1, <3>3, RowAnsweredTyped
    <3>6. tl.search \in Searches /\ tl.on \in Mounts
      BY <1>2, <2>3, <3>2 DEF Mounts
    <3>7. QED
      BY <1>1, <3>2, <3>4, <3>6, TLScreenTyped
  <2>4. QED
    BY <2>1, <2>2, <2>3
<1>5. TLKeptTyped'
  BY <1>1, <1>4, TLPartsKept DEF TLTyped, TLKeptTyped
<1>6. QED
  BY <1>1, <1>3, <1>4, <1>5 DEF TLTyped

LEMMA TLFailTyped == ASSUME TLTyped, NEW i \in DOMAIN tlNet, Fail(i) PROVE TLTyped'
<1> DEFINE q == tlNet[i]
<1>1. /\ tlNet' = RemoveAt(tlNet, i) /\ tlCalm' = FALSE
      /\ UNCHANGED <<tlDue, tlTyped, tlSent, tlMounts, tlSaved, tlCache, tlStore, tlEdited>>
      /\ Becomes(FetchFailed(tl)) \/ UNCHANGED tlScreen
      /\ Becomes(FetchFailed(tl)) => q.on = tl.on \/ UNCHANGED tlScreen
  BY DEF Fail, tlInput, tlSession, tlServer
<1>2. TLNetTyped'
  BY <1>1, TLDropTyped
<1>3. TLHookTyped' /\ tl'.on = tl.on
  <2>1. CASE UNCHANGED tlScreen
    BY <1>1, <2>1, TLPartsKept DEF tlScreen
  <2>2. CASE Becomes(FetchFailed(tl)) /\ q.on = tl.on
    <3>1. q \in TLRequests /\ tl \in ListStates(Searches \cup {None}, TLRows)
          /\ (tl.on # 0 => tl.search \in Searches)
      BY DEF TLTyped, TLNetTyped, TLHookTyped
    <3>2. tl.on \in Mounts /\ tl.search \in Searches
      BY <2>2, <3>1 DEF TLRequests, TLFetches, TLEdits, Mounts
    <3>3. /\ FetchFailed(tl) \in ListStates(Searches \cup {None}, TLRows)
          /\ FetchFailed(tl).on = tl.on /\ FetchFailed(tl).search = tl.search
      BY <3>1, HookTypes, UpdatesKeep DEF Keeps
    <3>4. QED
      BY <1>1, <2>2, <3>2, <3>3, TLScreenTyped
  <2>3. QED
    BY <1>1, <2>1, <2>2
<1>4. TLKeptTyped'
  BY <1>1, <1>3, TLPartsKept DEF TLTyped, TLKeptTyped
<1>5. QED
  BY <1>1, <1>2, <1>3, <1>4 DEF TLTyped

LEMMA TLArrivesTyped == TLTyped /\ TransactionArrives => TLTyped'
<1> SUFFICES ASSUME TLTyped, TransactionArrives PROVE TLTyped'
  OBVIOUS
<1> DEFINE T == [review : BOOLEAN, tagged : BOOLEAN]
           t == [review |-> TRUE, tagged |-> FALSE]
<1>1. /\ tlStore' = Append(tlStore, t) /\ tlCalm' = FALSE
      /\ UNCHANGED <<tl, tlShown, tlFade, tlSpin, tlDue, tlTyped, tlNet, tlSent, tlMounts, tlSaved,
                     tlCache, tlEdited>>
  BY DEF TransactionArrives, tlScreen, tlInput, tlSession
<1>2. tlStore \in Seq(T) /\ t \in T
  BY DEF TLTyped
<1> HIDE DEF t, T
<1>3. tlStore' \in Seq(T) /\ DOMAIN tlStore \subseteq DOMAIN tlStore'
  BY <1>1, <1>2
<1>4. TLRows \subseteq TLRows'
  BY <1>3 DEF TLRows
<1>5. Seq(TLRows) \subseteq Seq(TLRows')
  BY <1>4
<1>6. TLRequests \subseteq TLRequests'
  <2>1. TLFetches \subseteq TLFetches'
    BY <1>5 DEF TLFetches
  <2>2. TLEdits \subseteq TLEdits'
    BY <1>3, <1>4 DEF TLEdits
  <2>3. QED
    BY <2>1, <2>2 DEF TLRequests
<1>7. TLNetTyped'
  <2>1. tlNet' \in Seq(TLRequests')
    <3>1. tlNet \in Seq(TLRequests)
      BY DEF TLTyped, TLNetTyped
    <3>2. QED
      BY <1>1, <1>6, <3>1
  <2>2. ASSUME NEW j \in DOMAIN tlNet' PROVE EditServed(tlNet[j])'
    <3>1. EditServed(tlNet[j])
      BY <1>1 DEF TLTyped, TLNetTyped
    <3>2. QED
      BY <1>1, <1>4, <3>1 DEF EditServed
  <2>3. QED
    BY <1>1, <2>1, <2>2 DEF TLTyped, TLNetTyped
<1>8. TLHookTyped'
  <2>1. tl \in ListStates(Searches \cup {None}, TLRows')
    BY <1>5 DEF TLTyped, TLHookTyped, ListStates
  <2>2. tlShown \in Seq(TLRows') /\ tlSpin \subseteq DOMAIN tlStore'
    BY <1>3, <1>5 DEF TLTyped, TLHookTyped
  <2>3. QED
    BY <1>1, <2>1, <2>2 DEF TLTyped, TLHookTyped
<1>9. TLKeptTyped'
  <2>1. tlCache = None \/ (tlCache \in Entries(Searches, TLRows') /\ tlCache.rows # << >>)
    BY <1>5 DEF TLTyped, TLKeptTyped, Entries
  <2>2. QED
    BY <1>1, <2>1 DEF TLTyped, TLKeptTyped
<1>10. QED
  BY <1>1, <1>3, <1>7, <1>8, <1>9 DEF TLTyped, T

LEMMA TLTypedStep == TLTyped /\ [TLNext]_tlVars => TLTyped'
<1> SUFFICES ASSUME TLTyped, [TLNext]_tlVars PROVE TLTyped'
  OBVIOUS
<1>1. CASE UNCHANGED tlVars
  BY <1>1, TLPartsKept DEF tlVars, tlScreen, TLTyped
<1>2. CASE TLOpen \/ TLLeave
  BY <1>2, TLOpenTyped, TLLeaveTyped
<1>3. CASE UpdateFilter \/ SubmitFilters \/ ClearFilters \/ FetchDue
  BY <1>3, TLFiltersTyped
<1>4. CASE ScrollToEnd \/ FadeEnds \/ EditRow
  BY <1>4, TLTableTyped
<1>5. CASE \E i \in DOMAIN tlNet : Serve(i) \/ Answer(i) \/ Fail(i)
  BY <1>5, TLServeTyped, TLAnswerTyped, TLFailTyped
<1>6. CASE TransactionArrives
  BY <1>6, TLArrivesTyped
<1>7. QED
  BY <1>1, <1>2, <1>3, <1>4, <1>5, <1>6 DEF TLNext

LEMMA TLTypedOK == TLTyped => TLTypeOK
<1> SUFFICES ASSUME TLTyped PROVE TLTypeOK
  OBVIOUS
<1>1. tl \in ListStates(Searches \cup {None}, TLRows) /\ tlShown \in Seq(TLRows)
  BY DEF TLTyped, TLHookTyped
<1>2. tl.on \in 0..MaxMounts /\ tl.search \in Searches \cup {None} /\ tl.page \in Nat
  BY <1>1 DEF ListStates, TLTyped, TLHookTyped
<1>3. \A f \in {"loading", "loadingMore", "error", "hasMore"} : tl[f] \in BOOLEAN
  BY <1>1 DEF ListStates
<1>4. ASSUME NEW rows \in Seq(TLRows) PROVE IdsOf(rows) \subseteq DOMAIN tlStore
  <2>1. \A i \in DOMAIN rows : rows[i] \in TLRows
    OBVIOUS
  <2>2. QED
    BY <2>1 DEF IdsOf, TLRows
<1>5. IdsOf(tl.rows) \cup IdsOf(tlShown) \cup tlSpin \subseteq DOMAIN tlStore
  <2>1. tl.rows \in Seq(TLRows)
    BY <1>1 DEF ListStates
  <2>2. IdsOf(tl.rows) \subseteq DOMAIN tlStore /\ IdsOf(tlShown) \subseteq DOMAIN tlStore
    BY <1>1, <1>4, <2>1
  <2>3. QED
    BY <2>2 DEF TLTyped, TLHookTyped
<1>6. tlCache = None \/ tlCache.search \in Searches
  BY DEF TLTyped, TLKeptTyped, Entries
<1>7. QED
  BY <1>2, <1>3, <1>5, <1>6 DEF TLTypeOK, TLTyped, TLHookTyped, TLKeptTyped, TLNetTyped

-----------------------------------------------------------------------------
(* The merchants page, by the types of what it keeps. *)

MemberOf == Groups \cup {None}

MLStored == [group : MemberOf, in : SUBSET MemberOf, edited : BOOLEAN]

MLRows == [id : Merchants, group : MemberOf, in : SUBSET MemberOf, edited : BOOLEAN]

MLStates == ListStates(MerchantSearches \cup {None}, MLRows)

MLFetches ==
  [kind : {"fetch"}, served : BOOLEAN, search : MerchantSearches, more : BOOLEAN,
   page : Nat \ {0}, items : Seq(MLRows), pages : Nat]

MLUpdates == [kind : {"update"}, served : BOOLEAN, id : Merchants, row : MLRows \cup {None}]

MLMoves ==
  [kind : {"move"}, served : BOOLEAN, id : Merchants, from : MemberOf, to : MemberOf,
   steps : Seq({"add", "remove"}), search : MerchantSearches]

MLRequests == MLFetches \cup MLUpdates \cup MLMoves

\* An update that is served has a row to answer with.
UpdateServed(q) == q.kind = "update" /\ q.served => q.row \in MLRows /\ q.row.id = q.id

MLHookTyped ==
  /\ ml \in MLStates /\ ml.on \in 0..1
  /\ ml.on = 0 => mlShown = << >>
  /\ ml.on # 0 => ml.search \in MerchantSearches
  /\ mlShown \in Seq(MLRows) /\ mlFade \in Nat

MLNetTyped ==
  /\ mlNet \in Seq(MLRequests) /\ mlSent \in 0..MaxMerchantsSent /\ Len(mlNet) <= mlSent
  /\ \A j \in DOMAIN mlNet : UpdateServed(mlNet[j])

MLTyped ==
  /\ MLHookTyped /\ MLNetTyped
  /\ ml.on = 0 => mlNet = << >> /\ mlDue = 0 /\ mlTyped = None
  /\ mlDue \in 0..1 /\ mlTyped \in MerchantSearches \cup {None}
  /\ mlStore \in [Merchants -> MLStored]
  /\ mlCalm \in BOOLEAN

LEMMA MerchantRows ==
  ASSUME NEW store \in [Merchants -> MLStored], NEW search
  PROVE  LET s == MerchantsFound(store, search)
         IN  /\ s \in Seq(MLRows) /\ Apart(s)
             /\ \A i \in DOMAIN s : s[i].id \in Merchants /\ s[i] = MerchantRow(store, s[i].id)
             /\ \A m \in Merchants : MerchantRow(store, m) \in MLRows /\ MerchantRow(store, m).id = m
<1> DEFINE r == [m \in Merchants |-> MerchantRow(store, m)]
           I == {m \in Merchants : /\ search.term # None => m = 1
                                   /\ search.group # None => store[m].group = search.group}
<1>1. ASSUME NEW m \in Merchants PROVE MerchantRow(store, m) \in MLRows /\ MerchantRow(store, m).id = m
  <2>1. store[m] \in MLStored
    OBVIOUS
  <2>2. QED
    BY <2>1 DEF MerchantRow, MLRows, MLStored
<1>2. MerchantCount \in Nat /\ Merchants = 1..MerchantCount
  BY MerchantsAssumption DEF Merchants
<1>3. r \in [1..MerchantCount -> MLRows] /\ \A m \in Merchants : r[m] = MerchantRow(store, m)
  BY <1>1, <1>2
<1>4. I \in SUBSET Merchants /\ MerchantsFound(store, search) = Filtered(r, I)
  BY DEF MerchantsFound
<1> HIDE DEF r, I
<1>5. r \in Seq(MLRows) /\ DOMAIN r = Merchants
  BY <1>2, <1>3
<1>6. \A i \in DOMAIN r : r[i].id = i
  BY <1>1, <1>3, <1>5
<1>7. Apart(r)
  BY <1>6 DEF Apart
<1>8. Filtered(r, I) \in Seq(MLRows) /\ Apart(Filtered(r, I))
  BY <1>4, <1>5, <1>7, FilterKeeps, FilterApart
<1>9. \A j \in DOMAIN Filtered(r, I) : \E i \in I : Filtered(r, I)[j] = r[i]
  BY <1>4, <1>5, FilterApart
<1>10. \A i \in DOMAIN Filtered(r, I) :
         /\ Filtered(r, I)[i].id \in Merchants
         /\ Filtered(r, I)[i] = MerchantRow(store, Filtered(r, I)[i].id)
  BY <1>1, <1>3, <1>4, <1>9
<1>11. QED
  BY <1>1, <1>4, <1>8, <1>10

LEMMA MLInitTyped == MLInit => MLTyped
<1> SUFFICES ASSUME MLInit PROVE MLTyped
  OBVIOUS
<1>1. ml = Unmounted /\ Unmounted \in MLStates /\ Unmounted.on = 0
  <2>1. None \in MerchantSearches \cup {None}
    OBVIOUS
  <2>2. QED
    BY <2>1, UnmountedTyped DEF MLInit, MLStates
<1>2. MLHookTyped
  BY <1>1 DEF MLInit, MLHookTyped
<1>3. MLNetTyped
  <2>1. mlNet = << >> /\ mlSent = 0
    BY DEF MLInit
  <2>2. << >> \in Seq(MLRequests) /\ Len(<< >>) = 0 /\ DOMAIN << >> = {} /\ 0 \in 0..MaxMerchantsSent
    BY MerchantsAssumption
  <2>3. QED
    BY <2>1, <2>2 DEF MLNetTyped
<1>4. mlStore \in [Merchants -> MLStored]
  <2>1. /\ [group |-> "g1", in |-> {"g1"}, edited |-> FALSE] \in MLStored
        /\ [group |-> None, in |-> {}, edited |-> FALSE] \in MLStored
    BY DEF MLStored, MemberOf, Groups
  <2>2. QED
    BY <2>1 DEF MLInit
<1>5. mlDue = 0 /\ mlTyped = None /\ mlNet = << >>
  BY DEF MLInit
<1>6. mlCalm \in BOOLEAN
  BY DEF MLInit
<1>7. QED
  BY <1>2, <1>3, <1>4, <1>5, <1>6 DEF MLTyped

LEMMA MLScreenTyped ==
  ASSUME MLTyped, NEW l \in MLStates, l.on = 1, l.search \in MerchantSearches, MLBecomes(l)
  PROVE  MLHookTyped' /\ ml' = l
<1>1. ml' = l
  BY DEF MLBecomes
<1>2. mlShown' \in Seq(MLRows)
  BY DrawnTyped DEF MLTyped, MLHookTyped, MLBecomes, MLStates
<1>3. mlFade' \in Nat
  BY DEF MLTyped, MLHookTyped, MLBecomes
<1>4. QED
  BY <1>1, <1>2, <1>3 DEF MLHookTyped

LEMMA MLPartsKept ==
  ASSUME MLTyped
  PROVE  /\ UNCHANGED <<ml, mlShown, mlFade>> => MLHookTyped'
         /\ UNCHANGED <<mlNet, mlSent>> => MLNetTyped'
<1>1. ASSUME UNCHANGED <<ml, mlShown, mlFade>> PROVE MLHookTyped'
  BY <1>1 DEF MLTyped, MLHookTyped
<1>2. ASSUME UNCHANGED <<mlNet, mlSent>> PROVE MLNetTyped'
  BY <1>2 DEF MLTyped, MLNetTyped
<1>3. QED
  BY <1>1, <1>2

LEMMA MLSendTyped ==
  ASSUME MLTyped, NEW q \in MLRequests, ~q.served, MLSend(q)
  PROVE  MLNetTyped' /\ mlNet' # << >>
<1>1. mlNet \in Seq(MLRequests) /\ mlSent \in 0..MaxMerchantsSent /\ Len(mlNet) <= mlSent
  BY DEF MLTyped, MLNetTyped
<1>2. mlNet' = Append(mlNet, q) /\ mlSent' = mlSent + 1 /\ mlSent < MaxMerchantsSent
  BY DEF MLSend
<1>3. /\ mlNet' \in Seq(MLRequests) /\ Len(mlNet') = Len(mlNet) + 1 /\ Len(mlNet) \in Nat
      /\ \A j \in DOMAIN mlNet' : mlNet'[j] = q \/ (j \in DOMAIN mlNet /\ mlNet'[j] = mlNet[j])
  <2> DEFINE s == mlNet
             S == MLRequests
  <2>1. s \in Seq(S) /\ q \in S
    BY <1>1
  <2> HIDE DEF s, S
  <2>2. /\ Append(s, q) \in Seq(S) /\ Len(Append(s, q)) = Len(s) + 1 /\ Len(s) \in Nat
        /\ \A j \in DOMAIN Append(s, q) :
             Append(s, q)[j] = q \/ (j \in DOMAIN s /\ Append(s, q)[j] = s[j])
    BY <2>1
  <2>3. QED
    BY <1>2, <2>2 DEF s, S
<1>4. mlSent' \in 0..MaxMerchantsSent /\ Len(mlNet') <= mlSent'
  BY <1>1, <1>2, <1>3, MerchantsAssumption
<1>5. ASSUME NEW j \in DOMAIN mlNet' PROVE UpdateServed(mlNet[j])'
  BY <1>3 DEF MLTyped, MLNetTyped, UpdateServed
<1>6. mlNet' # << >>
  BY <1>3
<1>7. QED
  BY <1>3, <1>4, <1>5, <1>6 DEF MLNetTyped

LEMMA MLFetchTyped ==
  ASSUME MLTyped, NEW l \in MLStates, l.on = 1, l.search \in MerchantSearches,
         NEW more \in BOOLEAN, FetchMerchantsData(l, more)
  PROVE  /\ MLHookTyped' /\ MLNetTyped' /\ ml' = FetchBegun(l, more) /\ ml'.on = 1 /\ mlNet' # << >>
         /\ ml'.search = l.search
<1> DEFINE q == [kind |-> "fetch", served |-> FALSE, search |-> l.search, more |-> more,
                 page |-> PageToFetch(l, more), items |-> << >>, pages |-> 1]
<1>1. MLBecomes(FetchBegun(l, more)) /\ MLSend(q)
  BY DEF FetchMerchantsData
<1>2. /\ FetchBegun(l, more) \in MLStates /\ PageToFetch(l, more) \in Nat \ {0}
      /\ FetchBegun(l, more).on = l.on /\ FetchBegun(l, more).search = l.search
  BY HookTypes, UpdatesKeep DEF Keeps, MLStates
<1>3. q \in MLRequests
  <2>1. q \in MLFetches
    BY <1>2 DEF MLFetches
  <2> HIDE DEF q
  <2>2. QED
    BY <2>1 DEF MLRequests
<1>4. ~q.served
  OBVIOUS
<1> HIDE DEF q
<1>5. MLNetTyped' /\ mlNet' # << >>
  BY <1>1, <1>3, <1>4, MLSendTyped
<1>6. MLHookTyped' /\ ml' = FetchBegun(l, more)
  BY <1>1, <1>2, MLScreenTyped
<1>7. QED
  BY <1>2, <1>5, <1>6

LEMMA MLDropTyped ==
  ASSUME MLTyped, NEW i \in DOMAIN mlNet, mlNet' = RemoveAt(mlNet, i), UNCHANGED mlSent
  PROVE  MLNetTyped'
<1>1. mlNet \in Seq(MLRequests) /\ mlSent \in 0..MaxMerchantsSent /\ Len(mlNet) <= mlSent /\ Len(mlNet) \in Nat
  BY DEF MLTyped, MLNetTyped
<1>2. /\ mlNet' \in Seq(MLRequests) /\ Len(mlNet') = Len(mlNet) - 1
      /\ Range(mlNet') \subseteq Range(mlNet)
  BY <1>1, EntriesRemoved
<1>4. ASSUME NEW j \in DOMAIN mlNet' PROVE UpdateServed(mlNet[j])'
  <2>1. mlNet'[j] \in Range(mlNet)
    BY <1>2 DEF Range
  <2>2. UpdateServed(mlNet'[j])
    BY <2>1 DEF MLTyped, MLNetTyped, Range
  <2>3. QED
    BY <2>2 DEF UpdateServed
<1>5. Len(mlNet') <= mlSent
  BY <1>1, <1>2, MerchantsAssumption
<1>6. QED
  BY <1>1, <1>2, <1>4, <1>5 DEF MLNetTyped

\* Of the page opened: what every step finds there.
LEMMA MLOpened ==
  ASSUME MLTyped, ml.on # 0 \/ mlNet # << >> \/ mlDue # 0 \/ mlTyped # None \/ mlShown # << >>
  PROVE  ml \in MLStates /\ ml.on = 1 /\ ml.search \in MerchantSearches
BY DEF MLTyped, MLHookTyped

LEMMA MLSearchTyped ==
  ASSUME MLTyped, ml.on = 1, NEW search \in MerchantSearches, mlDue = 0, SetMerchantSearch(search)
  PROVE  MLHookTyped' /\ ml'.on = 1 /\ mlDue' = 1 /\ ml' = SearchSet(ml, search)
<1>1. ml \in MLStates
  BY DEF MLTyped, MLHookTyped
<1>2. MLBecomes(SearchSet(ml, search)) /\ mlDue' = 1
  BY DEF SetMerchantSearch
<1>3. /\ SearchSet(ml, search) \in MLStates /\ SearchSet(ml, search).on = ml.on
      /\ SearchSet(ml, search).search = search
  BY <1>1, HookTypes, UpdatesKeep DEF MLStates
<1>4. QED
  BY <1>2, <1>3, MLScreenTyped

LEMMA MLInputTyped ==
  ASSUME MLTyped,
         \/ MLOpen \/ UpdateSearchTerm \/ SubmitSearchTerm \/ UpdateMerchantGroupFilter
         \/ ClearAllFilters \/ MLFetchDue \/ MLScrollToEnd \/ MLFadeEnds
  PROVE  MLTyped'
<1>1. CASE MLOpen
  <2>1. /\ FetchMerchantsData(Mounted(1, NoSearch, None), FALSE)
        /\ UNCHANGED <<mlTyped, mlDue, mlStore, mlCalm>>
    BY <1>1 DEF MLOpen
  <2>2. /\ Mounted(1, NoSearch, None) \in MLStates /\ Mounted(1, NoSearch, None).on = 1
        /\ Mounted(1, NoSearch, None).search = NoSearch
    <3>1. NoSearch \in MerchantSearches \cup {None} /\ 1 \in Nat
      BY DEF NoSearch, MerchantSearches, Terms, GroupsSought
    <3>2. Mounted(1, NoSearch, None) \in ListStates(MerchantSearches \cup {None}, MLRows)
      BY <3>1, MountedTyped
    <3>3. Mounted(1, NoSearch, None).on = 1 /\ Mounted(1, NoSearch, None).search = NoSearch
      BY MountedHook
    <3>4. QED
      BY <3>2, <3>3 DEF MLStates
  <2>3. NoSearch \in MerchantSearches
    BY DEF NoSearch, MerchantSearches, Terms, GroupsSought
  <2>4. MLHookTyped' /\ MLNetTyped' /\ ml'.on = 1
    BY <2>1, <2>2, <2>3, MLFetchTyped
  <2>5. QED
    BY <2>1, <2>4 DEF MLTyped
<1>2. CASE UpdateSearchTerm
  <2>1. /\ ml.on # 0
        /\ UNCHANGED <<ml, mlShown, mlFade, mlDue, mlNet, mlSent, mlStore, mlCalm>>
    BY <1>2 DEF UpdateSearchTerm
  <2>2. mlTyped' \in MerchantSearches
    <3>1. PICK t \in Terms : mlTyped' = [ml.search EXCEPT !.term = t]
      BY <1>2 DEF UpdateSearchTerm
    <3>2. ml.search \in MerchantSearches
      BY <2>1, MLOpened
    <3>3. QED
      BY <3>1, <3>2 DEF MerchantSearches
  <2>3. QED
    BY <2>1, <2>2, MLPartsKept DEF MLTyped
<1>3. CASE SubmitSearchTerm
  <2>1. /\ mlTyped # None /\ mlDue = 0 /\ SetMerchantSearch(mlTyped) /\ mlTyped' = None
        /\ UNCHANGED <<mlNet, mlSent, mlStore, mlCalm>>
    BY <1>3 DEF SubmitSearchTerm
  <2>2. mlTyped \in MerchantSearches /\ ml.on = 1
    BY <2>1, MLOpened DEF MLTyped
  <2>3. MLHookTyped' /\ ml'.on = 1 /\ mlDue' = 1 /\ MLNetTyped'
    BY <2>1, <2>2, MLSearchTyped, MLPartsKept
  <2>4. QED
    BY <2>1, <2>3 DEF MLTyped
<1>4. CASE UpdateMerchantGroupFilter
  <2>1. PICK g \in GroupsSought :
          /\ ml.on # 0 /\ mlDue = 0 /\ SetMerchantSearch([ml.search EXCEPT !.group = g])
          /\ UNCHANGED <<mlTyped, mlNet, mlSent, mlStore, mlCalm>>
    BY <1>4 DEF UpdateMerchantGroupFilter
  <2>2. ml.search \in MerchantSearches /\ ml.on = 1
    BY <2>1, MLOpened
  <2>3. [ml.search EXCEPT !.group = g] \in MerchantSearches
    BY <2>2 DEF MerchantSearches
  <2>4. MLHookTyped' /\ ml'.on = 1 /\ mlDue' = 1 /\ MLNetTyped'
    BY <2>1, <2>2, <2>3, MLSearchTyped, MLPartsKept
  <2>5. QED
    BY <2>1, <2>4 DEF MLTyped
<1>5. CASE ClearAllFilters
  <2>1. /\ ml.on # 0 /\ mlDue = 0 /\ SetMerchantSearch(NoSearch)
        /\ UNCHANGED <<mlTyped, mlNet, mlSent, mlStore, mlCalm>>
    BY <1>5 DEF ClearAllFilters
  <2>2. ml.on = 1 /\ NoSearch \in MerchantSearches
    BY <2>1, MLOpened DEF NoSearch, MerchantSearches, Terms, GroupsSought
  <2>3. MLHookTyped' /\ ml'.on = 1 /\ mlDue' = 1 /\ MLNetTyped'
    BY <2>1, <2>2, MLSearchTyped, MLPartsKept
  <2>4. QED
    BY <2>1, <2>3 DEF MLTyped
<1>6. CASE MLFetchDue
  <2>1. /\ mlDue > 0 /\ mlDue' = mlDue - 1 /\ FetchMerchantsData(ml, FALSE)
        /\ UNCHANGED <<mlTyped, mlStore, mlCalm>>
    BY <1>6 DEF MLFetchDue
  <2>2. mlDue \in 0..1 /\ mlDue # 0
    BY <2>1 DEF MLTyped
  <2>3. MLHookTyped' /\ MLNetTyped' /\ ml'.on = 1
    BY <2>1, <2>2, MLOpened, MLFetchTyped
  <2>4. QED
    BY <2>1, <2>2, <2>3 DEF MLTyped
<1>7. CASE MLScrollToEnd
  <2>1. /\ mlShown # << >> /\ FetchMerchantsData(ml, TRUE) /\ mlCalm' \in BOOLEAN
        /\ UNCHANGED <<mlTyped, mlDue, mlStore>>
    BY <1>7 DEF MLScrollToEnd, ScrollTriggers
  <2>3. MLHookTyped' /\ MLNetTyped' /\ ml'.on = 1
    BY <2>1, MLOpened, MLFetchTyped
  <2>4. QED
    BY <2>1, <2>3 DEF MLTyped
<1>8. CASE MLFadeEnds
  <2>1. /\ mlFade > 0 /\ mlFade' = mlFade - 1 /\ mlShown' = FadedOut(ml, mlShown)
        /\ UNCHANGED <<ml, mlTyped, mlDue, mlNet, mlSent, mlStore, mlCalm>>
    BY <1>8 DEF MLFadeEnds
  <2>2. mlShown' \in Seq(MLRows) /\ (mlShown = << >> => mlShown' = << >>)
    BY <2>1, DrawnTyped DEF FadedOut, MLTyped, MLHookTyped, MLStates
  <2>3. mlFade' \in Nat
    BY <2>1 DEF MLTyped, MLHookTyped
  <2>4. MLHookTyped'
    BY <2>1, <2>2, <2>3 DEF MLTyped, MLHookTyped
  <2>5. QED
    BY <2>1, <2>4, MLPartsKept DEF MLTyped
<1>9. QED
  BY <1>1, <1>2, <1>3, <1>4, <1>5, <1>6, <1>7, <1>8

LEMMA MLEditTyped == ASSUME MLTyped, UpdateMerchant \/ UpdateMerchantGroup PROVE MLTyped'
<1>0. mlShown \in Seq(MLRows)
  BY DEF MLTyped, MLHookTyped
<1>1. CASE UpdateMerchant
  <2>1. PICK i \in DOMAIN mlShown :
          /\ MLBecomes([ml EXCEPT !.loading = TRUE, !.error = FALSE])
          /\ MLSend([kind |-> "update", served |-> FALSE, id |-> mlShown[i].id, row |-> None])
          /\ UNCHANGED <<mlTyped, mlDue, mlStore, mlCalm>>
    BY <1>1 DEF UpdateMerchant
  <2> DEFINE q == [kind |-> "update", served |-> FALSE, id |-> mlShown[i].id, row |-> None]
             l == [ml EXCEPT !.loading = TRUE, !.error = FALSE]
  <2>2. mlShown[i] \in MLRows /\ mlShown # << >>
    BY <1>0
  <2>3. ml \in MLStates /\ ml.on = 1 /\ ml.search \in MerchantSearches
    BY <2>2, MLOpened
  <2>4. l \in MLStates /\ l.on = 1 /\ l.search = ml.search
    <3>1. TRUE \in BOOLEAN /\ FALSE \in BOOLEAN
      OBVIOUS
    <3>2. l \in MLStates /\ IsHook(ml)
      BY <2>3, <3>1, HookTypes DEF MLStates
    <3>3. l.on = ml.on /\ l.search = ml.search
      BY <2>3 DEF MLStates, ListStates
    <3>4. QED
      BY <2>3, <3>2, <3>3
  <2>5. q \in MLRequests /\ ~q.served
    <3>1. q \in MLUpdates
      BY <2>2 DEF MLUpdates, MLRows
    <3>2. ~q.served
      OBVIOUS
    <3> HIDE DEF q
    <3>3. QED
      BY <3>1, <3>2 DEF MLRequests
  <2> HIDE DEF q, l
  <2>6. MLHookTyped' /\ ml'.on = 1
    BY <2>1, <2>3, <2>4, MLScreenTyped DEF l
  <2>7. MLNetTyped'
    BY <2>1, <2>5, MLSendTyped DEF q
  <2>8. QED
    BY <2>1, <2>6, <2>7 DEF MLTyped
<1>2. CASE UpdateMerchantGroup
  <2>1. PICK i \in DOMAIN mlShown, g \in Groups \cup {None} :
          LET id    == mlShown[i].id
              row   == CHOOSE r \in ToSet(ml.rows) : r.id = id
              steps == GroupSteps(row.group, g)
          IN /\ id \in IdsOf(ml.rows)
             /\ IF steps = << >>
                THEN /\ mlDue = 0 /\ SetMerchantSearch(ml.search)
                     /\ UNCHANGED <<mlNet, mlSent>>
                ELSE /\ MLSend([kind |-> "move", served |-> FALSE, id |-> id, from |-> row.group,
                                to |-> g, steps |-> steps, search |-> ml.search])
                     /\ UNCHANGED <<ml, mlShown, mlFade, mlDue>>
             /\ UNCHANGED <<mlTyped, mlStore>>
    BY <1>2 DEF UpdateMerchantGroup
  <2> DEFINE id    == mlShown[i].id
             row   == CHOOSE r \in ToSet(ml.rows) : r.id = id
             steps == GroupSteps(row.group, g)
  <2>2. mlCalm' \in BOOLEAN
    BY <1>2 DEF UpdateMerchantGroup
  <2>3. mlShown[i] \in MLRows /\ mlShown # << >>
    BY <1>0
  <2>4. ml \in MLStates /\ ml.on = 1 /\ ml.search \in MerchantSearches
    BY <2>3, MLOpened
  <2>5. id \in Merchants /\ row \in MLRows
    <3>1. ml.rows \in Seq(MLRows)
      BY <2>4 DEF MLStates, ListStates
    <3>2. ToSet(ml.rows) \subseteq MLRows
      BY <3>1 DEF ToSet
    <3>3. \E r \in ToSet(ml.rows) : r.id = id
      BY <2>1 DEF IdsOf, ToSet
    <3>4. QED
      BY <2>3, <3>2, <3>3 DEF MLRows
  <2>6. steps \in Seq({"add", "remove"})
    <3>1. "add" \in {"add", "remove"} /\ "remove" \in {"add", "remove"}
      OBVIOUS
    <3> DEFINE S == {"add", "remove"}
    <3>2. "add" \in S /\ "remove" \in S
      BY <3>1
    <3> HIDE DEF S
    <3>3. <<"remove", "add">> \in Seq(S) /\ <<"add">> \in Seq(S) /\ <<"remove">> \in Seq(S) /\ << >> \in Seq(S)
      BY <3>2
    <3>4. \/ steps = <<"remove", "add">> \/ steps = <<"add">> \/ steps = <<"remove">> \/ steps = << >>
      BY DEF GroupSteps
    <3>5. QED
      BY <3>3, <3>4 DEF S
  <2>7. IF steps = << >>
        THEN /\ mlDue = 0 /\ SetMerchantSearch(ml.search)
             /\ UNCHANGED <<mlNet, mlSent>>
        ELSE /\ MLSend([kind |-> "move", served |-> FALSE, id |-> id, from |-> row.group,
                        to |-> g, steps |-> steps, search |-> ml.search])
             /\ UNCHANGED <<ml, mlShown, mlFade, mlDue>>
    BY <2>1
  <2>8. UNCHANGED <<mlTyped, mlStore>>
    BY <2>1
  <2> HIDE DEF id, row, steps
  <2>9. CASE steps = << >>
    <3>1. MLHookTyped' /\ ml'.on = 1 /\ mlDue' = 1 /\ MLNetTyped'
      BY <2>4, <2>7, <2>9, MLSearchTyped, MLPartsKept
    <3>2. QED
      BY <2>2, <2>8, <3>1 DEF MLTyped
  <2>10. CASE steps # << >>
    <3> DEFINE q == [kind |-> "move", served |-> FALSE, id |-> id, from |-> row.group,
                     to |-> g, steps |-> steps, search |-> ml.search]
    <3>1. MLSend(q) /\ UNCHANGED <<ml, mlShown, mlFade, mlDue>>
      BY <2>7, <2>10
    <3>2. q \in MLRequests /\ ~q.served
      <4>1. row.group \in MemberOf /\ g \in MemberOf
        BY <2>5 DEF MLRows, MemberOf
      <4>2. q \in MLMoves
        BY <2>4, <2>5, <2>6, <4>1 DEF MLMoves
      <4>3. ~q.served
        OBVIOUS
      <4> HIDE DEF q
      <4>4. QED
        BY <4>2, <4>3 DEF MLRequests
    <3> HIDE DEF q
    <3>3. MLNetTyped' /\ MLHookTyped'
      BY <3>1, <3>2, MLSendTyped, MLPartsKept
    <3>4. QED
      BY <2>2, <2>4, <2>8, <3>1, <3>3 DEF MLTyped
  <2>11. QED
    BY <2>9, <2>10
<1>3. QED
  BY <1>1, <1>2

LEMMA MLRequestIs ==
  ASSUME MLTyped, NEW i \in DOMAIN mlNet
  PROVE  /\ mlNet[i] \in MLRequests /\ UpdateServed(mlNet[i])
         /\ mlNet[i].kind = "fetch" => mlNet[i] \in MLFetches
         /\ mlNet[i].kind = "update" => mlNet[i] \in MLUpdates
         /\ mlNet[i].kind = "move" => mlNet[i] \in MLMoves
         /\ mlNet[i].kind \in {"fetch", "update", "move"}
         /\ ml \in MLStates /\ ml.on = 1 /\ ml.search \in MerchantSearches
<1>1. mlNet[i] \in MLRequests /\ UpdateServed(mlNet[i]) /\ mlNet # << >>
  BY DEF MLTyped, MLNetTyped
<1>2. /\ mlNet[i].kind = "fetch" => mlNet[i] \in MLFetches
      /\ mlNet[i].kind = "update" => mlNet[i] \in MLUpdates
      /\ mlNet[i].kind = "move" => mlNet[i] \in MLMoves
      /\ mlNet[i].kind \in {"fetch", "update", "move"}
  BY <1>1 DEF MLRequests, MLFetches, MLUpdates, MLMoves
<1>3. QED
  BY <1>1, <1>2, MLOpened

(* What a request that is served makes of the store, and of itself.          *)
LEMMA MerchantServed ==
  ASSUME MLTyped, NEW i \in DOMAIN mlNet, MLServe(i)
  PROVE  /\ mlStore' \in [Merchants -> MLStored]
         /\ mlNet[i].kind = "fetch" =>
              /\ UNCHANGED mlStore
              /\ LET found == MerchantsFound(mlStore, mlNet[i].search)
                 IN  mlNet' = [mlNet EXCEPT ![i] =
                       [mlNet[i] EXCEPT !.served = TRUE, !.items = PageOf(found, mlNet[i].page),
                                        !.pages = Pages(found)]]
         /\ mlNet[i].kind = "update" =>
              /\ mlStore' = [mlStore EXCEPT ![mlNet[i].id] = [@ EXCEPT !.edited = TRUE]]
              /\ mlNet' = [mlNet EXCEPT ![i] =
                   [mlNet[i] EXCEPT !.served = TRUE, !.row = MerchantRow(mlStore', mlNet[i].id)]]
         /\ mlNet[i].kind = "move" => mlNet' = [mlNet EXCEPT ![i] = [mlNet[i] EXCEPT !.served = TRUE]]
<1> DEFINE q == mlNet[i]
<1>1. mlStore \in [Merchants -> MLStored]
  BY DEF MLTyped
<1>2. mlNet \in Seq(MLRequests)
  BY DEF MLTyped, MLNetTyped
<1>3. q.kind \in {"fetch", "update", "move"}
  BY MLRequestIs
<1>4. CASE q.kind = "fetch"
  BY <1>1, <1>2, <1>4 DEF MLServe
<1>5. CASE q.kind # "fetch"
  <2>1. /\ mlStore' = [mlStore EXCEPT ![q.id] = Written(mlStore[q.id], q)]
        /\ mlNet' = [mlNet EXCEPT ![i] = IF q.kind = "move" THEN [mlNet[i] EXCEPT !.served = TRUE]
                                         ELSE [mlNet[i] EXCEPT !.served = TRUE,
                                                               !.row = MerchantRow(mlStore', q.id)]]
    BY <1>1, <1>2, <1>5 DEF MLServe
  <2>2. q.id \in Merchants
    BY <1>3, <1>5, MLRequestIs DEF MLUpdates, MLMoves
  <2>3. mlStore[q.id] \in MLStored
    BY <1>1, <2>2
  <2>4. Written(mlStore[q.id], q) \in MLStored
    <3>1. CASE q.kind = "update"
      BY <2>3, <3>1 DEF Written, MLStored
    <3>2. CASE q.kind = "move"
      <4>1. q.to \in MemberOf /\ q.from \in MemberOf
        BY <3>2, MLRequestIs DEF MLMoves
      <4>2. None \in MemberOf
        BY DEF MemberOf
      <4> DEFINE t == mlStore[q.id]
      <4>3. t \in MLStored /\ t.in \subseteq MemberOf
        BY <2>3 DEF MLStored
      <4> HIDE DEF t
      <4>4. t.in \cup {q.to} \in SUBSET MemberOf /\ t.in \ {q.from} \in SUBSET MemberOf
        BY <4>1, <4>3
      <4>5. /\ [t EXCEPT !.group = q.to, !.in = t.in \cup {q.to}] \in MLStored
            /\ [t EXCEPT !.group = None, !.in = t.in \ {q.from}] \in MLStored
        BY <4>1, <4>2, <4>3, <4>4 DEF MLStored
      <4>6. Written(t, q) \in {[t EXCEPT !.group = q.to, !.in = t.in \cup {q.to}],
                               [t EXCEPT !.group = None, !.in = t.in \ {q.from}]}
        BY <3>2, <4>3 DEF Written, MLStored
      <4>7. QED
        BY <4>5, <4>6 DEF t
    <3>3. QED
      BY <1>3, <1>5, <3>1, <3>2
  <2>5. mlStore' \in [Merchants -> MLStored]
    BY <1>1, <2>1, <2>4
  <2>6. q.kind = "update" => Written(mlStore[q.id], q) = [mlStore[q.id] EXCEPT !.edited = TRUE]
    BY DEF Written
  <2>7. CASE q.kind = "update"
    BY <2>1, <2>5, <2>6, <2>7
  <2>8. CASE q.kind = "move"
    BY <2>1, <2>5, <2>8
  <2>9. QED
    BY <1>3, <1>5, <2>7, <2>8
<1>6. QED
  BY <1>4, <1>5

LEMMA MLServeTyped == ASSUME MLTyped, NEW i \in DOMAIN mlNet, MLServe(i) PROVE MLTyped'
<1> DEFINE q == mlNet[i]
<1>1. /\ UNCHANGED <<ml, mlShown, mlFade, mlTyped, mlDue, mlSent>> /\ mlCalm' \in BOOLEAN
      /\ mlStore' \in [Merchants -> MLStored]
  BY MerchantServed DEF MLServe
<1>2. mlNet \in Seq(MLRequests) /\ q.kind \in {"fetch", "update", "move"}
  BY MLRequestIs DEF MLTyped, MLNetTyped
<1>3. mlStore \in [Merchants -> MLStored]
  BY DEF MLTyped
<1>4. PICK e \in MLRequests : mlNet' = [mlNet EXCEPT ![i] = e] /\ UpdateServed(e)
  <2>1. CASE q.kind = "fetch"
    <3> DEFINE found == MerchantsFound(mlStore, q.search)
               items == PageOf(found, q.page)
               pages == Pages(found)
               e == [q EXCEPT !.served = TRUE, !.items = items, !.pages = pages]
    <3>1. q \in MLFetches
      BY <2>1, MLRequestIs
    <3>2. found \in Seq(MLRows)
      BY <1>3, MerchantRows
    <3>3. q.page \in Nat \ {0}
      BY <3>1 DEF MLFetches
    <3>4. mlNet' = [mlNet EXCEPT ![i] = e]
      BY <2>1, MerchantServed
    <3> HIDE DEF found
    <3>5. items \in Seq(MLRows) /\ pages \in Nat
      BY <3>2, <3>3, PageTyped
    <3> HIDE DEF items, pages
    <3>6. e \in MLFetches /\ e.kind = "fetch"
      BY <3>1, <3>5 DEF MLFetches
    <3> HIDE DEF e
    <3>7. e \in MLRequests /\ UpdateServed(e)
      BY <3>6 DEF MLRequests, UpdateServed
    <3>8. QED
      BY <3>4, <3>7
  <2>2. CASE q.kind = "update"
    <3> DEFINE row == MerchantRow(mlStore', q.id)
               e == [q EXCEPT !.served = TRUE, !.row = row]
    <3>1. q \in MLUpdates /\ q.id \in Merchants
      BY <2>2, MLRequestIs DEF MLUpdates
    <3>2. row \in MLRows /\ row.id = q.id
      BY <1>1, <3>1, MerchantRows
    <3>3. mlNet' = [mlNet EXCEPT ![i] = e]
      BY <2>2, MerchantServed
    <3> HIDE DEF row
    <3>4. e \in MLUpdates /\ e.row = row /\ e.id = q.id
      BY <3>1, <3>2 DEF MLUpdates
    <3> HIDE DEF e
    <3>5. e \in MLRequests /\ UpdateServed(e)
      BY <3>2, <3>4 DEF MLRequests, UpdateServed
    <3>6. QED
      BY <3>3, <3>5
  <2>3. CASE q.kind = "move"
    <3> DEFINE e == [q EXCEPT !.served = TRUE]
    <3>1. q \in MLMoves
      BY <2>3, MLRequestIs
    <3>2. mlNet' = [mlNet EXCEPT ![i] = e]
      BY <2>3, MerchantServed
    <3>3. e \in MLMoves /\ e.kind = "move"
      BY <3>1 DEF MLMoves
    <3> HIDE DEF e
    <3>4. e \in MLRequests /\ UpdateServed(e)
      BY <3>3 DEF MLRequests, UpdateServed
    <3>5. QED
      BY <3>2, <3>4
  <2>4. QED
    BY <1>2, <2>1, <2>2, <2>3
<1>5. MLNetTyped' /\ mlNet' # << >>
  <2>1. mlNet' \in Seq(MLRequests) /\ Len(mlNet') = Len(mlNet) /\ DOMAIN mlNet' = DOMAIN mlNet
    BY <1>2, <1>4
  <2>2. \A j \in DOMAIN mlNet : mlNet'[j] = IF j = i THEN e ELSE mlNet[j]
    BY <1>2, <1>4
  <2>3. ASSUME NEW j \in DOMAIN mlNet' PROVE UpdateServed(mlNet[j])'
    BY <1>4, <2>1, <2>2 DEF MLTyped, MLNetTyped, UpdateServed
  <2>4. mlNet' # << >>
    BY <2>1
  <2>5. QED
    BY <1>1, <2>1, <2>3, <2>4 DEF MLTyped, MLNetTyped
<1>6. QED
  BY <1>1, <1>5, MLPartsKept, MLRequestIs DEF MLTyped

LEMMA MoveStepTyped ==
  ASSUME MLTyped, NEW i \in DOMAIN mlNet, mlNet[i].kind = "move", Len(mlNet[i].steps) > 1,
         MoveAnswered(i, mlNet[i])
  PROVE  /\ MLNetTyped' /\ UNCHANGED <<ml, mlShown, mlFade, mlDue>>
<1> DEFINE q == mlNet[i]
           e == [q EXCEPT !.steps = Tail(q.steps), !.served = FALSE]
<1>1. q \in MLMoves
  BY MLRequestIs
<1>2. e \in MLMoves /\ ~e.served /\ e.kind = "move"
  <2>1. q.steps \in Seq({"add", "remove"})
    BY <1>1 DEF MLMoves
  <2> DEFINE S == {"add", "remove"}
             s == q.steps
  <2> HIDE DEF S, s
  <2>2. s \in Seq(S) /\ Len(s) > 1
    BY <2>1 DEF S, s
  <2>3. s # << >>
    BY <2>2
  <2>4. Tail(s) \in Seq(S)
    BY <2>2, <2>3
  <2>5. Tail(q.steps) \in Seq({"add", "remove"})
    BY <2>4 DEF S, s
  <2> DEFINE t == Tail(q.steps)
  <2> HIDE DEF t
  <2>6. t \in Seq({"add", "remove"})
    BY <2>5 DEF t
  <2>7. /\ [q EXCEPT !.steps = t, !.served = FALSE] \in MLMoves
        /\ ~[q EXCEPT !.steps = t, !.served = FALSE].served
        /\ [q EXCEPT !.steps = t, !.served = FALSE].kind = "move"
    BY <1>1, <2>6 DEF MLMoves
  <2>8. QED
    BY <2>7 DEF t
<1>3. /\ mlSent < MaxMerchantsSent /\ mlSent' = mlSent + 1
      /\ mlNet' = Append(RemoveAt(mlNet, i), e)
      /\ UNCHANGED <<ml, mlShown, mlFade, mlDue>>
  BY <1>1 DEF MoveAnswered, MLMoves
<1> HIDE DEF e
<1>4. mlNet \in Seq(MLRequests) /\ mlSent \in 0..MaxMerchantsSent /\ Len(mlNet) <= mlSent /\ Len(mlNet) \in Nat
  BY DEF MLTyped, MLNetTyped
<1> DEFINE s == RemoveAt(mlNet, i)
<1>5. s \in Seq(MLRequests) /\ Len(s) = Len(mlNet) - 1 /\ Range(s) \subseteq Range(mlNet)
  BY <1>4, EntriesRemoved
<1>6. mlNet' = Append(s, e) /\ e \in MLRequests
  BY <1>2, <1>3 DEF MLRequests
<1> HIDE DEF s
<1>7. mlNet' \in Seq(MLRequests) /\ Range(mlNet') \subseteq Range(s) \cup {e}
  BY <1>5, <1>6, EntriesAppended
<1>8. Len(mlNet') = Len(mlNet)
  BY <1>4, <1>5, <1>6
<1>9. ASSUME NEW j \in DOMAIN mlNet' PROVE UpdateServed(mlNet[j])'
  <2>1. mlNet'[j] \in Range(mlNet) \cup {e}
    BY <1>5, <1>7 DEF Range
  <2>2. UpdateServed(mlNet'[j])
    BY <1>2, <2>1 DEF MLTyped, MLNetTyped, Range, UpdateServed
  <2>3. QED
    BY <2>2 DEF UpdateServed
<1>10. mlSent' \in 0..MaxMerchantsSent /\ Len(mlNet') <= mlSent'
  BY <1>3, <1>4, <1>8, MerchantsAssumption
<1>11. QED
  BY <1>3, <1>7, <1>9, <1>10 DEF MLNetTyped

LEMMA MLAnswerTyped == ASSUME MLTyped, NEW i \in DOMAIN mlNet, MLAnswer(i) PROVE MLTyped'
<1> DEFINE q == mlNet[i]
<1>1. /\ q.served /\ mlCalm' \in BOOLEAN /\ UNCHANGED <<mlTyped, mlStore>>
  BY DEF MLAnswer
<1>2. /\ ml \in MLStates /\ ml.on = 1 /\ ml.search \in MerchantSearches
      /\ q.kind \in {"fetch", "update", "move"} /\ UpdateServed(q)
  BY MLRequestIs
<1>3. CASE q.kind = "fetch"
  <2>1. MLBecomes(Fetched(ml, q)) /\ mlNet' = RemoveAt(mlNet, i) /\ UNCHANGED <<mlDue, mlSent>>
    BY <1>3 DEF MLAnswer
  <2>2. q.more \in BOOLEAN /\ q.items \in Seq(MLRows) /\ q.page \in Nat \ {0}
    BY <1>3, MLRequestIs DEF MLFetches
  <2>3. Fetched(ml, q) \in MLStates
    BY <1>2, <2>2, FetchedTyped DEF MLStates
  <2>4. Fetched(ml, q).on = ml.on /\ Fetched(ml, q).search = ml.search
    BY <1>2, HookTypes, UpdatesKeep DEF Keeps, MLStates
  <2>5. MLHookTyped' /\ ml'.on = 1
    BY <1>2, <2>1, <2>3, <2>4, MLScreenTyped
  <2>6. MLNetTyped'
    BY <2>1, MLDropTyped
  <2>7. QED
    BY <1>1, <2>1, <2>5, <2>6 DEF MLTyped
<1>4. CASE q.kind = "update"
  <2>1. MLBecomes(MerchantUpdated(ml, q)) /\ mlNet' = RemoveAt(mlNet, i) /\ UNCHANGED <<mlDue, mlSent>>
    BY <1>4 DEF MLAnswer
  <2>2. q.row \in MLRows
    BY <1>1, <1>2, <1>4 DEF UpdateServed
  <2>3. RowReplaced(ml, q.row) \in MLStates
    BY <1>2, <2>2, ReplacedTyped DEF MLStates
  <2>4. Keeps(ml, RowReplaced(ml, q.row))
    BY <1>2, HookTypes, UpdatesKeep DEF MLStates
  <2> DEFINE l == RowReplaced(ml, q.row)
  <2> HIDE DEF l
  <2>5. MerchantUpdated(ml, q) = [l EXCEPT !.loading = FALSE, !.error = FALSE]
    BY DEF MerchantUpdated, l
  <2>6. l \in MLStates /\ l.on = ml.on /\ l.search = ml.search
    BY <2>3, <2>4 DEF l, Keeps
  <2>7. MerchantUpdated(ml, q) \in MLStates
    <3>1. [l EXCEPT !.loading = FALSE, !.error = FALSE] \in MLStates
      BY <2>6 DEF MLStates, ListStates
    <3>2. QED
      BY <2>5, <3>1
  <2>8. MerchantUpdated(ml, q).on = 1 /\ MerchantUpdated(ml, q).search = ml.search
    BY <1>2, <2>5, <2>6 DEF MLStates, ListStates
  <2>9. MLHookTyped' /\ ml'.on = 1
    BY <1>2, <2>1, <2>7, <2>8, MLScreenTyped
  <2>10. MLNetTyped'
    BY <2>1, MLDropTyped
  <2>11. QED
    BY <1>1, <2>1, <2>9, <2>10 DEF MLTyped
<1>5. CASE q.kind = "move"
  <2>1. MoveAnswered(i, q)
    BY <1>5 DEF MLAnswer
  <2>2. CASE Len(q.steps) > 1
    <3>1. MLNetTyped' /\ UNCHANGED <<ml, mlShown, mlFade, mlDue>>
      BY <1>5, <2>1, <2>2, MoveStepTyped
    <3>2. MLHookTyped'
      BY <3>1, MLPartsKept
    <3>3. QED
      BY <1>1, <1>2, <3>1, <3>2 DEF MLTyped
  <2>3. CASE ~(Len(q.steps) > 1)
    <3>1. /\ mlDue = 0 /\ SetMerchantSearch(q.search) /\ mlNet' = RemoveAt(mlNet, i) /\ UNCHANGED mlSent
      BY <2>1, <2>3 DEF MoveAnswered
    <3>2. q.search \in MerchantSearches
      BY <1>5, MLRequestIs DEF MLMoves
    <3>3. MLHookTyped' /\ ml'.on = 1 /\ mlDue' = 1
      BY <1>2, <3>1, <3>2, MLSearchTyped
    <3>4. MLNetTyped'
      BY <3>1, MLDropTyped
    <3>5. QED
      BY <1>1, <3>3, <3>4 DEF MLTyped
  <2>4. QED
    BY <2>2, <2>3
<1>6. QED
  BY <1>2, <1>3, <1>4, <1>5

LEMMA MLFailTyped == ASSUME MLTyped, NEW i \in DOMAIN mlNet, MLFail(i) PROVE MLTyped'
<1>1. /\ mlNet' = RemoveAt(mlNet, i) /\ mlCalm' = FALSE
      /\ UNCHANGED <<mlTyped, mlDue, mlSent, mlStore>>
      /\ MLBecomes(FetchFailed(ml)) \/ UNCHANGED <<ml, mlShown, mlFade>>
  BY DEF MLFail
<1>2. MLNetTyped'
  BY <1>1, MLDropTyped
<1>3. ml \in MLStates /\ ml.on = 1 /\ ml.search \in MerchantSearches
  BY MLRequestIs
<1>4. MLHookTyped' /\ ml'.on = 1
  <2>1. CASE UNCHANGED <<ml, mlShown, mlFade>>
    BY <1>3, <2>1, MLPartsKept
  <2>2. CASE MLBecomes(FetchFailed(ml))
    <3>1. FetchFailed(ml) \in MLStates
      BY <1>3, HookTypes DEF MLStates
    <3>2. FetchFailed(ml).on = ml.on /\ FetchFailed(ml).search = ml.search
      BY <1>3, HookTypes, UpdatesKeep DEF Keeps, MLStates
    <3>3. QED
      BY <1>3, <2>2, <3>1, <3>2, MLScreenTyped
  <2>3. QED
    BY <1>1, <2>1, <2>2
<1>5. mlCalm' \in BOOLEAN
  BY <1>1
<1>6. QED
  BY <1>1, <1>2, <1>4, <1>5 DEF MLTyped

LEMMA MLTypedStep == MLTyped /\ [MLNext]_mlVars => MLTyped'
<1> SUFFICES ASSUME MLTyped, [MLNext]_mlVars PROVE MLTyped'
  OBVIOUS
<1>1. CASE UNCHANGED mlVars
  BY <1>1, MLPartsKept DEF mlVars, MLTyped
<1>2. CASE \/ MLOpen \/ UpdateSearchTerm \/ SubmitSearchTerm \/ UpdateMerchantGroupFilter
           \/ ClearAllFilters \/ MLFetchDue \/ MLScrollToEnd \/ MLFadeEnds
  BY <1>2, MLInputTyped
<1>3. CASE UpdateMerchant \/ UpdateMerchantGroup
  BY <1>3, MLEditTyped
<1>4. CASE \E i \in DOMAIN mlNet : MLServe(i) \/ MLAnswer(i) \/ MLFail(i)
  BY <1>4, MLServeTyped, MLAnswerTyped, MLFailTyped
<1>5. QED
  BY <1>1, <1>2, <1>3, <1>4 DEF MLNext

LEMMA MLTypedOK == MLTyped => MLTypeOK
<1> SUFFICES ASSUME MLTyped PROVE MLTypeOK
  OBVIOUS
<1>1. ml \in ListStates(MerchantSearches \cup {None}, MLRows) /\ mlShown \in Seq(MLRows)
  BY DEF MLTyped, MLHookTyped, MLStates
<1>2. ml.on \in 0..1 /\ ml.search \in MerchantSearches \cup {None} /\ ml.page \in Nat
  BY <1>1 DEF ListStates, MLTyped, MLHookTyped
<1>3. ASSUME NEW rows \in Seq(MLRows) PROVE IdsOf(rows) \subseteq Merchants
  <2>1. \A i \in DOMAIN rows : rows[i] \in MLRows
    OBVIOUS
  <2>2. QED
    BY <2>1 DEF IdsOf, MLRows
<1>4. IdsOf(ml.rows) \cup IdsOf(mlShown) \subseteq Merchants
  <2>1. ml.rows \in Seq(MLRows)
    BY <1>1 DEF ListStates
  <2>2. QED
    BY <1>1, <1>3, <2>1
<1>5. QED
  BY <1>2, <1>4 DEF MLTypeOK, MLTyped, MLHookTyped, MLNetTyped

-----------------------------------------------------------------------------
(* The types of the tag spend page and of the session, which their           *)
(* invariants above leave open where nothing depends on them.                *)

SpendShown ==
  tsStats \in Selections \cup {NoStats} /\ tsSent \in 0..MaxSpendSent
    /\ tsLoading \in BOOLEAN /\ tsCalm \in BOOLEAN

LEMMA SpendShownStep ==
  /\ TSInit => SpendShown
  /\ SpendInv /\ SpendShown /\ [TSNext]_tsVars => SpendShown'
<1>1. TSInit => SpendShown
  <2>1. 0 \in 0..MaxSpendSent
    BY SpendAssumption
  <2>2. QED
    BY <2>1 DEF TSInit, SpendShown
<1> SUFFICES ASSUME SpendInv, SpendShown, [TSNext]_tsVars PROVE SpendShown'
  BY <1>1
<1>2. MaxSpendSent \in Nat /\ tsSent \in 0..MaxSpendSent /\ tsLoading \in BOOLEAN /\ tsCalm \in BOOLEAN
      /\ tsStats \in Selections \cup {NoStats}
  BY SpendAssumption DEF SpendShown
<1>3. CASE UNCHANGED tsVars
  BY <1>3 DEF SpendShown, tsVars
<1>4. CASE TSOpen \/ SaveReport \/ DeleteReport
  BY <1>2, <1>4 DEF SpendShown, TSOpen, SaveReport, DeleteReport, Sending
<1>5. CASE IncludeTags \/ OmitTags \/ SetMonthsBack \/ SelectReport
  <2>1. PICK s : Selected(s)
    BY <1>5 DEF IncludeTags, OmitTags, SetMonthsBack, SelectReport
  <2>2. tsSent' \in 0..MaxSpendSent
    <3>1. tsSent' = tsSent \/ (tsSent < MaxSpendSent /\ tsSent' = tsSent + 1)
      BY <2>1 DEF Selected, Sending
    <3>2. MaxSpendSent \in Nat /\ tsSent \in 0..MaxSpendSent
      BY <1>2
    <3>3. QED
      BY <3>1, <3>2
  <2>3. tsLoading' \in BOOLEAN /\ tsCalm' \in BOOLEAN
    BY <1>2, <2>1 DEF Selected
  <2>4. tsStats' \in Selections \cup {NoStats}
    BY <1>2, <2>1 DEF Selected
  <2>5. QED
    BY <2>2, <2>3, <2>4 DEF SpendShown
<1>6. ASSUME NEW i \in DOMAIN tsNet, TSServe(i) PROVE SpendShown'
  BY <1>2, <1>6 DEF SpendShown, TSServe
<1>7. ASSUME NEW i \in DOMAIN tsNet, TSAnswer(i) PROVE SpendShown'
  <2>1. tsNet[i] \in SpendMessages
    BY MessageOf DEF SpendInv
  <2>2. tsStats' \in Selections \cup {NoStats}
    BY <1>2, <1>7, <2>1 DEF TSAnswer, SpendMessages
  <2>3. tsSent' \in 0..MaxSpendSent
    BY <1>2, <1>7 DEF TSAnswer
  <2>4. tsLoading' \in BOOLEAN /\ tsCalm' \in BOOLEAN
    BY <1>2, <1>7 DEF TSAnswer
  <2>5. QED
    BY <2>2, <2>3, <2>4 DEF SpendShown
<1>8. ASSUME NEW i \in DOMAIN tsNet, TSFail(i) PROVE SpendShown'
  BY <1>2, <1>8 DEF SpendShown, TSFail
<1>9. QED
  BY <1>3, <1>4, <1>5, <1>6, <1>7, <1>8 DEF TSNext

LEMMA SpendTypesOK == SpendInv /\ SpendShown => TSTypeOK
<1> SUFFICES ASSUME SpendInv, SpendShown PROVE TSTypeOK
  OBVIOUS
<1>1. \A r \in tsServer \cup tsReports : r \in ReportRecords /\ Listed(r)
  BY DEF SpendInv, SpendTyped, Listed
<1>2. \A r \in tsServer \cup tsReports : r.id \in 1..tsMade
  BY <1>1 DEF SpendInv, ListedSound
<1>3. QED
  BY <1>2 DEF SpendInv, SpendTyped, SpendShown, TSTypeOK

(* What the session counts and remembers.                                    *)
SentTyped ==
  /\ wsFailed \in BOOLEAN /\ wsCameBack \in BOOLEAN
  /\ wsSent \in 0..MaxWebSent
  /\ wsToken # NoUser => wsToken.n \in 1..wsIssued

LEMMA SentStep ==
  /\ WSInit => SentTyped
  /\ SessionInv /\ SentTyped /\ [WSNext]_wsVars => SentTyped'
<1>1. WSInit => SentTyped
  <2>1. 0 \in 0..MaxWebSent
    BY SessionAssumption
  <2>2. QED
    BY <2>1 DEF WSInit, SentTyped
<1> SUFFICES ASSUME SessionInv, SentTyped, [WSNext]_wsVars PROVE SentTyped'
  BY <1>1
<1>2. /\ MaxWebSent \in Nat /\ wsSent \in 0..MaxWebSent /\ wsIssued \in Nat
      /\ wsFailed \in BOOLEAN /\ wsCameBack \in BOOLEAN
      /\ wsToken # NoUser => wsToken.n \in 1..wsIssued
  BY SessionAssumption DEF SentTyped, SessionInv, SessionTyped
<1>3. CASE UNCHANGED wsVars
  BY <1>3 DEF SentTyped, wsVars, wsAuth
<1>4. ASSUME wsSent' = wsSent \/ (wsSent < MaxWebSent /\ wsSent' = wsSent + 1)
      PROVE  wsSent' \in 0..MaxWebSent
  BY <1>2, <1>4
<1>5. ASSUME NEW path, Started(path), UNCHANGED <<wsToken, wsIssued>> PROVE SentTyped'
  <2>1. wsSent' \in 0..MaxWebSent
    BY <1>4, <1>5 DEF Started, Transmit
  <2>2. wsFailed' \in BOOLEAN /\ wsCameBack' \in BOOLEAN
    BY <1>5 DEF Started
  <2>3. QED
    BY <1>2, <1>5, <2>1, <2>2 DEF SentTyped
<1>6. CASE Load \/ Reload \/ LoadFromHistory
  BY <1>5, <1>6 DEF Load, NewDocument, Reload, LoadFromHistory, wsAuth
<1>7. CASE Traverse \/ HandleNavigation \/ Expire \/ HandleLogout
  BY <1>2, <1>7 DEF SentTyped, Traverse, HandleNavigation, Expire, HandleLogout, wsAuth
<1>8. ASSUME NEW q, WSSend(q) PROVE SentTyped'
  <2>1. wsSent' \in 0..MaxWebSent
    BY <1>4, <1>8 DEF WSSend, Transmit
  <2>2. QED
    BY <1>2, <1>8, <2>1 DEF WSSend, SentTyped, wsAuth
<1>9. CASE Login \/ Signup \/ SaveProfile \/ FetchPageData
  BY <1>8, <1>9 DEF Login, Signup, SaveProfile, FetchPageData
<1>10. ASSUME NEW i \in DOMAIN wsNet, Accept(i) PROVE SentTyped'
  <2>1. wsNet[i] \in WebMessages /\ UNCHANGED <<wsSent, wsFailed, wsCameBack>>
    BY <1>10 DEF SessionInv, SessionTyped, Accept
  <2>2. UNCHANGED <<wsToken, wsIssued>> \/ \E u : SignedIn(u)
    BY <1>10, <2>1 DEF Accept, WebMessages
  <2>3. wsToken' # NoUser => wsToken'.n \in 1..wsIssued'
    BY <1>2, <2>2 DEF SignedIn, NewToken
  <2>4. QED
    BY <1>2, <2>1, <2>3 DEF SentTyped
<1>11. ASSUME NEW i \in DOMAIN wsNet, Refuse(i) PROVE SentTyped'
  BY <1>2, <1>5, <1>11 DEF Refuse, NewDocument, SentTyped, wsAuth
<1>12. ASSUME NEW i \in DOMAIN wsNet, Reject(i) PROVE SentTyped'
  BY <1>2, <1>12 DEF Reject, SentTyped, wsAuth
<1>13. QED
  BY <1>3, <1>6, <1>7, <1>9, <1>10, <1>11, <1>12 DEF WSNext, Respond

LEMMA SessionTypesOK == SessionInv /\ SentTyped => WSTypeOK
<1> SUFFICES ASSUME SessionInv, SentTyped PROVE WSTypeOK
  OBVIOUS
<1>1. wsToken = NoUser \/ wsToken \in Tokens
  BY DEF SessionInv, SessionTyped
<1>2. wsToken \in Tokens => wsToken.user \in WebUsers
  BY DEF Tokens
<1>3. {wsLoading, wsFailed, wsCameBack} \subseteq BOOLEAN
  BY DEF SessionInv, SessionTyped, SentTyped
<1>4. QED
  BY <1>1, <1>2, <1>3 DEF SessionInv, SessionTyped, SentTyped, WSTypeOK

-----------------------------------------------------------------------------
TypesInv == TLTyped /\ MLTyped /\ SpendInv /\ SpendShown /\ SessionInv /\ SentTyped

LEMMA ListPagesStep ==
  [WebNext]_webVars => [TLNext]_tlVars /\ [MLNext]_mlVars /\ [TSNext]_tsVars /\ [WSNext]_wsVars
BY DEF WebNext, webVars

LEMMA SpendStep == SpendInv /\ [TSNext]_tsVars => SpendInv'
<1> SUFFICES ASSUME SpendInv, [TSNext]_tsVars PROVE SpendInv'
  OBVIOUS
<1>1. CASE UNCHANGED tsVars
  BY <1>1 DEF tsVars, SpendInv, SpendTyped, ListedSound, SavesApart, Listed, Selects
<1>2. CASE TSNext
  BY <1>2, SpendSelects, SpendSends, SpendServes, SpendAnswers DEF TSNext
<1>3. QED
  BY <1>1, <1>2

(* The pages of WebLists: what each keeps, shows and has under way is of its *)
(* type, for any bounds: no row is of a transaction or a merchant that is    *)
(* not there, no more than one fetch waits for its timer, no list is cached  *)
(* for no search, and every token of the session is one that was issued.     *)
THEOREM WebTypesCorrect == WebSpec => []WebTypeOK
<1>1. WebInit => TypesInv
  BY TLInitTyped, MLInitTyped, SpendInit, SpendShownStep, SessionInit, SentStep DEF WebInit, TypesInv
<1>2. TypesInv /\ [WebNext]_webVars => TypesInv'
  BY ListPagesStep, TLTypedStep, MLTypedStep, SpendStep, SpendShownStep, SessionStep, SentStep
    DEF TypesInv
<1>3. TypesInv => WebTypeOK
  BY TLTypedOK, MLTypedOK, SpendTypesOK, SessionTypesOK DEF TypesInv, WebTypeOK
<1>4. QED
  BY <1>1, <1>2, <1>3, PTL DEF WebSpec

-----------------------------------------------------------------------------
(* A list that comes in order.  pg[k] is the page that the list is on once   *)
(* the first k requests under way are answered; the first of them that is a  *)
(* new search's, if there is one and what is shown is to go, is the a-th.    *)

Goes(net, a, pg) ==
  \A j \in (a + 1)..Len(net) :
    IF IsFetch(net[j])
    THEN net[j].more /\ net[j].page = pg[j] /\ pg[j] \in {pg[j - 1], pg[j - 1] + 1}
    ELSE pg[j] = pg[j - 1]

Brings(l, net, found, a) ==
  \A j \in 1..Len(net) :
    j >= a /\ IsFetch(net[j]) =>
      /\ net[j].search = l.search
      /\ net[j].served => /\ SameIds(net[j].items, PageOf(found, net[j].page))
                          /\ net[j].pages = Pages(found)

Ends(l, net, found, pg) ==
  /\ LastFetches(net) = {} => l.page = pg[Len(net)] /\ (l.hasMore <=> l.page < Pages(found))
  /\ \A j \in LastFetches(net) : net[j].page = pg[Len(net)]

Begins(l, net, found, a, pg) ==
  /\ a = 0 => SameIds(l.rows, Upto(found, pg[0]))
  /\ a # 0 => IsFetch(net[a]) /\ ~net[a].more /\ net[a].page = 1 /\ pg[a] = 1

InTurn(l, net, found, a, pg) ==
  /\ a \in 0..Len(net) /\ pg \in [0..Len(net) -> Nat \ {0}]
  /\ Begins(l, net, found, a, pg) /\ Goes(net, a, pg)
  /\ Brings(l, net, found, a) /\ Ends(l, net, found, pg)

IsNet(net) == net \in Seq(Range(net))

(* The last fetch under way, and that there is one.                          *)
LEMMA LastFetchIs ==
  ASSUME NEW net, IsNet(net), NEW i \in DOMAIN net, IsFetch(net[i])
  PROVE  LastFetches(net) # {}
<1> SUFFICES ASSUME LastFetches(net) = {} PROVE FALSE
  OBVIOUS
<1>0. Len(net) \in Nat /\ DOMAIN net = 1..Len(net)
  BY DEF IsNet
<1> DEFINE T == {n \in Nat : \A j \in DOMAIN net : j > Len(net) - n => ~IsFetch(net[j])}
<1>1. 0 \in T
  BY <1>0
<1>2. ASSUME NEW n \in Nat, n \in T PROVE n + 1 \in T
  <2> SUFFICES ASSUME NEW j \in DOMAIN net, j > Len(net) - (n + 1), IsFetch(net[j]) PROVE FALSE
    OBVIOUS
  <2>1. \A k \in DOMAIN net : k > j => k > Len(net) - n
    BY <1>0
  <2>2. j \in LastFetches(net)
    BY <1>2, <2>1 DEF LastFetches, IsFetch
  <2>3. QED
    BY <2>2
<1> HIDE DEF T
<1>3. Nat \subseteq T
  BY <1>1, <1>2, NatInduces
<1>4. Len(net) \in T
  BY <1>0, <1>3
<1>5. QED
  BY <1>0, <1>4 DEF T

(* A request is sent.                                                        *)
LEMMA LastAppended ==
  ASSUME NEW net, IsNet(net), NEW q
  PROVE  LastFetches(Append(net, q)) = IF IsFetch(q) THEN {Len(net) + 1} ELSE LastFetches(net)
<1> DEFINE t == Append(net, q)
           n == Len(net)
<1>1. /\ DOMAIN t = 1..(n + 1) /\ DOMAIN net = 1..n /\ n \in Nat
      /\ (\A j \in 1..n : t[j] = net[j]) /\ t[n + 1] = q
  BY NetAppended DEF IsNet
<1> HIDE DEF t, n
<1>2. CASE IsFetch(q)
  <2>1. ASSUME NEW j \in DOMAIN t PROVE j \in LastFetches(t) <=> j = n + 1
    <3>1. j # n + 1 => n + 1 > j /\ n + 1 \in DOMAIN t
      BY <1>1
    <3>2. \A k \in DOMAIN t : ~(k > n + 1)
      BY <1>1
    <3>3. QED
      BY <1>1, <1>2, <3>1, <3>2 DEF LastFetches, IsFetch
  <2>2. n + 1 \in DOMAIN t /\ LastFetches(t) \subseteq DOMAIN t
    BY <1>1 DEF LastFetches
  <2>3. LastFetches(t) = {n + 1}
    BY <2>1, <2>2
  <2>4. QED
    BY <1>2, <2>3 DEF t, n
<1>3. CASE ~IsFetch(q)
  <2>1. ASSUME NEW j \in DOMAIN t PROVE j \in LastFetches(t) <=> j \in LastFetches(net)
    <3>1. CASE j = n + 1
      BY <1>1, <1>3, <3>1 DEF LastFetches, IsFetch
    <3>2. CASE j # n + 1
      <4>1. j \in DOMAIN net /\ t[j] = net[j]
        BY <1>1, <3>2
      <4>2. (\A k \in DOMAIN t : k > j => ~IsFetch(t[k])) <=> (\A k \in DOMAIN net : k > j => ~IsFetch(net[k]))
        BY <1>1, <1>3
      <4>3. QED
        BY <4>1, <4>2 DEF LastFetches, IsFetch
    <3>3. QED
      BY <3>1, <3>2
  <2>2. LastFetches(t) \subseteq DOMAIN t /\ LastFetches(net) \subseteq DOMAIN t
    BY <1>1 DEF LastFetches
  <2>3. LastFetches(t) = LastFetches(net)
    BY <2>1, <2>2
  <2>4. QED
    BY <1>3, <2>3 DEF t
<1>4. QED
  BY <1>2, <1>3

(* The first page of a search: it is what the list begins with.              *)
LEMMA TurnBegins ==
  ASSUME NEW net, IsNet(net), NEW l, NEW found, NEW q,
         IsFetch(q), ~q.more, ~q.served, q.page = 1, q.search = l.search
  PROVE  \E pg : InTurn(l, Append(net, q), found, Len(net) + 1, pg)
<1> DEFINE t == Append(net, q)
           n == Len(net)
           pg == [k \in 0..(n + 1) |-> 1]
<1>1. /\ DOMAIN t = 1..(n + 1) /\ n \in Nat /\ t[n + 1] = q
      /\ LastFetches(t) = {n + 1} /\ Len(t) = n + 1
  <2>1. /\ DOMAIN t = 1..(n + 1) /\ n \in Nat /\ t[n + 1] = q
    BY NetAppended DEF IsNet
  <2>2. t \in Seq(Range(t))
    BY NetAppended DEF IsNet
  <2>3. Len(t) \in Nat /\ DOMAIN t = 1..Len(t)
    BY <2>2
  <2>4. Len(t) = n + 1
    BY <2>1, <2>3
  <2>5. QED
    BY <2>1, <2>4, LastAppended
<1>2. pg \in [0..(n + 1) -> Nat \ {0}] /\ pg[n + 1] = 1
  BY <1>1
<1> HIDE DEF t, n, pg
<1>3. n + 1 \in 0..Len(t) /\ n + 1 # 0
  BY <1>1
<1>4. Begins(l, t, found, n + 1, pg) /\ Ends(l, t, found, pg)
  BY <1>1, <1>2, <1>3 DEF Begins, Ends
<1>5. Goes(t, n + 1, pg)
  BY <1>1 DEF Goes
<1>6. Brings(l, t, found, n + 1)
  <2> SUFFICES ASSUME NEW j \in 1..Len(t), j >= n + 1
               PROVE  t[j] = q
    BY DEF Brings
  <2>1. j = n + 1
    BY <1>1
  <2>2. QED
    BY <1>1, <2>1
<1>7. InTurn(l, t, found, n + 1, pg)
  BY <1>1, <1>2, <1>3, <1>4, <1>5, <1>6 DEF InTurn
<1>8. QED
  BY <1>7 DEF t, n

(* A further request: the next page, or one that is no fetch.                *)
LEMMA TurnGoesOn ==
  ASSUME NEW net, IsNet(net), NEW l, NEW k, NEW found, NEW a, NEW pg, InTurn(l, net, found, a, pg),
         NEW q, k.rows = l.rows, k.search = l.search, l.page \in Nat \ {0},
         IF IsFetch(q)
         THEN q.more /\ ~q.served /\ q.page = l.page + 1 /\ q.search = l.search /\ NoneSkipped(net, q.page)
         ELSE k.page = l.page /\ k.hasMore = l.hasMore
  PROVE  \E pg2 : InTurn(k, Append(net, q), found, a, pg2)
<1> DEFINE t == Append(net, q)
           n == Len(net)
           x == IF IsFetch(q) THEN q.page ELSE pg[n]
           pg2 == [j \in 0..(n + 1) |-> IF j = n + 1 THEN x ELSE pg[j]]
<1>1. /\ DOMAIN t = 1..(n + 1) /\ n \in Nat /\ t[n + 1] = q
      /\ \A j \in 1..n : t[j] = net[j]
      /\ LastFetches(t) = IF IsFetch(q) THEN {n + 1} ELSE LastFetches(net)
      /\ Len(t) = n + 1 /\ DOMAIN net = 1..n
  <2>1. /\ DOMAIN t = 1..(n + 1) /\ n \in Nat /\ t[n + 1] = q /\ DOMAIN net = 1..n
        /\ \A j \in 1..n : t[j] = net[j]
    BY NetAppended DEF IsNet
  <2>2. t \in Seq(Range(t))
    BY NetAppended DEF IsNet
  <2>3. Len(t) \in Nat /\ DOMAIN t = 1..Len(t)
    BY <2>2
  <2>4. Len(t) = n + 1
    BY <2>1, <2>3
  <2>5. QED
    BY <2>1, <2>4, LastAppended
<1>2. /\ a \in 0..n /\ pg \in [0..n -> Nat \ {0}]
      /\ Begins(l, net, found, a, pg) /\ Goes(net, a, pg)
      /\ Brings(l, net, found, a) /\ Ends(l, net, found, pg)
  BY DEF InTurn
<1>3. pg[n] \in Nat \ {0} /\ l.page + 1 \in Nat \ {0}
  <2>1. n \in 0..n
    BY <1>1
  <2>2. QED
    BY <1>2, <2>1
<1>4. x \in Nat \ {0} /\ (IsFetch(q) => x \in {pg[n], pg[n] + 1})
  <2>1. CASE LastFetches(net) = {} /\ IsFetch(q)
    BY <1>2, <1>3, <2>1 DEF Ends
  <2>2. CASE LastFetches(net) # {} /\ IsFetch(q)
    <3>1. PICK j \in LastFetches(net) : TRUE
      BY <2>2
    <3>2. net[j].page = pg[n] /\ q.page \in {net[j].page, net[j].page + 1}
      BY <1>2, <2>2, <3>1 DEF Ends, NoneSkipped
    <3>3. QED
      BY <1>3, <2>2, <3>2
  <2>3. CASE ~IsFetch(q)
    BY <1>3, <2>3
  <2>4. QED
    BY <2>1, <2>2, <2>3
<1>5. IsFetch(q) => x = q.page
  OBVIOUS
<1>6. ~IsFetch(q) => x = pg[n]
  OBVIOUS
<1>7. /\ pg2 \in [0..(n + 1) -> Nat \ {0}] /\ pg2[n + 1] = x
      /\ \A j \in 0..n : pg2[j] = pg[j]
  <2> HIDE DEF x, n
  <2>1. \A j \in 0..n : j \in 0..(n + 1) /\ j # n + 1
    BY <1>1
  <2>2. \A j \in 0..(n + 1) : j # n + 1 => j \in 0..n
    BY <1>1
  <2>3. n + 1 \in 0..(n + 1)
    BY <1>1
  <2>4. QED
    BY <1>2, <1>4, <2>1, <2>2, <2>3
<1> HIDE DEF t, n, x, pg2
<1>8. a \in 0..Len(t)
  BY <1>1, <1>2
<1>9. Begins(k, t, found, a, pg2)
  <2>1. 0 \in 0..n /\ (a # 0 => a \in 1..n)
    BY <1>1, <1>2
  <2>2. QED
    BY <1>1, <1>2, <1>7, <2>1 DEF Begins
<1>10. Goes(t, a, pg2)
  <2> SUFFICES ASSUME NEW j \in (a + 1)..(n + 1)
               PROVE  IF IsFetch(t[j])
                      THEN t[j].more /\ t[j].page = pg2[j] /\ pg2[j] \in {pg2[j - 1], pg2[j - 1] + 1}
                      ELSE pg2[j] = pg2[j - 1]
    BY <1>1 DEF Goes
  <2>1. CASE j = n + 1
    <3>1. j - 1 = n /\ n \in 0..n
      BY <1>1, <2>1
    <3>2. pg2[j] = x /\ pg2[j - 1] = pg[n] /\ t[j] = q
      BY <1>1, <1>7, <2>1, <3>1
    <3>3. QED
      BY <1>4, <1>5, <1>6, <3>2
  <2>2. CASE j # n + 1
    <3>1. j \in (a + 1)..n /\ j \in 1..n /\ j \in 0..n /\ j - 1 \in 0..n
      BY <1>1, <1>2, <2>2
    <3>2. pg2[j] = pg[j] /\ pg2[j - 1] = pg[j - 1] /\ t[j] = net[j]
      BY <1>1, <1>7, <3>1
    <3>3. IF IsFetch(net[j])
          THEN net[j].more /\ net[j].page = pg[j] /\ pg[j] \in {pg[j - 1], pg[j - 1] + 1}
          ELSE pg[j] = pg[j - 1]
      BY <1>2, <3>1 DEF Goes, n
    <3>4. QED
      BY <3>2, <3>3
  <2>3. QED
    BY <2>1, <2>2
<1>11. Brings(k, t, found, a)
  <2> SUFFICES ASSUME NEW j \in 1..(n + 1), j >= a, IsFetch(t[j])
               PROVE  /\ t[j].search = k.search
                      /\ t[j].served => /\ SameIds(t[j].items, PageOf(found, t[j].page))
                                        /\ t[j].pages = Pages(found)
    BY <1>1 DEF Brings
  <2>1. CASE j = n + 1
    BY <1>1, <2>1
  <2>2. CASE j # n + 1
    <3>1. j \in 1..n
      BY <1>1, <2>2
    <3>2. QED
      BY <1>1, <1>2, <3>1 DEF Brings, n
  <2>3. QED
    BY <2>1, <2>2
<1>12. Ends(k, t, found, pg2)
  <2>1. CASE IsFetch(q)
    BY <1>1, <1>5, <1>7, <2>1 DEF Ends
  <2>2. CASE ~IsFetch(q)
    <3>1. LastFetches(net) \subseteq 1..n
      BY <1>1 DEF LastFetches
    <3>2. QED
      BY <1>1, <1>2, <1>6, <1>7, <2>2, <3>1 DEF Ends, n
  <2>3. QED
    BY <2>1, <2>2
<1>13. InTurn(k, t, found, a, pg2)
  BY <1>1, <1>7, <1>8, <1>9, <1>10, <1>11, <1>12 DEF InTurn
<1>14. QED
  BY <1>13 DEF t

LEMMA SameIdsThrough ==
  ASSUME NEW r, NEW s, NEW t, SameIds(r, s), SameIds(s, t)
  PROVE  SameIds(r, t)
BY DEF SameIds

LEMMA SamePagesAll ==
  ASSUME NEW S, NEW T, NEW found \in Seq(S), NEW other \in Seq(T), SameIds(found, other)
  PROVE  /\ Pages(found) = Pages(other)
         /\ \A p \in Nat \ {0} : /\ SameIds(Upto(found, p), Upto(other, p))
                                 /\ SameIds(PageOf(found, p), PageOf(other, p))
<1>1. ASSUME NEW p \in Nat
      PROVE  /\ SameIds(Upto(found, p), Upto(other, p))
             /\ SameIds(PageOf(found, p + 1), PageOf(other, p + 1))
             /\ Pages(found) = Pages(other)
  <2>1. SameIds(Upto(found, p), Upto(other, p)) /\ Pages(found) = Pages(other)
    BY SamePages
  <2>2. SameIds(PageOf(found, p + 1), PageOf(other, p + 1))
    BY SamePages, Zenon
  <2>3. QED
    BY <2>1, <2>2
<1>2. \A p \in Nat \ {0} : p - 1 \in Nat /\ (p - 1) + 1 = p
  OBVIOUS
<1>3. ASSUME NEW p \in Nat \ {0} PROVE SameIds(PageOf(found, p), PageOf(other, p))
  <2> DEFINE o == p - 1
  <2>1. o \in Nat /\ o + 1 = p
    BY <1>2
  <2> HIDE DEF o
  <2>2. SameIds(PageOf(found, o + 1), PageOf(other, o + 1))
    BY <1>1, <2>1
  <2>3. QED
    BY <2>1, <2>2
<1>4. 0 \in Nat
  OBVIOUS
<1>5. QED
  BY <1>1, <1>3, <1>4

(* A request is served where it stands; the search may find other rows then, *)
(* but of the same ids.                                                      *)
LEMMA TurnServed ==
  ASSUME NEW net, IsNet(net), NEW l, NEW a, NEW pg, NEW S, NEW T, NEW found \in Seq(S), NEW other \in Seq(T),
         InTurn(l, net, found, a, pg), SameIds(found, other),
         NEW i \in DOMAIN net, NEW e, IsFetch(e) <=> IsFetch(net[i]),
         IsFetch(e) => /\ e.more = net[i].more /\ e.page = net[i].page /\ e.search = net[i].search
                       /\ e.search = l.search => /\ SameIds(e.items, PageOf(other, e.page))
                                                 /\ e.pages = Pages(other),
         \A j \in DOMAIN net : IsFetch(net[j]) => net[j].page \in Nat \ {0}
  PROVE  InTurn(l, [net EXCEPT ![i] = e], other, a, pg)
<1> DEFINE t == [net EXCEPT ![i] = e]
           n == Len(net)
<1>1. /\ DOMAIN t = 1..n /\ DOMAIN net = 1..n /\ n \in Nat /\ Len(t) = n
      /\ \A j \in 1..n : t[j] = IF j = i THEN e ELSE net[j]
  <2>1. DOMAIN t = DOMAIN net /\ (\A j \in DOMAIN net : t[j] = IF j = i THEN e ELSE net[j]) /\ t \in Seq(Range(t))
    BY NetReplaced DEF IsNet
  <2>2. DOMAIN net = 1..n /\ n \in Nat
    BY DEF IsNet
  <2>3. Len(t) \in Nat /\ DOMAIN t = 1..Len(t)
    BY <2>1
  <2>4. Len(t) = n
    BY <2>1, <2>2, <2>3
  <2>5. QED
    BY <2>1, <2>2, <2>4
<1>2. /\ a \in 0..n /\ pg \in [0..n -> Nat \ {0}]
      /\ Begins(l, net, found, a, pg) /\ Goes(net, a, pg)
      /\ Brings(l, net, found, a) /\ Ends(l, net, found, pg)
  BY DEF InTurn
<1> HIDE DEF t, n
<1>3. \A j \in 1..n : /\ IsFetch(t[j]) <=> IsFetch(net[j])
                      /\ IsFetch(t[j]) => t[j].more = net[j].more /\ t[j].page = net[j].page
                                          /\ t[j].search = net[j].search
  BY <1>1
<1>4. LastFetches(t) = LastFetches(net)
  <2>1. \A j \in 1..n : (t[j].kind = "fetch") <=> (net[j].kind = "fetch")
    BY <1>3 DEF IsFetch
  <2>2. QED
    BY <1>1, <2>1 DEF LastFetches
<1>5. /\ Pages(found) = Pages(other)
      /\ \A p \in Nat \ {0} : /\ SameIds(Upto(found, p), Upto(other, p))
                              /\ SameIds(PageOf(found, p), PageOf(other, p))
  BY SamePagesAll
<1>6. Begins(l, t, other, a, pg)
  <2>1. a = 0 => SameIds(l.rows, Upto(other, pg[0]))
    <3> SUFFICES ASSUME a = 0 PROVE SameIds(l.rows, Upto(other, pg[0]))
      OBVIOUS
    <3>1. SameIds(l.rows, Upto(found, pg[0])) /\ pg[0] \in Nat \ {0}
      BY <1>1, <1>2 DEF Begins
    <3>2. QED
      BY <1>5, <3>1, SameIdsThrough
  <2>2. a # 0 => a \in 1..n
    BY <1>2
  <2>3. QED
    BY <1>2, <1>3, <2>1, <2>2 DEF Begins
<1>7. Goes(t, a, pg)
  <2> SUFFICES ASSUME NEW j \in (a + 1)..n
               PROVE  IF IsFetch(t[j])
                      THEN t[j].more /\ t[j].page = pg[j] /\ pg[j] \in {pg[j - 1], pg[j - 1] + 1}
                      ELSE pg[j] = pg[j - 1]
    BY <1>1 DEF Goes
  <2>1. j \in 1..n
    BY <1>1, <1>2
  <2>2. QED
    BY <1>2, <1>3, <2>1 DEF Goes, n
<1>8. Brings(l, t, other, a)
  <2> SUFFICES ASSUME NEW j \in 1..n, j >= a, IsFetch(t[j])
               PROVE  /\ t[j].search = l.search
                      /\ t[j].served => /\ SameIds(t[j].items, PageOf(other, t[j].page))
                                        /\ t[j].pages = Pages(other)
    BY <1>1 DEF Brings
  <2>1. IsFetch(net[j]) /\ t[j].search = net[j].search /\ net[j].search = l.search /\ net[j].page \in Nat \ {0}
    BY <1>1, <1>2, <1>3 DEF Brings, n
  <2>2. CASE j = i
    BY <1>1, <2>1, <2>2
  <2>3. CASE j # i
    <3>1. t[j] = net[j]
      BY <1>1, <2>3
    <3> SUFFICES ASSUME net[j].served
                 PROVE  SameIds(net[j].items, PageOf(other, net[j].page)) /\ net[j].pages = Pages(other)
      BY <2>1, <3>1
    <3>2. SameIds(net[j].items, PageOf(found, net[j].page)) /\ net[j].pages = Pages(found)
      BY <1>1, <1>2, <2>1 DEF Brings, n
    <3>3. SameIds(PageOf(found, net[j].page), PageOf(other, net[j].page))
      BY <1>5, <2>1
    <3>4. QED
      BY <1>5, <3>2, <3>3, SameIdsThrough
  <2>4. QED
    BY <2>2, <2>3
<1>9. Ends(l, t, other, pg)
  <2>1. LastFetches(net) \subseteq 1..n
    BY <1>1 DEF LastFetches
  <2>2. \A j \in LastFetches(net) : IsFetch(net[j]) /\ t[j].page = net[j].page
    BY <1>3, <2>1 DEF LastFetches, IsFetch
  <2>3. QED
    BY <1>1, <1>2, <1>4, <1>5, <2>2 DEF Ends, n
<1>10. QED
  BY <1>1, <1>2, <1>6, <1>7, <1>8, <1>9 DEF InTurn, t

(* The last fetch after the first request is gone.                           *)
LEMMA LastRemoved ==
  ASSUME NEW net, IsNet(net), 1 \in DOMAIN net
  PROVE  LET t == RemoveAt(net, 1)
         IN  /\ IsNet(t) /\ Len(t) = Len(net) - 1 /\ DOMAIN t = 1..(Len(net) - 1)
             /\ Len(net) \in Nat \ {0} /\ DOMAIN net = 1..Len(net)
             /\ \A j \in 1..(Len(net) - 1) : t[j] = net[j + 1]
             /\ \A j \in 1..(Len(net) - 1) : j \in LastFetches(t) <=> j + 1 \in LastFetches(net)
             /\ LastFetches(t) \subseteq 1..(Len(net) - 1)
             /\ LastFetches(t) = {} /\ IsFetch(net[1]) => LastFetches(net) = {1}
             /\ LastFetches(t) = {} /\ ~IsFetch(net[1]) => LastFetches(net) = {}
<1> DEFINE t == RemoveAt(net, 1)
           n == Len(net)
<1>1. /\ DOMAIN net = 1..n /\ n \in Nat \ {0} /\ DOMAIN t = 1..(n - 1) /\ IsNet(t) /\ Len(t) = n - 1
      /\ \A j \in 1..(n - 1) : t[j] = net[j + 1]
  <2>1. /\ DOMAIN net = 1..n /\ n \in Nat /\ Len(t) = n - 1 /\ DOMAIN t = 1..(n - 1)
        /\ t \in Seq(Range(t))
        /\ \A j \in 1..(n - 1) : t[j] = IF j < 1 THEN net[j] ELSE net[j + 1]
    BY NetRemoved DEF IsNet
  <2>2. n # 0
    BY <2>1
  <2>3. \A j \in 1..(n - 1) : ~(j < 1)
    OBVIOUS
  <2> HIDE DEF t, n
  <2>4. QED
    BY <2>1, <2>2, <2>3 DEF IsNet
<1> HIDE DEF t, n
<1>2. ASSUME NEW j \in 1..(n - 1) PROVE j \in LastFetches(t) <=> j + 1 \in LastFetches(net)
  <2>1. j + 1 \in DOMAIN net /\ j \in DOMAIN t /\ t[j] = net[j + 1]
    BY <1>1
  <2>2. (\A k \in DOMAIN t : k > j => t[k].kind # "fetch") <=> (\A k \in DOMAIN net : k > j + 1 => net[k].kind # "fetch")
    <3>1. ASSUME \A k \in DOMAIN t : k > j => t[k].kind # "fetch", NEW k \in DOMAIN net, k > j + 1
          PROVE  net[k].kind # "fetch"
      <4>1. k - 1 \in 1..(n - 1) /\ (k - 1) + 1 = k /\ k - 1 > j
        BY <1>1, <3>1
      <4>2. t[k - 1] = net[k] /\ k - 1 \in DOMAIN t
        BY <1>1, <4>1
      <4>3. QED
        BY <3>1, <4>1, <4>2
    <3>2. ASSUME \A k \in DOMAIN net : k > j + 1 => net[k].kind # "fetch", NEW k \in DOMAIN t, k > j
          PROVE  t[k].kind # "fetch"
      <4>1. k + 1 \in DOMAIN net /\ k + 1 > j + 1 /\ t[k] = net[k + 1]
        BY <1>1, <3>2
      <4>2. QED
        BY <3>2, <4>1
    <3>3. QED
      BY <3>1, <3>2
  <2>3. QED
    BY <2>1, <2>2 DEF LastFetches
<1>3. ASSUME LastFetches(t) = {}, NEW k \in DOMAIN net, IsFetch(net[k]), k # 1 PROVE FALSE
  <2>1. k - 1 \in 1..(n - 1) /\ (k - 1) + 1 = k
    BY <1>1, <1>3
  <2>2. IsFetch(t[k - 1]) /\ k - 1 \in DOMAIN t
    BY <1>1, <1>3, <2>1
  <2>3. QED
    BY <1>1, <1>3, <2>2, LastFetchIs
<1>4. LastFetches(t) = {} /\ IsFetch(net[1]) => LastFetches(net) = {1}
  <2> SUFFICES ASSUME LastFetches(t) = {}, IsFetch(net[1]) PROVE LastFetches(net) = {1}
    OBVIOUS
  <2>1. LastFetches(net) # {}
    BY LastFetchIs
  <2>2. LastFetches(net) \subseteq {1}
    BY <1>3 DEF LastFetches, IsFetch
  <2>3. QED
    BY <2>1, <2>2
<1>5. LastFetches(t) = {} /\ ~IsFetch(net[1]) => LastFetches(net) = {}
  BY <1>3 DEF LastFetches, IsFetch
<1>6. LastFetches(t) \subseteq 1..(n - 1)
  BY <1>1 DEF LastFetches
<1>7. QED
  BY <1>1, <1>2, <1>4, <1>5, <1>6 DEF t, n

(* The first request is answered.  What is shown, if what is under way goes  *)
(* on from it, is then the pages as far as that answer brings the list.      *)
LEMMA TurnShifts ==
  ASSUME NEW net, IsNet(net), 1 \in DOMAIN net, NEW l, NEW k, NEW found, NEW a, NEW pg,
         InTurn(l, net, found, a, pg), k.search = l.search,
         IF IsFetch(net[1])
         THEN k.page = net[1].page /\ (1 >= a => (k.hasMore <=> k.page < Pages(found)))
         ELSE k.page = l.page /\ k.hasMore = l.hasMore,
         a \in {0, 1} => SameIds(k.rows, Upto(found, pg[1]))
  PROVE  \E pg2 : InTurn(k, RemoveAt(net, 1), found, IF a = 0 THEN 0 ELSE a - 1, pg2)
<1> DEFINE t == RemoveAt(net, 1)
           n == Len(net)
           b == IF a = 0 THEN 0 ELSE a - 1
           pg2 == [j \in 0..(n - 1) |-> pg[j + 1]]
<1>1. /\ Len(t) = n - 1 /\ DOMAIN t = 1..(n - 1) /\ n \in Nat \ {0} /\ DOMAIN net = 1..n
      /\ \A j \in 1..(n - 1) : t[j] = net[j + 1]
      /\ \A j \in 1..(n - 1) : j \in LastFetches(t) <=> j + 1 \in LastFetches(net)
      /\ LastFetches(t) \subseteq 1..(n - 1)
      /\ LastFetches(t) = {} /\ IsFetch(net[1]) => LastFetches(net) = {1}
      /\ LastFetches(t) = {} /\ ~IsFetch(net[1]) => LastFetches(net) = {}
  BY LastRemoved
<1>2. /\ a \in 0..n /\ pg \in [0..n -> Nat \ {0}]
      /\ Begins(l, net, found, a, pg) /\ Goes(net, a, pg)
      /\ Brings(l, net, found, a) /\ Ends(l, net, found, pg)
  BY DEF InTurn
<1> HIDE DEF t, n
<1>3. /\ pg2 \in [0..(n - 1) -> Nat \ {0}]
      /\ \A j \in 0..(n - 1) : pg2[j] = pg[j + 1]
      /\ pg2[0] = pg[1] /\ pg2[n - 1] = pg[n]
  <2>1. \A j \in 0..(n - 1) : j + 1 \in 0..n
    BY <1>1
  <2>2. 0 \in 0..(n - 1) /\ n - 1 \in 0..(n - 1) /\ (n - 1) + 1 = n /\ 0 + 1 = 1
    BY <1>1
  <2>3. QED
    BY <1>2, <2>1, <2>2
<1>4. b \in 0..(n - 1) /\ (b = 0 <=> a \in {0, 1}) /\ (b # 0 => b + 1 = a /\ b \in 1..(n - 1))
      /\ \A j \in Nat : j >= b => j + 1 >= a
  BY <1>1, <1>2
<1> HIDE DEF pg2, b
<1>5. Begins(k, t, found, b, pg2)
  <2>1. b = 0 => SameIds(k.rows, Upto(found, pg2[0]))
    BY <1>3, <1>4
  <2>2. ASSUME b # 0 PROVE IsFetch(t[b]) /\ ~t[b].more /\ t[b].page = 1 /\ pg2[b] = 1
    <3>1. t[b] = net[a] /\ pg2[b] = pg[a] /\ a # 0
      BY <1>1, <1>3, <1>4, <2>2
    <3>2. QED
      BY <1>2, <3>1 DEF Begins
  <2>3. QED
    BY <2>1, <2>2 DEF Begins
<1>6. Goes(t, b, pg2)
  <2> SUFFICES ASSUME NEW j \in (b + 1)..(n - 1)
               PROVE  IF IsFetch(t[j])
                      THEN t[j].more /\ t[j].page = pg2[j] /\ pg2[j] \in {pg2[j - 1], pg2[j - 1] + 1}
                      ELSE pg2[j] = pg2[j - 1]
    BY <1>1 DEF Goes
  <2>1. j \in 1..(n - 1) /\ j \in 0..(n - 1) /\ j - 1 \in 0..(n - 1) /\ (j - 1) + 1 = j /\ (j + 1) - 1 = j
    BY <1>1, <1>4
  <2>2. j + 1 \in (a + 1)..n
    BY <1>1, <1>2, <1>4, <2>1
  <2>3. t[j] = net[j + 1] /\ pg2[j] = pg[j + 1] /\ pg2[j - 1] = pg[j]
    BY <1>1, <1>3, <2>1
  <2> DEFINE m == j + 1
  <2>4. m \in (a + 1)..n /\ m - 1 = j
    BY <2>1, <2>2
  <2>5. IF IsFetch(net[m])
        THEN net[m].more /\ net[m].page = pg[m] /\ pg[m] \in {pg[m - 1], pg[m - 1] + 1}
        ELSE pg[m] = pg[m - 1]
    <3> HIDE DEF m
    <3>1. QED
      BY <1>2, <2>4 DEF Goes, n
  <2>6. QED
    BY <2>3, <2>4, <2>5
<1>7. Brings(k, t, found, b)
  <2> SUFFICES ASSUME NEW j \in 1..(n - 1), j >= b, IsFetch(t[j])
               PROVE  /\ t[j].search = k.search
                      /\ t[j].served => /\ SameIds(t[j].items, PageOf(found, t[j].page))
                                        /\ t[j].pages = Pages(found)
    BY <1>1 DEF Brings
  <2>1. t[j] = net[j + 1] /\ j + 1 \in 1..n /\ j + 1 >= a
    BY <1>1, <1>4
  <2>2. QED
    BY <1>2, <2>1 DEF Brings, n
<1>8. Ends(k, t, found, pg2)
  <2>1. Len(t) = n - 1
    BY <1>1
  <2>2. ASSUME NEW j \in LastFetches(t) PROVE t[j].page = pg2[n - 1]
    <3>1. j \in 1..(n - 1)
      BY <1>1
    <3>2. j + 1 \in LastFetches(net) /\ t[j] = net[j + 1]
      BY <1>1, <3>1
    <3>3. QED
      BY <1>2, <1>3, <3>2 DEF Ends, n
  <2>3. ASSUME LastFetches(t) = {}
        PROVE  k.page = pg2[n - 1] /\ (k.hasMore <=> k.page < Pages(found))
    <3>1. CASE IsFetch(net[1])
      <4>1. LastFetches(net) = {1}
        BY <1>1, <2>3, <3>1
      <4>2. net[1].page = pg[n]
        BY <1>2, <4>1 DEF Ends, n
      <4>3. 1 >= a
        <5> SUFFICES ASSUME ~(1 >= a) PROVE FALSE
          OBVIOUS
        <5>1. a # 0 /\ a \in DOMAIN net /\ a > 1
          BY <1>1, <1>2
        <5>2. IsFetch(net[a])
          BY <1>2, <5>1 DEF Begins
        <5>3. 1 \in LastFetches(net)
          BY <4>1
        <5>4. QED
          BY <5>1, <5>2, <5>3 DEF LastFetches, IsFetch
      <4>4. QED
        BY <1>3, <3>1, <4>2, <4>3
    <3>2. CASE ~IsFetch(net[1])
      <4>1. LastFetches(net) = {}
        BY <1>1, <2>3, <3>2
      <4>2. l.page = pg[n] /\ (l.hasMore <=> l.page < Pages(found))
        BY <1>2, <4>1 DEF Ends, n
      <4>3. QED
        BY <1>3, <3>2, <4>2
    <3>3. QED
      BY <3>1, <3>2
  <2>4. QED
    BY <2>1, <2>2, <2>3 DEF Ends
<1>9. InTurn(k, t, found, b, pg2)
  BY <1>1, <1>3, <1>4, <1>5, <1>6, <1>7, <1>8 DEF InTurn
<1>10. QED
  BY <1>9 DEF t, b

LEMMA TurnFetched ==
  ASSUME NEW net, IsNet(net), 1 \in DOMAIN net, NEW l, NEW k, NEW T, NEW found \in Seq(T), Apart(found),
         NEW a, NEW pg, InTurn(l, net, found, a, pg), NEW R, l.rows \in Seq(R),
         IsFetch(net[1]), net[1].served, net[1].items \in Seq(R), net[1].page \in Nat \ {0},
         k.search = l.search, k.page = net[1].page, k.hasMore <=> net[1].page < net[1].pages,
         k.rows = IF net[1].more THEN Merged(l.rows, net[1].items) ELSE net[1].items
  PROVE  \E pg2 : InTurn(k, RemoveAt(net, 1), found, IF a = 0 THEN 0 ELSE a - 1, pg2)
<1>1. /\ a \in 0..Len(net) /\ pg \in [0..Len(net) -> Nat \ {0}]
      /\ Begins(l, net, found, a, pg) /\ Goes(net, a, pg)
      /\ Brings(l, net, found, a) /\ Ends(l, net, found, pg)
  BY DEF InTurn
<1>2. DOMAIN net = 1..Len(net) /\ Len(net) \in Nat \ {0}
  BY LastRemoved
<1>3. ASSUME 1 >= a
      PROVE  /\ SameIds(net[1].items, PageOf(found, net[1].page)) /\ net[1].pages = Pages(found)
  BY <1>1, <1>2, <1>3 DEF Brings
<1>4. ASSUME a = 0 PROVE SameIds(k.rows, Upto(found, pg[1]))
  <2>1. 1 \in (a + 1)..Len(net)
    BY <1>2, <1>4
  <2>2. net[1].more /\ net[1].page = pg[1] /\ pg[1] \in {pg[1 - 1], pg[1 - 1] + 1}
    BY <1>1, <2>1 DEF Goes
  <2>3. 1 - 1 = 0 /\ 0 \in 0..Len(net) /\ 1 >= a
    BY <1>2, <1>4
  <2>4. SameIds(l.rows, Upto(found, pg[0])) /\ pg[0] \in Nat \ {0} /\ pg[1] \in {pg[0], pg[0] + 1}
    BY <1>1, <1>4, <2>2, <2>3 DEF Begins
  <2>5. SameIds(net[1].items, PageOf(found, pg[1]))
    BY <1>3, <2>2, <2>3
  <2> DEFINE p == pg[0]
             q == pg[1]
             s == net[1].items
  <2>6. p \in Nat \ {0} /\ q \in {p, p + 1} /\ s \in Seq(R)
    BY <2>4
  <2>7. SameIds(l.rows, Upto(found, p)) /\ SameIds(s, PageOf(found, q))
    BY <2>4, <2>5
  <2> HIDE DEF p, q, s
  <2>8. SameIds(Merged(l.rows, s), Upto(found, q))
    BY <2>6, <2>7, MergedPage
  <2>9. QED
    BY <2>2, <2>8 DEF q, s
<1>5. ASSUME a = 1 PROVE SameIds(k.rows, Upto(found, pg[1]))
  <2>1. ~net[1].more /\ net[1].page = 1 /\ pg[1] = 1
    BY <1>1, <1>5 DEF Begins
  <2>2. SameIds(k.rows, PageOf(found, 1))
    BY <1>3, <1>5, <2>1
  <2>3. SameIds(PageOf(found, 1), Upto(found, 1))
    BY FirstPage
  <2>4. SameIds(k.rows, Upto(found, 1))
    BY <2>2, <2>3, SameIdsThrough
  <2>5. QED
    BY <2>1, <2>4
<1>6. 1 >= a => (k.hasMore <=> k.page < Pages(found))
  BY <1>3
<1>7. a \in {0, 1} => SameIds(k.rows, Upto(found, pg[1]))
  BY <1>4, <1>5
<1>8. QED
  BY <1>6, <1>7, TurnShifts

LEMMA TurnReplaced ==
  ASSUME NEW net, IsNet(net), 1 \in DOMAIN net, NEW l, NEW k, NEW found, NEW a, NEW pg,
         InTurn(l, net, found, a, pg), ~IsFetch(net[1]), SameIds(k.rows, l.rows),
         k.search = l.search, k.page = l.page, k.hasMore = l.hasMore
  PROVE  \E pg2 : InTurn(k, RemoveAt(net, 1), found, IF a = 0 THEN 0 ELSE a - 1, pg2)
<1>1. /\ a \in 0..Len(net) /\ pg \in [0..Len(net) -> Nat \ {0}]
      /\ Begins(l, net, found, a, pg) /\ Goes(net, a, pg)
  BY DEF InTurn
<1>2. DOMAIN net = 1..Len(net) /\ Len(net) \in Nat \ {0}
  BY LastRemoved
<1>3. a # 1
  BY <1>1 DEF Begins
<1>4. ASSUME a = 0 PROVE SameIds(k.rows, Upto(found, pg[1]))
  <2>1. 1 \in (a + 1)..Len(net) /\ 1 - 1 = 0
    BY <1>2, <1>4
  <2>2. pg[1] = pg[0]
    BY <1>1, <2>1 DEF Goes
  <2>3. SameIds(l.rows, Upto(found, pg[0]))
    BY <1>1, <1>4 DEF Begins
  <2>4. SameIds(k.rows, Upto(found, pg[0]))
    BY <2>3, SameIdsThrough
  <2>5. QED
    BY <2>2, <2>4
<1>5. a \in {0, 1} => SameIds(k.rows, Upto(found, pg[1]))
  BY <1>3, <1>4
<1>6. QED
  BY <1>5, TurnShifts

(* A list with nothing under way.                                            *)
LEMMA TurnAtRest ==
  ASSUME NEW l, NEW found
  PROVE  /\ \A a, pg : InTurn(l, << >>, found, a, pg) =>
              SameIds(l.rows, Upto(found, l.page)) /\ (l.hasMore <=> l.page < Pages(found))
         /\ l.page \in Nat \ {0} /\ SameIds(l.rows, Upto(found, l.page))
              /\ (l.hasMore <=> l.page < Pages(found)) => \E pg : InTurn(l, << >>, found, 0, pg)
<1>1. Len(<< >>) = 0 /\ DOMAIN << >> = {} /\ LastFetches(<< >>) = {}
  BY DEF LastFetches
<1>2. ASSUME NEW a, NEW pg, InTurn(l, << >>, found, a, pg)
      PROVE  SameIds(l.rows, Upto(found, l.page)) /\ (l.hasMore <=> l.page < Pages(found))
  <2>1. a = 0
    BY <1>1, <1>2 DEF InTurn
  <2>2. QED
    BY <1>1, <1>2, <2>1 DEF InTurn, Begins, Ends
<1>3. ASSUME l.page \in Nat \ {0}, SameIds(l.rows, Upto(found, l.page)), l.hasMore <=> l.page < Pages(found)
      PROVE  \E pg : InTurn(l, << >>, found, 0, pg)
  <2> DEFINE pg == [j \in 0..0 |-> l.page]
  <2>1. pg \in [0..0 -> Nat \ {0}] /\ pg[0] = l.page
    BY <1>3
  <2> HIDE DEF pg
  <2>2. InTurn(l, << >>, found, 0, pg)
    BY <1>1, <1>3, <2>1 DEF InTurn, Begins, Goes, Brings, Ends
  <2>3. QED
    BY <2>2
<1>4. QED
  BY <1>2, <1>3

-----------------------------------------------------------------------------
(* No transaction is listed twice. *)

LEMMA ApartOnce ==
  ASSUME NEW R, NEW rows \in Seq(R), Apart(rows)
  PROVE  Cardinality(IdsOf(rows)) = Len(rows)
<1> DEFINE n == Len(rows)
           f == [i \in 1..n |-> rows[i].id]
<1>1. n \in Nat /\ DOMAIN rows = 1..n
  OBVIOUS
<1>2. IdsOf(rows) = {rows[i].id : i \in 1..n}
  BY <1>1 DEF IdsOf
<1>3. \A i, j \in 1..n : rows[i].id = rows[j].id => i = j
  BY <1>1 DEF Apart
<1> HIDE DEF n
<1>4. f \in [1..n -> IdsOf(rows)]
  BY <1>2
<1>5. \A i, j \in 1..n : f[i] = f[j] => i = j
  BY <1>3
<1>6. \A id \in IdsOf(rows) : \E i \in 1..n : f[i] = id
  BY <1>2
<1> HIDE DEF f
<1>7. f \in Bijection(1..n, IdsOf(rows))
  BY <1>4, <1>5, <1>6 DEF Bijection, Injection, Surjection, IsInjective
<1>8. ExistsBijection(1..n, IdsOf(rows))
  BY <1>7 DEF ExistsBijection
<1>9. QED
  BY <1>1, <1>8, FS_CountingElements DEF n

LEMMA MergedApart ==
  ASSUME NEW R, NEW rows \in Seq(R), NEW items \in Seq(R), Apart(rows), Apart(items)
  PROVE  Apart(Merged(rows, items))
<1> DEFINE I == {i \in DOMAIN items : items[i].id \notin IdsOf(rows)}
           s == Filtered(items, I)
           t == rows \o s
<1>1. I \in SUBSET DOMAIN items
  OBVIOUS
<1>2. s \in Seq(R) /\ Apart(s) /\ \A j \in DOMAIN s : s[j].id \notin IdsOf(rows)
  <2>0. \A i \in I : items[i].id \notin IdsOf(rows)
    OBVIOUS
  <2> HIDE DEF I
  <2>1. s \in Seq(R)
    BY <1>1, FilterKeeps
  <2>2. Apart(s)
    BY <1>1, FilterApart
  <2>3. \A j \in DOMAIN s : \E i \in I : s[j] = items[i]
    BY <1>1, FilterApart
  <2>4. QED
    BY <2>0, <2>1, <2>2, <2>3
<1>3. Merged(rows, items) = t
  BY DEF Merged
<1> HIDE DEF s, I
<1> DEFINE n == Len(rows)
           m == Len(s)
<1>4. /\ n \in Nat /\ m \in Nat /\ DOMAIN rows = 1..n /\ DOMAIN s = 1..m /\ DOMAIN t = 1..(n + m)
      /\ \A i \in 1..n : t[i] = rows[i]
      /\ \A i \in 1..m : t[n + i] = s[i]
  BY <1>2
<1> HIDE DEF t, n, m
<1>5. \A i \in 1..(n + m) : i \in 1..n \/ (i - n \in 1..m /\ n + (i - n) = i)
  BY <1>4
<1>6. \A i \in 1..(n + m) : i \in 1..n => t[i] = rows[i] /\ t[i].id \in IdsOf(rows)
  BY <1>4 DEF IdsOf
<1>7. ASSUME NEW i \in 1..(n + m), i \notin 1..n
      PROVE  i - n \in 1..m /\ t[i] = s[i - n] /\ t[i].id \notin IdsOf(rows)
  <2>1. i - n \in 1..m /\ n + (i - n) = i
    BY <1>5, <1>7
  <2>2. t[n + (i - n)] = s[i - n]
    BY <1>4, <2>1
  <2>3. QED
    BY <1>2, <1>4, <2>1, <2>2
<1>8. ASSUME NEW i \in 1..(n + m), NEW j \in 1..(n + m), t[i].id = t[j].id PROVE i = j
  <2>1. CASE i \in 1..n
    <3>1. j \in 1..n
      BY <1>6, <1>7, <1>8, <2>1
    <3>2. rows[i].id = rows[j].id
      BY <1>6, <1>8, <2>1, <3>1
    <3>3. QED
      BY <1>4, <2>1, <3>1, <3>2 DEF Apart
  <2>2. CASE i \notin 1..n
    <3>1. j \notin 1..n
      BY <1>6, <1>7, <1>8, <2>2
    <3>2. i - n \in 1..m /\ j - n \in 1..m /\ s[i - n].id = s[j - n].id
      BY <1>7, <1>8, <2>2, <3>1
    <3>3. i - n = j - n
      BY <1>2, <1>4, <3>2 DEF Apart
    <3>4. QED
      BY <1>4, <3>3
  <2>3. QED
    BY <2>1, <2>2
<1>9. QED
  BY <1>3, <1>4, <1>8 DEF Apart

LEMMA PageApart ==
  ASSUME NEW S, NEW found \in Seq(S), Apart(found), NEW p \in Nat \ {0}
  PROVE  Apart(PageOf(found, p)) /\ \A i \in DOMAIN PageOf(found, p) :
                                      \E k \in DOMAIN found : PageOf(found, p)[i] = found[k]
<1> DEFINE o == p - 1
<1>1. o \in Nat /\ o + 1 = p
  OBVIOUS
<1> HIDE DEF o
<1> DEFINE b == Reach(found, o)
           c == Reach(found, o + 1)
           s == PageOf(found, o + 1)
<1>2. b \in 0..Len(found) /\ c \in 0..Len(found) /\ b <= c
  BY <1>1, ReachGrows
<1>3. DOMAIN s = 1..(c - b) /\ \A i \in 1..(c - b) : s[i] = found[b + i]
  <2>1. DOMAIN s = 1..(c - b)
    BY <1>1, PageOfIs
  <2>2. \A i \in 1..(c - b) : s[i] = found[b + i]
    BY <1>1, PageOfIs
  <2>3. QED
    BY <2>1, <2>2
<1> HIDE DEF b, c, s
<1>4. DOMAIN found = 1..Len(found) /\ Len(found) \in Nat
  OBVIOUS
<1>5. \A i \in 1..(c - b) : b + i \in DOMAIN found
  BY <1>2, <1>4
<1>6. Apart(s)
  <2> SUFFICES ASSUME NEW i \in DOMAIN s, NEW j \in DOMAIN s, s[i].id = s[j].id PROVE i = j
    BY DEF Apart
  <2>1. b + i = b + j
    BY <1>3, <1>5 DEF Apart
  <2>2. QED
    BY <1>2, <1>3, <2>1
<1>7. \A i \in DOMAIN s : \E k \in DOMAIN found : s[i] = found[k]
  BY <1>3, <1>5
<1>8. QED
  BY <1>1, <1>6, <1>7 DEF s

-----------------------------------------------------------------------------
(* On the transactions page: of the rows, of those kept for the next visit,  *)
(* and of every page on its way.                                             *)

RowsInv ==
  /\ Apart(tl.rows)
  /\ tlCache # None => Apart(tlCache.rows)
  /\ \A j \in DOMAIN tlNet : IsFetch(tlNet[j]) => Apart(tlNet[j].items)

LEMMA NoRowsApart == Apart(<< >>)
BY DEF Apart

LEMMA RowsInit == TLInit => RowsInv
<1> SUFFICES ASSUME TLInit PROVE RowsInv
  OBVIOUS
<1>1. Unmounted.rows = << >>
  BY UnmountedTyped DEF Searches
<1>2. QED
  BY <1>1, NoRowsApart DEF TLInit, RowsInv

(* What is sent brings nothing yet, and what is dropped is no more.          *)
LEMMA RowsSent ==
  ASSUME TLTyped, RowsInv, NEW q, IsFetch(q) => q.items = << >>, tlNet' = Append(tlNet, q)
  PROVE  \A j \in DOMAIN tlNet' : IsFetch(tlNet'[j]) => Apart(tlNet'[j].items)
<1>1. tlNet \in Seq(Range(tlNet))
  BY DEF TLTyped, TLNetTyped, Range
<1>2. /\ DOMAIN Append(tlNet, q) = 1..(Len(tlNet) + 1) /\ DOMAIN tlNet = 1..Len(tlNet) /\ Len(tlNet) \in Nat
      /\ \A j \in 1..Len(tlNet) : Append(tlNet, q)[j] = tlNet[j]
      /\ Append(tlNet, q)[Len(tlNet) + 1] = q
  BY <1>1, NetAppended
<1>3. QED
  BY <1>2, NoRowsApart DEF RowsInv

LEMMA RowsDropped ==
  ASSUME TLTyped, RowsInv, NEW i \in DOMAIN tlNet, tlNet' = RemoveAt(tlNet, i)
  PROVE  \A j \in DOMAIN tlNet' : IsFetch(tlNet'[j]) => Apart(tlNet'[j].items)
<1>1. tlNet \in Seq(TLRequests)
  BY DEF TLTyped, TLNetTyped
<1>2. Range(tlNet') \subseteq Range(tlNet)
  BY <1>1, EntriesRemoved
<1>3. ASSUME NEW j \in DOMAIN tlNet' PROVE \E h \in DOMAIN tlNet : tlNet'[j] = tlNet[h]
  BY <1>2 DEF Range
<1>4. QED
  BY <1>3 DEF RowsInv

LEMMA FetchSends ==
  ASSUME NEW l, NEW more, FetchTransactions(l, more)
  PROVE  \E q : IsFetch(q) /\ q.items = << >> /\ ~q.served /\ tlNet' = Append(tlNet, q)
                /\ q.more = more /\ q.page = PageToFetch(l, more) /\ q.search = l.search /\ q.on = l.on
<1> DEFINE q == [kind |-> "fetch", on |-> l.on, served |-> FALSE, search |-> l.search,
                 more |-> more, page |-> PageToFetch(l, more), items |-> << >>, pages |-> 1]
<1>1. tlNet' = Append(tlNet, q)
  BY DEF FetchTransactions, Send
<1>2. /\ q.kind = "fetch" /\ q.items = << >> /\ ~q.served /\ q.more = more /\ q.page = PageToFetch(l, more)
      /\ q.search = l.search /\ q.on = l.on
  OBVIOUS
<1> HIDE DEF q
<1>3. QED
  BY <1>1, <1>2 DEF IsFetch

LEMMA RowsStep == TLTyped /\ RowsInv /\ [TLNext]_tlVars => RowsInv'
<1> SUFFICES ASSUME TLTyped, RowsInv, [TLNext]_tlVars PROVE RowsInv'
  OBVIOUS
<1> DEFINE X == Searches \cup {None}
           Calls == \A j \in DOMAIN tlNet : IsFetch(tlNet[j]) => Apart(tlNet[j].items)
<1>0. tl \in ListStates(X, TLRows) /\ tl.rows \in Seq(TLRows)
  BY DEF TLTyped, TLHookTyped, ListStates
<1> HIDE DEF X
<1>1. CASE UNCHANGED <<tl, tlCache, tlNet>>
  BY <1>1 DEF RowsInv
<1>2. CASE TLOpen
  <2>0. tlMounts + 1 \in Nat /\ SavedSearch \in X
    BY <1>2 DEF TLTyped, TLKeptTyped, SavedSearch, Searches, X
  <2>1. PICK old \in BOOLEAN :
          LET entry == Usable(tlCache, SavedSearch, old)
              l     == Mounted(tlMounts + 1, SavedSearch, entry)
          IN  IF l.rows = << >>
              THEN FetchTransactions(l, FALSE)
              ELSE tl' = l /\ UNCHANGED tlNet
    BY <1>2 DEF TLOpen
  <2> DEFINE entry == Usable(tlCache, SavedSearch, old)
             l == Mounted(tlMounts + 1, SavedSearch, entry)
  <2>2. entry = None \/ (entry = tlCache /\ entry \in Entries(X, TLRows))
    <3>1. tlCache # None => tlCache \in Entries(Searches, TLRows)
      BY DEF TLTyped, TLKeptTyped
    <3>2. tlCache # None => tlCache \in Entries(X, TLRows)
      BY <3>1 DEF Entries, X
    <3>3. QED
      BY <3>2 DEF Usable
  <2>3. l \in ListStates(X, TLRows) /\ Apart(l.rows)
    <3>1. entry # None => Apart(entry.rows)
      BY <2>2 DEF RowsInv
    <3>2. entry = None \/ entry \in Entries(X, TLRows)
      BY <2>2
    <3> HIDE DEF entry
    <3> DEFINE m == tlMounts + 1
    <3>3. m \in Nat
      BY <2>0
    <3> HIDE DEF m
    <3>4. Mounted(m, SavedSearch, entry) \in ListStates(X, TLRows)
      BY <2>0, <3>2, <3>3, MountedTyped
    <3>5. entry = None => Mounted(m, SavedSearch, entry).rows = << >>
      BY DEF Mounted
    <3>6. entry # None => Mounted(m, SavedSearch, entry).rows = entry.rows
      BY DEF Mounted
    <3>7. QED
      BY <3>1, <3>4, <3>5, <3>6, NoRowsApart DEF m
  <2>4. IF l.rows = << >> THEN FetchTransactions(l, FALSE) ELSE tl' = l /\ UNCHANGED tlNet
    BY <2>1
  <2> HIDE DEF l, entry
  <2>5. tlCache' = None
    BY <1>2 DEF TLOpen
  <2>6. CASE l.rows = << >>
    <3>1. FetchTransactions(l, FALSE)
      BY <2>4, <2>6
    <3>2. Apart(tl'.rows)
      <4>1. tl' = FetchBegun(l, FALSE)
        BY <3>1 DEF FetchTransactions, Becomes
      <4>2. FetchBegun(l, FALSE).rows = l.rows
        BY <2>3 DEF FetchBegun, ListStates
      <4>3. QED
        BY <2>3, <4>1, <4>2
    <3>3. PICK q : IsFetch(q) /\ q.items = << >> /\ tlNet' = Append(tlNet, q)
      BY <3>1, FetchSends
    <3>4. \A j \in DOMAIN tlNet' : IsFetch(tlNet'[j]) => Apart(tlNet'[j].items)
      BY <3>3, RowsSent
    <3>5. QED
      BY <2>5, <3>2, <3>4 DEF RowsInv, IsFetch
  <2>7. CASE l.rows # << >>
    BY <2>3, <2>4, <2>5, <2>7 DEF RowsInv
  <2>8. QED
    BY <2>6, <2>7
<1>3. CASE TLLeave
  <2>1. /\ tl' = Unmounted /\ UNCHANGED tlNet
        /\ tlCache' = IF tl.rows # << >> THEN Entry(tl) ELSE tlCache
    BY <1>3 DEF TLLeave
  <2>2. Unmounted.rows = << >>
    BY UnmountedTyped
  <2>3. Entry(tl).rows = tl.rows
    BY DEF Entry
  <2>4. QED
    BY <2>1, <2>2, <2>3, NoRowsApart DEF RowsInv
<1>4. CASE SubmitFilters \/ ClearFilters
  <2>1. UNCHANGED <<tl, tlCache, tlNet>> \/
          (UNCHANGED tlNet /\ tlCache' = None /\ \E search : Becomes(SearchSet(tl, search)))
    BY <1>4 DEF SubmitFilters, ClearFilters, SetSearchParams, tlScreen
  <2>2. \A search : SearchSet(tl, search).rows = tl.rows
    BY <1>0 DEF SearchSet, ListStates
  <2>3. QED
    BY <2>1, <2>2 DEF RowsInv, Becomes
<1>5. CASE FetchDue \/ ScrollToEnd
  <2>1. PICK more \in BOOLEAN : FetchTransactions(tl, more)
    BY <1>5 DEF FetchDue, ScrollToEnd
  <2>2. UNCHANGED tlCache
    BY <1>5 DEF FetchDue, ScrollToEnd
  <2>3. tl'.rows = tl.rows
    <3>1. tl' = FetchBegun(tl, more)
      BY <2>1 DEF FetchTransactions, Becomes
    <3>2. FetchBegun(tl, more).rows = tl.rows
      BY <1>0 DEF FetchBegun, ListStates
    <3>3. QED
      BY <3>1, <3>2
  <2>4. PICK q : IsFetch(q) /\ q.items = << >> /\ tlNet' = Append(tlNet, q)
    BY <2>1, FetchSends
  <2>5. \A j \in DOMAIN tlNet' : IsFetch(tlNet'[j]) => Apart(tlNet'[j].items)
    BY <2>4, RowsSent
  <2>6. QED
    BY <2>2, <2>3, <2>5 DEF RowsInv, IsFetch
<1>6. CASE EditRow
  <2>0. PICK kind \in {"classify", "classify_all", "tag", "untag"} : \E r : Edit(kind, r)
    BY <1>6 DEF EditRow, ConfirmType, ChooseTypeOrCategory, AddTag, RemoveTag
  <2>1. PICK r : Edit(kind, r)
    BY <2>0
  <2> DEFINE q == [kind |-> kind, on |-> tl.on, served |-> FALSE, id |-> r.id, row |-> None]
  <2>2. tlNet' = Append(tlNet, q) /\ UNCHANGED <<tl, tlCache>> /\ ~IsFetch(q)
    BY <2>1 DEF Edit, Send, tlSession, IsFetch
  <2> HIDE DEF q
  <2>3. \A j \in DOMAIN tlNet' : IsFetch(tlNet'[j]) => Apart(tlNet'[j].items)
    BY <2>2, RowsSent
  <2>4. QED
    BY <2>2, <2>3 DEF RowsInv, IsFetch
<1>7. ASSUME NEW i \in DOMAIN tlNet, Serve(i) PROVE RowsInv'
  <2> DEFINE q == tlNet[i]
  <2>1. UNCHANGED <<tl, tlCache>> /\ q \in TLRequests /\ tlNet \in Seq(Range(tlNet))
    BY <1>7 DEF Serve, tlScreen, tlSession, TLTyped, TLNetTyped, Range
  <2>2. PICK e : tlNet' = [tlNet EXCEPT ![i] = e] /\ (IsFetch(e) => Apart(e.items))
    <3>1. CASE IsFetch(q)
      <4> DEFINE found == Found(tlStore, q.search)
                 items == PageOf(found, q.page)
                 e == [q EXCEPT !.served = TRUE, !.items = items, !.pages = Pages(found)]
      <4>1. q \in TLFetches
        BY <2>1, <3>1 DEF TLRequests, TLEdits, IsFetch
      <4>2. found \in Seq(TLRows) /\ Apart(found) /\ q.page \in Nat \ {0}
        BY <4>1, FoundRows DEF TLRows, TLTyped, TLFetches
      <4> HIDE DEF found
      <4>3. Apart(items)
        BY <4>2, PageApart
      <4>4. tlNet' = [tlNet EXCEPT ![i] = e]
        <5>1. QED
          BY <1>7, <3>1 DEF Serve, IsFetch, found
      <4> HIDE DEF items
      <4>5. e.items = items
        BY <4>1 DEF TLFetches
      <4>6. QED
        BY <4>3, <4>4, <4>5
    <3>2. CASE ~IsFetch(q)
      <4> DEFINE e == [q EXCEPT !.served = TRUE, !.row = Row(tlStore', q.id)]
      <4>1. q \in TLEdits
        BY <2>1, <3>2 DEF TLRequests, TLFetches, IsFetch
      <4>2. tlNet' = [tlNet EXCEPT ![i] = e]
        BY <1>7, <3>2 DEF Serve, IsFetch
      <4>3. e.kind = q.kind
        BY <4>1 DEF TLEdits
      <4>4. QED
        BY <3>2, <4>2, <4>3 DEF IsFetch
    <3>3. QED
      BY <3>1, <3>2
  <2>3. /\ DOMAIN [tlNet EXCEPT ![i] = e] = DOMAIN tlNet
        /\ \A j \in DOMAIN tlNet : [tlNet EXCEPT ![i] = e][j] = IF j = i THEN e ELSE tlNet[j]
    BY <2>1, NetReplaced
  <2>4. QED
    BY <2>1, <2>2, <2>3 DEF RowsInv, IsFetch
<1>8. ASSUME NEW i \in DOMAIN tlNet, Answer(i) PROVE RowsInv'
  <2> DEFINE q == tlNet[i]
  <2>1. q.served /\ tlNet' = RemoveAt(tlNet, i) /\ UNCHANGED tlCache /\ q \in TLRequests /\ EditServed(q)
    BY <1>8 DEF Answer, tlSession, TLTyped, TLNetTyped
  <2>2. \A j \in DOMAIN tlNet' : IsFetch(tlNet'[j]) => Apart(tlNet'[j].items)
    BY <2>1, RowsDropped
  <2>3. Apart(tl'.rows)
    <3>1. CASE q.on # tl.on
      BY <1>8, <3>1 DEF Answer, tlScreen, RowsInv
    <3>2. CASE q.on = tl.on /\ IsFetch(q)
      <4>1. q \in TLFetches
        BY <2>1, <3>2 DEF TLRequests, TLEdits, IsFetch
      <4>2. tl' = Fetched(tl, q)
        BY <1>8, <3>2 DEF Answer, IsFetch, Becomes
      <4>3. q.more \in BOOLEAN /\ q.items \in Seq(TLRows) /\ q.page \in Nat \ {0}
        BY <4>1 DEF TLFetches
      <4>4. tl'.rows = IF q.more THEN Merged(tl.rows, q.items) ELSE q.items
        BY <1>0, <4>2, <4>3, FetchedTyped
      <4>5. Apart(q.items) /\ Apart(tl.rows)
        BY <3>2 DEF RowsInv
      <4>6. QED
        BY <1>0, <4>3, <4>4, <4>5, MergedApart
    <3>3. CASE q.on = tl.on /\ ~IsFetch(q)
      <4>1. q \in TLEdits
        BY <2>1, <3>3 DEF TLRequests, TLFetches, IsFetch
      <4>2. tl' = RowAnswered(tl, q)
        BY <1>8, <3>3 DEF Answer, IsFetch, Becomes
      <4>3. q.row \in TLRows /\ q.row.id = q.id
        BY <2>1, <3>3 DEF EditServed, IsFetch
      <4>4. /\ DOMAIN tl'.rows = DOMAIN tl.rows
            /\ \A k \in DOMAIN tl.rows :
                  tl'.rows[k] = IF tl.rows[k].id # q.id THEN tl.rows[k]
                                ELSE IF q.kind \in {"tag", "untag"}
                                THEN [tl.rows[k] EXCEPT !.tagged = (q.kind = "tag")] ELSE q.row
        <5> HIDE DEF q
        <5> DEFINE a == RowAnswered(tl, q)
        <5>1. /\ DOMAIN a.rows = DOMAIN tl.rows
              /\ \A k \in DOMAIN tl.rows :
                   a.rows[k] = IF tl.rows[k].id # q.id THEN tl.rows[k]
                               ELSE IF q.kind \in {"tag", "untag"}
                               THEN [tl.rows[k] EXCEPT !.tagged = (q.kind = "tag")] ELSE q.row
          BY ZenonT(30), <1>0, <4>1, <4>3, RowAnsweredTyped
        <5>2. tl' = a
          BY <4>2
        <5> HIDE DEF a
        <5>3. QED
          BY <5>1, <5>2
      <4>5. ASSUME NEW k \in DOMAIN tl.rows PROVE tl'.rows[k].id = tl.rows[k].id
        <5>1. tl.rows[k] \in TLRows
          BY <1>0
        <5>2. [tl.rows[k] EXCEPT !.tagged = (q.kind = "tag")].id = tl.rows[k].id
          BY <5>1 DEF TLRows
        <5>3. QED
          BY <4>3, <4>4, <5>2
      <4>6. QED
        BY <4>4, <4>5 DEF RowsInv, Apart
    <3>4. QED
      BY <3>1, <3>2, <3>3
  <2>4. QED
    BY <2>1, <2>2, <2>3 DEF RowsInv, IsFetch
<1>9. ASSUME NEW i \in DOMAIN tlNet, Fail(i) PROVE RowsInv'
  <2>1. tlNet' = RemoveAt(tlNet, i) /\ UNCHANGED tlCache /\ (tl' = FetchFailed(tl) \/ tl' = tl)
    BY <1>9 DEF Fail, tlSession, tlScreen, Becomes
  <2>2. \A j \in DOMAIN tlNet' : IsFetch(tlNet'[j]) => Apart(tlNet'[j].items)
    BY <2>1, RowsDropped
  <2>3. FetchFailed(tl).rows = tl.rows
    BY <1>0 DEF FetchFailed, ListStates
  <2>4. QED
    BY <2>1, <2>2, <2>3 DEF RowsInv, IsFetch
<1>10. CASE UNCHANGED tlVars \/ UpdateFilter \/ FadeEnds \/ TransactionArrives
  BY <1>1, <1>10 DEF tlVars, UpdateFilter, FadeEnds, TransactionArrives, tlScreen, tlSession
<1>11. QED
  BY <1>2, <1>3, <1>4, <1>5, <1>6, <1>7, <1>8, <1>9, <1>10 DEF TLNext

LEMMA RowsInvOnce == TLTyped /\ RowsInv => RowsOnce
<1> SUFFICES ASSUME TLTyped, RowsInv PROVE RowsOnce
  OBVIOUS
<1>1. tl.rows \in Seq(TLRows) /\ Apart(tl.rows)
  BY DEF TLTyped, TLHookTyped, ListStates, RowsInv
<1>2. QED
  BY <1>1, ApartOnce DEF RowsOnce

-----------------------------------------------------------------------------
(* The transactions page, when all comes in order. *)

ServedInOrder(net) == \A j, k \in DOMAIN net : j < k /\ net[k].served => net[j].served

Later(j, id, kinds) ==
  \E k \in DOMAIN tlNet : /\ k > j /\ tlNet[k].served
                          /\ tlNet[k].kind \in kinds /\ tlNet[k].id = id

Edits == {"classify", "tag", "untag"}

(* A row of the list, or of the answer to the j-th request, is what the      *)
(* server has, or the answer that makes it so comes after.                   *)
Current(j, r) ==
  /\ r.tagged = tlStore[r.id].tagged \/ Later(j, r.id, Edits)
  /\ r.review = tlStore[r.id].review \/ Later(j, r.id, {"classify"})

AnswerCurrent(j) ==
  tlNet[j].served =>
    /\ tlNet[j].kind = "fetch" => \A i \in DOMAIN tlNet[j].items : Current(j, tlNet[j].items[i])
    /\ tlNet[j].kind = "classify" => Current(j, tlNet[j].row)
    /\ tlNet[j].kind \in {"tag", "untag"} =>
         \/ tlStore[tlNet[j].id].tagged = (tlNet[j].kind = "tag")
         \/ Later(j, tlNet[j].id, Edits)

TLQueue ==
  /\ ServedInOrder(tlNet)
  /\ \A j \in DOMAIN tlNet : /\ tlNet[j].on = tl.on
                             /\ tlNet[j].served => tlNet[j].kind # "classify_all"
  /\ tl.on = 0 => tlNet = << >> /\ tlDue = 0

TLFresh ==
  /\ \A i \in DOMAIN tl.rows : Current(0, tl.rows[i])
  /\ tl.on = 0 /\ tlCache # None => \A i \in DOMAIN tlCache.rows : Current(0, tlCache.rows[i])
  /\ \A j \in DOMAIN tlNet : AnswerCurrent(j)

CacheSettled ==
  tlCache # None =>
    LET found == Found(tlStore, tlCache.search)
    IN  /\ SameIds(tlCache.rows, Upto(found, tlCache.page))
        /\ tlCache.hasMore <=> tlCache.page < Pages(found)

TLTurn == \E a, pg : InTurn(tl, tlNet, Found(tlStore, tl.search), a, pg)

TLInOrder ==
  /\ tlDue # 0 => tl.page = 1
  /\ tl.on = 0 => CacheSettled
  /\ tlDue = 0 /\ tl.on # 0 => TLTurn

TLCalmInv == tlCalm => TLQueue /\ TLFresh /\ (~tlEdited => TLInOrder)

LEMMA TLCalmInit == TLInit => TLCalmInv
<1> SUFFICES ASSUME TLInit PROVE TLCalmInv
  OBVIOUS
<1>1. /\ tlNet = << >> /\ tlDue = 0 /\ tl = Unmounted /\ tlCache = None
      /\ DOMAIN tlNet = {}
  BY DEF TLInit
<1>2. Unmounted.rows = << >> /\ Unmounted.on = 0
  BY UnmountedTyped DEF Searches
<1>3. TLQueue /\ TLFresh
  BY <1>1, <1>2 DEF TLQueue, TLFresh, ServedInOrder
<1>4. TLInOrder
  BY <1>1, <1>2 DEF TLInOrder, CacheSettled
<1>5. QED
  BY <1>3, <1>4 DEF TLCalmInv

LEMMA TLNet == TLTyped => /\ IsNet(tlNet) /\ DOMAIN tlNet = 1..Len(tlNet) /\ Len(tlNet) \in Nat
                          /\ \A j \in DOMAIN tlNet : /\ tlNet[j] \in TLRequests
                                                     /\ IsFetch(tlNet[j]) => tlNet[j] \in TLFetches
                                                     /\ ~IsFetch(tlNet[j]) => tlNet[j] \in TLEdits
<1> SUFFICES ASSUME TLTyped PROVE /\ IsNet(tlNet) /\ DOMAIN tlNet = 1..Len(tlNet) /\ Len(tlNet) \in Nat
                                  /\ \A j \in DOMAIN tlNet : /\ tlNet[j] \in TLRequests
                                                             /\ IsFetch(tlNet[j]) => tlNet[j] \in TLFetches
                                                             /\ ~IsFetch(tlNet[j]) => tlNet[j] \in TLEdits
  OBVIOUS
<1>1. tlNet \in Seq(TLRequests)
  BY DEF TLTyped, TLNetTyped
<1>2. IsNet(tlNet) /\ DOMAIN tlNet = 1..Len(tlNet) /\ Len(tlNet) \in Nat
  BY <1>1 DEF IsNet, Range
<1>3. \A j \in DOMAIN tlNet : tlNet[j] \in TLRequests
  BY <1>1
<1>4. QED
  BY <1>2, <1>3 DEF TLRequests, TLFetches, TLEdits, IsFetch

(* A request is sent: what comes later still does.                           *)
Sends(q) ==
  /\ tlNet' = Append(tlNet, q) /\ ~q.served /\ q.on = tl'.on /\ tl'.on # 0
  /\ tl'.rows \in {tl.rows, << >>} /\ (tl'.on = tl.on \/ tlNet = << >>)
  /\ UNCHANGED <<tlStore, tlEdited>>

LEMMA TLFreshSent ==
  ASSUME TLTyped, TLQueue, TLFresh, NEW q, Sends(q)
  PROVE  TLQueue' /\ TLFresh'
<1>1. /\ DOMAIN tlNet' = 1..(Len(tlNet) + 1) /\ DOMAIN tlNet = 1..Len(tlNet) /\ Len(tlNet) \in Nat
      /\ \A j \in 1..Len(tlNet) : tlNet'[j] = tlNet[j]
      /\ tlNet'[Len(tlNet) + 1] = q
  BY TLNet, NetAppended DEF IsNet, Sends
<1>0. ~q.served /\ q.on = tl'.on /\ tl'.on # 0 /\ tlStore' = tlStore /\ (tl'.on = tl.on \/ tlNet = << >>)
  BY DEF Sends
<1> DEFINE n == Len(tlNet)
<1>2. \A j \in 1..(n + 1) : j \in 1..n \/ j = n + 1
  BY <1>1
<1> HIDE DEF n
<1>3. ASSUME NEW j, NEW id, NEW kinds, Later(j, id, kinds) PROVE Later(j, id, kinds)'
  <2>1. PICK k \in DOMAIN tlNet : k > j /\ tlNet[k].served /\ tlNet[k].kind \in kinds /\ tlNet[k].id = id
    BY <1>3 DEF Later
  <2>2. k \in DOMAIN tlNet' /\ tlNet'[k] = tlNet[k]
    BY <1>1, <2>1
  <2>3. QED
    BY <2>1, <2>2 DEF Later
<1>4. ASSUME NEW j, NEW r, Current(j, r) PROVE Current(j, r)'
  BY <1>0, <1>3, <1>4 DEF Current
<1>5. ASSUME NEW j \in DOMAIN tlNet' PROVE AnswerCurrent(j)'
  <2>1. CASE j \in 1..n
    <3>1. j \in DOMAIN tlNet /\ tlNet'[j] = tlNet[j] /\ AnswerCurrent(j)
      BY <1>1, <2>1 DEF TLFresh, n
    <3>2. QED
      BY <1>0, <1>3, <1>4, <3>1 DEF AnswerCurrent
  <2>2. CASE j = n + 1
    BY <1>0, <1>1, <2>2 DEF AnswerCurrent, n
  <2>3. QED
    BY <1>1, <1>2, <2>1, <2>2 DEF n
<1>6. \A i \in DOMAIN tl'.rows : Current(0, tl.rows[i])'
  <2>1. ASSUME NEW i \in DOMAIN tl'.rows PROVE tl'.rows = tl.rows
    BY DEF Sends
  <2>2. ASSUME NEW i \in DOMAIN tl'.rows PROVE Current(0, tl.rows[i])'
    <3>1. PICK r : r = tl.rows[i]
      OBVIOUS
    <3>2. Current(0, r) /\ tl'.rows[i] = r
      BY <2>1, <2>2, <3>1 DEF TLFresh
    <3>3. Current(0, r)'
      BY <1>4, <3>2
    <3>4. QED
      BY <3>2, <3>3
  <2>3. QED
    BY <2>2
<1>7. TLFresh'
  BY <1>0, <1>5, <1>6 DEF TLFresh
<1>8. ServedInOrder(tlNet)'
  <2> SUFFICES ASSUME NEW j \in DOMAIN tlNet', NEW k \in DOMAIN tlNet', j < k, tlNet'[k].served
               PROVE  tlNet'[j].served
    BY DEF ServedInOrder
  <2>1. k \in 1..n
    BY <1>0, <1>1, <1>2 DEF n
  <2>2. j \in 1..n
    BY <1>1, <2>1 DEF n
  <2>3. QED
    BY <1>1, <2>1, <2>2 DEF TLQueue, ServedInOrder, n
<1>9. ASSUME NEW j \in DOMAIN tlNet'
      PROVE  tlNet'[j].on = tl'.on /\ (tlNet'[j].served => tlNet'[j].kind # "classify_all")
  <2>1. CASE j = n + 1
    BY <1>0, <1>1, <2>1 DEF n
  <2>2. CASE j \in 1..n
    BY <1>0, <1>1, <2>2 DEF TLQueue, n
  <2>3. QED
    BY <1>1, <1>2, <2>1, <2>2 DEF n
<1>10. QED
  BY <1>0, <1>7, <1>8, <1>9 DEF TLQueue

(* Nothing is sent, served or answered.                                      *)
AllKept ==
  /\ UNCHANGED <<tlNet, tlStore, tlEdited>>
  /\ tl'.rows \in {tl.rows, << >>} \/ (tl.on = 0 /\ tlCache # None /\ tl'.rows = tlCache.rows)
  /\ tl'.on = tl.on \/ tlNet = << >>
  /\ tl'.on = 0 => tlDue' = 0
  /\ tl'.on = 0 /\ tlCache' # None => tlCache'.rows = tl.rows \/ (tl.on = 0 /\ tlCache' = tlCache)

LEMMA TLFreshKept ==
  ASSUME TLTyped, TLQueue, TLFresh, AllKept
  PROVE  TLQueue' /\ TLFresh'
<1>1. tlNet' = tlNet /\ tlStore' = tlStore /\ (tl'.on = tl.on \/ tlNet = << >>)
  BY DEF AllKept
<1>2. ASSUME NEW j, NEW r, Current(j, r) PROVE Current(j, r)'
  BY <1>1, <1>2 DEF Current, Later
<1>3. ASSUME NEW j \in DOMAIN tlNet' PROVE AnswerCurrent(j)'
  <2>1. j \in DOMAIN tlNet /\ AnswerCurrent(j)
    BY <1>1, <1>3 DEF TLFresh
  <2>2. QED
    BY <1>1, <2>1 DEF AnswerCurrent, Current, Later
<1>4. ASSUME NEW i \in DOMAIN tl'.rows PROVE Current(0, tl.rows[i])'
  <2>1. PICK r : r = tl'.rows[i]
    OBVIOUS
  <2>2. Current(0, r)
    BY <1>4, <2>1 DEF AllKept, TLFresh
  <2>3. Current(0, r)'
    BY <1>2, <2>2
  <2>4. QED
    BY <2>1, <2>3
<1>5. ASSUME tl'.on = 0, tlCache' # None, NEW i \in DOMAIN tlCache'.rows PROVE Current(0, tlCache.rows[i])'
  <2>1. PICK r : r = tlCache'.rows[i]
    OBVIOUS
  <2>2. Current(0, r)
    BY <1>5, <2>1 DEF AllKept, TLFresh
  <2>3. Current(0, r)'
    BY <1>2, <2>2
  <2>4. QED
    BY <2>1, <2>3
<1>6. TLFresh'
  BY <1>3, <1>4, <1>5 DEF TLFresh
<1>7. tl'.on = 0 => tlNet' = << >> /\ tlDue' = 0
  <2>1. tl'.on = 0 => tlNet = << >>
    BY <1>1 DEF TLQueue
  <2>2. QED
    BY <1>1, <2>1 DEF AllKept
<1>8. ServedInOrder(tlNet)'
  BY <1>1 DEF TLQueue
<1>9. ASSUME NEW j \in DOMAIN tlNet'
      PROVE  tlNet'[j].on = tl'.on /\ (tlNet'[j].served => tlNet'[j].kind # "classify_all")
  <2>1. j \in DOMAIN tlNet /\ tlNet'[j] = tlNet[j] /\ tlNet # << >>
    BY <1>1
  <2>2. QED
    BY <1>1, <2>1 DEF TLQueue
<1>10. QED
  BY <1>6, <1>7, <1>8, <1>9 DEF TLQueue

(* The server answers the first that it has not.                             *)
Serves(i, e) ==
  LET q == tlNet[i] IN
  /\ tlNet' = [tlNet EXCEPT ![i] = e] /\ UNCHANGED <<tl, tlDue, tlCache>>
  /\ ~q.served /\ e.served /\ e.on = q.on /\ e.kind = q.kind /\ q.kind # "classify_all"
  /\ \A j \in 1..(i - 1) : tlNet[j].served

ServesFetch(i, e) ==
  LET q == tlNet[i]  found == Found(tlStore, q.search) IN
  /\ Serves(i, e) /\ IsFetch(q) /\ UNCHANGED <<tlStore, tlEdited>>
  /\ e.more = q.more /\ e.page = q.page /\ e.search = q.search
  /\ e.items = PageOf(found, q.page) /\ e.pages = Pages(found)

ServesEdit(i, e) ==
  LET q == tlNet[i] IN
  /\ Serves(i, e) /\ ~IsFetch(q) /\ e.id = q.id /\ e.row = Row(tlStore', q.id)
  /\ tlStore' = [id \in DOMAIN tlStore |-> Edited(tlStore[id], q, id)]
  /\ tlEdited' = (tlEdited \/ q.kind = "classify")

LEMMA CalmServe ==
  ASSUME TLTyped, NEW i \in DOMAIN tlNet, Serve(i), tlCalm'
  PROVE  \E e : ServesFetch(i, e) \/ ServesEdit(i, e)
<1> DEFINE q == tlNet[i]
<1>1. /\ IsFetch(q) => q \in TLFetches
      /\ ~IsFetch(q) => q \in TLEdits
  BY TLNet
<1>2. /\ ~q.served /\ q.kind # "classify_all" /\ (\A j \in 1..(i - 1) : tlNet[j].served)
      /\ UNCHANGED <<tl, tlDue, tlCache>>
  BY DEF Serve, tlScreen, tlInput, tlSession
<1>3. CASE IsFetch(q)
  <2> DEFINE found == Found(tlStore, q.search)
             items == PageOf(found, q.page)
             pages == Pages(found)
             e == [q EXCEPT !.served = TRUE, !.items = items, !.pages = pages]
  <2>1. tlNet' = [tlNet EXCEPT ![i] = e] /\ UNCHANGED <<tlStore, tlEdited>>
    BY <1>3 DEF Serve, IsFetch, tlServer
  <2>2. q \in TLFetches
    BY <1>1, <1>3
  <2> HIDE DEF items, pages
  <2>3. /\ e.served /\ e.on = q.on /\ e.kind = q.kind /\ e.more = q.more /\ e.page = q.page
        /\ e.search = q.search /\ e.items = items /\ e.pages = pages
    BY <2>2 DEF TLFetches
  <2> HIDE DEF e
  <2>4. ServesFetch(i, e)
    BY <1>2, <1>3, <2>1, <2>3 DEF ServesFetch, Serves, items, pages
  <2>5. QED
    BY <2>4
<1>4. CASE ~IsFetch(q)
  <2>1. q \in TLEdits
    BY <1>1, <1>4
  <2>2. PICK row : row = Row(tlStore', q.id)
    OBVIOUS
  <2> DEFINE e == [q EXCEPT !.served = TRUE, !.row = row]
  <2>3. /\ tlNet' = [tlNet EXCEPT ![i] = e]
        /\ tlStore' = [id \in DOMAIN tlStore |-> Edited(tlStore[id], q, id)]
        /\ tlEdited' = (tlEdited \/ q.kind \in {"classify", "classify_all"})
    BY <1>4, <2>2 DEF Serve, IsFetch
  <2>4. tlEdited' = (tlEdited \/ q.kind = "classify")
    BY <1>2, <2>3
  <2>5. e.served /\ e.on = q.on /\ e.kind = q.kind /\ e.id = q.id /\ e.row = row
    BY <2>1 DEF TLEdits
  <2> HIDE DEF e
  <2>6. ServesEdit(i, e)
    BY <1>2, <1>4, <2>2, <2>3, <2>4, <2>5 DEF ServesEdit, Serves
  <2>7. QED
    BY <2>6
<1>5. QED
  BY <1>3, <1>4

LEMMA TLFreshServed ==
  ASSUME TLTyped, TLQueue, TLFresh, NEW i \in DOMAIN tlNet, NEW e, ServesFetch(i, e) \/ ServesEdit(i, e)
  PROVE  TLQueue' /\ TLFresh'
<1> DEFINE q == tlNet[i]
<1>1. /\ DOMAIN tlNet' = DOMAIN tlNet /\ DOMAIN tlNet = 1..Len(tlNet) /\ Len(tlNet) \in Nat
      /\ \A j \in DOMAIN tlNet : tlNet'[j] = IF j = i THEN e ELSE tlNet[j]
  <2>1. IsNet(tlNet) /\ DOMAIN tlNet = 1..Len(tlNet) /\ Len(tlNet) \in Nat
    BY TLNet
  <2>2. tlNet' = [tlNet EXCEPT ![i] = e]
    BY DEF ServesFetch, ServesEdit, Serves
  <2>3. QED
    BY <2>1, <2>2, NetReplaced DEF IsNet
<1>2. /\ ~q.served /\ e.served /\ e.on = q.on /\ e.kind = q.kind /\ q.kind # "classify_all"
      /\ \A j \in 1..(i - 1) : tlNet[j].served
      /\ UNCHANGED <<tl, tlDue, tlCache>>
  BY DEF ServesFetch, ServesEdit, Serves
<1>3. \A j \in DOMAIN tlNet : tlNet'[j].served <=> j <= i
  <2> SUFFICES ASSUME NEW j \in DOMAIN tlNet PROVE tlNet'[j].served <=> j <= i
    OBVIOUS
  <2>1. CASE j < i
    <3>1. j \in 1..(i - 1) /\ j # i /\ j <= i
      BY <1>1, <2>1
    <3>2. QED
      BY <1>1, <1>2, <3>1
  <2>2. CASE j = i
    BY <1>1, <1>2, <2>2
  <2>3. CASE i < j
    <3>1. ~tlNet[j].served
      BY <1>2, <2>3 DEF TLQueue, ServedInOrder
    <3>2. j # i /\ ~(j <= i)
      BY <1>1, <2>3
    <3>3. QED
      BY <1>1, <3>1, <3>2
  <2>4. QED
    BY <1>1, <2>1, <2>2, <2>3
<1>4. ASSUME NEW j, NEW id, NEW kinds, Later(j, id, kinds) PROVE Later(j, id, kinds)'
  <2>1. PICK k \in DOMAIN tlNet : k > j /\ tlNet[k].served /\ tlNet[k].kind \in kinds /\ tlNet[k].id = id
    BY <1>4 DEF Later
  <2>2. k \in DOMAIN tlNet' /\ tlNet'[k] = tlNet[k]
    BY <1>1, <1>2, <2>1
  <2>3. QED
    BY <2>1, <2>2 DEF Later
<1>5. /\ tlStore' = tlStore \/ (~IsFetch(q) /\ e.id = q.id /\ e.row = Row(tlStore', q.id)
                                /\ tlStore' = [id \in DOMAIN tlStore |-> Edited(tlStore[id], q, id)])
      /\ DOMAIN tlStore' = DOMAIN tlStore
  BY DEF ServesFetch, ServesEdit
<1>6. \A id \in DOMAIN tlStore : tlStore[id].review \in BOOLEAN /\ tlStore[id].tagged \in BOOLEAN
                                 /\ tlStore[id] \in [review : BOOLEAN, tagged : BOOLEAN]
  <2> DEFINE T == [review : BOOLEAN, tagged : BOOLEAN]
  <2>1. tlStore \in Seq(T)
    BY DEF TLTyped
  <2> HIDE DEF T
  <2>2. \A id \in DOMAIN tlStore : tlStore[id] \in T
    BY <2>1
  <2>3. QED
    BY <2>2 DEF T
<1>7. q \in TLRequests /\ (~IsFetch(q) => q \in TLEdits) /\ (IsFetch(q) => q \in TLFetches)
  BY TLNet
<1>8. ASSUME NEW id \in DOMAIN tlStore
      PROVE  /\ \/ tlStore'[id].tagged = tlStore[id].tagged
                \/ ~IsFetch(q) /\ q.id = id /\ e.id = id /\ q.kind \in Edits
             /\ \/ tlStore'[id].review = tlStore[id].review
                \/ ~IsFetch(q) /\ q.id = id /\ e.id = id /\ q.kind = "classify"
  <2>1. CASE tlStore' = tlStore
    BY <2>1
  <2>2. CASE ~(tlStore' = tlStore)
    <3>1. /\ ~IsFetch(q) /\ e.id = q.id /\ q \in TLEdits
          /\ tlStore'[id] = Edited(tlStore[id], q, id)
      BY <1>5, <1>7, <2>2
    <3>2. q.kind \in {"classify", "tag", "untag"}
      BY <1>2, <3>1 DEF TLEdits
    <3> DEFINE t == tlStore[id]
    <3>3. t \in [review : BOOLEAN, tagged : BOOLEAN]
      BY <1>6
    <3> HIDE DEF t
    <3>4. CASE q.id # id
      <4>1. Edited(t, q, id) = t
        BY <3>2, <3>4 DEF Edited
      <4>2. QED
        BY <3>1, <4>1 DEF t
    <3>5. CASE q.id = id /\ q.kind = "classify"
      <4>1. Edited(t, q, id) = [t EXCEPT !.review = FALSE]
        BY <3>5 DEF Edited
      <4>2. Edited(t, q, id).tagged = t.tagged
        BY <3>3, <4>1
      <4>3. QED
        BY <3>1, <3>5, <4>2 DEF t
    <3>6. CASE q.id = id /\ q.kind \in {"tag", "untag"}
      <4>1. Edited(t, q, id) = [t EXCEPT !.tagged = (q.kind = "tag")]
        BY <3>6 DEF Edited
      <4>2. Edited(t, q, id).review = t.review
        BY <3>3, <4>1
      <4>3. QED
        BY <3>1, <3>6, <4>2 DEF t, Edits
    <3>7. QED
      BY <3>2, <3>4, <3>5, <3>6
  <2>3. QED
    BY <2>1, <2>2
<1>9. ASSUME NEW j \in Nat, j < i, NEW id, NEW kinds, q.kind \in kinds, e.id = id
      PROVE  Later(j, id, kinds)'
  BY <1>1, <1>2, <1>9 DEF Later
<1>10. ASSUME NEW j \in Nat, j < i, NEW r, r.id \in DOMAIN tlStore, Current(j, r) PROVE Current(j, r)'
  <2>1. r.tagged = tlStore'[r.id].tagged \/ Later(j, r.id, Edits)'
    BY <1>4, <1>8, <1>9, <1>10 DEF Current
  <2>2. r.review = tlStore'[r.id].review \/ Later(j, r.id, {"classify"})'
    BY <1>4, <1>8, <1>9, <1>10 DEF Current
  <2>3. QED
    BY <2>1, <2>2 DEF Current
<1>11. ASSUME NEW r, r.id \in DOMAIN tlStore, r = Row(tlStore', r.id), NEW j PROVE Current(j, r)'
  BY <1>11 DEF Row, Current
<1>12. ASSUME NEW j \in DOMAIN tlNet', j < i PROVE AnswerCurrent(j)'
  <2> DEFINE p == tlNet[j]
  <2>1. /\ tlNet'[j] = p /\ AnswerCurrent(j) /\ p \in TLRequests /\ j \in Nat /\ p.served
        /\ IsFetch(p) => p \in TLFetches
        /\ ~IsFetch(p) => p \in TLEdits
        /\ EditServed(p)
    <3>1. j \in DOMAIN tlNet /\ j # i /\ j \in 1..(i - 1)
      BY <1>1, <1>12
    <3>2. QED
      BY <1>1, <1>2, <3>1, TLNet DEF TLFresh, TLTyped, TLNetTyped
  <2>2. ASSUME p.kind = "fetch", NEW h \in DOMAIN p.items PROVE Current(j, tlNet[j].items[h])'
    <3>1. PICK r : r = p.items[h]
      OBVIOUS
    <3>2. r \in TLRows
      BY <2>1, <2>2, <3>1 DEF IsFetch, TLFetches
    <3>3. r.id \in DOMAIN tlStore
      BY <3>2 DEF TLRows
    <3>4. Current(j, r)
      BY <2>1, <2>2, <3>1 DEF AnswerCurrent
    <3>5. Current(j, r)'
      BY <1>10, <1>12, <2>1, <3>3, <3>4
    <3>6. QED
      BY <2>1, <3>1, <3>5
  <2>3. ASSUME p.kind = "classify" PROVE Current(j, tlNet[j].row)'
    <3>1. PICK r : r = p.row
      OBVIOUS
    <3>2. r \in TLRows
      BY <2>1, <2>3, <3>1 DEF EditServed
    <3>3. r.id \in DOMAIN tlStore
      BY <3>2 DEF TLRows
    <3>4. Current(j, r)
      BY <2>1, <2>3, <3>1 DEF AnswerCurrent
    <3>5. Current(j, r)'
      BY <1>10, <1>12, <2>1, <3>3, <3>4
    <3>6. QED
      BY <2>1, <3>1, <3>5
  <2>4. ASSUME p.kind \in {"tag", "untag"}
        PROVE  tlStore'[p.id].tagged = (p.kind = "tag") \/ Later(j, tlNet[j].id, Edits)'
    <3>1. PICK id : id = p.id
      OBVIOUS
    <3>2. id \in DOMAIN tlStore
      BY <2>1, <2>4, <3>1 DEF IsFetch, TLEdits
    <3>3. tlStore[id].tagged = (p.kind = "tag") \/ Later(j, id, Edits)
      BY <2>1, <2>4, <3>1 DEF AnswerCurrent
    <3>4. tlStore'[id].tagged = (p.kind = "tag") \/ Later(j, id, Edits)'
      BY <1>4, <1>8, <1>9, <1>12, <2>1, <3>2, <3>3
    <3>5. QED
      BY <2>1, <3>1, <3>4
  <2>5. QED
    BY <2>1, <2>2, <2>3, <2>4 DEF AnswerCurrent
<1>13. AnswerCurrent(i)'
  <2>1. tlNet'[i] = e
    BY <1>1
  <2>2. ASSUME q.kind = "fetch", NEW h \in DOMAIN e.items PROVE Current(i, e.items[h])'
    <3> DEFINE found == Found(tlStore, q.search)
    <3>1. ServesFetch(i, e) /\ q \in TLFetches
      BY <1>7, <2>2 DEF ServesEdit, IsFetch
    <3>2. e.items = PageOf(found, q.page) /\ tlStore' = tlStore /\ q.page \in Nat \ {0}
      BY <3>1 DEF ServesFetch, TLFetches
    <3>3. /\ found \in Seq(TLRows) /\ Apart(found)
          /\ \A k \in DOMAIN found : found[k].id \in DOMAIN tlStore /\ found[k] = Row(tlStore, found[k].id)
      BY FoundRows DEF TLTyped, TLRows
    <3> HIDE DEF found
    <3>4. PICK k \in DOMAIN found : e.items[h] = found[k]
      BY <2>2, <3>2, <3>3, PageApart
    <3>5. PICK r : r = e.items[h]
      OBVIOUS
    <3>6. r.id \in DOMAIN tlStore /\ r = Row(tlStore', r.id)
      BY <3>2, <3>3, <3>4, <3>5
    <3>7. Current(i, r)'
      BY <1>11, <3>6
    <3>8. QED
      BY <3>5, <3>7
  <2>3. ASSUME q.kind = "classify" PROVE Current(i, e.row)'
    <3>1. ServesEdit(i, e) /\ q \in TLEdits
      BY <1>7, <2>3 DEF ServesFetch, IsFetch
    <3>2. q.id \in DOMAIN tlStore /\ e.row = Row(tlStore', q.id)
      BY <3>1 DEF ServesEdit, TLEdits
    <3>3. e.row.id = q.id
      BY <3>2 DEF Row
    <3>4. QED
      BY <1>11, <3>2, <3>3
  <2>4. ASSUME q.kind \in {"tag", "untag"} PROVE tlStore'[e.id].tagged = (e.kind = "tag")
    <3>1. ServesEdit(i, e) /\ q \in TLEdits
      BY <1>7, <2>4 DEF ServesFetch, IsFetch
    <3>2. q.id \in DOMAIN tlStore /\ e.id = q.id /\ tlStore'[q.id] = Edited(tlStore[q.id], q, q.id)
      BY <3>1 DEF ServesEdit, TLEdits
    <3> DEFINE t == tlStore[q.id]
    <3>3. t \in [review : BOOLEAN, tagged : BOOLEAN]
      BY <1>6, <3>2
    <3> HIDE DEF t
    <3>4. Edited(t, q, q.id) = [t EXCEPT !.tagged = (q.kind = "tag")]
      BY <2>4 DEF Edited
    <3>5. Edited(t, q, q.id).tagged = (q.kind = "tag")
      BY <3>3, <3>4
    <3>6. QED
      BY <1>2, <3>2, <3>5 DEF t
  <2>5. QED
    BY <1>2, <2>1, <2>2, <2>3, <2>4 DEF AnswerCurrent
<1>14. ASSUME NEW j \in DOMAIN tlNet' PROVE AnswerCurrent(j)'
  <2>1. CASE j < i
    BY <1>12, <2>1
  <2>2. CASE j = i
    BY <1>13, <2>2
  <2>3. CASE i < j
    <3>1. ~tlNet'[j].served
      BY <1>1, <1>3, <2>3
    <3>2. QED
      BY <3>1 DEF AnswerCurrent
  <2>4. QED
    BY <1>1, <2>1, <2>2, <2>3
<1>15. ASSUME NEW h \in DOMAIN tl'.rows PROVE Current(0, tl.rows[h])'
  <2>1. PICK r : r = tl.rows[h]
    OBVIOUS
  <2>2. r \in TLRows /\ Current(0, r) /\ tl'.rows[h] = r
    BY <1>2, <1>15, <2>1 DEF TLTyped, TLHookTyped, ListStates, TLFresh
  <2>3. r.id \in DOMAIN tlStore /\ 0 < i
    BY <1>1, <2>2 DEF TLRows
  <2>4. Current(0, r)'
    BY <1>10, <2>2, <2>3
  <2>5. QED
    BY <2>2, <2>4
<1>16. tl.on # 0
  BY <1>1 DEF TLQueue
<1>17. TLFresh'
  BY <1>2, <1>14, <1>15, <1>16 DEF TLFresh
<1>18. ServedInOrder(tlNet)'
  <2> SUFFICES ASSUME NEW j \in DOMAIN tlNet', NEW k \in DOMAIN tlNet', j < k, tlNet'[k].served
               PROVE  tlNet'[j].served
    BY DEF ServedInOrder
  <2>1. k <= i /\ j <= i
    BY <1>1, <1>3
  <2>2. QED
    BY <1>1, <1>3, <2>1
<1>19. ASSUME NEW j \in DOMAIN tlNet'
       PROVE  tlNet'[j].on = tl'.on /\ (tlNet'[j].served => tlNet'[j].kind # "classify_all")
  BY <1>1, <1>2 DEF TLQueue
<1>20. QED
  BY <1>2, <1>16, <1>17, <1>18, <1>19 DEF TLQueue

(* Each row of a page that was appended was there, or came with it.          *)
LEMMA MergedFrom ==
  ASSUME NEW R, NEW rows \in Seq(R), NEW items \in Seq(R), NEW h \in DOMAIN Merged(rows, items)
  PROVE  \/ \E k \in DOMAIN rows : Merged(rows, items)[h] = rows[k]
         \/ \E k \in DOMAIN items : Merged(rows, items)[h] = items[k]
<1> DEFINE I == {k \in DOMAIN items : items[k].id \notin IdsOf(rows)}
           s == Filtered(items, I)
           t == rows \o s
           n == Len(rows)
           m == Len(s)
<1>1. I \in SUBSET DOMAIN items
  OBVIOUS
<1> HIDE DEF I
<1>2. s \in Seq(R) /\ \A j \in DOMAIN s : \E k \in I : s[j] = items[k]
  BY <1>1, FilterKeeps, FilterApart
<1>3. Merged(rows, items) = t
  BY DEF Merged, I
<1> HIDE DEF s
<1>4. /\ n \in Nat /\ m \in Nat /\ DOMAIN rows = 1..n /\ DOMAIN s = 1..m /\ DOMAIN t = 1..(n + m)
      /\ \A j \in 1..n : t[j] = rows[j]
      /\ \A j \in 1..m : t[n + j] = s[j]
  BY <1>2
<1> HIDE DEF t, n, m
<1>5. CASE h \in 1..n
  BY <1>3, <1>4, <1>5
<1>6. CASE h \notin 1..n
  <2>1. h - n \in 1..m /\ n + (h - n) = h
    BY <1>3, <1>4, <1>6
  <2>2. t[h] = s[h - n]
    BY <1>4, <2>1
  <2>3. QED
    BY <1>1, <1>2, <1>3, <1>4, <2>1, <2>2
<1>7. QED
  BY <1>5, <1>6

(* The first request is answered.                                            *)
Answers ==
  LET q == tlNet[1] IN
  /\ 1 \in DOMAIN tlNet /\ q.served /\ tlNet' = RemoveAt(tlNet, 1)
  /\ UNCHANGED <<tlStore, tlEdited, tlDue, tlCache>> /\ tlDue = 0
  /\ tl' = IF IsFetch(q) THEN Fetched(tl, q) ELSE RowAnswered(tl, q)

LEMMA CalmAnswer ==
  ASSUME TLTyped, TLQueue, NEW i \in DOMAIN tlNet, Answer(i), tlCalm'
  PROVE  Answers
<1>1. i = 1 /\ tlNet[1].served /\ tlNet' = RemoveAt(tlNet, 1) /\ tlDue = 0
      /\ UNCHANGED <<tlStore, tlEdited, tlDue, tlCache>>
  BY DEF Answer, tlServer, tlInput, tlSession
<1>2. tlNet[1].on = tl.on
  BY <1>1 DEF TLQueue
<1>3. tl' = IF IsFetch(tlNet[1]) THEN Fetched(tl, tlNet[1]) ELSE RowAnswered(tl, tlNet[1])
  BY <1>1, <1>2 DEF Answer, Becomes, IsFetch
<1>4. QED
  BY <1>1, <1>3 DEF Answers

(* What the answer makes of the rows.                                        *)
LEMMA AnsweredRows ==
  ASSUME TLTyped, TLQueue, Answers
  PROVE  LET q == tlNet[1] IN
         /\ tl.rows \in Seq(TLRows) /\ tl'.on = tl.on /\ tl'.search = tl.search
         /\ IsFetch(q) =>
              /\ q \in TLFetches /\ q.items \in Seq(TLRows)
              /\ tl'.rows = IF q.more THEN Merged(tl.rows, q.items) ELSE q.items
              /\ tl'.page = q.page /\ (tl'.hasMore <=> q.page < q.pages)
         /\ ~IsFetch(q) =>
              /\ q \in TLEdits /\ q.kind \in Edits /\ q.row \in TLRows /\ q.row.id = q.id
              /\ tl'.page = tl.page /\ tl'.hasMore = tl.hasMore
              /\ DOMAIN tl'.rows = DOMAIN tl.rows /\ Len(tl'.rows) = Len(tl.rows)
              /\ \A h \in DOMAIN tl.rows :
                   tl'.rows[h] = IF tl.rows[h].id # q.id THEN tl.rows[h]
                                 ELSE IF q.kind \in {"tag", "untag"}
                                 THEN [tl.rows[h] EXCEPT !.tagged = (q.kind = "tag")] ELSE q.row
<1> DEFINE q == tlNet[1]
           X == Searches \cup {None}
<1>1. /\ IsFetch(q) => q \in TLFetches
      /\ ~IsFetch(q) => q \in TLEdits
      /\ EditServed(q) /\ q.served /\ q.kind # "classify_all"
  BY TLNet DEF Answers, TLTyped, TLNetTyped, TLQueue
<1>2. tl \in ListStates(X, TLRows) /\ tl.rows \in Seq(TLRows)
  BY DEF TLTyped, TLHookTyped, ListStates
<1> HIDE DEF X
<1>3. ASSUME IsFetch(q)
      PROVE  /\ tl'.on = tl.on /\ tl'.search = tl.search /\ q.items \in Seq(TLRows)
             /\ tl'.rows = IF q.more THEN Merged(tl.rows, q.items) ELSE q.items
             /\ tl'.page = q.page /\ (tl'.hasMore <=> q.page < q.pages)
  <2>1. q.more \in BOOLEAN /\ q.items \in Seq(TLRows) /\ q.page \in Nat \ {0}
    BY <1>1, <1>3 DEF TLFetches
  <2>2. tl' = Fetched(tl, q)
    BY <1>3 DEF Answers
  <2>3. tl'.rows = (IF q.more THEN Merged(tl.rows, q.items) ELSE q.items) /\ tl'.page = q.page
        /\ (tl'.hasMore <=> q.page < q.pages)
    BY <1>2, <2>1, <2>2, FetchedTyped
  <2>4. tl'.on = tl.on /\ tl'.search = tl.search
    BY <1>2, <2>2 DEF Fetched, ListStates
  <2>5. QED
    BY <2>1, <2>3, <2>4
<1>4. ASSUME ~IsFetch(q)
      PROVE  /\ q.kind \in Edits /\ q.row \in TLRows /\ q.row.id = q.id
             /\ tl'.on = tl.on /\ tl'.search = tl.search
             /\ tl'.page = tl.page /\ tl'.hasMore = tl.hasMore
             /\ DOMAIN tl'.rows = DOMAIN tl.rows /\ Len(tl'.rows) = Len(tl.rows)
             /\ \A h \in DOMAIN tl.rows :
                  tl'.rows[h] = IF tl.rows[h].id # q.id THEN tl.rows[h]
                                ELSE IF q.kind \in {"tag", "untag"}
                                THEN [tl.rows[h] EXCEPT !.tagged = (q.kind = "tag")] ELSE q.row
  <2>1. q \in TLEdits /\ q.row \in TLRows /\ q.row.id = q.id /\ q.kind \in Edits
    BY <1>1, <1>4 DEF EditServed, IsFetch, TLEdits, Edits
  <2>2. tl' = RowAnswered(tl, q)
    BY <1>4 DEF Answers
  <2> DEFINE a == RowAnswered(tl, q)
  <2>3. /\ DOMAIN a.rows = DOMAIN tl.rows /\ Len(a.rows) = Len(tl.rows)
        /\ \A h \in DOMAIN tl.rows :
             a.rows[h] = IF tl.rows[h].id # q.id THEN tl.rows[h]
                         ELSE IF q.kind \in {"tag", "untag"}
                         THEN [tl.rows[h] EXCEPT !.tagged = (q.kind = "tag")] ELSE q.row
    <3>1. /\ q \in TLEdits
          /\ q.row \in TLRows
          /\ q.row.id = q.id
      BY <2>1
    <3> HIDE DEF q
    <3>2. QED
      BY <1>2, <3>1, RowAnsweredTyped
  <2>4. a.on = tl.on /\ a.search = tl.search /\ a.page = tl.page /\ a.hasMore = tl.hasMore
    BY <1>2 DEF RowAnswered, RowReplaced, ListStates
  <2> HIDE DEF a
  <2>5. tl' = a
    BY <2>2 DEF a
  <2>6. QED
    BY <2>1, <2>3, <2>4, <2>5
<1>5. QED
  BY <1>1, <1>2, <1>3, <1>4

LEMMA TLFreshAnswered ==
  ASSUME TLTyped, TLQueue, TLFresh, Answers
  PROVE  TLQueue' /\ TLFresh'
<1> DEFINE q == tlNet[1]
           n == Len(tlNet)
<1>1. /\ n \in Nat \ {0} /\ DOMAIN tlNet = 1..n /\ DOMAIN tlNet' = 1..(n - 1)
      /\ \A j \in 1..(n - 1) : tlNet'[j] = tlNet[j + 1]
  <2>1. IsNet(tlNet) /\ 1 \in DOMAIN tlNet /\ tlNet' = RemoveAt(tlNet, 1)
    BY TLNet DEF Answers
  <2>2. QED
    BY <2>1, LastRemoved
<1> HIDE DEF n
<1>2. /\ q.served /\ q.kind # "classify_all" /\ q.on = tl.on /\ tl.on # 0
      /\ tl'.on = tl.on /\ UNCHANGED <<tlStore, tlDue, tlCache>>
  BY <1>1, AnsweredRows DEF Answers, TLQueue
<1>3. \A j \in 1..(n - 1) : j + 1 \in 1..n /\ j + 1 > 1 /\ j + 1 # 1
  BY <1>1
<1>4. ASSUME NEW j \in Nat, NEW id, NEW kinds, Later(j + 1, id, kinds) PROVE Later(j, id, kinds)'
  <2>1. PICK k \in DOMAIN tlNet : k > j + 1 /\ tlNet[k].served /\ tlNet[k].kind \in kinds /\ tlNet[k].id = id
    BY <1>4 DEF Later
  <2> DEFINE h == k - 1
  <2>2. h \in 1..(n - 1) /\ h > j /\ h + 1 = k
    BY <1>1, <2>1
  <2> HIDE DEF h
  <2>3. h \in DOMAIN tlNet' /\ tlNet'[h] = tlNet[k]
    BY <1>1, <2>2
  <2>4. QED
    BY <2>1, <2>2, <2>3 DEF Later
<1>5. ASSUME NEW id, NEW kinds, Later(0, id, kinds), IsFetch(q) => "fetch" \notin kinds,
             ~IsFetch(q) => q.kind \notin kinds \/ q.id # id
      PROVE  Later(0, id, kinds)'
  <2>1. PICK k \in DOMAIN tlNet : k > 0 /\ tlNet[k].served /\ tlNet[k].kind \in kinds /\ tlNet[k].id = id
    BY <1>5 DEF Later
  <2>2. k # 1
    BY <1>5, <2>1 DEF IsFetch
  <2>3. k > 0 + 1
    BY <1>1, <2>1, <2>2
  <2>4. Later(0 + 1, id, kinds)
    BY <2>1, <2>3 DEF Later
  <2>5. QED
    BY <1>4, <2>4
<1>6. ASSUME NEW j \in Nat, NEW r, Current(j + 1, r) PROVE Current(j, r)'
  BY <1>2, <1>4, <1>6 DEF Current
<1>7. ASSUME NEW r, Current(0, r), ~IsFetch(q) => q.id # r.id PROVE Current(0, r)'
  <2>1. r.tagged = tlStore'[r.id].tagged \/ Later(0, r.id, Edits)'
    BY <1>2, <1>5, <1>7 DEF Current, Edits
  <2>2. r.review = tlStore'[r.id].review \/ Later(0, r.id, {"classify"})'
    BY <1>2, <1>5, <1>7 DEF Current
  <2>3. QED
    BY <2>1, <2>2 DEF Current
<1>8. ASSUME NEW j \in DOMAIN tlNet' PROVE AnswerCurrent(j)'
  <2>1. PICK k : k = j + 1
    OBVIOUS
  <2>2. k \in DOMAIN tlNet /\ tlNet'[j] = tlNet[k] /\ j \in Nat /\ AnswerCurrent(k)
    BY <1>1, <1>3, <2>1 DEF TLFresh
  <2>3. PICK p : p = tlNet[k]
    OBVIOUS
  <2>4. /\ tlNet'[j] = p
        /\ p.served =>
             /\ p.kind = "fetch" => \A i \in DOMAIN p.items : Current(k, p.items[i])
             /\ p.kind = "classify" => Current(k, p.row)
             /\ p.kind \in {"tag", "untag"} =>
                  \/ tlStore[p.id].tagged = (p.kind = "tag")
                  \/ Later(k, p.id, Edits)
    BY <2>2, <2>3 DEF AnswerCurrent
  <2>5. \A r : Current(k, r) => Current(j, r)'
    BY <1>6, <2>1, <2>2
  <2>6. \A id, kinds : Later(k, id, kinds) => Later(j, id, kinds)'
    BY <1>4, <2>1, <2>2
  <2>7. /\ p.served =>
             /\ p.kind = "fetch" => \A i \in DOMAIN p.items : Current(j, p.items[i])'
             /\ p.kind = "classify" => Current(j, p.row)'
             /\ p.kind \in {"tag", "untag"} =>
                  \/ tlStore'[p.id].tagged = (p.kind = "tag")
                  \/ Later(j, p.id, Edits)'
    BY <1>2, <2>4, <2>5, <2>6
  <2>8. QED
    BY <2>4, <2>7 DEF AnswerCurrent
<1>9. ASSUME NEW h \in DOMAIN tl'.rows PROVE Current(0, tl.rows[h])'
  <2>0. PICK r : r = tl'.rows[h]
    OBVIOUS
  <2>1. Current(0, r)'
    <3>1. CASE IsFetch(q)
      <4>1. /\ q.items \in Seq(TLRows) /\ tl.rows \in Seq(TLRows)
            /\ tl'.rows = IF q.more THEN Merged(tl.rows, q.items) ELSE q.items
        BY <3>1, AnsweredRows
      <4>2. (\E k \in DOMAIN tl.rows : r = tl.rows[k]) \/ (\E k \in DOMAIN q.items : r = q.items[k])
        BY <1>9, <2>0, <4>1, MergedFrom
      <4>3. CASE \E k \in DOMAIN tl.rows : r = tl.rows[k]
        BY <1>7, <3>1, <4>3 DEF TLFresh
      <4>4. CASE \E k \in DOMAIN q.items : r = q.items[k]
        <5>1. Current(1, r)
          BY <1>1, <1>2, <3>1, <4>4 DEF TLFresh, AnswerCurrent, IsFetch
        <5>2. Current(0 + 1, r)
          BY <5>1
        <5>3. QED
          BY <1>6, <5>2
      <4>5. QED
        BY <4>2, <4>3, <4>4
    <3>2. CASE ~IsFetch(q)
      <4>1. /\ q.kind \in Edits /\ q.row \in TLRows /\ q.row.id = q.id
            /\ DOMAIN tl'.rows = DOMAIN tl.rows /\ tl.rows \in Seq(TLRows)
            /\ r = IF tl.rows[h].id # q.id THEN tl.rows[h]
                   ELSE IF q.kind \in {"tag", "untag"}
                   THEN [tl.rows[h] EXCEPT !.tagged = (q.kind = "tag")] ELSE q.row
        BY <1>9, <2>0, <3>2, AnsweredRows
      <4>2. PICK s \in TLRows : s = tl.rows[h] /\ Current(0, s)
        BY <1>9, <4>1 DEF TLFresh
      <4>3. CASE s.id # q.id
        BY <1>7, <4>1, <4>2, <4>3
      <4>4. CASE s.id = q.id /\ q.kind = "classify"
        <5>1. r = q.row /\ Current(1, r)
          BY <1>1, <1>2, <4>1, <4>2, <4>4 DEF TLFresh, AnswerCurrent
        <5>2. Current(0 + 1, r)
          BY <5>1
        <5>3. QED
          BY <1>6, <5>2
      <4>5. CASE s.id = q.id /\ q.kind \in {"tag", "untag"}
        <5>1. r = [s EXCEPT !.tagged = (q.kind = "tag")]
          BY <4>1, <4>2, <4>5
        <5>2. r.id = q.id /\ r.tagged = (q.kind = "tag") /\ r.review = s.review
          BY <4>2, <4>5, <5>1 DEF TLRows
        <5>3. tlStore[q.id].tagged = (q.kind = "tag") \/ Later(1, q.id, Edits)
          BY <1>1, <1>2, <4>5 DEF TLFresh, AnswerCurrent
        <5>4. tlStore[q.id].tagged = (q.kind = "tag") \/ Later(0 + 1, q.id, Edits)
          BY <5>3
        <5>5. PICK id : id = q.id
          OBVIOUS
        <5>6. r.tagged = tlStore'[r.id].tagged \/ Later(0, r.id, Edits)'
          BY <1>2, <1>4, <5>2, <5>4, <5>5
        <5>7. s.review = tlStore[s.id].review \/ Later(0, s.id, {"classify"})
          BY <4>2 DEF Current
        <5>8. q.kind \notin {"classify"}
          BY <4>5
        <5>9. r.review = tlStore'[r.id].review \/ Later(0, r.id, {"classify"})'
          BY <1>2, <1>5, <3>2, <4>5, <5>2, <5>7, <5>8
        <5>10. QED
          BY <5>6, <5>9 DEF Current
      <4>6. QED
        BY <4>1, <4>3, <4>4, <4>5 DEF Edits
    <3>3. QED
      BY <3>1, <3>2
  <2>2. QED
    BY <2>0, <2>1
<1>10. TLFresh'
  BY <1>2, <1>8, <1>9 DEF TLFresh
<1>11. ServedInOrder(tlNet)'
  <2> SUFFICES ASSUME NEW j \in DOMAIN tlNet', NEW k \in DOMAIN tlNet', j < k, tlNet'[k].served
               PROVE  tlNet'[j].served
    BY DEF ServedInOrder
  <2>1. j + 1 \in DOMAIN tlNet /\ k + 1 \in DOMAIN tlNet /\ j + 1 < k + 1 /\ tlNet[k + 1].served
    BY <1>1, <1>3
  <2>2. tlNet[j + 1].served
    BY <2>1 DEF TLQueue, ServedInOrder
  <2>3. QED
    BY <1>1, <2>2
<1>12. ASSUME NEW j \in DOMAIN tlNet'
       PROVE  tlNet'[j].on = tl'.on /\ (tlNet'[j].served => tlNet'[j].kind # "classify_all")
  <2>1. j + 1 \in DOMAIN tlNet /\ tlNet'[j] = tlNet[j + 1]
    BY <1>1, <1>3
  <2>2. QED
    BY <1>2, <2>1 DEF TLQueue
<1>13. QED
  BY <1>2, <1>10, <1>11, <1>12 DEF TLQueue

(* What a search finds keeps its ids while no type is written.               *)
LEMMA FoundSame ==
  ASSUME NEW s \in Seq([review : BOOLEAN, tagged : BOOLEAN]), NEW t \in Seq([review : BOOLEAN, tagged : BOOLEAN]),
         DOMAIN s = DOMAIN t, \A id \in DOMAIN s : s[id].review = t[id].review, NEW search
  PROVE  SameIds(Found(s, search), Found(t, search))
<1> DEFINE n == Len(s)
           R == [id : DOMAIN s, review : BOOLEAN, tagged : BOOLEAN]
           T == [id : DOMAIN t, review : BOOLEAN, tagged : BOOLEAN]
           I == {i \in 1..n : "needs_review" \in search => RowsOf(s)[i].review}
           J == {i \in 1..Len(t) : "needs_review" \in search => RowsOf(t)[i].review}
<1>1. n \in Nat /\ Len(t) = n /\ DOMAIN s = 1..n /\ DOMAIN t = 1..n
  OBVIOUS
<1>2. /\ RowsOf(s) \in Seq(R) /\ RowsOf(t) \in Seq(T)
      /\ DOMAIN RowsOf(s) = 1..n /\ DOMAIN RowsOf(t) = 1..n
  <2>1. RowsOf(s) \in Seq(R) /\ DOMAIN RowsOf(s) = 1..n
    <3> HIDE DEF I, J
    <3>1. QED
      BY StoreRows
  <2>2. RowsOf(t) \in Seq(T) /\ DOMAIN RowsOf(t) = 1..Len(t)
    <3> HIDE DEF n, I, J
    <3>1. QED
      BY StoreRows
  <2>3. QED
    BY <1>1, <2>1, <2>2
<1>3. \A i \in 1..n : /\ RowsOf(s)[i] = Row(s, n + 1 - i) /\ RowsOf(t)[i] = Row(t, n + 1 - i)
                      /\ n + 1 - i \in DOMAIN s
  BY <1>1 DEF RowsOf
<1>4. \A i \in 1..n : RowsOf(s)[i].id = RowsOf(t)[i].id /\ RowsOf(s)[i].review = RowsOf(t)[i].review
  <2> TAKE i \in 1..n
  <2>1. PICK k \in DOMAIN s : RowsOf(s)[i] = Row(s, k) /\ RowsOf(t)[i] = Row(t, k)
    BY <1>3
  <2>2. s[k].review = t[k].review
    OBVIOUS
  <2>3. QED
    BY <2>1, <2>2 DEF Row
<1>5. I = J /\ I \in SUBSET (1..n)
  BY <1>1, <1>4
<1>6. Found(s, search) = Filtered(RowsOf(s), I) /\ Found(t, search) = Filtered(RowsOf(t), J)
  BY DEF Found
<1> HIDE DEF I, J, R, T, n
<1> DEFINE m == Cardinality(I)
           u == Filtered(RowsOf(s), I)
           v == Filtered(RowsOf(t), I)
<1>7. DOMAIN u = 1..m /\ Len(u) = m /\ (\A j \in 1..m : Place(I, j) \in I /\ u[j] = RowsOf(s)[Place(I, j)])
  <2> DEFINE r == RowsOf(s)
  <2>1. r \in Seq(R) /\ I \in SUBSET DOMAIN r
    BY <1>2, <1>5
  <2> HIDE DEF r
  <2>2. QED
    BY <2>1, FilterKeeps DEF r
<1>8. DOMAIN v = 1..m /\ Len(v) = m /\ (\A j \in 1..m : Place(I, j) \in I /\ v[j] = RowsOf(t)[Place(I, j)])
  <2> DEFINE r == RowsOf(t)
  <2>1. r \in Seq(T) /\ I \in SUBSET DOMAIN r
    BY <1>2, <1>5
  <2> HIDE DEF r
  <2>2. QED
    BY <2>1, FilterKeeps DEF r
<1> HIDE DEF u, v, m
<1>9. SameIds(u, v)
  BY ZenonT(30), <1>4, <1>5, <1>7, <1>8 DEF SameIds
<1>10. QED
  BY <1>5, <1>6, <1>9 DEF u, v

LEMMA FoundTyped ==
  TLTyped => \A search : Found(tlStore, search) \in Seq(TLRows) /\ Apart(Found(tlStore, search))
BY FoundRows DEF TLTyped, TLRows

-----------------------------------------------------------------------------
(* The steps that keep the order.                                            *)

StartsSearch(q) ==
  /\ Sends(q) /\ IsFetch(q) /\ ~q.more /\ q.search = tl'.search /\ tlDue' = 0
  /\ q.page = 1 \/ (tlDue # 0 /\ q.page = tl.page)

ScrollsOn(q) ==
  /\ Sends(q) /\ IsFetch(q) /\ q.more /\ q.page = tl.page + 1 /\ NoneSkipped(tlNet, q.page)
  /\ q.search = tl.search /\ tl'.search = tl.search /\ tl'.rows = tl.rows
  /\ tl.on # 0 /\ tlDue = 0 /\ tlDue' = 0

SendsEdit(q) == Sends(q) /\ ~IsFetch(q) /\ UNCHANGED <<tl, tlDue>>

Restores ==
  /\ AllKept /\ tl.on = 0 /\ tl'.on # 0 /\ tlDue' = tlDue /\ tlCache # None
  /\ tl'.rows = tlCache.rows /\ tl'.search = tlCache.search
  /\ tl'.page = tlCache.page /\ tl'.hasMore = tlCache.hasMore

Leaves ==
  /\ AllKept /\ tl.on # 0 /\ tl'.on = 0 /\ tlNet = << >> /\ tlDue = 0 /\ tlDue' = 0
  /\ tlCache' = IF tl.rows # << >> THEN Entry(tl) ELSE None

SetsSearch == AllKept /\ tl'.on # 0 /\ tl'.page = 1 /\ tlDue' # 0

Idles == AllKept /\ UNCHANGED <<tl, tlDue, tlCache>>

LEMMA TurnSent ==
  ASSUME TLTyped, TLQueue, TLInOrder, NEW q, StartsSearch(q) \/ ScrollsOn(q) \/ SendsEdit(q)
  PROVE  TLInOrder'
<1> DEFINE found == Found(tlStore, tl'.search)
<1>1. IsNet(tlNet) /\ tlNet' = Append(tlNet, q) /\ ~q.served /\ tlStore' = tlStore /\ tl'.on # 0
  BY TLNet DEF StartsSearch, ScrollsOn, SendsEdit, Sends
<1>2. tl.page \in Nat \ {0}
  BY DEF TLTyped, TLHookTyped, ListStates
<1> SUFFICES (tlDue' # 0 => tl'.page = 1) /\ (tlDue' = 0 => TLTurn')
  BY <1>1 DEF TLInOrder
<1>3. CASE StartsSearch(q)
  <2>1. IsFetch(q) /\ ~q.more /\ q.page = 1 /\ q.search = tl'.search /\ tlDue' = 0
    BY <1>3 DEF StartsSearch, TLInOrder
  <2>2. \E pg : InTurn(tl', Append(tlNet, q), found, Len(tlNet) + 1, pg)
    BY <1>1, <2>1, TurnBegins
  <2>3. \E a, pg : InTurn(tl', tlNet', Found(tlStore', tl'.search), a, pg)
    BY <1>1, <2>2
  <2>4. QED
    BY <2>1, <2>3 DEF TLTurn
<1>4. CASE ScrollsOn(q)
  <2>1. /\ IsFetch(q) /\ q.more /\ q.page = tl.page + 1 /\ q.search = tl.search /\ NoneSkipped(tlNet, q.page)
        /\ tl'.search = tl.search /\ tl'.rows = tl.rows /\ tl.on # 0 /\ tlDue = 0 /\ tlDue' = 0
    BY <1>4 DEF ScrollsOn
  <2>2. PICK a, pg : InTurn(tl, tlNet, Found(tlStore, tl.search), a, pg)
    BY <2>1 DEF TLInOrder, TLTurn
  <2>3. InTurn(tl, tlNet, found, a, pg)
    BY <2>1, <2>2
  <2> HIDE DEF found
  <2>4. \E pg2 : InTurn(tl', Append(tlNet, q), found, a, pg2)
    BY <1>1, <1>2, <2>1, <2>3, TurnGoesOn
  <2>5. \E b, pg2 : InTurn(tl', tlNet', Found(tlStore', tl'.search), b, pg2)
    BY <1>1, <2>4 DEF found
  <2>6. QED
    BY <2>1, <2>5 DEF TLTurn
<1>5. CASE SendsEdit(q)
  <2>1. ~IsFetch(q) /\ UNCHANGED <<tl, tlDue>> /\ tl.on # 0
    BY <1>1, <1>5 DEF SendsEdit
  <2>2. ASSUME tlDue = 0 PROVE TLTurn'
    <3>1. PICK a, pg : InTurn(tl, tlNet, Found(tlStore, tl.search), a, pg)
      BY <2>1, <2>2 DEF TLInOrder, TLTurn
    <3>2. InTurn(tl, tlNet, found, a, pg)
      BY <2>1, <3>1
    <3> HIDE DEF found
    <3>3. \E pg2 : InTurn(tl', Append(tlNet, q), found, a, pg2)
      BY <1>1, <1>2, <2>1, <3>2, TurnGoesOn
    <3>4. \E b, pg2 : InTurn(tl', tlNet', Found(tlStore', tl'.search), b, pg2)
      BY <1>1, <3>3 DEF found
    <3>5. QED
      BY <3>4 DEF TLTurn
  <2>3. QED
    BY <2>1, <2>2 DEF TLInOrder
<1>6. QED
  BY <1>3, <1>4, <1>5

LEMMA TurnKept ==
  ASSUME TLTyped, TLQueue, TLInOrder, Restores \/ Leaves \/ SetsSearch \/ Idles
  PROVE  TLInOrder'
<1>1. tlNet' = tlNet /\ tlStore' = tlStore
  BY DEF Restores, Leaves, SetsSearch, Idles, AllKept
<1>2. CASE Restores
  <2> DEFINE found == Found(tlStore, tl'.search)
  <2>1. /\ tl.on = 0 /\ tl'.on # 0 /\ tlDue' = 0 /\ tlNet' = << >> /\ tlCache # None
        /\ tl'.rows = tlCache.rows /\ tl'.search = tlCache.search
        /\ tl'.page = tlCache.page /\ tl'.hasMore = tlCache.hasMore
    BY <1>1, <1>2 DEF Restores, TLQueue
  <2>2. SameIds(tl'.rows, Upto(found, tl'.page)) /\ (tl'.hasMore <=> tl'.page < Pages(found))
    BY <2>1 DEF TLInOrder, CacheSettled
  <2>3. tl'.page \in Nat \ {0}
    BY <2>1 DEF TLTyped, TLKeptTyped, Entries
  <2> HIDE DEF found
  <2>4. \E pg : InTurn(tl', << >>, found, 0, pg)
    BY <2>2, <2>3, TurnAtRest
  <2>5. \E a, pg : InTurn(tl', tlNet', Found(tlStore', tl'.search), a, pg)
    BY <1>1, <2>1, <2>4 DEF found
  <2>6. QED
    BY <2>1, <2>5 DEF TLInOrder, TLTurn
<1>3. CASE Leaves
  <2> DEFINE found == Found(tlStore, tl.search)
  <2>1. /\ tl.on # 0 /\ tl'.on = 0 /\ tlNet = << >> /\ tlDue = 0 /\ tlDue' = 0
        /\ tlCache' = IF tl.rows # << >> THEN Entry(tl) ELSE None
    BY <1>3 DEF Leaves
  <2>2. PICK a, pg : InTurn(tl, << >>, found, a, pg)
    BY <2>1 DEF TLInOrder, TLTurn
  <2>3. SameIds(tl.rows, Upto(found, tl.page)) /\ (tl.hasMore <=> tl.page < Pages(found))
    BY <2>2, TurnAtRest
  <2>4. /\ Entry(tl).search = tl.search /\ Entry(tl).rows = tl.rows
        /\ Entry(tl).page = tl.page /\ Entry(tl).hasMore = tl.hasMore
    BY DEF Entry
  <2>5. tlCache' # None => tlCache' = Entry(tl)
    BY <2>1
  <2> HIDE DEF found
  <2>6. tlCache' # None =>
          /\ SameIds(tlCache'.rows, Upto(found, tlCache'.page))
          /\ tlCache'.hasMore <=> tlCache'.page < Pages(found)
          /\ found = Found(tlStore', tlCache'.search)
    BY <1>1, <2>3, <2>4, <2>5 DEF found
  <2>7. CacheSettled'
    BY <2>6 DEF CacheSettled
  <2>8. QED
    BY <2>1, <2>7 DEF TLInOrder
<1>4. CASE SetsSearch
  BY <1>4 DEF SetsSearch, TLInOrder
<1>5. CASE Idles
  BY <1>1, <1>5 DEF Idles, TLInOrder, CacheSettled, TLTurn
<1>6. QED
  BY <1>2, <1>3, <1>4, <1>5

LEMMA TurnAnswered ==
  ASSUME TLTyped, TLQueue, TLInOrder, Answers
  PROVE  TLInOrder'
<1> DEFINE q == tlNet[1]
           found == Found(tlStore, tl.search)
<1>1. /\ IsNet(tlNet) /\ 1 \in DOMAIN tlNet /\ q.served /\ tlNet' = RemoveAt(tlNet, 1) /\ tlDue = 0 /\ tlDue' = 0
      /\ tlStore' = tlStore /\ tl.on # 0
  BY TLNet DEF Answers, TLQueue
<1>2. tl'.on = tl.on /\ tl'.search = tl.search /\ tl.rows \in Seq(TLRows)
  BY AnsweredRows
<1>3. PICK a, pg : InTurn(tl, tlNet, found, a, pg)
  BY <1>1 DEF TLInOrder, TLTurn
<1>4. found \in Seq(TLRows) /\ Apart(found)
  BY FoundTyped
<1> HIDE DEF found
<1>5. CASE IsFetch(q)
  <2>1. /\ q \in TLFetches /\ q.items \in Seq(TLRows)
        /\ tl'.rows = IF q.more THEN Merged(tl.rows, q.items) ELSE q.items
        /\ tl'.page = q.page /\ (tl'.hasMore <=> q.page < q.pages)
    BY <1>5, AnsweredRows
  <2>2. q.page \in Nat \ {0}
    BY <2>1 DEF TLFetches
  <2>3. QED
    <3>1. \E pg2 : InTurn(tl', RemoveAt(tlNet, 1), found, IF a = 0 THEN 0 ELSE a - 1, pg2)
      BY <1>1, <1>2, <1>3, <1>4, <1>5, <2>1, <2>2, TurnFetched
    <3>2. \E b, pg2 : InTurn(tl', tlNet', Found(tlStore', tl'.search), b, pg2)
      BY <1>1, <1>2, <3>1 DEF found
    <3>3. QED
      BY <1>1, <1>2, <3>2 DEF TLInOrder, TLTurn
<1>6. CASE ~IsFetch(q)
  <2>1. /\ q.row \in TLRows /\ q.row.id = q.id /\ tl'.page = tl.page /\ tl'.hasMore = tl.hasMore
        /\ DOMAIN tl'.rows = DOMAIN tl.rows
        /\ \A h \in DOMAIN tl.rows :
             tl'.rows[h] = IF tl.rows[h].id # q.id THEN tl.rows[h]
                           ELSE IF q.kind \in {"tag", "untag"}
                           THEN [tl.rows[h] EXCEPT !.tagged = (q.kind = "tag")] ELSE q.row
    BY <1>6, AnsweredRows
  <2>2. \A h \in DOMAIN tl.rows : tl'.rows[h].id = tl.rows[h].id
    <3> TAKE h \in DOMAIN tl.rows
    <3>1. PICK r \in TLRows : r = tl.rows[h]
      BY <1>2
    <3>2. [r EXCEPT !.tagged = (q.kind = "tag")].id = r.id
      BY DEF TLRows
    <3>3. QED
      BY <2>1, <3>1, <3>2
  <2>3. SameIds(tl'.rows, tl.rows)
    <3>1. Len(tl'.rows) = Len(tl.rows) /\ DOMAIN tl.rows = 1..Len(tl.rows)
      BY <1>2, <1>6, AnsweredRows
    <3>2. QED
      BY <2>2, <3>1 DEF SameIds
  <2>4. \E pg2 : InTurn(tl', RemoveAt(tlNet, 1), found, IF a = 0 THEN 0 ELSE a - 1, pg2)
    BY <1>1, <1>2, <1>3, <1>6, <2>1, <2>3, TurnReplaced
  <2>5. \E b, pg2 : InTurn(tl', tlNet', Found(tlStore', tl'.search), b, pg2)
    BY <1>1, <1>2, <2>4 DEF found
  <2>6. QED
    BY <1>1, <1>2, <2>5 DEF TLInOrder, TLTurn
<1>7. QED
  BY <1>5, <1>6

LEMMA TurnServes ==
  ASSUME TLTyped, TLTyped', TLQueue, TLInOrder, NEW i \in DOMAIN tlNet, NEW e,
         ServesFetch(i, e) \/ ServesEdit(i, e), ~tlEdited'
  PROVE  TLInOrder'
<1> DEFINE q == tlNet[i]
           found == Found(tlStore, tl.search)
           other == Found(tlStore', tl.search)
<1>1. /\ IsNet(tlNet) /\ tlNet' = [tlNet EXCEPT ![i] = e] /\ UNCHANGED <<tl, tlDue, tlCache>> /\ e.kind = q.kind
      /\ \A j \in DOMAIN tlNet : IsFetch(tlNet[j]) => tlNet[j].page \in Nat \ {0}
  BY TLNet DEF ServesFetch, ServesEdit, Serves, TLFetches
<1>2. tl.on # 0
  BY DEF TLQueue
<1>3. SameIds(found, other) /\ tlStore' \in Seq([review : BOOLEAN, tagged : BOOLEAN])
  <2>1. /\ tlStore \in Seq([review : BOOLEAN, tagged : BOOLEAN])
        /\ tlStore' \in Seq([review : BOOLEAN, tagged : BOOLEAN])
    BY DEF TLTyped
  <2>2. CASE ServesFetch(i, e)
    BY <2>1, <2>2 DEF ServesFetch, SameIds
  <2>3. CASE ServesEdit(i, e)
    <3>1. /\ q \in TLEdits /\ q.kind \in {"tag", "untag"}
          /\ tlStore' = [id \in DOMAIN tlStore |-> Edited(tlStore[id], q, id)]
      BY <2>3, TLNet DEF ServesEdit, Serves, TLEdits
    <3>2. ASSUME NEW id \in DOMAIN tlStore PROVE tlStore[id].review = tlStore'[id].review
      <4> DEFINE T == [review : BOOLEAN, tagged : BOOLEAN]
      <4>1. tlStore \in Seq(T)
        BY <2>1
      <4> HIDE DEF T
      <4>2. PICK t \in T : t = tlStore[id]
        BY <4>1
      <4>3. t \in [review : BOOLEAN, tagged : BOOLEAN]
        BY DEF T
      <4>4. Edited(t, q, id) = t \/ Edited(t, q, id) = [t EXCEPT !.tagged = (q.kind = "tag")]
        BY <3>1 DEF Edited
      <4>5. Edited(t, q, id).review = t.review
        BY <4>3, <4>4
      <4>6. QED
        BY <3>1, <4>2, <4>5
    <3>3. DOMAIN tlStore' = DOMAIN tlStore
      BY <3>1
    <3>4. QED
      BY <2>1, <3>2, <3>3, FoundSame
  <2>4. QED
    BY <2>1, <2>2, <2>3
<1>4. found \in Seq(TLRows) /\ other \in Seq(TLRows')
  <2>1. found \in Seq(TLRows)
    BY FoundTyped
  <2>2. other \in Seq([id : DOMAIN tlStore', review : BOOLEAN, tagged : BOOLEAN])
    BY <1>3, FoundRows
  <2>3. QED
    BY <2>1, <2>2 DEF TLRows
<1>5. ASSUME IsFetch(e)
      PROVE  /\ e.more = q.more /\ e.page = q.page /\ e.search = q.search
             /\ e.search = tl.search => SameIds(e.items, PageOf(other, e.page)) /\ e.pages = Pages(other)
  <2>1. ServesFetch(i, e)
    BY <1>1, <1>5 DEF ServesEdit, IsFetch
  <2>2. /\ e.more = q.more /\ e.page = q.page /\ e.search = q.search /\ tlStore' = tlStore
        /\ e.items = PageOf(Found(tlStore, q.search), q.page) /\ e.pages = Pages(Found(tlStore, q.search))
    BY <2>1 DEF ServesFetch
  <2>3. \A s : SameIds(s, s)
    BY DEF SameIds
  <2>4. QED
    BY <2>2, <2>3
<1>6. ASSUME tlDue = 0 PROVE TLTurn'
  <2>1. PICK a, pg : InTurn(tl, tlNet, found, a, pg)
    BY <1>2, <1>6 DEF TLInOrder, TLTurn
  <2> HIDE DEF found, other
  <2>2. IsFetch(e) <=> IsFetch(tlNet[i])
    BY <1>1 DEF IsFetch
  <2>3. PICK S : found \in Seq(S)
    BY <1>4
  <2>4. PICK T : other \in Seq(T)
    BY <1>4
  <2>5. InTurn(tl, [tlNet EXCEPT ![i] = e], other, a, pg)
    BY <1>1, <1>3, <1>5, <2>1, <2>2, <2>3, <2>4, TurnServed
  <2>6. InTurn(tl', tlNet', Found(tlStore', tl'.search), a, pg)
    BY <1>1, <2>5 DEF other
  <2>7. QED
    BY <2>6 DEF TLTurn
<1>7. QED
  BY <1>1, <1>2, <1>6 DEF TLInOrder

-----------------------------------------------------------------------------
(* A step that leaves all in order is one of these.                          *)

LEMMA CalmSearch ==
  ASSUME TLTyped, tl.on # 0, NEW search \in Searches, SetSearchParams(search),
         UNCHANGED <<tlNet, tlStore, tlEdited>>
  PROVE  SetsSearch
<1>1. tl \in ListStates(Searches \cup {None}, TLRows) /\ tlDue \in 0..1
  BY DEF TLTyped, TLHookTyped
<1>2. tl' = SearchSet(tl, search) /\ tlDue' = tlDue + 1 /\ tlCache' = None
  BY DEF SetSearchParams, Becomes
<1>3. tl'.rows = tl.rows /\ tl'.on = tl.on /\ tl'.page = 1
  BY <1>1, <1>2 DEF SearchSet, ListStates
<1>4. QED
  BY <1>1, <1>2, <1>3 DEF SetsSearch, AllKept

LEMMA CalmOpen ==
  ASSUME TLTyped, TLQueue, TLOpen
  PROVE  Restores \/ \E q : StartsSearch(q)
<1> DEFINE n == tlMounts + 1
<1>0. n \in Nat /\ n # 0 /\ SavedSearch \in Searches /\ tl.on = 0 /\ tlNet = << >> /\ tlDue = 0 /\ tlDue' = 0
      /\ UNCHANGED <<tlStore, tlEdited>>
  BY DEF TLTyped, TLKeptTyped, SavedSearch, Searches, TLOpen, tlInput, tlServer, TLQueue
<1> HIDE DEF n
<1>1. PICK old \in BOOLEAN :
        LET entry == Usable(tlCache, SavedSearch, old)
            l     == Mounted(n, SavedSearch, entry)
        IN  IF l.rows = << >>
            THEN FetchTransactions(l, FALSE)
            ELSE tl' = l /\ UNCHANGED tlNet
  BY DEF TLOpen, n
<1> DEFINE entry == Usable(tlCache, SavedSearch, old)
           l == Mounted(n, SavedSearch, entry)
<1>2. entry = None \/ (entry = tlCache /\ entry # None /\ entry.search = SavedSearch
                        /\ entry \in Entries(Searches, TLRows) /\ entry.rows # << >>)
  BY DEF Usable, TLTyped, TLKeptTyped
<1>3. /\ l.on = n /\ l.search = SavedSearch
      /\ entry = None => l.rows = << >> /\ l.page = 1
      /\ entry # None => l.rows = entry.rows /\ l.page = entry.page /\ l.hasMore = entry.hasMore
  BY DEF Mounted
<1>4. IF l.rows = << >> THEN FetchTransactions(l, FALSE) ELSE tl' = l /\ UNCHANGED tlNet
  BY <1>1
<1> HIDE DEF entry
<1>5. CASE l.rows = << >>
  <2>1. l.page = 1
    BY <1>2, <1>3, <1>5
  <2>2. FetchTransactions(l, FALSE)
    BY <1>4, <1>5
  <2>3. tl' = FetchBegun(l, FALSE)
    BY <2>2 DEF FetchTransactions, Becomes
  <2>4. tl'.rows = << >> /\ tl'.on = n /\ tl'.search = SavedSearch
    <3>1. tl' = [l EXCEPT !.loading = TRUE, !.error = FALSE]
      BY <2>3 DEF FetchBegun
    <3>2. tl'.rows = l.rows /\ tl'.on = l.on /\ tl'.search = l.search
      BY <3>1 DEF Mounted
    <3>3. QED
      BY <1>3, <1>5, <3>2
  <2> HIDE DEF l
  <2>5. PICK q : IsFetch(q) /\ ~q.served /\ tlNet' = Append(tlNet, q)
                 /\ ~q.more /\ q.page = PageToFetch(l, FALSE) /\ q.search = l.search /\ q.on = l.on
    <3>1. PICK more : more = FALSE
      OBVIOUS
    <3>2. FetchTransactions(l, more)
      BY <2>2, <3>1
    <3>3. PICK q : IsFetch(q) /\ ~q.served /\ tlNet' = Append(tlNet, q)
                   /\ q.more = more /\ q.page = PageToFetch(l, more) /\ q.search = l.search /\ q.on = l.on
      BY <3>2, FetchSends
    <3>4. QED
      BY <3>1, <3>3
  <2>6. q.page = 1
    BY <2>1, <2>5 DEF PageToFetch
  <2>7. StartsSearch(q)
    BY <1>0, <1>3, <2>4, <2>5, <2>6 DEF StartsSearch, Sends
  <2>8. QED
    BY <2>7
<1>6. CASE l.rows # << >>
  <2>1. tl' = l /\ UNCHANGED tlNet /\ entry # None
    BY <1>3, <1>4, <1>6
  <2> HIDE DEF l
  <2>2. /\ tlCache # None /\ tl'.on # 0 /\ tl'.rows = tlCache.rows /\ tl'.search = tlCache.search
        /\ tl'.page = tlCache.page /\ tl'.hasMore = tlCache.hasMore
    BY <1>0, <1>2, <1>3, <2>1
  <2>3. Restores
    BY <1>0, <2>1, <2>2 DEF Restores, AllKept
  <2>4. QED
    BY <2>3
<1>7. QED
  BY <1>5, <1>6

LEMMA CalmLeave ==
  ASSUME TLTyped, TLQueue, TLLeave, tlCalm'
  PROVE  Leaves
<1>1. /\ tl.on # 0 /\ tlNet = << >> /\ tlDue = 0 /\ tl' = Unmounted /\ tlDue' = 0
      /\ tlCache' = (IF tl.rows # << >> THEN Entry(tl) ELSE tlCache) /\ tlCache = None
      /\ UNCHANGED <<tlNet, tlStore, tlEdited>>
  BY DEF TLLeave, tlServer, TLTyped, TLKeptTyped
<1>2. Unmounted.rows = << >> /\ Unmounted.on = 0
  BY UnmountedTyped DEF Searches
<1>3. tlCache' # None => tlCache'.rows = tl.rows
  BY <1>1 DEF Entry
<1>4. QED
  BY <1>1, <1>2, <1>3 DEF Leaves, AllKept

LEMMA CalmFetch ==
  ASSUME TLTyped, TLQueue, tl.on # 0, NEW more \in BOOLEAN, FetchTransactions(tl, more),
         UNCHANGED <<tlStore, tlEdited>>
  PROVE  \E q : Sends(q) /\ IsFetch(q) /\ q.more = more /\ q.page = (IF more THEN tl.page + 1 ELSE tl.page)
                /\ q.search = tl.search /\ tl'.search = tl.search /\ tl'.rows = tl.rows
<1>1. tl' = FetchBegun(tl, more) /\ tl \in ListStates(Searches \cup {None}, TLRows)
  BY DEF FetchTransactions, Becomes, TLTyped, TLHookTyped
<1>2. tl'.rows = tl.rows /\ tl'.on = tl.on /\ tl'.search = tl.search
  BY <1>1 DEF FetchBegun, ListStates
<1>3. PICK q : IsFetch(q) /\ ~q.served /\ tlNet' = Append(tlNet, q)
               /\ q.more = more /\ q.page = PageToFetch(tl, more) /\ q.search = tl.search /\ q.on = tl.on
  BY FetchSends
<1>4. Sends(q)
  BY <1>2, <1>3 DEF Sends
<1>5. QED
  BY <1>2, <1>3, <1>4 DEF PageToFetch

LEMMA CalmEdit ==
  ASSUME TLTyped, EditRow
  PROVE  \E q : SendsEdit(q)
<1>1. PICK i \in DOMAIN tlShown : \E kind \in {"classify", "classify_all", "tag", "untag"} : Edit(kind, tlShown[i])
  BY DEF EditRow, ConfirmType, ChooseTypeOrCategory, AddTag, RemoveTag
<1>2. PICK kind \in {"classify", "classify_all", "tag", "untag"} : Edit(kind, tlShown[i])
  BY <1>1
<1> DEFINE r == tlShown[i]
           q == [kind |-> kind, on |-> tl.on, served |-> FALSE, id |-> r.id, row |-> None]
<1>3. tlNet' = Append(tlNet, q) /\ UNCHANGED <<tl, tlDue, tlStore, tlEdited>>
  BY <1>2 DEF Edit, Send, tlInput, tlServer
<1>4. ~q.served /\ q.on = tl.on /\ ~IsFetch(q)
  BY DEF IsFetch
<1>5. tl.on # 0
  BY <1>1 DEF TLTyped, TLHookTyped
<1> HIDE DEF q
<1>6. SendsEdit(q)
  BY <1>3, <1>4, <1>5 DEF SendsEdit, Sends
<1>7. QED
  BY <1>6

CalmForm ==
  \/ \E q : StartsSearch(q) \/ ScrollsOn(q) \/ SendsEdit(q)
  \/ Restores \/ Leaves \/ SetsSearch \/ Idles
  \/ Answers
  \/ \E i \in DOMAIN tlNet : \E e : ServesFetch(i, e) \/ ServesEdit(i, e)

LEMMA CalmForms ==
  ASSUME TLTyped, TLQueue, [TLNext]_tlVars, tlCalm'
  PROVE  tlCalm /\ CalmForm
<1>1. CASE TLOpen
  <2>1. tlCalm
    BY <1>1 DEF TLOpen
  <2>2. QED
    BY <1>1, <2>1, CalmOpen DEF CalmForm
<1>2. CASE TLLeave
  <2>1. tlCalm
    BY <1>2 DEF TLLeave
  <2>2. QED
    BY <1>2, <2>1, CalmLeave DEF CalmForm
<1>3. CASE SubmitFilters
  <2>1. /\ tlCalm /\ tlTyped # None /\ UNCHANGED <<tlNet, tlStore, tlEdited>>
        /\ IF tl.on # 0 THEN SetSearchParams(tlTyped) ELSE UNCHANGED <<tlScreen, tlDue, tlCache>>
    BY <1>3 DEF SubmitFilters, tlServer, tlHistory
  <2>2. CASE tl.on # 0
    <3>1. tlTyped \in Searches
      BY <2>1 DEF TLTyped
    <3>2. SetsSearch
      BY <2>1, <2>2, <3>1, CalmSearch
    <3>3. QED
      BY <2>1, <3>2 DEF CalmForm
  <2>3. CASE ~(tl.on # 0)
    <3>1. Idles
      BY <2>1, <2>3 DEF Idles, AllKept, tlScreen, TLTyped, TLHookTyped
    <3>2. QED
      BY <2>1, <3>1 DEF CalmForm
  <2>4. QED
    BY <2>2, <2>3
<1>4. CASE ClearFilters
  <2>1. /\ tlCalm /\ tl.on # 0 /\ SetSearchParams({}) /\ UNCHANGED <<tlNet, tlStore, tlEdited>>
    BY <1>4 DEF ClearFilters, tlServer, tlHistory
  <2>2. {} \in Searches
    BY DEF Searches
  <2>3. SetsSearch
    BY <2>1, <2>2, CalmSearch
  <2>4. QED
    BY <2>1, <2>3 DEF CalmForm
<1>5. CASE FetchDue
  <2>1. /\ tlCalm /\ tlDue # 0 /\ FetchTransactions(tl, FALSE) /\ UNCHANGED <<tlStore, tlEdited>>
        /\ tlDue' = 0
    <3>1. /\ tlCalm' = tlCalm /\ tlDue > 0 /\ FetchTransactions(tl, FALSE) /\ UNCHANGED <<tlStore, tlEdited>>
          /\ tlDue' = tlDue - 1
      BY <1>5 DEF FetchDue, tlServer
    <3>2. tlDue \in 0..1
      BY DEF TLTyped
    <3>3. tlDue # 0 /\ tlDue' = 0
      BY <3>1, <3>2
    <3>4. QED
      BY <3>1, <3>3
  <2>2. tl.on # 0
    BY <2>1 DEF TLQueue
  <2>3. PICK q : Sends(q) /\ IsFetch(q) /\ q.more = FALSE /\ q.page = tl.page
                 /\ q.search = tl.search /\ tl'.search = tl.search
    BY <2>1, <2>2, CalmFetch
  <2>4. StartsSearch(q)
    BY <2>1, <2>3 DEF StartsSearch
  <2>5. QED
    BY <2>1, <2>4 DEF CalmForm
<1>6. CASE ScrollToEnd
  <2>1. /\ tlCalm /\ tlDue = 0 /\ tlDue' = 0 /\ NoneSkipped(tlNet, PageToFetch(tl, TRUE)) /\ tl.on # 0
        /\ FetchTransactions(tl, TRUE) /\ UNCHANGED <<tlStore, tlEdited>>
    BY <1>6 DEF ScrollToEnd, tlServer, tlInput
  <2>2. PageToFetch(tl, TRUE) = tl.page + 1
    BY DEF PageToFetch
  <2>3. PICK q : Sends(q) /\ IsFetch(q) /\ q.more = TRUE /\ q.page = tl.page + 1
                 /\ q.search = tl.search /\ tl'.search = tl.search /\ tl'.rows = tl.rows
    BY <2>1, CalmFetch
  <2>4. ScrollsOn(q)
    BY <2>1, <2>2, <2>3 DEF ScrollsOn
  <2>5. QED
    BY <2>1, <2>4 DEF CalmForm
<1>7. CASE EditRow
  <2>1. tlCalm' = tlCalm
    BY <1>7 DEF EditRow, ConfirmType, ChooseTypeOrCategory, AddTag, RemoveTag, Edit, tlHistory
  <2>2. QED
    BY <1>7, <2>1, CalmEdit DEF CalmForm
<1>8. ASSUME NEW i \in DOMAIN tlNet, Serve(i) PROVE tlCalm /\ CalmForm
  <2>1. tlCalm
    BY <1>8 DEF Serve
  <2>2. QED
    BY <1>8, <2>1, CalmServe DEF CalmForm
<1>9. ASSUME NEW i \in DOMAIN tlNet, Answer(i) PROVE tlCalm /\ CalmForm
  <2>1. tlCalm
    BY <1>9 DEF Answer
  <2>2. QED
    BY <1>9, <2>1, CalmAnswer DEF CalmForm
<1>10. ASSUME NEW i \in DOMAIN tlNet, Fail(i) PROVE FALSE
  BY <1>10 DEF Fail
<1>11. CASE TransactionArrives
  BY <1>11 DEF TransactionArrives
<1>12. CASE UpdateFilter \/ FadeEnds \/ UNCHANGED tlVars
  <2>1. tlCalm' = tlCalm /\ UNCHANGED <<tl, tlDue, tlCache, tlNet, tlStore, tlEdited>>
    <3>1. CASE UpdateFilter
      BY <3>1 DEF UpdateFilter, tlScreen, tlServer, tlHistory, tlSession
    <3>2. CASE FadeEnds
      BY <3>2 DEF FadeEnds, tlInput, tlServer, tlHistory, tlSession
    <3>3. CASE UNCHANGED tlVars
      BY <3>3 DEF tlVars
    <3>4. QED
      BY <1>12, <3>1, <3>2, <3>3
  <2>2. Idles
    BY <2>1 DEF Idles, AllKept, TLTyped, TLHookTyped
  <2>3. QED
    BY <2>1, <2>2 DEF CalmForm
<1>13. QED
  BY <1>1, <1>2, <1>3, <1>4, <1>5, <1>6, <1>7, <1>8, <1>9, <1>10, <1>11, <1>12 DEF TLNext

LEMMA TLCalmStep == TLTyped /\ TLTyped' /\ TLCalmInv /\ [TLNext]_tlVars => TLCalmInv'
<1> SUFFICES ASSUME TLTyped, TLTyped', TLCalmInv, [TLNext]_tlVars, tlCalm'
             PROVE  TLQueue' /\ TLFresh' /\ (~tlEdited' => TLInOrder')
  BY DEF TLCalmInv
<1>0. ASSUME TLQueue PROVE tlCalm /\ CalmForm
  BY <1>0, CalmForms
<1>1. tlCalm
  <2>1. [TLNext]_tlVars /\ tlCalm' => tlCalm
    BY DEF TLNext, TLOpen, TLLeave, UpdateFilter, SubmitFilters, ClearFilters, FetchDue, ScrollToEnd, FadeEnds,
           EditRow, ConfirmType, ChooseTypeOrCategory, AddTag, RemoveTag, Edit, Serve, Answer, Fail,
           TransactionArrives, tlHistory, tlVars
  <2>2. QED
    BY <2>1
<1>2. TLQueue /\ TLFresh /\ (~tlEdited => TLInOrder) /\ CalmForm
  BY <1>0, <1>1 DEF TLCalmInv
<1>3. ASSUME NEW q, StartsSearch(q) \/ ScrollsOn(q) \/ SendsEdit(q)
      PROVE  TLQueue' /\ TLFresh' /\ (~tlEdited' => TLInOrder')
  <2>1. Sends(q) /\ tlEdited' = tlEdited
    BY <1>3 DEF StartsSearch, ScrollsOn, SendsEdit, Sends
  <2>2. QED
    BY <1>2, <1>3, <2>1, TLFreshSent, TurnSent
<1>4. CASE Restores \/ Leaves \/ SetsSearch \/ Idles
  <2>1. AllKept /\ tlEdited' = tlEdited
    BY <1>4 DEF Restores, Leaves, SetsSearch, Idles, AllKept
  <2>2. QED
    BY <1>2, <1>4, <2>1, TLFreshKept, TurnKept
<1>5. CASE Answers
  <2>1. tlEdited' = tlEdited
    BY <1>5 DEF Answers
  <2>2. QED
    BY <1>2, <1>5, <2>1, TLFreshAnswered, TurnAnswered
<1>6. ASSUME NEW i \in DOMAIN tlNet, NEW e, ServesFetch(i, e) \/ ServesEdit(i, e)
      PROVE  TLQueue' /\ TLFresh' /\ (~tlEdited' => TLInOrder')
  <2>1. ~tlEdited' => ~tlEdited
    BY <1>6 DEF ServesFetch, ServesEdit
  <2>2. QED
    BY <1>2, <1>6, <2>1, TLFreshServed, TurnServes
<1>7. QED
  BY <1>2, <1>3, <1>4, <1>5, <1>6 DEF CalmForm

(* When nothing is under way, a row is what the server has.                  *)
LEMMA QuietRows ==
  ASSUME TLTyped, TLFresh, tlNet = << >>
  PROVE  /\ tl.rows \in Seq(TLRows)
         /\ \A i \in DOMAIN tl.rows : /\ tl.rows[i].id \in DOMAIN tlStore
                                      /\ tl.rows[i] = Row(tlStore, tl.rows[i].id)
<1>1. tl.rows \in Seq(TLRows)
  BY DEF TLTyped, TLHookTyped, ListStates
<1>2. ASSUME NEW i \in DOMAIN tl.rows
      PROVE  tl.rows[i].id \in DOMAIN tlStore /\ tl.rows[i] = Row(tlStore, tl.rows[i].id)
  <2>1. PICK r \in TLRows : r = tl.rows[i] /\ Current(0, r)
    BY <1>1 DEF TLFresh
  <2>2. \A id, kinds : ~Later(0, id, kinds)
    BY DEF Later
  <2>3. r.tagged = tlStore[r.id].tagged /\ r.review = tlStore[r.id].review
    BY <2>1, <2>2 DEF Current
  <2>4. r = [id |-> r.id, review |-> r.review, tagged |-> r.tagged] /\ r.id \in DOMAIN tlStore
    BY DEF TLRows
  <2>5. QED
    BY <2>1, <2>3, <2>4 DEF Row
<1>3. QED
  BY <1>1, <1>2

LEMMA TLCalmRows == TLTyped /\ TLCalmInv => RowsFresh
<1> SUFFICES ASSUME TLTyped, TLCalmInv, TLQuiet, tlCalm, NEW i \in DOMAIN tl.rows
             PROVE  tl.rows[i] \in ToSet(RowsOf(tlStore))
  BY DEF RowsFresh
<1>1. tl.rows[i].id \in DOMAIN tlStore /\ tl.rows[i] = Row(tlStore, tl.rows[i].id)
  BY QuietRows DEF TLCalmInv, TLQuiet
<1>2. \E k \in DOMAIN RowsOf(tlStore) : RowsOf(tlStore)[k] = tl.rows[i]
  <2>1. tlStore \in Seq([review : BOOLEAN, tagged : BOOLEAN])
    BY DEF TLTyped
  <2>2. \A id \in DOMAIN tlStore : \E k \in DOMAIN RowsOf(tlStore) : RowsOf(tlStore)[k] = Row(tlStore, id)
    BY <2>1, StoreRows
  <2>3. QED
    BY <1>1, <2>2
<1>3. QED
  BY <1>2 DEF ToSet

LEMMA TLCalmSettled == TLTyped /\ TLCalmInv => SettledPrefix
<1> SUFFICES ASSUME TLTyped, TLCalmInv, TLQuiet, tlCalm, ~tlEdited
             PROVE  /\ tl.rows = Upto(Found(tlStore, tl.search), tl.page)
                    /\ tl.hasMore <=> tl.page < Pages(Found(tlStore, tl.search))
  BY DEF SettledPrefix
<1> DEFINE found == Found(tlStore, tl.search)
           u == Upto(found, tl.page)
<1>1. /\ tlNet = << >> /\ tlDue = 0 /\ tl.on # 0 /\ TLFresh /\ TLInOrder
  BY DEF TLCalmInv, TLQuiet
<1>2. /\ tl.rows \in Seq(TLRows)
      /\ \A i \in DOMAIN tl.rows : tl.rows[i] = Row(tlStore, tl.rows[i].id)
  BY <1>1, QuietRows
<1>3. PICK a, pg : InTurn(tl, << >>, found, a, pg)
  BY <1>1 DEF TLInOrder, TLTurn
<1>4. /\ found \in Seq(TLRows)
      /\ \A i \in DOMAIN found : found[i] = Row(tlStore, found[i].id)
  BY FoundRows DEF TLTyped, TLRows
<1> HIDE DEF found
<1>5. SameIds(tl.rows, u) /\ (tl.hasMore <=> tl.page < Pages(found))
  BY <1>3, TurnAtRest
<1>6. tl.page \in Nat
  BY DEF TLTyped, TLHookTyped, ListStates
<1> DEFINE p == tl.page
           c == Reach(found, p)
<1>7. /\ u \in Seq(TLRows) /\ Len(u) = c /\ DOMAIN u = 1..c
      /\ \A i \in 1..c : u[i] = found[i]
      /\ c \in 0..Len(found) /\ DOMAIN found = 1..Len(found) /\ Len(found) \in Nat
  <2>0. p \in Nat
    BY <1>6
  <2> HIDE DEF p
  <2>1. /\ Upto(found, p) \in Seq(TLRows) /\ Len(Upto(found, p)) = Reach(found, p)
        /\ DOMAIN Upto(found, p) = 1..Reach(found, p)
        /\ \A i \in 1..Reach(found, p) : Upto(found, p)[i] = found[i]
    BY <1>4, <2>0, UptoIs
  <2>2. Reach(found, p) \in 0..Len(found)
    BY <1>4, <2>0, ReachIs
  <2>3. DOMAIN found = 1..Len(found) /\ Len(found) \in Nat
    BY <1>4
  <2>4. QED
    BY <2>1, <2>2, <2>3 DEF p
<1> HIDE DEF c
<1> HIDE DEF u
<1>8. \A i \in DOMAIN u : u[i] = Row(tlStore, u[i].id)
  BY <1>4, <1>7
<1>9. Len(tl.rows) = Len(u) /\ DOMAIN tl.rows = DOMAIN u /\ \A i \in DOMAIN u : tl.rows[i].id = u[i].id
  BY <1>2, <1>5, <1>7 DEF SameIds
<1>10. \A i \in DOMAIN u : tl.rows[i] = u[i]
  BY <1>2, <1>8, <1>9
<1>11. tl.rows = u
  BY <1>2, <1>7, <1>9, <1>10
<1>12. QED
  BY <1>5, <1>11 DEF u, found

(* The lists of transactions settle on what the server has.                  *)
LEMMA TLSettled == TLTyped /\ RowsInv /\ TLCalmInv => RowsOnce /\ SettledPrefix /\ RowsFresh
BY RowsInvOnce, TLCalmRows, TLCalmSettled

-----------------------------------------------------------------------------
(* The merchants page, when all comes in order.  What is shown is not        *)
(* followed while a change of group is under way, which changes what the     *)
(* search finds: the list is fetched again as it ends.                       *)

LEMMA OrderSent ==
  ASSUME NEW net, IsNet(net), ServedInOrder(net), NEW q, ~q.served
  PROVE  ServedInOrder(Append(net, q))
<1> DEFINE n == Len(net)
           t == Append(net, q)
<1>1. /\ DOMAIN t = 1..(n + 1) /\ DOMAIN net = 1..n /\ n \in Nat
      /\ (\A j \in 1..n : t[j] = net[j]) /\ t[n + 1] = q
  BY NetAppended DEF IsNet
<1> HIDE DEF n, t
<1>2. \A j \in 1..(n + 1) : j \in 1..n \/ j = n + 1
  BY <1>1
<1> SUFFICES ASSUME NEW j \in DOMAIN t, NEW k \in DOMAIN t, j < k, t[k].served PROVE t[j].served
  BY DEF ServedInOrder, t
<1>3. k \in 1..n
  BY <1>1, <1>2
<1>4. j \in 1..n
  BY <1>1, <1>3
<1>5. QED
  BY <1>1, <1>3, <1>4 DEF ServedInOrder

LEMMA OrderServed ==
  ASSUME NEW net, IsNet(net), ServedInOrder(net), NEW i \in DOMAIN net, ~net[i].served,
         \A j \in 1..(i - 1) : net[j].served, NEW e, e.served
  PROVE  LET t == [net EXCEPT ![i] = e]
         IN  /\ ServedInOrder(t) /\ IsNet(t) /\ DOMAIN t = DOMAIN net
             /\ \A j \in DOMAIN net : t[j] = IF j = i THEN e ELSE net[j]
             /\ \A j \in DOMAIN net : t[j].served <=> j <= i
<1> DEFINE t == [net EXCEPT ![i] = e]
           n == Len(net)
<1>1. /\ IsNet(t) /\ DOMAIN t = DOMAIN net
      /\ \A j \in DOMAIN net : t[j] = IF j = i THEN e ELSE net[j]
  BY NetReplaced DEF IsNet
<1>2. DOMAIN net = 1..n /\ n \in Nat
  BY DEF IsNet
<1> HIDE DEF t, n
<1>3. ASSUME NEW j \in DOMAIN net PROVE t[j].served <=> j <= i
  <2>1. CASE j < i
    <3>1. j \in 1..(i - 1) /\ j # i /\ j <= i
      BY <1>2, <2>1
    <3>2. QED
      BY <1>1, <3>1
  <2>2. CASE j = i
    BY <1>1, <1>2, <2>2
  <2>3. CASE i < j
    <3>1. ~net[j].served
      BY <2>3 DEF ServedInOrder
    <3>2. j # i /\ ~(j <= i)
      BY <1>2, <2>3
    <3>3. QED
      BY <1>1, <3>1, <3>2
  <2>4. QED
    BY <1>2, <2>1, <2>2, <2>3
<1>4. ServedInOrder(t)
  <2> SUFFICES ASSUME NEW j \in DOMAIN net, NEW k \in DOMAIN net, j < k, t[k].served PROVE t[j].served
    BY <1>1 DEF ServedInOrder
  <2>1. k <= i /\ j <= i
    BY <1>2, <1>3
  <2>2. QED
    BY <1>3, <2>1
<1>5. QED
  BY <1>1, <1>3, <1>4 DEF t

LEMMA OrderAnswered ==
  ASSUME NEW net, IsNet(net), ServedInOrder(net), 1 \in DOMAIN net
  PROVE  ServedInOrder(RemoveAt(net, 1))
<1> DEFINE n == Len(net)
           t == RemoveAt(net, 1)
<1>1. /\ DOMAIN t = 1..(n - 1) /\ DOMAIN net = 1..n /\ n \in Nat \ {0}
      /\ \A j \in 1..(n - 1) : t[j] = net[j + 1]
  BY LastRemoved
<1> HIDE DEF n, t
<1> SUFFICES ASSUME NEW j \in DOMAIN t, NEW k \in DOMAIN t, j < k, t[k].served PROVE t[j].served
  BY DEF ServedInOrder, t
<1>2. j + 1 \in DOMAIN net /\ k + 1 \in DOMAIN net /\ j + 1 < k + 1 /\ net[k + 1].served
  BY <1>1
<1>3. net[j + 1].served
  BY <1>2 DEF ServedInOrder
<1>4. QED
  BY <1>1, <1>3

Moving == \E j \in DOMAIN mlNet : mlNet[j].kind = "move"

(* A row is what the server has, or an update of it that is answered later.  *)
NowOrLater(j, r) ==
  \/ r = MerchantRow(mlStore, r.id)
  \/ \E k \in DOMAIN mlNet :
       k > j /\ mlNet[k].served /\ mlNet[k].kind = "update" /\ mlNet[k].id = r.id

UpdatesAnswered(j) ==
  mlNet[j].served =>
    /\ mlNet[j].kind = "fetch" => \A i \in DOMAIN mlNet[j].items : NowOrLater(j, mlNet[j].items[i])
    /\ mlNet[j].kind = "update" => NowOrLater(j, mlNet[j].row)

MLFresh(a) ==
  /\ a = 0 => \A i \in DOMAIN ml.rows : NowOrLater(0, ml.rows[i])
  /\ \A j \in DOMAIN mlNet : j >= a => UpdatesAnswered(j)

MLTurn ==
  \E a, pg : InTurn(ml, mlNet, MerchantsFound(mlStore, ml.search), a, pg) /\ MLFresh(a)

MLInOrder ==
  /\ ServedInOrder(mlNet)
  /\ mlDue # 0 => ml.page = 1
  /\ mlDue = 0 /\ ml.on # 0 /\ ~Moving => MLTurn

MLCalmInv == mlCalm => MLInOrder

LEMMA MLCalmInit == MLInit => MLCalmInv
<1> SUFFICES ASSUME MLInit PROVE MLCalmInv
  OBVIOUS
<1>1. mlNet = << >> /\ mlDue = 0 /\ ml = Unmounted /\ DOMAIN mlNet = {}
  BY DEF MLInit
<1>2. Unmounted.on = 0
  BY UnmountedHook
<1>3. QED
  BY <1>1, <1>2 DEF MLCalmInv, MLInOrder, ServedInOrder

LEMMA MLNet ==
  MLTyped => IsNet(mlNet) /\ DOMAIN mlNet = 1..Len(mlNet) /\ Len(mlNet) \in Nat
BY DEF MLTyped, MLNetTyped, IsNet, Range

(* What a request that is sent, served or answered leaves of it.             *)
LEMMA MLFreshSent ==
  ASSUME MLTyped, NEW a, MLFresh(a), NEW q, ~q.served, mlNet' = Append(mlNet, q),
         UNCHANGED mlStore, ml'.rows = ml.rows
  PROVE  MLFresh(a)'
<1> DEFINE n == Len(mlNet)
<1>1. /\ DOMAIN mlNet' = 1..(n + 1) /\ DOMAIN mlNet = 1..n /\ n \in Nat
      /\ (\A j \in 1..n : mlNet'[j] = mlNet[j]) /\ mlNet'[n + 1] = q
  BY MLNet, NetAppended DEF IsNet
<1> HIDE DEF n
<1>2. \A j \in 1..(n + 1) : j \in 1..n \/ j = n + 1
  BY <1>1
<1>3. ASSUME NEW j, NEW r, NowOrLater(j, r) PROVE NowOrLater(j, r)'
  BY <1>1, <1>2, <1>3 DEF NowOrLater
<1>4. ASSUME NEW j \in DOMAIN mlNet', j >= a PROVE UpdatesAnswered(j)'
  <2>1. CASE j = n + 1
    BY <1>1, <2>1 DEF UpdatesAnswered
  <2>2. CASE j \in 1..n
    <3>1. mlNet'[j] = mlNet[j] /\ UpdatesAnswered(j)
      BY <1>1, <1>4, <2>2 DEF MLFresh
    <3>2. QED
      BY <1>3, <3>1 DEF UpdatesAnswered
  <2>3. QED
    BY <1>1, <1>2, <2>1, <2>2
<1>5. ASSUME a = 0, NEW i \in DOMAIN ml'.rows PROVE NowOrLater(0, ml.rows[i])'
  <2>1. PICK r : r = ml.rows[i]
    OBVIOUS
  <2>2. NowOrLater(0, r)'
    BY <1>3, <1>5, <2>1 DEF MLFresh
  <2>3. QED
    BY <2>1, <2>2
<1>6. QED
  BY <1>4, <1>5 DEF MLFresh

MLServes(i, e) ==
  LET q == mlNet[i]  found == MerchantsFound(mlStore, q.search) IN
  /\ mlNet' = [mlNet EXCEPT ![i] = e] /\ UNCHANGED <<ml, mlDue>>
  /\ ~q.served /\ e.served /\ e.kind = q.kind
  /\ \A j \in 1..(i - 1) : mlNet[j].served
  /\ IsFetch(q) => /\ UNCHANGED mlStore
                   /\ e.more = q.more /\ e.page = q.page /\ e.search = q.search
                   /\ e.items = PageOf(found, q.page) /\ e.pages = Pages(found)
  /\ q.kind = "update" => /\ mlStore' = [mlStore EXCEPT ![q.id] = [@ EXCEPT !.edited = TRUE]]
                          /\ e.id = q.id /\ e.row = MerchantRow(mlStore', q.id)

LEMMA CalmMerchantServe ==
  ASSUME MLTyped, NEW i \in DOMAIN mlNet, MLServe(i), mlCalm'
  PROVE  mlCalm /\ \E e : MLServes(i, e)
<1> DEFINE q == mlNet[i]
<1>1. /\ mlCalm /\ ~q.served /\ (\A j \in 1..(i - 1) : mlNet[j].served) /\ UNCHANGED <<ml, mlDue>>
  BY DEF MLServe
<1>2. q.kind \in {"fetch", "update", "move"}
  BY MLRequestIs
<1>3. CASE q.kind = "fetch"
  <2> DEFINE found == MerchantsFound(mlStore, q.search)
             items == PageOf(found, q.page)
             pages == Pages(found)
             e == [q EXCEPT !.served = TRUE, !.items = items, !.pages = pages]
  <2>1. q \in MLFetches
    BY <1>3, MLRequestIs
  <2>2. mlNet' = [mlNet EXCEPT ![i] = e] /\ UNCHANGED mlStore
    BY <1>3, MerchantServed
  <2> HIDE DEF items, pages
  <2>3. /\ e.served /\ e.kind = q.kind /\ e.more = q.more /\ e.page = q.page /\ e.search = q.search
        /\ e.items = items /\ e.pages = pages
    BY <2>1 DEF MLFetches
  <2> HIDE DEF e
  <2>4. MLServes(i, e)
    BY <1>1, <1>3, <2>2, <2>3 DEF MLServes, items, pages
  <2>5. QED
    BY <1>1, <2>4
<1>4. CASE q.kind = "update"
  <2>1. q \in MLUpdates
    BY <1>4, MLRequestIs
  <2>2. PICK row : row = MerchantRow(mlStore', q.id)
    OBVIOUS
  <2> DEFINE e == [q EXCEPT !.served = TRUE, !.row = row]
  <2>3. /\ mlNet' = [mlNet EXCEPT ![i] = e]
        /\ mlStore' = [mlStore EXCEPT ![q.id] = [@ EXCEPT !.edited = TRUE]]
    BY <1>4, <2>2, MerchantServed
  <2>4. e.served /\ e.kind = q.kind /\ e.id = q.id /\ e.row = row
    BY <2>1 DEF MLUpdates
  <2> HIDE DEF e
  <2>5. MLServes(i, e)
    BY <1>1, <1>4, <2>2, <2>3, <2>4 DEF MLServes, IsFetch
  <2>6. QED
    BY <1>1, <2>5
<1>5. CASE q.kind = "move"
  <2> DEFINE e == [q EXCEPT !.served = TRUE]
  <2>1. q \in MLMoves
    BY <1>5, MLRequestIs
  <2>2. mlNet' = [mlNet EXCEPT ![i] = e]
    BY <1>5, MerchantServed
  <2>3. e.served /\ e.kind = q.kind
    BY <2>1 DEF MLMoves
  <2> HIDE DEF e
  <2>4. MLServes(i, e)
    BY <1>1, <1>5, <2>2, <2>3 DEF MLServes, IsFetch
  <2>5. QED
    BY <1>1, <2>4
<1>6. QED
  BY <1>2, <1>3, <1>4, <1>5

LEMMA MerchantsFoundSame ==
  ASSUME NEW s \in [Merchants -> MLStored], NEW t \in [Merchants -> MLStored],
         \A m \in Merchants : s[m].group = t[m].group, NEW search
  PROVE  SameIds(MerchantsFound(s, search), MerchantsFound(t, search))
<1> DEFINE r == [m \in Merchants |-> MerchantRow(s, m)]
           u == [m \in Merchants |-> MerchantRow(t, m)]
           I == {m \in Merchants : /\ search.term # None => m = 1
                                   /\ search.group # None => s[m].group = search.group}
           J == {m \in Merchants : /\ search.term # None => m = 1
                                   /\ search.group # None => t[m].group = search.group}
<1>1. MerchantCount \in Nat /\ Merchants = 1..MerchantCount
  BY MerchantsAssumption DEF Merchants
<1>2. \A m \in Merchants : MerchantRow(s, m) \in MLRows /\ MerchantRow(t, m) \in MLRows
  BY MerchantRows
<1>3. r \in Seq(MLRows) /\ u \in Seq(MLRows) /\ DOMAIN r = Merchants /\ DOMAIN u = Merchants
  BY <1>1, <1>2
<1>4. \A m \in Merchants : r[m].id = u[m].id
  BY DEF MerchantRow
<1>5. I = J /\ I \in SUBSET Merchants
  OBVIOUS
<1>6. MerchantsFound(s, search) = Filtered(r, I) /\ MerchantsFound(t, search) = Filtered(u, J)
  BY DEF MerchantsFound
<1> HIDE DEF I, J, r, u
<1> DEFINE m == Cardinality(I)
           v == Filtered(r, I)
           w == Filtered(u, I)
<1>7. I \in SUBSET DOMAIN r /\ I \in SUBSET DOMAIN u
  BY <1>3, <1>5
<1>8. Len(v) = m /\ \A j \in 1..m : Place(I, j) \in I /\ v[j] = r[Place(I, j)]
  BY <1>3, <1>7, FilterKeeps
<1>9. Len(w) = m /\ \A j \in 1..m : Place(I, j) \in I /\ w[j] = u[Place(I, j)]
  BY <1>3, <1>7, FilterKeeps
<1> HIDE DEF v, w, m
<1>10. SameIds(v, w)
  BY <1>4, <1>5, <1>8, <1>9 DEF SameIds
<1>11. QED
  BY <1>5, <1>6, <1>10 DEF v, w

LEMMA MLFreshServed ==
  ASSUME MLTyped, ServedInOrder(mlNet), NEW a, MLFresh(a), ~Moving, NEW i \in DOMAIN mlNet, NEW e,
         MLServes(i, e)
  PROVE  MLFresh(a)'
<1> DEFINE q == mlNet[i]
<1>1. /\ mlNet' = [mlNet EXCEPT ![i] = e] /\ UNCHANGED <<ml, mlDue>>
      /\ ~q.served /\ e.served /\ e.kind = q.kind /\ \A j \in 1..(i - 1) : mlNet[j].served
  BY DEF MLServes
<1>2. /\ DOMAIN mlNet' = DOMAIN mlNet /\ DOMAIN mlNet = 1..Len(mlNet) /\ Len(mlNet) \in Nat
      /\ \A j \in DOMAIN mlNet : mlNet'[j] = IF j = i THEN e ELSE mlNet[j]
      /\ \A j \in DOMAIN mlNet : mlNet'[j].served <=> j <= i
  BY <1>1, MLNet, OrderServed
<1>3. q.kind \in {"fetch", "update"}
  BY MLRequestIs DEF Moving
<1>4. mlStore \in [Merchants -> MLStored]
  BY DEF MLTyped
<1>5. \/ q.kind = "fetch" /\ mlStore' = mlStore
      \/ q.kind = "update" /\ e.id = q.id /\ e.row = MerchantRow(mlStore', q.id) /\ q.id \in Merchants
         /\ mlStore' = [mlStore EXCEPT ![q.id] = [@ EXCEPT !.edited = TRUE]]
  BY <1>3, MLRequestIs DEF MLServes, MLUpdates, IsFetch
<1>6. ASSUME NEW id \in Merchants, ~(q.kind = "update" /\ q.id = id)
      PROVE  MerchantRow(mlStore', id) = MerchantRow(mlStore, id)
  <2>1. mlStore'[id] = mlStore[id]
    BY <1>4, <1>5, <1>6
  <2>2. QED
    BY <2>1 DEF MerchantRow
<1>7. ASSUME NEW j \in Nat, j < i, NEW r, r.id \in Merchants, NowOrLater(j, r) PROVE NowOrLater(j, r)'
  <2>1. CASE \E k \in DOMAIN mlNet : k > j /\ mlNet[k].served /\ mlNet[k].kind = "update" /\ mlNet[k].id = r.id
    <3>1. PICK k \in DOMAIN mlNet : k > j /\ mlNet[k].served /\ mlNet[k].kind = "update" /\ mlNet[k].id = r.id
      BY <2>1
    <3>2. k \in DOMAIN mlNet' /\ mlNet'[k] = mlNet[k]
      BY <1>1, <1>2, <3>1
    <3>3. QED
      BY <3>1, <3>2 DEF NowOrLater
  <2>2. CASE r = MerchantRow(mlStore, r.id)
    <3>1. CASE q.kind = "update" /\ q.id = r.id
      <4>1. i \in DOMAIN mlNet' /\ mlNet'[i] = e /\ i > j /\ e.kind = "update" /\ e.id = r.id
        BY <1>1, <1>2, <1>5, <1>7, <3>1
      <4>2. QED
        BY <1>1, <4>1 DEF NowOrLater
    <3>2. CASE ~(q.kind = "update" /\ q.id = r.id)
      BY <1>6, <1>7, <2>2, <3>2 DEF NowOrLater
    <3>3. QED
      BY <3>1, <3>2
  <2>3. QED
    BY <1>7, <2>1, <2>2 DEF NowOrLater
<1>8. ASSUME NEW j \in DOMAIN mlNet', j >= a, j < i PROVE UpdatesAnswered(j)'
  <2>1. PICK p : p = mlNet[j]
    OBVIOUS
  <2>2. j \in DOMAIN mlNet /\ j \in Nat /\ mlNet'[j] = p /\ UpdatesAnswered(j) /\ p.served
    BY <1>1, <1>2, <1>8, <2>1 DEF MLFresh
  <2>3. \A r : r \in MLRows /\ NowOrLater(j, r) => NowOrLater(j, r)'
    BY <1>7, <1>8, <2>2 DEF MLRows
  <2>4. p.kind = "fetch" => p.items \in Seq(MLRows)
    BY <2>1, <2>2, MLRequestIs DEF MLFetches
  <2>5. p.kind = "update" => p.row \in MLRows
    BY <2>1, <2>2, MLRequestIs DEF UpdateServed
  <2>6. /\ p.kind = "fetch" => \A h \in DOMAIN p.items : NowOrLater(j, p.items[h])
        /\ p.kind = "update" => NowOrLater(j, p.row)
    BY <2>1, <2>2 DEF UpdatesAnswered
  <2>7. /\ p.kind = "fetch" => \A h \in DOMAIN p.items : NowOrLater(j, p.items[h])'
        /\ p.kind = "update" => NowOrLater(j, p.row)'
    BY <2>3, <2>4, <2>5, <2>6
  <2>8. QED
    BY <2>2, <2>7 DEF UpdatesAnswered
<1>9. UpdatesAnswered(i)'
  <2>1. mlNet'[i] = e
    BY <1>2
  <2>2. ASSUME q.kind = "fetch", NEW h \in DOMAIN e.items PROVE NowOrLater(i, e.items[h])'
    <3> DEFINE found == MerchantsFound(mlStore, q.search)
    <3>1. q.page \in Nat \ {0} /\ e.items = PageOf(found, q.page) /\ mlStore' = mlStore
      BY <2>2, MLRequestIs DEF MLServes, MLFetches, IsFetch
    <3>2. found \in Seq(MLRows) /\ Apart(found) /\ \A k \in DOMAIN found : found[k] = MerchantRow(mlStore, found[k].id)
      BY <1>4, MerchantRows
    <3> HIDE DEF found
    <3>3. PICK k \in DOMAIN found : e.items[h] = found[k]
      BY <2>2, <3>1, <3>2, PageApart
    <3>4. QED
      BY <3>1, <3>2, <3>3 DEF NowOrLater
  <2>3. ASSUME q.kind = "update" PROVE NowOrLater(i, e.row)'
    <3>1. e.row = MerchantRow(mlStore', q.id)
      BY <1>5, <2>3
    <3>2. e.row.id = q.id
      BY <3>1 DEF MerchantRow
    <3>3. QED
      BY <3>1, <3>2 DEF NowOrLater
  <2>4. QED
    BY <1>1, <2>1, <2>2, <2>3 DEF UpdatesAnswered
<1>10. ASSUME NEW j \in DOMAIN mlNet', j >= a PROVE UpdatesAnswered(j)'
  <2>1. CASE j < i
    BY <1>8, <1>10, <2>1
  <2>2. CASE j = i
    BY <1>9, <2>2
  <2>3. CASE i < j
    <3>1. ~mlNet'[j].served
      BY <1>2, <2>3
    <3>2. QED
      BY <3>1 DEF UpdatesAnswered
  <2>4. QED
    BY <1>2, <2>1, <2>2, <2>3
<1>11. ASSUME a = 0, NEW h \in DOMAIN ml'.rows PROVE NowOrLater(0, ml.rows[h])'
  <2>1. PICK r : r = ml.rows[h]
    OBVIOUS
  <2>2. r \in MLRows /\ NowOrLater(0, r) /\ ml'.rows[h] = r
    BY <1>1, <1>11, <2>1 DEF MLFresh, MLTyped, MLHookTyped, MLStates, ListStates
  <2>3. r.id \in Merchants /\ 0 < i
    BY <1>2, <2>2 DEF MLRows
  <2>4. NowOrLater(0, r)'
    BY <1>7, <2>2, <2>3
  <2>5. QED
    BY <2>2, <2>4
<1>12. QED
  BY <1>10, <1>11 DEF MLFresh

MLAnswers ==
  LET q == mlNet[1] IN
  /\ 1 \in DOMAIN mlNet /\ q.served /\ q.kind \in {"fetch", "update"} /\ mlNet' = RemoveAt(mlNet, 1)
  /\ UNCHANGED <<mlStore, mlDue>> /\ mlDue = 0
  /\ ml' = IF IsFetch(q) THEN Fetched(ml, q) ELSE MerchantUpdated(ml, q)

LEMMA MerchantsAnswered ==
  ASSUME MLTyped, MLAnswers
  PROVE  LET q == mlNet[1] IN
         /\ ml.rows \in Seq(MLRows) /\ ml'.on = ml.on /\ ml'.search = ml.search
         /\ IsFetch(q) =>
              /\ q \in MLFetches /\ q.items \in Seq(MLRows)
              /\ ml'.rows = IF q.more THEN Merged(ml.rows, q.items) ELSE q.items
              /\ ml'.page = q.page /\ (ml'.hasMore <=> q.page < q.pages)
         /\ ~IsFetch(q) =>
              /\ q \in MLUpdates /\ q.row \in MLRows /\ q.row.id = q.id
              /\ ml'.page = ml.page /\ ml'.hasMore = ml.hasMore
              /\ DOMAIN ml'.rows = DOMAIN ml.rows /\ Len(ml'.rows) = Len(ml.rows)
              /\ \A h \in DOMAIN ml.rows :
                   ml'.rows[h] = IF ml.rows[h].id = q.row.id THEN q.row ELSE ml.rows[h]
<1> DEFINE q == mlNet[1]
<1>1. /\ q.kind = "fetch" => q \in MLFetches
      /\ q.kind = "update" => q \in MLUpdates
      /\ UpdateServed(q) /\ q.served /\ q.kind \in {"fetch", "update"}
  BY MLRequestIs DEF MLAnswers
<1> DEFINE X == MerchantSearches \cup {None}
<1>2. ml \in ListStates(X, MLRows) /\ ml.rows \in Seq(MLRows)
  BY DEF MLTyped, MLHookTyped, MLStates, ListStates
<1> HIDE DEF X
<1>3. ASSUME IsFetch(q)
      PROVE  /\ ml'.on = ml.on /\ ml'.search = ml.search /\ q.items \in Seq(MLRows)
             /\ ml'.rows = IF q.more THEN Merged(ml.rows, q.items) ELSE q.items
             /\ ml'.page = q.page /\ (ml'.hasMore <=> q.page < q.pages)
  <2>1. q.more \in BOOLEAN /\ q.items \in Seq(MLRows) /\ q.page \in Nat \ {0}
    BY <1>1, <1>3 DEF MLFetches, IsFetch
  <2>2. ml' = Fetched(ml, q)
    BY <1>3 DEF MLAnswers
  <2>3. ml'.rows = (IF q.more THEN Merged(ml.rows, q.items) ELSE q.items) /\ ml'.page = q.page
        /\ (ml'.hasMore <=> q.page < q.pages)
    BY <1>2, <2>1, <2>2, FetchedTyped
  <2>4. ml'.on = ml.on /\ ml'.search = ml.search
    BY <1>2, <2>2 DEF Fetched, ListStates
  <2>5. QED
    BY <2>1, <2>3, <2>4
<1>4. ASSUME ~IsFetch(q)
      PROVE  /\ q \in MLUpdates /\ q.row \in MLRows /\ q.row.id = q.id
             /\ ml'.on = ml.on /\ ml'.search = ml.search
             /\ ml'.page = ml.page /\ ml'.hasMore = ml.hasMore
             /\ DOMAIN ml'.rows = DOMAIN ml.rows /\ Len(ml'.rows) = Len(ml.rows)
             /\ \A h \in DOMAIN ml.rows :
                  ml'.rows[h] = IF ml.rows[h].id = q.row.id THEN q.row ELSE ml.rows[h]
  <2>1. q \in MLUpdates /\ q.row \in MLRows /\ q.row.id = q.id
    BY <1>1, <1>4 DEF UpdateServed, IsFetch
  <2>2. PICK row \in MLRows : row = q.row
    BY <2>1
  <2> DEFINE k == RowReplaced(ml, row)
  <2>3. /\ k \in ListStates(X, MLRows) /\ DOMAIN k.rows = DOMAIN ml.rows
        /\ \A h \in DOMAIN ml.rows : k.rows[h] = IF ml.rows[h].id = row.id THEN row ELSE ml.rows[h]
    BY <1>2, ReplacedTyped
  <2>4. k.on = ml.on /\ k.search = ml.search /\ k.page = ml.page /\ k.hasMore = ml.hasMore
    BY <1>2 DEF RowReplaced, ListStates
  <2> HIDE DEF k
  <2>5. ml' = [k EXCEPT !.loading = FALSE, !.error = FALSE]
    BY <1>4, <2>2 DEF MLAnswers, MerchantUpdated, k
  <2>6. /\ ml'.rows = k.rows /\ ml'.on = k.on /\ ml'.search = k.search /\ ml'.page = k.page
        /\ ml'.hasMore = k.hasMore
    BY <2>3, <2>5 DEF ListStates
  <2>7. Len(k.rows) = Len(ml.rows)
    BY <1>2, <2>3 DEF ListStates
  <2>8. QED
    BY <2>1, <2>2, <2>3, <2>4, <2>6, <2>7
<1>5. QED
  BY <1>2, <1>3, <1>4, <1>1 DEF IsFetch

LEMMA MLFreshAnswered ==
  ASSUME MLTyped, NEW a \in Nat, MLFresh(a), MLAnswers, a = 1 => IsFetch(mlNet[1]) /\ ~mlNet[1].more
  PROVE  MLFresh(IF a = 0 THEN 0 ELSE a - 1)'
<1> DEFINE q == mlNet[1]
           n == Len(mlNet)
           b == IF a = 0 THEN 0 ELSE a - 1
<1>1. /\ n \in Nat \ {0} /\ DOMAIN mlNet = 1..n /\ DOMAIN mlNet' = 1..(n - 1)
      /\ \A j \in 1..(n - 1) : mlNet'[j] = mlNet[j + 1]
  <2>1. IsNet(mlNet) /\ 1 \in DOMAIN mlNet /\ mlNet' = RemoveAt(mlNet, 1)
    BY MLNet DEF MLAnswers
  <2>2. QED
    BY <2>1, LastRemoved
<1>2. q.served /\ q.kind \in {"fetch", "update"} /\ UNCHANGED mlStore
  BY DEF MLAnswers
<1> HIDE DEF n
<1>3. \A j \in 1..(n - 1) : j + 1 \in 1..n
  BY <1>1
<1>4. ASSUME NEW j \in Nat, NEW r, NowOrLater(j + 1, r) PROVE NowOrLater(j, r)'
  <2>1. CASE r = MerchantRow(mlStore, r.id)
    BY <1>2, <2>1 DEF NowOrLater
  <2>2. CASE \E k \in DOMAIN mlNet : k > j + 1 /\ mlNet[k].served /\ mlNet[k].kind = "update" /\ mlNet[k].id = r.id
    <3>1. PICK k \in DOMAIN mlNet : k > j + 1 /\ mlNet[k].served /\ mlNet[k].kind = "update" /\ mlNet[k].id = r.id
      BY <2>2
    <3> DEFINE h == k - 1
    <3>2. h \in 1..(n - 1) /\ h > j /\ h + 1 = k
      BY <1>1, <3>1
    <3> HIDE DEF h
    <3>3. h \in DOMAIN mlNet' /\ mlNet'[h] = mlNet[k]
      BY <1>1, <3>2
    <3>4. QED
      BY <3>1, <3>2, <3>3 DEF NowOrLater
  <2>3. QED
    BY <1>4, <2>1, <2>2 DEF NowOrLater
<1>5. ASSUME NEW r, NowOrLater(0, r), ~IsFetch(q) => q.id # r.id PROVE NowOrLater(0, r)'
  <2>1. CASE r = MerchantRow(mlStore, r.id)
    BY <1>2, <2>1 DEF NowOrLater
  <2>2. CASE \E k \in DOMAIN mlNet : k > 0 /\ mlNet[k].served /\ mlNet[k].kind = "update" /\ mlNet[k].id = r.id
    <3>1. PICK k \in DOMAIN mlNet : k > 0 /\ mlNet[k].served /\ mlNet[k].kind = "update" /\ mlNet[k].id = r.id
      BY <2>2
    <3>2. k # 1
      BY <1>5, <3>1 DEF IsFetch
    <3>3. k > 0 + 1
      BY <1>1, <3>1, <3>2
    <3>4. NowOrLater(0 + 1, r)
      BY <3>1, <3>3 DEF NowOrLater
    <3>5. QED
      BY <1>4, <3>4
  <2>3. QED
    BY <1>5, <2>1, <2>2 DEF NowOrLater
<1>6. ASSUME NEW j \in DOMAIN mlNet', j >= b PROVE UpdatesAnswered(j)'
  <2>1. PICK k : k = j + 1
    OBVIOUS
  <2>2. k \in DOMAIN mlNet /\ mlNet'[j] = mlNet[k] /\ j \in Nat /\ k >= a
    BY <1>1, <1>3, <1>6, <2>1
  <2>3. PICK p : p = mlNet[k]
    OBVIOUS
  <2>4. /\ mlNet'[j] = p
        /\ p.served =>
             /\ p.kind = "fetch" => \A i \in DOMAIN p.items : NowOrLater(k, p.items[i])
             /\ p.kind = "update" => NowOrLater(k, p.row)
    BY <2>2, <2>3 DEF MLFresh, UpdatesAnswered
  <2>5. \A r : NowOrLater(k, r) => NowOrLater(j, r)'
    BY <1>4, <2>1, <2>2
  <2>6. QED
    BY <2>4, <2>5 DEF UpdatesAnswered
<1>7. ASSUME b = 0, NEW h \in DOMAIN ml'.rows PROVE NowOrLater(0, ml.rows[h])'
  <2>0. PICK r : r = ml'.rows[h]
    OBVIOUS
  <2>1. ASSUME 1 >= a, q.kind = "fetch", NEW k \in DOMAIN q.items, r = q.items[k] PROVE NowOrLater(0, r)'
    <3>1. NowOrLater(0 + 1, r)
      BY <1>1, <1>2, <2>1 DEF MLFresh, UpdatesAnswered
    <3>2. QED
      BY <1>4, <3>1
  <2>2. a \in {0, 1} /\ 1 >= a
    BY <1>7
  <2>3. NowOrLater(0, r)'
    <3>1. CASE IsFetch(q) /\ ~q.more
      <4>1. q.items \in Seq(MLRows) /\ ml'.rows = q.items
        BY <3>1, MerchantsAnswered
      <4>2. QED
        BY <1>7, <2>0, <2>1, <2>2, <3>1, <4>1 DEF IsFetch
    <3>2. CASE IsFetch(q) /\ q.more
      <4>1. a = 0
        BY <2>2, <3>2
      <4>2. /\ q.items \in Seq(MLRows) /\ ml.rows \in Seq(MLRows) /\ ml'.rows = Merged(ml.rows, q.items)
        BY <3>2, MerchantsAnswered
      <4>3. (\E k \in DOMAIN ml.rows : r = ml.rows[k]) \/ (\E k \in DOMAIN q.items : r = q.items[k])
        BY <1>7, <2>0, <4>2, MergedFrom
      <4>4. CASE \E k \in DOMAIN ml.rows : r = ml.rows[k]
        BY <1>5, <3>2, <4>1, <4>4 DEF MLFresh
      <4>5. CASE \E k \in DOMAIN q.items : r = q.items[k]
        BY <2>1, <2>2, <3>2, <4>5 DEF IsFetch
      <4>6. QED
        BY <4>3, <4>4, <4>5
    <3>3. CASE ~IsFetch(q)
      <4>1. a = 0 /\ q.kind = "update"
        BY <1>2, <2>2, <3>3 DEF IsFetch
      <4>2. /\ q.row \in MLRows /\ q.row.id = q.id /\ DOMAIN ml'.rows = DOMAIN ml.rows
            /\ r = IF ml.rows[h].id = q.row.id THEN q.row ELSE ml.rows[h]
        BY <1>7, <2>0, <3>3, MerchantsAnswered
      <4>3. CASE r = q.row
        <5>1. NowOrLater(0 + 1, r)
          BY <1>1, <1>2, <2>2, <4>1, <4>3 DEF MLFresh, UpdatesAnswered
        <5>2. QED
          BY <1>4, <5>1
      <4>4. CASE r # q.row
        <5>1. r = ml.rows[h] /\ q.id # r.id /\ NowOrLater(0, r)
          BY <1>7, <4>1, <4>2, <4>4 DEF MLFresh
        <5>2. QED
          BY <1>5, <5>1
      <4>5. QED
        BY <4>3, <4>4
    <3>4. QED
      BY <3>1, <3>2, <3>3
  <2>4. QED
    BY <2>0, <2>3
<1>8. MLFresh(b)'
  BY <1>6, <1>7 DEF MLFresh
<1>9. QED
  BY <1>8

-----------------------------------------------------------------------------
(* The steps that keep the order.                                            *)

MLSends(q) == mlNet' = Append(mlNet, q) /\ ~q.served /\ ml'.on # 0 /\ UNCHANGED mlStore

MLStarts(q) ==
  /\ MLSends(q) /\ IsFetch(q) /\ ~q.more /\ q.search = ml'.search /\ mlDue' = 0
  /\ q.page = 1 \/ (mlDue # 0 /\ q.page = ml.page)

MLGoesOn(q) ==
  /\ MLSends(q) /\ ml.on # 0 /\ ml'.search = ml.search /\ ml'.rows = ml.rows /\ mlDue' = mlDue
  /\ IF IsFetch(q)
     THEN q.more /\ q.page = ml.page + 1 /\ NoneSkipped(mlNet, q.page) /\ q.search = ml.search /\ mlDue = 0
     ELSE ml'.page = ml.page /\ ml'.hasMore = ml.hasMore

MLSearches ==
  /\ ml'.on # 0 /\ ml'.page = 1 /\ mlDue' # 0
  /\ mlNet' = mlNet \/ (1 \in DOMAIN mlNet /\ mlNet' = RemoveAt(mlNet, 1))

MLMovesOn ==
  /\ Moving' /\ UNCHANGED <<ml, mlDue>> /\ 1 \in DOMAIN mlNet
  /\ \E q : ~q.served /\ mlNet' = Append(RemoveAt(mlNet, 1), q)

MLIdles == UNCHANGED <<ml, mlDue, mlNet, mlStore>>

LEMMA MovingSent ==
  ASSUME MLTyped, NEW q, mlNet' = Append(mlNet, q)
  PROVE  Moving' <=> Moving \/ q.kind = "move"
<1> DEFINE n == Len(mlNet)
<1>1. /\ DOMAIN mlNet' = 1..(n + 1) /\ DOMAIN mlNet = 1..n /\ n \in Nat
      /\ (\A j \in 1..n : mlNet'[j] = mlNet[j]) /\ mlNet'[n + 1] = q
  BY MLNet, NetAppended DEF IsNet
<1> HIDE DEF n
<1>2. (\A j \in 1..(n + 1) : j \in 1..n \/ j = n + 1) /\ (\A j \in 1..n : j \in 1..(n + 1)) /\ n + 1 \in 1..(n + 1)
  BY <1>1
<1>3. QED
  BY <1>1, <1>2 DEF Moving

LEMMA MovingAnswered ==
  ASSUME MLTyped, 1 \in DOMAIN mlNet, mlNet[1].kind # "move", mlNet' = RemoveAt(mlNet, 1), Moving
  PROVE  Moving'
<1> DEFINE n == Len(mlNet)
<1>1. /\ n \in Nat \ {0} /\ DOMAIN mlNet = 1..n /\ DOMAIN mlNet' = 1..(n - 1)
      /\ \A j \in 1..(n - 1) : mlNet'[j] = mlNet[j + 1]
  BY MLNet, LastRemoved
<1> HIDE DEF n
<1>2. PICK k \in 1..n : mlNet[k].kind = "move"
  BY <1>1 DEF Moving
<1>3. k # 1
  BY <1>2
<1> DEFINE h == k - 1
<1>4. h \in 1..(n - 1) /\ h + 1 = k
  BY <1>1, <1>2, <1>3
<1> HIDE DEF h
<1>5. mlNet'[h] = mlNet[k]
  BY <1>1, <1>4
<1>6. QED
  BY <1>1, <1>2, <1>4, <1>5 DEF Moving

LEMMA MLTurnStarts ==
  ASSUME MLTyped, MLInOrder, NEW q, MLStarts(q)
  PROVE  MLInOrder'
<1> DEFINE found == MerchantsFound(mlStore, ml'.search)
           n == Len(mlNet)
<1>1. /\ IsNet(mlNet) /\ mlNet' = Append(mlNet, q) /\ ~q.served /\ mlStore' = mlStore /\ mlDue' = 0
      /\ IsFetch(q) /\ ~q.more /\ q.page = 1 /\ q.search = ml'.search
  BY MLNet DEF MLStarts, MLSends, MLInOrder
<1>2. ServedInOrder(mlNet')
  BY <1>1, OrderSent DEF MLInOrder
<1>3. PICK pg : InTurn(ml', Append(mlNet, q), found, n + 1, pg)
  BY <1>1, TurnBegins
<1>4. PICK a : a = n + 1
  OBVIOUS
<1>5. MLFresh(a)'
  <2>1. /\ DOMAIN mlNet' = 1..(n + 1) /\ n \in Nat /\ mlNet'[n + 1] = q
    BY <1>1, NetAppended DEF IsNet
  <2>2. a # 0 /\ \A j \in DOMAIN mlNet' : j >= a => ~mlNet'[j].served
    BY <1>1, <1>4, <2>1
  <2>3. QED
    BY <2>2 DEF MLFresh, UpdatesAnswered
<1>6. InTurn(ml', mlNet', MerchantsFound(mlStore', ml'.search), a, pg)
  BY <1>1, <1>3, <1>4
<1>7. MLTurn'
  BY <1>5, <1>6 DEF MLTurn
<1>8. QED
  BY <1>1, <1>2, <1>7 DEF MLInOrder

LEMMA MLTurnGoesOn ==
  ASSUME MLTyped, MLInOrder, NEW q, MLGoesOn(q)
  PROVE  MLInOrder'
<1> DEFINE found == MerchantsFound(mlStore, ml'.search)
<1>1. /\ IsNet(mlNet) /\ mlNet' = Append(mlNet, q) /\ ~q.served /\ mlStore' = mlStore /\ mlDue' = mlDue
      /\ ml.on # 0 /\ ml'.search = ml.search /\ ml'.rows = ml.rows
      /\ IF IsFetch(q)
         THEN q.more /\ q.page = ml.page + 1 /\ NoneSkipped(mlNet, q.page) /\ q.search = ml.search /\ mlDue = 0
         ELSE ml'.page = ml.page /\ ml'.hasMore = ml.hasMore
  BY MLNet DEF MLGoesOn, MLSends
<1>2. ServedInOrder(mlNet')
  BY <1>1, OrderSent DEF MLInOrder
<1>3. mlDue' # 0 => ml'.page = 1
  BY <1>1 DEF MLInOrder
<1>4. ASSUME mlDue' = 0, ~Moving' PROVE MLTurn'
  <2>1. ~Moving
    BY <1>1, <1>4, MovingSent
  <2>2. PICK a, pg : InTurn(ml, mlNet, MerchantsFound(mlStore, ml.search), a, pg) /\ MLFresh(a)
    BY <1>1, <1>4, <2>1 DEF MLInOrder, MLTurn
  <2>3. InTurn(ml, mlNet, found, a, pg)
    BY <1>1, <2>2
  <2>4. ml.page \in Nat \ {0}
    BY DEF MLTyped, MLHookTyped, MLStates, ListStates
  <2> HIDE DEF found
  <2>5. PICK pg2 : InTurn(ml', Append(mlNet, q), found, a, pg2)
    BY <1>1, <2>3, <2>4, TurnGoesOn
  <2>6. InTurn(ml', mlNet', MerchantsFound(mlStore', ml'.search), a, pg2)
    BY <1>1, <2>5 DEF found
  <2>7. MLFresh(a)'
    BY <1>1, <2>2, MLFreshSent
  <2>8. QED
    BY <2>6, <2>7 DEF MLTurn
<1>5. QED
  BY <1>2, <1>3, <1>4 DEF MLInOrder

LEMMA MLTurnServes ==
  ASSUME MLTyped, MLTyped', MLInOrder, NEW i \in DOMAIN mlNet, NEW e, MLServes(i, e)
  PROVE  MLInOrder'
<1> DEFINE q == mlNet[i]
           found == MerchantsFound(mlStore, ml.search)
           other == MerchantsFound(mlStore', ml.search)
<1>1. /\ IsNet(mlNet) /\ mlNet' = [mlNet EXCEPT ![i] = e] /\ UNCHANGED <<ml, mlDue>>
      /\ ~q.served /\ e.served /\ e.kind = q.kind /\ \A j \in 1..(i - 1) : mlNet[j].served
  BY MLNet DEF MLServes
<1>2. ServedInOrder(mlNet') /\ DOMAIN mlNet' = DOMAIN mlNet
      /\ \A j \in DOMAIN mlNet : mlNet'[j] = IF j = i THEN e ELSE mlNet[j]
  BY <1>1, OrderServed DEF MLInOrder
<1>3. ASSUME mlDue = 0, ml.on # 0, ~Moving' PROVE MLTurn'
  <2>1. ~Moving
    BY <1>1, <1>2, <1>3 DEF Moving
  <2>2. PICK a, pg : InTurn(ml, mlNet, found, a, pg) /\ MLFresh(a)
    BY <1>3, <2>1 DEF MLInOrder, MLTurn
  <2>3. MLFresh(a)'
    BY <2>1, <2>2, MLFreshServed DEF MLInOrder
  <2>4. mlStore \in [Merchants -> MLStored] /\ mlStore' \in [Merchants -> MLStored]
    BY DEF MLTyped
  <2>5. q.kind \in {"fetch", "update"}
    BY <2>1, MLRequestIs DEF Moving
  <2>6. \A m \in Merchants : mlStore[m].group = mlStore'[m].group
    <3> TAKE m \in Merchants
    <3>1. CASE q.kind = "fetch"
      BY <3>1 DEF MLServes, IsFetch
    <3>2. CASE q.kind = "update"
      <4>1. mlStore' = [mlStore EXCEPT ![q.id] = [@ EXCEPT !.edited = TRUE]] /\ q.id \in Merchants
        BY <3>2, MLRequestIs DEF MLServes, MLUpdates
      <4>2. mlStore[m] \in MLStored
        BY <2>4
      <4>3. mlStore'[m] = mlStore[m] \/ mlStore'[m] = [mlStore[m] EXCEPT !.edited = TRUE]
        BY <2>4, <4>1
      <4>4. QED
        BY <4>2, <4>3 DEF MLStored
    <3>3. QED
      BY <2>5, <3>1, <3>2
  <2>7. SameIds(found, other)
    BY <2>4, <2>6, MerchantsFoundSame
  <2>8. found \in Seq(MLRows) /\ other \in Seq(MLRows)
    BY <2>4, MerchantRows
  <2>9. ASSUME IsFetch(e)
        PROVE  /\ e.more = q.more /\ e.page = q.page /\ e.search = q.search
               /\ e.search = ml.search => SameIds(e.items, PageOf(other, e.page)) /\ e.pages = Pages(other)
    <3>1. /\ e.more = q.more /\ e.page = q.page /\ e.search = q.search /\ mlStore' = mlStore
          /\ e.items = PageOf(MerchantsFound(mlStore, q.search), q.page)
          /\ e.pages = Pages(MerchantsFound(mlStore, q.search))
      BY <1>1, <2>9 DEF MLServes, IsFetch
    <3>2. \A s : SameIds(s, s)
      BY DEF SameIds
    <3>3. QED
      BY <3>1, <3>2
  <2>10. IsFetch(e) <=> IsFetch(mlNet[i])
    BY <1>1 DEF IsFetch
  <2>11. \A j \in DOMAIN mlNet : IsFetch(mlNet[j]) => mlNet[j].page \in Nat \ {0}
    BY MLRequestIs DEF MLFetches, IsFetch
  <2> HIDE DEF found, other
  <2>12. InTurn(ml, [mlNet EXCEPT ![i] = e], other, a, pg)
    BY <1>1, <2>2, <2>7, <2>8, <2>9, <2>10, <2>11, TurnServed
  <2>13. InTurn(ml', mlNet', MerchantsFound(mlStore', ml'.search), a, pg)
    BY <1>1, <2>12 DEF other
  <2>14. QED
    BY <2>3, <2>13 DEF MLTurn
<1>4. QED
  BY <1>1, <1>2, <1>3 DEF MLInOrder

LEMMA MLTurnAnswered ==
  ASSUME MLTyped, MLInOrder, MLAnswers
  PROVE  MLInOrder'
<1> DEFINE q == mlNet[1]
           found == MerchantsFound(mlStore, ml.search)
<1>1. /\ IsNet(mlNet) /\ 1 \in DOMAIN mlNet /\ q.served /\ q.kind \in {"fetch", "update"}
      /\ mlNet' = RemoveAt(mlNet, 1) /\ mlDue = 0 /\ mlDue' = 0 /\ mlStore' = mlStore
  BY MLNet DEF MLAnswers
<1>2. ServedInOrder(mlNet')
  BY <1>1, OrderAnswered DEF MLInOrder
<1>3. ml'.on = ml.on /\ ml'.search = ml.search /\ ml.rows \in Seq(MLRows) /\ ml.on # 0
  BY <1>1, MerchantsAnswered, MLRequestIs
<1>4. ASSUME ~Moving' PROVE MLTurn'
  <2>1. ~Moving
    BY <1>1, <1>4, MovingAnswered
  <2>2. PICK a, pg : InTurn(ml, mlNet, found, a, pg) /\ MLFresh(a)
    BY <1>1, <1>3, <2>1 DEF MLInOrder, MLTurn
  <2>3. a \in Nat /\ (a = 1 => IsFetch(q) /\ ~q.more)
    BY <1>1, <2>2 DEF InTurn, Begins, IsNet
  <2> DEFINE b == IF a = 0 THEN 0 ELSE a - 1
  <2>4. MLFresh(b)'
    BY <2>2, <2>3, MLFreshAnswered
  <2>5. found \in Seq(MLRows) /\ Apart(found)
    BY MerchantRows DEF MLTyped
  <2>6. \E pg2 : InTurn(ml', RemoveAt(mlNet, 1), found, b, pg2)
    <3> HIDE DEF found
    <3>1. CASE IsFetch(q)
      <4>1. /\ q \in MLFetches /\ q.items \in Seq(MLRows)
            /\ ml'.rows = IF q.more THEN Merged(ml.rows, q.items) ELSE q.items
            /\ ml'.page = q.page /\ (ml'.hasMore <=> q.page < q.pages)
        BY <3>1, MerchantsAnswered
      <4>2. q.page \in Nat \ {0}
        BY <4>1 DEF MLFetches
      <4>3. QED
        BY <1>1, <1>3, <2>2, <2>5, <3>1, <4>1, <4>2, TurnFetched
    <3>2. CASE ~IsFetch(q)
      <4>1. /\ q.row.id = q.id /\ ml'.page = ml.page /\ ml'.hasMore = ml.hasMore
            /\ DOMAIN ml'.rows = DOMAIN ml.rows /\ Len(ml'.rows) = Len(ml.rows)
            /\ \A h \in DOMAIN ml.rows :
                 ml'.rows[h] = IF ml.rows[h].id = q.row.id THEN q.row ELSE ml.rows[h]
        BY <3>2, MerchantsAnswered
      <4>2. SameIds(ml'.rows, ml.rows)
        BY <1>3, <4>1 DEF SameIds
      <4>3. QED
        BY <1>1, <1>3, <2>2, <3>2, <4>1, <4>2, TurnReplaced
    <3>3. QED
      BY <3>1, <3>2
  <2>7. PICK pg2 : InTurn(ml', RemoveAt(mlNet, 1), found, b, pg2)
    BY <2>6
  <2> HIDE DEF b
  <2>8. InTurn(ml', mlNet', MerchantsFound(mlStore', ml'.search), b, pg2)
    BY <1>1, <1>3, <2>7
  <2>9. QED
    BY <2>4, <2>8 DEF MLTurn
<1>5. QED
  BY <1>1, <1>2, <1>4 DEF MLInOrder

LEMMA MLTurnElse ==
  ASSUME MLTyped, MLInOrder, MLSearches \/ MLMovesOn \/ MLIdles
  PROVE  MLInOrder'
<1>0. IsNet(mlNet)
  BY MLNet
<1>1. CASE MLSearches
  <2>1. ServedInOrder(mlNet')
    BY <1>0, <1>1, OrderAnswered DEF MLSearches, MLInOrder
  <2>2. QED
    BY <1>1, <2>1 DEF MLSearches, MLInOrder
<1>2. CASE MLMovesOn
  <2>1. PICK q : ~q.served /\ mlNet' = Append(RemoveAt(mlNet, 1), q)
    BY <1>2 DEF MLMovesOn
  <2>2. 1 \in DOMAIN mlNet /\ Moving' /\ UNCHANGED <<ml, mlDue>>
    BY <1>2 DEF MLMovesOn
  <2>3. IsNet(RemoveAt(mlNet, 1)) /\ ServedInOrder(RemoveAt(mlNet, 1))
    BY <1>0, <2>2, LastRemoved, OrderAnswered DEF MLInOrder
  <2>4. ServedInOrder(mlNet')
    BY <2>1, <2>3, OrderSent
  <2>5. QED
    BY <2>2, <2>4 DEF MLInOrder
<1>3. CASE MLIdles
  BY <1>3 DEF MLIdles, MLInOrder, Moving, MLTurn, MLFresh, UpdatesAnswered, NowOrLater
<1>4. QED
  BY <1>1, <1>2, <1>3

(* A step that leaves all in order is one of these.                          *)
LEMMA MLFetchSends ==
  ASSUME NEW l, NEW more, FetchMerchantsData(l, more)
  PROVE  \E q : IsFetch(q) /\ ~q.served /\ mlNet' = Append(mlNet, q)
                /\ q.more = more /\ q.page = PageToFetch(l, more) /\ q.search = l.search
<1> DEFINE q == [kind |-> "fetch", served |-> FALSE, search |-> l.search,
                 more |-> more, page |-> PageToFetch(l, more), items |-> << >>, pages |-> 1]
<1>1. mlNet' = Append(mlNet, q)
  BY DEF FetchMerchantsData, MLSend
<1>2. /\ q.kind = "fetch" /\ ~q.served /\ q.more = more /\ q.page = PageToFetch(l, more)
      /\ q.search = l.search
  OBVIOUS
<1> HIDE DEF q
<1>3. QED
  BY <1>1, <1>2 DEF IsFetch

LEMMA CalmMerchantFetch ==
  ASSUME NEW l \in MLStates, NEW more \in BOOLEAN, FetchMerchantsData(l, more), l.on # 0, UNCHANGED mlStore
  PROVE  \E q : MLSends(q) /\ IsFetch(q) /\ q.more = more /\ q.page = (IF more THEN l.page + 1 ELSE l.page)
                /\ q.search = l.search /\ ml'.search = l.search /\ ml'.rows = l.rows
<1>1. ml' = FetchBegun(l, more)
  BY DEF FetchMerchantsData, MLBecomes
<1>2. ml'.rows = l.rows /\ ml'.on = l.on /\ ml'.search = l.search
  BY <1>1 DEF FetchBegun, MLStates, ListStates
<1>3. PICK q : IsFetch(q) /\ ~q.served /\ mlNet' = Append(mlNet, q)
               /\ q.more = more /\ q.page = PageToFetch(l, more) /\ q.search = l.search
  BY MLFetchSends
<1>4. MLSends(q)
  BY <1>2, <1>3 DEF MLSends
<1>5. QED
  BY <1>2, <1>3, <1>4 DEF PageToFetch

LEMMA CalmMerchantSearch ==
  ASSUME MLTyped, ml.on # 0, mlDue = 0, NEW search, SetMerchantSearch(search),
         mlNet' = mlNet \/ (1 \in DOMAIN mlNet /\ mlNet' = RemoveAt(mlNet, 1))
  PROVE  MLSearches
<1>1. ml \in ListStates(MerchantSearches \cup {None}, MLRows)
  BY DEF MLTyped, MLHookTyped, MLStates
<1>2. ml' = SearchSet(ml, search) /\ mlDue' = mlDue + 1
  BY DEF SetMerchantSearch, MLBecomes
<1>3. ml'.on = ml.on /\ ml'.page = 1 /\ mlDue' # 0
  BY <1>1, <1>2 DEF SearchSet, ListStates
<1>4. QED
  BY <1>3 DEF MLSearches

MLCalmForm ==
  \/ \E q : MLStarts(q) \/ MLGoesOn(q)
  \/ MLSearches \/ MLMovesOn \/ MLIdles
  \/ MLAnswers
  \/ \E i \in DOMAIN mlNet : \E e : MLServes(i, e)

LEMMA CalmMerchantAnswer ==
  ASSUME MLTyped, NEW i \in DOMAIN mlNet, MLAnswer(i), mlCalm'
  PROVE  mlCalm /\ MLCalmForm
<1> DEFINE q == mlNet[i]
<1>1. mlCalm /\ i = 1 /\ mlDue = 0 /\ q.served /\ mlStore' = mlStore
  BY DEF MLAnswer
<1>2. ml.on # 0 /\ q.kind \in {"fetch", "update", "move"}
  BY MLRequestIs
<1>3. CASE q.kind \in {"fetch", "update"}
  <2>1. /\ mlNet' = RemoveAt(mlNet, i) /\ mlDue' = mlDue
        /\ ml' = IF q.kind = "fetch" THEN Fetched(ml, q) ELSE MerchantUpdated(ml, q)
    <3>1. CASE q.kind = "fetch"
      BY <3>1 DEF MLAnswer, MLBecomes
    <3>2. CASE q.kind = "update"
      BY <3>2 DEF MLAnswer, MLBecomes
    <3>3. QED
      BY <1>3, <3>1, <3>2
  <2>2. MLAnswers
    BY <1>1, <1>3, <2>1 DEF MLAnswers, IsFetch
  <2>3. QED
    BY <1>1, <2>2 DEF MLCalmForm
<1>4. CASE q.kind = "move"
  <2>1. MoveAnswered(i, q) /\ q \in MLMoves
    BY <1>4, MLRequestIs DEF MLAnswer
  <2>2. CASE Len(q.steps) > 1
    <3> DEFINE p == [q EXCEPT !.steps = Tail(@), !.served = FALSE]
    <3>1. mlNet' = Append(RemoveAt(mlNet, i), p) /\ UNCHANGED <<ml, mlDue>>
      BY <2>1, <2>2 DEF MoveAnswered
    <3>2. ~p.served /\ p.kind = "move"
      BY <1>4, <2>1 DEF MLMoves
    <3> HIDE DEF p
    <3>3. IsNet(RemoveAt(mlNet, 1))
      BY <1>1, MLNet, LastRemoved
    <3>4. Moving'
      <4> DEFINE s == RemoveAt(mlNet, 1)
                 n == Len(s)
      <4>1. DOMAIN Append(s, p) = 1..(n + 1) /\ n \in Nat /\ Append(s, p)[n + 1] = p
        BY <3>3, NetAppended DEF IsNet
      <4>2. n + 1 \in 1..(n + 1)
        BY <4>1
      <4> HIDE DEF n
      <4>3. n + 1 \in DOMAIN mlNet' /\ mlNet'[n + 1] = p
        BY <1>1, <3>1, <4>1, <4>2
      <4>4. QED
        BY <3>2, <4>3 DEF Moving
    <3>5. MLMovesOn
      BY <1>1, <3>1, <3>2, <3>4 DEF MLMovesOn
    <3>6. QED
      BY <1>1, <3>5 DEF MLCalmForm
  <2>3. CASE ~(Len(q.steps) > 1)
    <3>1. SetMerchantSearch(q.search) /\ mlNet' = RemoveAt(mlNet, i)
      BY <2>1, <2>3 DEF MoveAnswered
    <3>2. MLSearches
      BY <1>1, <1>2, <3>1, CalmMerchantSearch
    <3>3. QED
      BY <1>1, <3>2 DEF MLCalmForm
  <2>4. QED
    BY <2>2, <2>3
<1>5. QED
  BY <1>2, <1>3, <1>4

LEMMA CalmMerchantEdit ==
  ASSUME MLTyped, UpdateMerchant \/ UpdateMerchantGroup, mlCalm'
  PROVE  mlCalm /\ MLCalmForm
<1>1. ml.on # 0
  <2>1. \E h \in DOMAIN mlShown : TRUE
    <3>1. CASE UpdateMerchant
      BY <3>1 DEF UpdateMerchant
    <3>2. CASE UpdateMerchantGroup
      BY <3>2, Zenon DEF UpdateMerchantGroup
    <3>3. QED
      BY <3>1, <3>2
  <2>2. mlShown # << >>
    BY <2>1
  <2>3. QED
    BY <2>2, MLOpened
<1>2. ml \in ListStates(MerchantSearches \cup {None}, MLRows)
  BY DEF MLTyped, MLHookTyped, MLStates
<1>3. CASE UpdateMerchant
  <2>1. PICK h \in DOMAIN mlShown :
          /\ MLBecomes([ml EXCEPT !.loading = TRUE, !.error = FALSE])
          /\ MLSend([kind |-> "update", served |-> FALSE, id |-> mlShown[h].id, row |-> None])
          /\ UNCHANGED <<mlDue, mlStore, mlCalm>>
    BY <1>3 DEF UpdateMerchant
  <2> DEFINE q == [kind |-> "update", served |-> FALSE, id |-> mlShown[h].id, row |-> None]
  <2>2. mlNet' = Append(mlNet, q) /\ ml' = [ml EXCEPT !.loading = TRUE, !.error = FALSE]
    BY <2>1 DEF MLSend, MLBecomes
  <2>3. ~q.served /\ ~IsFetch(q)
    BY DEF IsFetch
  <2> HIDE DEF q
  <2>4. ml'.on = ml.on /\ ml'.search = ml.search /\ ml'.rows = ml.rows /\ ml'.page = ml.page /\ ml'.hasMore = ml.hasMore
    BY <1>2, <2>2 DEF ListStates
  <2>5. MLGoesOn(q)
    BY <1>1, <2>1, <2>2, <2>3, <2>4 DEF MLGoesOn, MLSends
  <2>6. QED
    BY <2>1, <2>5 DEF MLCalmForm
<1>4. CASE UpdateMerchantGroup
  <2>1. PICK h \in DOMAIN mlShown, g \in Groups \cup {None} :
          LET id    == mlShown[h].id
              row   == CHOOSE r \in ToSet(ml.rows) : r.id = id
              steps == GroupSteps(row.group, g)
          IN  /\ mlCalm
              /\ IF steps = << >>
                 THEN mlDue = 0 /\ SetMerchantSearch(ml.search) /\ UNCHANGED mlNet
                 ELSE /\ MLSend([kind |-> "move", served |-> FALSE, id |-> id, from |-> row.group,
                                 to |-> g, steps |-> steps, search |-> ml.search])
                      /\ UNCHANGED <<ml, mlDue>>
              /\ UNCHANGED mlStore
    BY <1>4 DEF UpdateMerchantGroup
  <2> DEFINE id    == mlShown[h].id
             row   == CHOOSE r \in ToSet(ml.rows) : r.id = id
             steps == GroupSteps(row.group, g)
             q     == [kind |-> "move", served |-> FALSE, id |-> id, from |-> row.group,
                       to |-> g, steps |-> steps, search |-> ml.search]
  <2>2. /\ mlCalm
        /\ IF steps = << >>
           THEN mlDue = 0 /\ SetMerchantSearch(ml.search) /\ UNCHANGED mlNet
           ELSE MLSend(q) /\ UNCHANGED <<ml, mlDue>>
        /\ UNCHANGED mlStore
    BY <2>1
  <2>3. ~q.served /\ ~IsFetch(q)
    BY DEF IsFetch
  <2> HIDE DEF q, steps
  <2>4. CASE steps = << >>
    <3>1. MLSearches
      BY <1>1, <2>2, <2>4, CalmMerchantSearch
    <3>2. QED
      BY <2>2, <3>1 DEF MLCalmForm
  <2>5. CASE steps # << >>
    <3>1. mlNet' = Append(mlNet, q) /\ UNCHANGED <<ml, mlDue, mlStore>>
      BY <2>2, <2>5 DEF MLSend
    <3>2. MLGoesOn(q)
      BY <1>1, <2>3, <3>1 DEF MLGoesOn, MLSends
    <3>3. QED
      BY <2>2, <3>2 DEF MLCalmForm
  <2>6. QED
    BY <2>4, <2>5
<1>5. QED
  BY <1>3, <1>4

LEMMA CalmMerchantForms ==
  ASSUME MLTyped, [MLNext]_mlVars, mlCalm'
  PROVE  mlCalm /\ MLCalmForm
<1>0. ml \in MLStates /\ mlDue \in 0..1
  BY DEF MLTyped, MLHookTyped
<1>1. CASE MLOpen
  <2>1. FetchMerchantsData(Mounted(1, NoSearch, None), FALSE) /\ mlCalm /\ mlDue' = 0 /\ UNCHANGED mlStore
    BY <1>1 DEF MLOpen, MLTyped
  <2>2. PICK l : l = Mounted(1, NoSearch, None)
    OBVIOUS
  <2>3. l \in MLStates /\ l.on # 0 /\ l.page = 1 /\ l.search = NoSearch
    <3>1. NoSearch \in MerchantSearches \cup {None}
      BY DEF NoSearch, MerchantSearches, Terms, GroupsSought
    <3>2. l \in MLStates
      BY <2>2, <3>1, MountedTyped DEF MLStates
    <3>3. QED
      BY <2>2, <3>2 DEF Mounted
  <2>4. PICK more \in BOOLEAN : more = FALSE
    OBVIOUS
  <2>5. PICK q : MLSends(q) /\ IsFetch(q) /\ q.more = more /\ q.page = (IF more THEN l.page + 1 ELSE l.page)
                 /\ q.search = l.search /\ ml'.search = l.search
    BY <2>1, <2>2, <2>3, <2>4, CalmMerchantFetch
  <2>6. MLStarts(q)
    BY <2>1, <2>3, <2>4, <2>5 DEF MLStarts
  <2>7. QED
    BY <2>1, <2>6 DEF MLCalmForm
<1>2. CASE SubmitSearchTerm
  <2>1. mlCalm /\ mlDue = 0 /\ mlTyped # None /\ SetMerchantSearch(mlTyped) /\ mlNet' = mlNet
    BY <1>2 DEF SubmitSearchTerm
  <2>2. ml.on # 0
    BY <2>1 DEF MLTyped
  <2>3. MLSearches
    BY <2>1, <2>2, CalmMerchantSearch
  <2>4. QED
    BY <2>1, <2>3 DEF MLCalmForm
<1>3. CASE UpdateMerchantGroupFilter
  <2>1. PICK g \in GroupsSought : mlCalm /\ mlDue = 0 /\ ml.on # 0 /\ mlNet' = mlNet
                                  /\ SetMerchantSearch([ml.search EXCEPT !.group = g])
    BY <1>3 DEF UpdateMerchantGroupFilter
  <2>2. MLSearches
    BY <2>1, CalmMerchantSearch
  <2>3. QED
    BY <2>1, <2>2 DEF MLCalmForm
<1>4. CASE ClearAllFilters
  <2>1. mlCalm /\ mlDue = 0 /\ ml.on # 0 /\ mlNet' = mlNet /\ SetMerchantSearch(NoSearch)
    BY <1>4 DEF ClearAllFilters
  <2>2. MLSearches
    BY <2>1, CalmMerchantSearch
  <2>3. QED
    BY <2>1, <2>2 DEF MLCalmForm
<1>5. CASE MLFetchDue
  <2>1. /\ mlCalm' = mlCalm /\ mlDue > 0 /\ mlDue' = mlDue - 1 /\ FetchMerchantsData(ml, FALSE)
        /\ UNCHANGED mlStore
    BY <1>5 DEF MLFetchDue
  <2>2. mlDue # 0 /\ mlDue' = 0
    BY <1>0, <2>1
  <2>3. ml.on # 0
    BY <2>2 DEF MLTyped
  <2>4. PICK more \in BOOLEAN : more = FALSE
    OBVIOUS
  <2>5. PICK q : MLSends(q) /\ IsFetch(q) /\ q.more = more /\ q.page = (IF more THEN ml.page + 1 ELSE ml.page)
                 /\ q.search = ml.search /\ ml'.search = ml.search
    BY <1>0, <2>1, <2>3, <2>4, CalmMerchantFetch
  <2>6. MLStarts(q)
    BY <2>2, <2>4, <2>5 DEF MLStarts
  <2>7. QED
    BY <2>1, <2>6 DEF MLCalmForm
<1>6. CASE MLScrollToEnd
  <2>1. /\ mlCalm /\ mlDue = 0 /\ mlDue' = mlDue /\ NoneSkipped(mlNet, PageToFetch(ml, TRUE))
        /\ FetchMerchantsData(ml, TRUE) /\ UNCHANGED mlStore /\ mlShown # << >>
    BY <1>6 DEF MLScrollToEnd, ScrollTriggers
  <2>2. ml.on # 0 /\ PageToFetch(ml, TRUE) = ml.page + 1
    BY <2>1, MLOpened DEF PageToFetch
  <2>3. PICK more \in BOOLEAN : more = TRUE
    OBVIOUS
  <2>4. PICK q : MLSends(q) /\ IsFetch(q) /\ q.more = more /\ q.page = (IF more THEN ml.page + 1 ELSE ml.page)
                 /\ q.search = ml.search /\ ml'.search = ml.search /\ ml'.rows = ml.rows
    BY <1>0, <2>1, <2>2, <2>3, CalmMerchantFetch
  <2>5. MLGoesOn(q)
    BY <2>1, <2>2, <2>3, <2>4 DEF MLGoesOn
  <2>6. QED
    BY <2>1, <2>5 DEF MLCalmForm
<1>7. CASE UpdateMerchant \/ UpdateMerchantGroup
  BY <1>7, CalmMerchantEdit
<1>8. ASSUME NEW i \in DOMAIN mlNet, MLServe(i) PROVE mlCalm /\ MLCalmForm
  BY <1>8, CalmMerchantServe DEF MLCalmForm
<1>9. ASSUME NEW i \in DOMAIN mlNet, MLAnswer(i) PROVE mlCalm /\ MLCalmForm
  BY <1>9, CalmMerchantAnswer
<1>10. ASSUME NEW i \in DOMAIN mlNet, MLFail(i) PROVE FALSE
  BY <1>10 DEF MLFail
<1>11. CASE UpdateSearchTerm \/ MLFadeEnds \/ UNCHANGED mlVars
  <2>1. mlCalm' = mlCalm /\ MLIdles
    <3>1. CASE UpdateSearchTerm
      BY <3>1 DEF UpdateSearchTerm, MLIdles
    <3>2. CASE MLFadeEnds
      BY <3>2 DEF MLFadeEnds, MLIdles
    <3>3. CASE UNCHANGED mlVars
      BY <3>3 DEF mlVars, MLIdles
    <3>4. QED
      BY <1>11, <3>1, <3>2, <3>3
  <2>2. QED
    BY <2>1 DEF MLCalmForm
<1>12. QED
  BY <1>1, <1>2, <1>3, <1>4, <1>5, <1>6, <1>7, <1>8, <1>9, <1>10, <1>11 DEF MLNext

LEMMA MLCalmStep == MLTyped /\ MLTyped' /\ MLCalmInv /\ [MLNext]_mlVars => MLCalmInv'
<1> SUFFICES ASSUME MLTyped, MLTyped', MLCalmInv, [MLNext]_mlVars, mlCalm' PROVE MLInOrder'
  BY DEF MLCalmInv
<1>1. MLInOrder /\ MLCalmForm
  BY CalmMerchantForms DEF MLCalmInv
<1>2. QED
  BY <1>1, MLTurnStarts, MLTurnGoesOn, MLTurnServes, MLTurnAnswered, MLTurnElse DEF MLCalmForm

LEMMA MLSettled == MLTyped /\ MLCalmInv => MerchantsSettled
<1> SUFFICES ASSUME MLTyped, MLCalmInv, MLQuiet, mlCalm
             PROVE  /\ ml.rows = Upto(MerchantsFound(mlStore, ml.search), ml.page)
                    /\ ml.hasMore <=> ml.page < Pages(MerchantsFound(mlStore, ml.search))
  BY DEF MerchantsSettled
<1> DEFINE found == MerchantsFound(mlStore, ml.search)
           u == Upto(found, ml.page)
<1>1. mlNet = << >> /\ mlDue = 0 /\ ml.on # 0 /\ ~Moving
  BY DEF MLQuiet, Moving
<1>2. PICK a, pg : InTurn(ml, << >>, found, a, pg) /\ MLFresh(a)
  BY <1>1 DEF MLCalmInv, MLInOrder, MLTurn
<1>3. a = 0
  BY <1>2 DEF InTurn
<1>4. /\ found \in Seq(MLRows)
      /\ \A i \in DOMAIN found : found[i] = MerchantRow(mlStore, found[i].id)
  BY MerchantRows DEF MLTyped
<1>5. ml.rows \in Seq(MLRows) /\ ml.page \in Nat
  BY DEF MLTyped, MLHookTyped, MLStates, ListStates
<1>6. \A i \in DOMAIN ml.rows : ml.rows[i] = MerchantRow(mlStore, ml.rows[i].id)
  BY <1>1, <1>2, <1>3 DEF MLFresh, NowOrLater
<1> HIDE DEF found
<1>7. SameIds(ml.rows, u) /\ (ml.hasMore <=> ml.page < Pages(found))
  BY <1>2, TurnAtRest
<1> DEFINE p == ml.page
           c == Reach(found, p)
<1>8. /\ u \in Seq(MLRows) /\ Len(u) = c /\ DOMAIN u = 1..c
      /\ \A i \in 1..c : u[i] = found[i]
      /\ c \in 0..Len(found) /\ DOMAIN found = 1..Len(found) /\ Len(found) \in Nat
  <2>0. p \in Nat
    BY <1>5
  <2> HIDE DEF p
  <2>1. /\ Upto(found, p) \in Seq(MLRows) /\ Len(Upto(found, p)) = Reach(found, p)
        /\ DOMAIN Upto(found, p) = 1..Reach(found, p)
        /\ \A i \in 1..Reach(found, p) : Upto(found, p)[i] = found[i]
    BY <1>4, <2>0, UptoIs
  <2>2. Reach(found, p) \in 0..Len(found)
    BY <1>4, <2>0, ReachIs
  <2>3. DOMAIN found = 1..Len(found) /\ Len(found) \in Nat
    BY <1>4
  <2>4. QED
    BY <2>1, <2>2, <2>3 DEF p
<1> HIDE DEF u, c
<1>9. \A i \in DOMAIN u : u[i] = MerchantRow(mlStore, u[i].id)
  BY <1>4, <1>8
<1>10. Len(ml.rows) = Len(u) /\ DOMAIN ml.rows = DOMAIN u /\ \A i \in DOMAIN u : ml.rows[i].id = u[i].id
  BY <1>5, <1>7, <1>8 DEF SameIds
<1>11. \A i \in DOMAIN u : ml.rows[i] = u[i]
  BY <1>6, <1>9, <1>10
<1>12. ml.rows = u
  BY <1>5, <1>8, <1>10, <1>11
<1>13. QED
  BY <1>7, <1>12 DEF u, found

-----------------------------------------------------------------------------
(* The tag spend page, when all comes in order.                              *)

IsStats(q)  == q.kind = "stats"
Concerns(q) == q.kind \in {"load", "save", "delete"}

StatsOf(s) == IF s.included = {} THEN NoStats ELSE s

(* Statistics under way are for a selection that has tags, and the last ones *)
(* for the one on screen; with none under way, those on screen are its own.  *)
StatsCome ==
  /\ \A j \in DOMAIN tsNet : IsStats(tsNet[j]) =>
       /\ tsSelected.included # {}
       /\ (\A k \in DOMAIN tsNet : k > j => ~IsStats(tsNet[k])) => tsNet[j].for = tsSelected
  /\ (\A j \in DOMAIN tsNet : ~IsStats(tsNet[j])) => tsStats = StatsOf(tsSelected) /\ ~tsLoading

(* The list of reports under way that no report made or deleted comes after  *)
(* is the server's; with no request about reports, so is the one on screen.  *)
Outdated(j) == \E k \in DOMAIN tsNet : k > j /\ tsNet[k].served /\ tsNet[k].kind \in {"save", "delete"}

ReportsCome ==
  /\ (\A j \in DOMAIN tsNet : ~Concerns(tsNet[j])) => tsReports = tsServer
  /\ \A j \in DOMAIN tsNet : tsNet[j].kind = "load" /\ tsNet[j].served =>
       tsNet[j].found = tsServer \/ Outdated(j)

SpendCalmInv == tsCalm => ServedInOrder(tsNet) /\ StatsCome /\ ReportsCome

LEMMA SpendNet ==
  SpendInv => /\ IsNet(tsNet) /\ DOMAIN tsNet = 1..Len(tsNet) /\ Len(tsNet) \in Nat
              /\ \A j \in DOMAIN tsNet : tsNet[j] \in SpendMessages
BY DEF SpendInv, SpendTyped, IsNet, Range

LEMMA SpendCalmInit == TSInit => SpendCalmInv
<1> SUFFICES ASSUME TSInit PROVE SpendCalmInv
  OBVIOUS
<1>1. tsNet = << >> /\ DOMAIN tsNet = {} /\ tsStats = NoStats /\ tsSelected = Start
      /\ tsLoading = FALSE /\ tsReports = {} /\ tsServer = {}
  BY DEF TSInit
<1>2. StatsOf(Start) = NoStats
  BY DEF StatsOf, Start
<1>3. QED
  BY <1>1, <1>2 DEF SpendCalmInv, ServedInOrder, StatsCome, ReportsCome

(* A step that leaves all in order is one of these.                          *)
AsksStats ==
  \E q : /\ tsNet' = Append(tsNet, q) /\ ~q.served /\ IsStats(q) /\ q.for = tsSelected'
         /\ tsSelected'.included # {} /\ UNCHANGED <<tsReports, tsServer>>

EmptiesStats ==
  /\ tsNet' = tsNet /\ (\A j \in DOMAIN tsNet : ~IsStats(tsNet[j]))
  /\ tsSelected'.included = {} /\ tsStats' = NoStats /\ tsLoading' = tsLoading
  /\ UNCHANGED <<tsReports, tsServer>>

AsksReports ==
  \E q : /\ tsNet' = Append(tsNet, q) /\ ~q.served /\ Concerns(q)
         /\ UNCHANGED <<tsSelected, tsStats, tsLoading, tsReports, tsServer>>

IsServed(i, e) ==
  /\ ~tsNet[i].served /\ (\A j \in 1..(i - 1) : tsNet[j].served)
  /\ e.served /\ e.kind = tsNet[i].kind /\ (IsStats(e) => e.for = tsNet[i].for)
  /\ e.kind = "load" => e.found = tsServer
  /\ e.kind \notin {"save", "delete"} => tsServer' = tsServer
  /\ tsNet' = [tsNet EXCEPT ![i] = e]
  /\ UNCHANGED <<tsSelected, tsStats, tsLoading, tsReports>>

Comes ==
  /\ 1 \in DOMAIN tsNet /\ tsNet[1].served
  /\ tsStats' = (IF IsStats(tsNet[1]) THEN tsNet[1].for ELSE tsStats)
  /\ tsLoading' = (IF IsStats(tsNet[1]) THEN FALSE ELSE tsLoading)
  /\ tsReports' = (IF tsNet[1].kind = "load" THEN tsNet[1].found ELSE tsReports)
  /\ IF tsNet[1].kind \in {"save", "delete"}
     THEN tsNet' = Append(RemoveAt(tsNet, 1), LoadReports)
     ELSE tsNet' = RemoveAt(tsNet, 1)
  /\ UNCHANGED <<tsSelected, tsServer>>

SpendForm ==
  \/ AsksStats \/ EmptiesStats \/ AsksReports \/ Comes
  \/ \E i \in DOMAIN tsNet : \E e : IsServed(i, e)

LEMMA SpendForms ==
  ASSUME SpendInv, TSNext, tsCalm'
  PROVE  tsCalm /\ SpendForm
<1>1. CASE IncludeTags \/ OmitTags \/ SetMonthsBack \/ SelectReport
  <2>1. PICK s : Selected(s)
    BY <1>1 DEF IncludeTags, OmitTags, SetMonthsBack, SelectReport
  <2>2. CASE s.included = {}
    BY <2>1, <2>2 DEF Selected, SpendForm, EmptiesStats, IsStats
  <2>3. CASE s.included # {}
    <3>1. Sending(StatsFor(s)) /\ tsSelected' = s /\ UNCHANGED <<tsReports, tsServer, tsCalm>>
      BY <2>1, <2>3 DEF Selected
    <3>2. ~StatsFor(s).served /\ IsStats(StatsFor(s)) /\ StatsFor(s).for = s
      BY DEF StatsFor, IsStats
    <3>3. AsksStats
      BY <2>3, <3>1, <3>2 DEF AsksStats, Sending
    <3>4. QED
      BY <3>1, <3>3 DEF SpendForm
  <2>4. QED
    BY <2>2, <2>3
<1>2. CASE TSOpen \/ SaveReport \/ DeleteReport
  <2>1. PICK q : Sending(q) /\ ~q.served /\ Concerns(q)
    <3>1. ~LoadReports.served /\ Concerns(LoadReports)
      BY DEF LoadReports, Concerns
    <3>2. ~ReportOf(tsSelected).served /\ Concerns(ReportOf(tsSelected))
      BY DEF ReportOf, Concerns
    <3>3. \A id : ~Deletion(id).served /\ Concerns(Deletion(id))
      BY DEF Deletion, Concerns
    <3>4. QED
      BY <1>2, <3>1, <3>2, <3>3 DEF TSOpen, SaveReport, DeleteReport
  <2>2. UNCHANGED <<tsSelected, tsStats, tsLoading, tsReports, tsServer, tsCalm>>
    BY <1>2 DEF TSOpen, SaveReport, DeleteReport
  <2>3. AsksReports
    BY <2>1, <2>2 DEF AsksReports, Sending
  <2>4. QED
    BY <2>2, <2>3 DEF SpendForm
<1>3. ASSUME NEW i \in DOMAIN tsNet, TSServe(i) PROVE tsCalm /\ SpendForm
  <2> DEFINE q == tsNet[i]
             e == IF q.kind = "load" THEN [q EXCEPT !.served = TRUE, !.found = tsServer]
                                     ELSE [q EXCEPT !.served = TRUE]
  <2>1. q \in SpendMessages
    BY MessageOf DEF SpendInv
  <2>2. e.served /\ e.kind = q.kind /\ (IsStats(e) => e.for = q.for)
        /\ (e.kind = "load" => e.found = tsServer)
    <3>1. CASE q.kind = "load"
      <4>1. q \in [served : BOOLEAN, kind : {"load"}, found : SUBSET ReportRecords]
        BY <2>1, <3>1 DEF SpendMessages
      <4>2. QED
        BY <3>1, <4>1 DEF IsStats
    <3>2. CASE q.kind = "stats"
      <4>1. q \in [served : BOOLEAN, kind : {"stats"}, for : Selections]
        BY <2>1, <3>2 DEF SpendMessages
      <4>2. QED
        BY <3>2, <4>1
    <3>3. CASE q.kind = "save"
      <4>1. q \in [served : BOOLEAN, kind : {"save"}, included : SUBSET SpendTags,
                   omitted : SUBSET SpendTags]
        BY <2>1, <3>3 DEF SpendMessages
      <4>2. QED
        BY <3>3, <4>1 DEF IsStats
    <3>4. CASE q.kind = "delete"
      <4>1. q \in [served : BOOLEAN, kind : {"delete"}, id : Nat, active : Nat \cup {NoReport}]
        BY <2>1, <3>4 DEF SpendMessages
      <4>2. QED
        BY <3>4, <4>1 DEF IsStats
    <3>5. QED
      BY <2>1, <3>1, <3>2, <3>3, <3>4 DEF SpendMessages
  <2>3. /\ ~q.served /\ tsNet' = [tsNet EXCEPT ![i] = e]
        /\ tsCalm /\ \A j \in 1..(i - 1) : tsNet[j].served
        /\ UNCHANGED <<tsSelected, tsStats, tsLoading, tsReports>>
    BY <1>3 DEF TSServe
  <2>4. q.kind \notin {"save", "delete"} => tsServer' = tsServer
    BY <1>3 DEF TSServe
  <2> HIDE DEF e
  <2>5. IsServed(i, e)
    BY <2>2, <2>3, <2>4 DEF IsServed
  <2>6. QED
    BY <2>3, <2>5 DEF SpendForm
<1>4. ASSUME NEW i \in DOMAIN tsNet, TSAnswer(i) PROVE tsCalm /\ SpendForm
  <2>1. tsCalm /\ i = 1
    BY <1>4 DEF TSAnswer
  <2>2. Comes
    BY <1>4, <2>1 DEF TSAnswer, Comes, IsStats
  <2>3. QED
    BY <2>1, <2>2 DEF SpendForm
<1>5. ASSUME NEW i \in DOMAIN tsNet, TSFail(i) PROVE FALSE
  BY <1>5 DEF TSFail
<1>6. QED
  BY <1>1, <1>2, <1>3, <1>4, <1>5 DEF TSNext

LEMMA SpendAsked ==
  ASSUME SpendInv, StatsCome, ReportsCome, AsksStats \/ AsksReports
  PROVE  (ServedInOrder(tsNet) => ServedInOrder(tsNet)') /\ StatsCome' /\ ReportsCome'
<1> DEFINE n == Len(tsNet)
<1>1. PICK q : /\ tsNet' = Append(tsNet, q) /\ ~q.served /\ UNCHANGED <<tsReports, tsServer>>
               /\ \/ IsStats(q) /\ q.for = tsSelected' /\ tsSelected'.included # {}
                  \/ Concerns(q) /\ UNCHANGED <<tsSelected, tsStats, tsLoading>>
  <2>1. CASE AsksStats
    BY <2>1 DEF AsksStats
  <2>2. CASE AsksReports
    BY <2>2 DEF AsksReports
  <2>3. QED
    BY <2>1, <2>2
<1>2. /\ DOMAIN tsNet' = 1..(n + 1) /\ DOMAIN tsNet = 1..n /\ n \in Nat
      /\ (\A j \in 1..n : tsNet'[j] = tsNet[j]) /\ tsNet'[n + 1] = q
  BY <1>1, SpendNet, NetAppended DEF IsNet
<1> HIDE DEF n
<1>3. \A j \in DOMAIN tsNet' : j = n + 1 \/ (j \in DOMAIN tsNet /\ j < n + 1)
  BY <1>2
<1>4. \A j \in DOMAIN tsNet : j \in DOMAIN tsNet' /\ j # n + 1 /\ n + 1 > j
  BY <1>2
<1>5. n + 1 \in DOMAIN tsNet' /\ \A j \in DOMAIN tsNet : tsNet'[j] = tsNet[j]
  BY <1>2
<1>6. Concerns(q) <=> ~IsStats(q)
  BY <1>1 DEF Concerns, IsStats
<1>7. ServedInOrder(tsNet) => ServedInOrder(tsNet)'
  <2>1. ServedInOrder(tsNet) => ServedInOrder(Append(tsNet, q))
    BY <1>1, SpendNet, OrderSent
  <2>2. QED
    BY <1>1, <2>1 DEF ServedInOrder
<1>8. StatsCome'
  <2>1. CASE IsStats(q)
    <3>1. ASSUME NEW j \in DOMAIN tsNet', IsStats(tsNet'[j])
          PROVE  /\ tsSelected'.included # {}
                 /\ (\A k \in DOMAIN tsNet' : k > j => ~IsStats(tsNet'[k])) => tsNet'[j].for = tsSelected'
      <4>1. tsSelected'.included # {} /\ q.for = tsSelected'
        BY <1>1, <1>6, <2>1
      <4>2. CASE j = n + 1
        BY <1>2, <4>1, <4>2
      <4>3. CASE n + 1 > j
        BY <1>2, <1>5, <2>1, <4>1, <4>3
      <4>4. QED
        BY <1>3, <1>4, <4>2, <4>3
    <3>2. QED
      BY <1>2, <1>5, <2>1, <3>1 DEF StatsCome
  <2>2. CASE ~IsStats(q)
    <3>1. UNCHANGED <<tsSelected, tsStats, tsLoading>>
      BY <1>1, <2>2
    <3>2. ASSUME NEW j \in DOMAIN tsNet', IsStats(tsNet'[j])
          PROVE  /\ tsSelected'.included # {}
                 /\ (\A k \in DOMAIN tsNet' : k > j => ~IsStats(tsNet'[k])) => tsNet'[j].for = tsSelected'
      <4>1. j \in DOMAIN tsNet /\ tsNet'[j] = tsNet[j]
        BY <1>2, <1>3, <1>5, <2>2, <3>2
      <4>2. (\A k \in DOMAIN tsNet' : k > j => ~IsStats(tsNet'[k]))
              => (\A k \in DOMAIN tsNet : k > j => ~IsStats(tsNet[k]))
        BY <1>4, <1>5
      <4>3. QED
        BY <3>1, <3>2, <4>1, <4>2 DEF StatsCome
    <3>3. (\A j \in DOMAIN tsNet' : ~IsStats(tsNet'[j])) => (\A j \in DOMAIN tsNet : ~IsStats(tsNet[j]))
      BY <1>4, <1>5
    <3>4. QED
      BY <3>1, <3>2, <3>3 DEF StatsCome, StatsOf
  <2>3. QED
    BY <2>1, <2>2
<1>9. ReportsCome'
  <2>1. (\A j \in DOMAIN tsNet' : ~Concerns(tsNet'[j])) => (\A j \in DOMAIN tsNet : ~Concerns(tsNet[j]))
    BY <1>4, <1>5
  <2>2. ASSUME NEW j \in DOMAIN tsNet', tsNet'[j].kind = "load", tsNet'[j].served
        PROVE  tsNet'[j].found = tsServer' \/ Outdated(j)'
    <3>1. j \in DOMAIN tsNet /\ tsNet'[j] = tsNet[j]
      BY <1>1, <1>2, <1>3, <1>5, <2>2
    <3>2. Outdated(j) => Outdated(j)'
      BY <1>4, <1>5 DEF Outdated
    <3>3. QED
      BY <1>1, <2>2, <3>1, <3>2 DEF ReportsCome
  <2>3. QED
    BY <1>1, <2>1, <2>2 DEF ReportsCome
<1>10. QED
  BY <1>7, <1>8, <1>9

LEMMA SpendEmptied ==
  ASSUME StatsCome, ReportsCome, EmptiesStats
  PROVE  (ServedInOrder(tsNet) => ServedInOrder(tsNet)') /\ StatsCome' /\ ReportsCome'
<1>1. ServedInOrder(tsNet) => ServedInOrder(tsNet)'
  BY DEF EmptiesStats, ServedInOrder
<1>2. StatsCome'
  BY DEF EmptiesStats, StatsCome, StatsOf
<1>3. ReportsCome'
  BY DEF EmptiesStats, ReportsCome, Outdated
<1>4. QED
  BY <1>1, <1>2, <1>3

LEMMA SpendServedCalm ==
  ASSUME SpendInv, ServedInOrder(tsNet), StatsCome, ReportsCome,
         NEW i \in DOMAIN tsNet, NEW e, IsServed(i, e)
  PROVE  ServedInOrder(tsNet)' /\ StatsCome' /\ ReportsCome'
<1>1. /\ ServedInOrder(tsNet') /\ DOMAIN tsNet' = DOMAIN tsNet
      /\ \A j \in DOMAIN tsNet : tsNet'[j] = IF j = i THEN e ELSE tsNet[j]
      /\ \A j \in DOMAIN tsNet : tsNet'[j].served <=> j <= i
  BY SpendNet, OrderServed DEF IsServed
<1>2. UNCHANGED <<tsSelected, tsStats, tsLoading, tsReports>> /\ e.kind = tsNet[i].kind
      /\ (IsStats(e) => e.for = tsNet[i].for) /\ e.served
      /\ (e.kind = "load" => e.found = tsServer)
      /\ (e.kind \notin {"save", "delete"} => tsServer' = tsServer)
  BY DEF IsServed
<1>3. \A j \in DOMAIN tsNet : tsNet'[j].kind = tsNet[j].kind
  BY <1>1, <1>2
<1>4. \A j \in DOMAIN tsNet : IsStats(tsNet[j]) => tsNet'[j].for = tsNet[j].for
  BY <1>1, <1>2 DEF IsStats
<1>5. StatsCome'
  BY <1>1, <1>2, <1>3, <1>4 DEF StatsCome, StatsOf, IsStats
<1>6. ReportsCome'
  <2>1. (\A j \in DOMAIN tsNet' : ~Concerns(tsNet'[j])) => tsReports' = tsServer'
    <3> SUFFICES ASSUME \A j \in DOMAIN tsNet' : ~Concerns(tsNet'[j]) PROVE tsReports' = tsServer'
      OBVIOUS
    <3>1. \A j \in DOMAIN tsNet : ~Concerns(tsNet[j])
      BY <1>1, <1>3 DEF Concerns
    <3>2. tsServer' = tsServer
      BY <1>2, <3>1 DEF Concerns
    <3>3. QED
      BY <1>2, <3>1, <3>2 DEF ReportsCome
  <2>2. ASSUME NEW j \in DOMAIN tsNet, tsNet'[j].kind = "load", tsNet'[j].served
        PROVE  tsNet'[j].found = tsServer' \/ Outdated(j)'
    <3>1. j <= i /\ i \in Nat /\ j \in Nat
      BY <1>1, <2>2, SpendNet
    <3>2. CASE j = i
      BY <1>1, <1>2, <2>2, <3>2
    <3>3. CASE j < i
      <4>1. tsNet'[j] = tsNet[j]
        <5>1. j # i
          BY <3>1, <3>3
        <5>2. QED
          BY <1>1, <5>1
      <4>2. Outdated(j) => Outdated(j)'
        <5> SUFFICES ASSUME NEW k \in DOMAIN tsNet, k > j, tsNet[k].served,
                            tsNet[k].kind \in {"save", "delete"}
                     PROVE  Outdated(j)'
          BY DEF Outdated
        <5>1. tsNet'[k].served /\ tsNet'[k].kind = tsNet[k].kind
          BY <1>1, <1>2, <1>3
        <5>2. QED
          BY <1>1, <5>1 DEF Outdated
      <4>3. tsNet[j].found = tsServer \/ Outdated(j)
        BY <2>2, <4>1 DEF ReportsCome
      <4>4. CASE e.kind \in {"save", "delete"}
        <5>1. tsNet'[i].served /\ tsNet'[i].kind \in {"save", "delete"} /\ i > j
          BY <1>1, <1>2, <3>1, <3>3, <4>4
        <5>2. QED
          BY <1>1, <5>1 DEF Outdated
      <4>5. CASE e.kind \notin {"save", "delete"}
        BY <1>2, <4>1, <4>2, <4>3, <4>5
      <4>6. QED
        BY <4>4, <4>5
    <3>4. QED
      BY <3>1, <3>2, <3>3
  <2>3. QED
    BY <1>1, <2>1, <2>2 DEF ReportsCome
<1>7. QED
  BY <1>1, <1>5, <1>6 DEF ServedInOrder

(* The first request is answered: what is under way moves up by one, and a   *)
(* list is asked for if a report was made or deleted.                        *)
LEMMA SpendMovesUp ==
  ASSUME SpendInv, Comes
  PROVE  /\ ServedInOrder(tsNet) => ServedInOrder(tsNet')
         /\ \A j \in DOMAIN tsNet' : \/ j + 1 \in DOMAIN tsNet /\ tsNet'[j] = tsNet[j + 1]
                                     \/ tsNet'[j] = LoadReports
         /\ \A j \in DOMAIN tsNet : j > 1 => j - 1 \in DOMAIN tsNet' /\ tsNet'[j - 1] = tsNet[j]
         /\ \/ \E j \in DOMAIN tsNet' : tsNet'[j] = LoadReports
            \/ tsNet[1].kind \notin {"save", "delete"} /\ tsServer' = tsServer
<1> DEFINE n == Len(tsNet)
           t == RemoveAt(tsNet, 1)
<1>1. 1 \in DOMAIN tsNet /\ UNCHANGED tsServer
  BY DEF Comes
<1>2. /\ IsNet(t) /\ Len(t) = n - 1 /\ DOMAIN t = 1..(n - 1) /\ n \in Nat \ {0} /\ DOMAIN tsNet = 1..n
      /\ \A j \in 1..(n - 1) : t[j] = tsNet[j + 1]
  BY <1>1, SpendNet, LastRemoved
<1>3. ServedInOrder(tsNet) => ServedInOrder(t)
  BY <1>1, SpendNet, OrderAnswered
<1>4. \/ tsNet[1].kind \in {"save", "delete"} /\ tsNet' = Append(t, LoadReports)
      \/ tsNet[1].kind \notin {"save", "delete"} /\ tsNet' = t
  BY DEF Comes
<1> HIDE DEF n, t
<1>5. \A j \in 1..(n - 1) : j + 1 \in 1..n
  BY <1>2
<1>6. \A j \in 1..n : j > 1 => j - 1 \in 1..(n - 1) /\ (j - 1) + 1 = j
  BY <1>2
<1>7. CASE tsNet' = t
  BY <1>1, <1>2, <1>3, <1>4, <1>5, <1>6, <1>7
<1>8. CASE tsNet[1].kind \in {"save", "delete"} /\ tsNet' = Append(t, LoadReports)
  <2>1. /\ DOMAIN tsNet' = 1..((n - 1) + 1)
        /\ (\A j \in 1..(n - 1) : tsNet'[j] = t[j]) /\ tsNet'[(n - 1) + 1] = LoadReports
    BY <1>2, <1>8, NetAppended DEF IsNet
  <2>2. DOMAIN tsNet' = 1..n /\ tsNet'[n] = LoadReports /\ n \in 1..n
        /\ (\A j \in 1..(n - 1) : tsNet'[j] = tsNet[j + 1] /\ j \in 1..n)
        /\ \A j \in 1..n : j = n \/ j \in 1..(n - 1)
    <3>1. (n - 1) + 1 = n /\ n \in 1..n /\ (\A j \in 1..(n - 1) : j \in 1..n)
          /\ \A j \in 1..n : j = n \/ j \in 1..(n - 1)
      BY <1>2
    <3>2. QED
      BY <1>2, <2>1, <3>1
  <2>3. ServedInOrder(t) => ServedInOrder(tsNet')
    <3>1. ~LoadReports.served
      BY DEF LoadReports
    <3>2. QED
      BY <1>2, <1>8, <3>1, OrderSent
  <2>4. \A j \in DOMAIN tsNet' : \/ j + 1 \in DOMAIN tsNet /\ tsNet'[j] = tsNet[j + 1]
                                 \/ tsNet'[j] = LoadReports
    BY <1>2, <1>5, <2>2
  <2>5. ASSUME NEW j \in DOMAIN tsNet, j > 1 PROVE j - 1 \in DOMAIN tsNet' /\ tsNet'[j - 1] = tsNet[j]
    <3>1. j - 1 \in 1..(n - 1) /\ (j - 1) + 1 = j
      BY <1>2, <1>6, <2>5
    <3>2. QED
      BY <2>2, <3>1
  <2>6. QED
    BY <1>3, <2>2, <2>3, <2>4, <2>5
<1>9. QED
  BY <1>4, <1>7, <1>8

LEMMA SpendComes ==
  ASSUME SpendInv, SpendInv', ServedInOrder(tsNet), StatsCome, ReportsCome, Comes
  PROVE  ServedInOrder(tsNet)' /\ StatsCome' /\ ReportsCome'
<1>0. \A j \in DOMAIN tsNet' : j \in Nat \ {0}
  <2>1. DOMAIN tsNet' = 1..Len(tsNet') /\ Len(tsNet') \in Nat
    BY SpendNet
  <2>2. QED
    BY <2>1
<1>1. /\ ServedInOrder(tsNet')
      /\ \A j \in DOMAIN tsNet' : \/ j + 1 \in DOMAIN tsNet /\ tsNet'[j] = tsNet[j + 1]
                                  \/ tsNet'[j] = LoadReports
      /\ \A j \in DOMAIN tsNet : j > 1 => j - 1 \in DOMAIN tsNet' /\ tsNet'[j - 1] = tsNet[j]
      /\ \/ \E j \in DOMAIN tsNet' : tsNet'[j] = LoadReports
         \/ tsNet[1].kind \notin {"save", "delete"} /\ tsServer' = tsServer
  BY SpendMovesUp
<1>2. LoadReports.kind = "load" /\ ~LoadReports.served
  BY DEF LoadReports
<1>3. \A j \in DOMAIN tsNet : j \in Nat /\ (j = 1 \/ j > 1)
  BY SpendNet
<1>4. 1 \in DOMAIN tsNet /\ tsNet[1].served /\ UNCHANGED <<tsSelected, tsServer>>
  BY DEF Comes
<1>5. StatsCome'
  <2>1. ASSUME NEW j \in DOMAIN tsNet', IsStats(tsNet'[j])
        PROVE  /\ tsSelected'.included # {}
               /\ (\A k \in DOMAIN tsNet' : k > j => ~IsStats(tsNet'[k])) => tsNet'[j].for = tsSelected'
    <3>1. j + 1 \in DOMAIN tsNet /\ tsNet'[j] = tsNet[j + 1]
      BY <1>1, <1>2, <2>1 DEF IsStats
    <3>2. ASSUME \A k \in DOMAIN tsNet' : k > j => ~IsStats(tsNet'[k]),
                 NEW k \in DOMAIN tsNet, k > j + 1
          PROVE  ~IsStats(tsNet[k])
      <4>1. k > 1 /\ k - 1 > j
        BY <1>0, <1>3, <3>2
      <4>2. k - 1 \in DOMAIN tsNet' /\ tsNet'[k - 1] = tsNet[k]
        BY <1>1, <4>1
      <4>3. QED
        BY <3>2, <4>1, <4>2
    <3>3. QED
      BY <1>4, <2>1, <3>1, <3>2 DEF StatsCome
  <2>2. ASSUME \A j \in DOMAIN tsNet' : ~IsStats(tsNet'[j])
        PROVE  tsStats' = StatsOf(tsSelected') /\ ~tsLoading'
    <3>1. \A j \in DOMAIN tsNet : j > 1 => ~IsStats(tsNet[j])
      BY <1>1, <2>2
    <3>2. CASE IsStats(tsNet[1])
      <4>1. tsSelected.included # {} /\ tsNet[1].for = tsSelected
        BY <1>4, <3>1, <3>2 DEF StatsCome
      <4>2. tsStats' = tsNet[1].for /\ tsLoading' = FALSE
        BY <3>2 DEF Comes
      <4>3. QED
        BY <1>4, <4>1, <4>2 DEF StatsOf
    <3>3. CASE ~IsStats(tsNet[1])
      <4>1. \A j \in DOMAIN tsNet : ~IsStats(tsNet[j])
        BY <1>3, <3>1, <3>3
      <4>2. tsStats' = tsStats /\ tsLoading' = tsLoading
        BY <3>3 DEF Comes
      <4>3. QED
        BY <1>4, <4>1, <4>2 DEF StatsCome
    <3>4. QED
      BY <3>2, <3>3
  <2>3. QED
    BY <2>1, <2>2 DEF StatsCome
<1>6. ReportsCome'
  <2>1. ASSUME \A j \in DOMAIN tsNet' : ~Concerns(tsNet'[j]) PROVE tsReports' = tsServer'
    <3>1. \A j \in DOMAIN tsNet : j > 1 => ~Concerns(tsNet[j])
      BY <1>1, <2>1
    <3>2. tsNet[1].kind \notin {"save", "delete"}
      BY <1>1, <1>2, <2>1 DEF Concerns
    <3>3. CASE tsNet[1].kind = "load"
      <4>1. ~Outdated(1)
        BY <3>1 DEF Outdated, Concerns
      <4>2. tsNet[1].found = tsServer
        BY <1>4, <3>3, <4>1 DEF ReportsCome
      <4>3. QED
        BY <1>4, <3>3, <4>2 DEF Comes
    <3>4. CASE tsNet[1].kind # "load"
      <4>1. \A j \in DOMAIN tsNet : ~Concerns(tsNet[j])
        BY <1>3, <3>1, <3>2, <3>4 DEF Concerns
      <4>2. tsReports' = tsReports
        BY <3>4 DEF Comes
      <4>3. QED
        BY <1>4, <4>1, <4>2 DEF ReportsCome
    <3>5. QED
      BY <3>3, <3>4
  <2>2. ASSUME NEW j \in DOMAIN tsNet', tsNet'[j].kind = "load", tsNet'[j].served
        PROVE  tsNet'[j].found = tsServer' \/ Outdated(j)'
    <3>1. j + 1 \in DOMAIN tsNet /\ tsNet'[j] = tsNet[j + 1]
      BY <1>1, <1>2, <2>2
    <3>2. j \in Nat \ {0}
      BY <1>0
    <3>3. ASSUME NEW k \in DOMAIN tsNet, k > j + 1, tsNet[k].served,
                 tsNet[k].kind \in {"save", "delete"}
          PROVE  Outdated(j)'
      <4>1. k > 1 /\ k - 1 > j
        BY <1>3, <3>2, <3>3
      <4>2. k - 1 \in DOMAIN tsNet' /\ tsNet'[k - 1] = tsNet[k]
        BY <1>1, <4>1
      <4>3. QED
        BY <3>3, <4>1, <4>2 DEF Outdated
    <3>4. tsNet[j + 1].found = tsServer \/ Outdated(j + 1)
      BY <2>2, <3>1 DEF ReportsCome
    <3>5. QED
      BY <1>4, <3>1, <3>3, <3>4 DEF Outdated
  <2>3. QED
    BY <2>1, <2>2 DEF ReportsCome
<1>7. QED
  BY <1>1, <1>5, <1>6 DEF ServedInOrder

LEMMA SpendCalmStep == SpendInv /\ SpendInv' /\ SpendCalmInv /\ [TSNext]_tsVars => SpendCalmInv'
<1> SUFFICES ASSUME SpendInv, SpendInv', SpendCalmInv, [TSNext]_tsVars, tsCalm'
             PROVE  ServedInOrder(tsNet)' /\ StatsCome' /\ ReportsCome'
  BY DEF SpendCalmInv
<1>1. CASE UNCHANGED tsVars
  BY <1>1 DEF tsVars, SpendCalmInv, ServedInOrder, StatsCome, ReportsCome, Outdated
<1>2. CASE TSNext
  <2>1. ServedInOrder(tsNet) /\ StatsCome /\ ReportsCome /\ SpendForm
    BY <1>2, SpendForms DEF SpendCalmInv
  <2>2. QED
    BY <2>1, SpendAsked, SpendEmptied, SpendServedCalm, SpendComes DEF SpendForm
<1>3. QED
  BY <1>1, <1>2

LEMMA SpendCalmSettled == SpendCalmInv => SpendSettled
<1> SUFFICES ASSUME SpendCalmInv, tsNet = << >>, tsCalm
             PROVE  /\ tsStats = StatsOf(tsSelected)
                    /\ ~tsLoading
                    /\ tsReports = tsServer
  BY DEF SpendSettled, StatsOf
<1>1. DOMAIN tsNet = {}
  OBVIOUS
<1>2. QED
  BY <1>1 DEF SpendCalmInv, StatsCome, ReportsCome

-----------------------------------------------------------------------------
SettledInv == TypesInv /\ RowsInv /\ TLCalmInv /\ MLCalmInv /\ SpendCalmInv

(* When all that was asked for has been answered, each list page shows what  *)
(* the server has: no transaction twice, the rows and the end of the list    *)
(* those of the search on screen, up to the page reached, and no row behind  *)
(* an edit that was answered; the merchants of the page, and the statistics  *)
(* and the reports of the selection.  For any numbers of transactions,       *)
(* merchants, tags, pages and requests.                                      *)
THEOREM ListsSettle == WebSpec => []ListsSettled
<1>1. WebInit => SettledInv
  BY TLInitTyped, MLInitTyped, SpendInit, SpendShownStep, SessionInit, SentStep,
     RowsInit, TLCalmInit, MLCalmInit, SpendCalmInit DEF WebInit, TypesInv, SettledInv
<1>2. SettledInv /\ [WebNext]_webVars => SettledInv'
  <2> SUFFICES ASSUME SettledInv, [WebNext]_webVars PROVE SettledInv'
    OBVIOUS
  <2>1. [TLNext]_tlVars /\ [MLNext]_mlVars /\ [TSNext]_tsVars /\ [WSNext]_wsVars
    BY ListPagesStep
  <2>2. TypesInv /\ TypesInv'
    BY <2>1, TLTypedStep, MLTypedStep, SpendStep, SpendShownStep, SessionStep, SentStep
      DEF SettledInv, TypesInv
  <2>3. TLTyped /\ TLTyped' /\ MLTyped /\ MLTyped' /\ SpendInv /\ SpendInv'
    BY <2>2 DEF TypesInv
  <2>4. RowsInv' /\ TLCalmInv' /\ MLCalmInv' /\ SpendCalmInv'
    BY <2>1, <2>3, RowsStep, TLCalmStep, MLCalmStep, SpendCalmStep DEF SettledInv
  <2>5. QED
    BY <2>2, <2>4 DEF SettledInv
<1>3. SettledInv => ListsSettled
  BY TLSettled, MLSettled, SpendCalmSettled DEF SettledInv, TypesInv, ListsSettled
<1>4. QED
  BY <1>1, <1>2, <1>3, PTL DEF WebSpec
=============================================================================
