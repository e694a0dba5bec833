-------------------------- MODULE WebScreensProofs --------------------------
(***************************************************************************)
(* Theorems about the pages of WebScreens: the recurring streams with the  *)
(* page over them, for any number of streams, transactions, workers and    *)
(* requests, and the pages of a merchant, a transaction, the categories    *)
(* and the accounts, for any number of requests.                           *)
(*                                                                         *)
(* MarksFollow and HalfMade are not inductive.  Linked adds to them that a *)
(* run always holds a stream with a row from the moment it has one, that   *)
(* what it takes for linked is, and that a transaction without a stream    *)
(* has no mark.                                                            *)
(*                                                                         *)
(* Nor does what a page shows at rest follow from what it showed a step    *)
(* before.  PageInv (merchant), TXInv (transaction), CSInv (categories),   *)
(* ACInv (accounts) and RCInv (recurring) say what a calm page may have    *)
(* under way: which requests, in which order, and that one of them will    *)
(* show what the server has once it is answered, unless the page shows it. *)
(*                                                                         *)
(* SplitInv says of the requests of the transaction's page what the server *)
(* will ask of them, ShownInv that every forest the page of the categories *)
(* holds is one that CategoryTree could have, and every change a step from *)
(* the one it was chosen on.                                               *)
(*                                                                         *)
(* Sums over finite sets and filters of a list are proved about with       *)
(* NatInduces, induction over the numbers with a set for the predicate.    *)
(***************************************************************************)
EXTENDS WebScreens, CategoryProofs, ListLemmas

-----------------------------------------------------------------------------
(* The recurring streams. *)

Holding(w) == rsRun[w].pc \in {"fill", "link", "flag"}

Linked ==
  /\ rsFilled \subseteq Rows
  /\ \A w \in Workers :
       /\ rsRun[w].pc = "create" => rsRun[w].stream \in Streams
       /\ Holding(w) => rsRun[w].stream \in Rows
       /\ rsRun[w].pc = "flag" => rsRun[w].seen = "confirmed"
       /\ \A t \in rsRun[w].old : rsLink[t] # NoStream
       /\ rsRun[w].pc = "flag" => \A t \in rsRun[w].cluster : rsLink[t] # NoStream
  /\ \A d \in Decisions : rsAsk[d].pc \notin Over => rsAsk[d].stream \in Rows
  /\ \A t \in Joinable : rsLink[t] # NoStream => rsLink[t] \in Rows

RSIInv == RSTypeOK /\ Linked /\ StreamsSound

-----------------------------------------------------------------------------
(* Type correctness of the streams. *)

LEMMA EndedType == \A pc \in Over \cup {"next"} : Ended(pc) \in Runs
BY DEF Ended, Runs, Over, Statuses

LEMMA NotAskedType == NotAsked \in Asks
BY DEF NotAsked, Asks, Over, Decided, Statuses

LEMMA NextClusterType ==
  ASSUME RSTypeOK, NEW w \in Workers
  PROVE  NextCluster(w) \in Runs
BY EndedType DEF RSTypeOK, NextCluster, Ended, Runs, Over, Statuses

LEMMA InitTyped == RSInit => RSTypeOK
<1> SUFFICES ASSUME RSInit PROVE RSTypeOK
  OBVIOUS
<1>1. Ended("done") \in Runs
  BY EndedType DEF Over
<1>2. rsStatus \in [Streams -> Statuses] /\ rsFilled \subseteq Streams
  BY StartAssumption DEF RSInit, Rows
<1>3. rsLink \in [Joinable -> Streams \cup {NoStream}]
  BY DEF RSInit
<1>4. rsRun \in [Workers -> Runs] /\ rsAsk \in [Decisions -> Asks]
  BY <1>1, NotAskedType DEF RSInit
<1>5. QED
  BY <1>2, <1>3, <1>4 DEF RSInit, RSTypeOK

LEMMA RunStepType ==
  ASSUME RSTypeOK, NEW w \in Workers, NEW run \in Runs, RunStep(w, run)
  PROVE  rsRun' \in [Workers -> Runs]
BY DEF RSTypeOK, RunStep

LEMMA DetectType ==
  ASSUME RSTypeOK, NEW w \in Workers, Detect(w)
  PROVE  RSTypeOK'
<1>1. PICK candidates \in SUBSET Joinable :
        RunStep(w, [Ended("next") EXCEPT
                      !.left = candidates,
                      !.old = {t \in candidates : rsLink[t] # NoStream}])
  BY DEF Detect
<1>2. [Ended("next") EXCEPT !.left = candidates,
                            !.old = {t \in candidates : rsLink[t] # NoStream}] \in Runs
  BY EndedType DEF Runs, Over
<1>3. rsRun' \in [Workers -> Runs]
  BY <1>1, <1>2, RunStepType
<1>4. QED
  BY <1>3 DEF RSTypeOK, Detect, rsRows, rsMarks, rsHistory

LEMMA MatchType ==
  ASSUME RSTypeOK, NEW w \in Workers, MatchFails(w) \/ Match(w) \/ MatchNone(w)
  PROVE  RSTypeOK'
<1>1. CASE MatchFails(w)
  <2>1. Ended("failed") \in Runs
    BY EndedType DEF Over
  <2>2. QED
    BY <1>1, <2>1, RunStepType DEF RSTypeOK, MatchFails, rsRows, rsMarks, rsHistory
<1>2. CASE Match(w)
  <2>1. PICK cluster \in SUBSET rsRun[w].left \ {{}}, s \in Rows :
          RunStep(w, IF rsStatus[s] = "dismissed"
                     THEN [rsRun[w] EXCEPT !.left = @ \ cluster]
                     ELSE [Clustered(w, cluster) EXCEPT !.pc = "fill", !.stream = s,
                                                        !.seen = rsStatus[s]])
    BY <1>2 DEF Match
  <2>2. s \in Streams /\ rsStatus[s] \in Statuses
    BY DEF Rows, RSTypeOK
  <2>3. [rsRun[w] EXCEPT !.left = @ \ cluster] \in Runs
    BY DEF RSTypeOK, Runs
  <2>4. [Clustered(w, cluster) EXCEPT !.pc = "fill", !.stream = s, !.seen = rsStatus[s]] \in Runs
    BY <2>2 DEF RSTypeOK, Runs, Clustered
  <2>5. rsRun' \in [Workers -> Runs]
    BY <2>1, <2>3, <2>4, RunStepType
  <2>6. QED
    BY <1>2, <2>5 DEF RSTypeOK, Match, rsRows, rsMarks, rsHistory
<1>3. CASE MatchNone(w)
  <2>1. PICK cluster \in SUBSET rsRun[w].left \ {{}}, s \in Streams :
          RunStep(w, [Clustered(w, cluster) EXCEPT !.pc = "create", !.stream = s])
    BY <1>3 DEF MatchNone
  <2>2. [Clustered(w, cluster) EXCEPT !.pc = "create", !.stream = s] \in Runs
    BY DEF RSTypeOK, Runs, Clustered
  <2>3. rsRun' \in [Workers -> Runs]
    BY <2>1, <2>2, RunStepType
  <2>4. QED
    BY <1>3, <2>3 DEF RSTypeOK, MatchNone, rsRows, rsMarks, rsHistory
<1>4. QED
  BY <1>1, <1>2, <1>3

LEMMA WriteType ==
  ASSUME RSTypeOK, Linked, NEW w \in Workers, CreateStream(w) \/ Fill(w) \/ Link(w) \/ Flag(w)
  PROVE  RSTypeOK'
<1>1. CASE CreateStream(w)
  <2>1. rsStatus' \in [Streams -> Statuses] /\ rsRun[w].stream \in Streams
    BY <1>1 DEF RSTypeOK, Linked, CreateStream, Statuses
  <2>2. [rsRun[w] EXCEPT !.pc = "fill", !.seen = rsStatus'[rsRun[w].stream]] \in Runs
    BY <2>1 DEF RSTypeOK, Runs
  <2>3. QED
    BY <1>1, <2>1, <2>2, RunStepType DEF RSTypeOK, CreateStream, rsMarks, rsHistory
<1>2. CASE Fill(w)
  <2>1. rsRun[w].stream \in Streams
    BY <1>2 DEF Linked, Holding, Rows, Fill
  <2>2. [rsRun[w] EXCEPT !.pc = "link"] \in Runs
    BY DEF RSTypeOK, Runs
  <2>3. QED
    BY <1>2, <2>1, <2>2, RunStepType DEF RSTypeOK, Fill, rsMarks, rsHistory
<1>3. CASE Link(w)
  <2>1. [rsRun[w] EXCEPT !.pc = "flag"] \in Runs
    BY DEF RSTypeOK, Runs, Over
  <2>2. rsRun' \in [Workers -> Runs]
    BY <1>3, <2>1, NextClusterType DEF RSTypeOK, Link, RunStep
  <2>3. rsLink' \in [Joinable -> Streams \cup {NoStream}] /\ rsAstray' \subseteq Joinable
    <3>1. rsRun[w].cluster \subseteq Joinable /\ rsRun[w].stream \in Streams
      BY <1>3 DEF RSTypeOK, Runs, Linked, Holding, Link, Rows
    <3>2. Mislinked(w) \subseteq Joinable
      BY <3>1 DEF Mislinked
    <3>3. QED
      BY <1>3, <3>1, <3>2 DEF RSTypeOK, Link
  <2>4. QED
    BY <1>3, <2>2, <2>3 DEF RSTypeOK, Link, rsRows
<1>4. CASE Flag(w)
  <2>1. NewlyLinked(w) \subseteq Joinable
    BY DEF RSTypeOK, NewlyLinked, Runs
  <2>2. QED
    BY <1>4, <2>1, NextClusterType DEF RSTypeOK, Flag, Misflagged, RunStep, rsRows
<1>5. QED
  BY <1>1, <1>2, <1>3, <1>4

LEMMA EndType ==
  ASSUME RSTypeOK, NEW w \in Workers, Finish(w) \/ Cut(w)
  PROVE  RSTypeOK'
<1>1. NewlyLinked(w) \subseteq Joinable
  BY DEF RSTypeOK, NewlyLinked, Runs
<1>2. CASE Finish(w)
  BY <1>2, EndedType DEF RSTypeOK, Finish, RunStep, Over, rsRows, rsMarks, rsHistory
<1>3. CASE Cut(w)
  BY <1>1, <1>3, EndedType DEF RSTypeOK, Cut, RunStep, Over, rsRows, rsMarks
<1>4. QED
  BY <1>2, <1>3

LEMMA AskType ==
  ASSUME RSTypeOK, Linked, NEW d \in Decisions,
         AskNext(d) \/ Answered(d) \/ \E s \in Streams, to \in Decided : AskFor(d, s, to)
  PROVE  RSTypeOK'
<1>1. CASE Find(d)
  BY ZenonT(30), <1>1 DEF RSTypeOK, Linked, Find, AskStep, Asks, Over, Rows, rsRows, rsMarks, rsHistory
<1>2. CASE Decide(d)
  <2>1. [rsAsk[d] EXCEPT !.pc = "done"] \in Asks
    BY DEF RSTypeOK, Asks, Over
  <2>2. rsStatus' \in [Streams -> Statuses]
    BY <1>2 DEF RSTypeOK, Decide, Asks, Decided, Statuses
  <2>3. QED
    BY <1>2, <2>1, <2>2 DEF RSTypeOK, Decide, AskStep, JoinedTo
<1>3. CASE Answered(d)
  BY <1>3, NotAskedType DEF RSTypeOK, Answered, AskStep, rsRows, rsMarks, rsHistory
<1>4. CASE \E s \in Streams, to \in Decided : AskFor(d, s, to)
  BY <1>4 DEF RSTypeOK, AskFor, AskStep, Asks, Over, Statuses, rsRows, rsMarks, rsHistory
<1>5. QED
  BY <1>1, <1>2, <1>3, <1>4 DEF AskNext

LEMMA StepTyped == RSTypeOK /\ Linked /\ [RSNext]_rsVars => RSTypeOK'
<1> SUFFICES ASSUME RSTypeOK, Linked, [RSNext]_rsVars PROVE RSTypeOK'
  OBVIOUS
<1>1. ASSUME NEW w \in Workers, Detect(w) \/ RunNext(w) PROVE RSTypeOK'
  BY <1>1, DetectType, MatchType, WriteType, EndType DEF RunNext
<1>2. CASE UNCHANGED rsVars
  BY <1>2 DEF RSTypeOK, rsVars, rsRows, rsMarks, rsHistory
<1>3. QED
  BY <1>1, <1>2, AskType DEF RSNext

-----------------------------------------------------------------------------
(* Linked. *)

LEMMA InitLinked == RSInit => Linked
BY DEF RSInit, Linked, Holding, Ended, NotAsked, Over, Rows

LEMMA LinkedRun ==
  ASSUME RSTypeOK, Linked, NEW w \in Workers, Detect(w) \/ RunNext(w)
  PROVE  Linked'
<1>1. CASE Detect(w)
  <2>1. PICK candidates \in SUBSET Joinable :
          RunStep(w, [Ended("next") EXCEPT
                        !.left = candidates,
                        !.old = {t \in candidates : rsLink[t] # NoStream}])
    BY <1>1 DEF Detect
  <2>2. /\ rsRun'[w].pc = "next" /\ \A t \in rsRun'[w].old : rsLink[t] # NoStream
        /\ \A v \in Workers \ {w} : rsRun'[v] = rsRun[v]
    BY <2>1 DEF RSTypeOK, RunStep, Ended
  <2>3. QED
    BY <1>1, <2>2 DEF Linked, Holding, Detect, Rows, rsRows, rsMarks, rsHistory
<1>2. CASE MatchFails(w)
  BY <1>2 DEF RSTypeOK, Linked, Holding, MatchFails, RunStep, Ended, Rows, rsRows, rsMarks
<1>3. CASE Match(w)
  BY <1>3 DEF RSTypeOK, Linked, Holding, Match, RunStep, Clustered, Runs, Rows, rsRows, rsMarks
<1>4. CASE MatchNone(w)
  BY <1>4 DEF RSTypeOK, Linked, Holding, MatchNone, RunStep, Clustered, Runs, Rows, rsRows, rsMarks
<1>5. CASE CreateStream(w)
  BY <1>5 DEF RSTypeOK, Linked, Holding, CreateStream, RunStep, Runs, Rows, rsMarks
<1>6. CASE Fill(w)
  BY <1>6 DEF RSTypeOK, Linked, Holding, Fill, RunStep, Runs, Rows, rsMarks
<1>7. CASE Link(w)
  <2> DEFINE run == rsRun[w]
  <2>1. run \in Runs /\ run.stream \in Rows /\ run.stream # NoStream
    BY <1>7, NoStreamAssumption DEF RSTypeOK, Linked, Holding, Link, Rows
  <2>2. \A t \in Joinable : rsLink'[t] = IF t \in run.cluster THEN run.stream ELSE rsLink[t]
    BY <1>7 DEF Link
  <2>3. \A t \in Joinable : rsLink[t] # NoStream => rsLink'[t] # NoStream
    BY <2>1, <2>2
  <2>4. \A v \in Workers : rsRun[v].old \subseteq Joinable /\ rsRun[v].cluster \subseteq Joinable
    BY DEF RSTypeOK, Runs
  <2>5. \A v \in Workers \ {w} : rsRun'[v] = rsRun[v]
    BY <1>7 DEF RSTypeOK, Link, RunStep
  <2>6. rsRun'[w] = IF run.seen = "confirmed" /\ NewlyLinked(w) # {}
                    THEN [run EXCEPT !.pc = "flag"] ELSE NextCluster(w)
    BY <1>7 DEF RSTypeOK, Link, RunStep
  <2>7. /\ rsRun'[w].pc \in {"flag", "next"} /\ rsRun'[w].old = run.old
        /\ rsRun'[w].pc = "flag" =>
             run.seen = "confirmed" /\ rsRun'[w].seen = run.seen
               /\ rsRun'[w].stream = run.stream /\ rsRun'[w].cluster = run.cluster
    BY <2>1, <2>6 DEF Runs, NextCluster, Ended
  <2>8. UNCHANGED <<rsStatus, rsFilled, rsRecurring, rsAsk>>
    BY <1>7 DEF Link, rsRows
  <2>9. \A v \in Workers :
          /\ rsRun'[v].pc = "create" => rsRun'[v].stream \in Streams
          /\ Holding(v)' => rsRun'[v].stream \in Rows
          /\ rsRun'[v].pc = "flag" => rsRun'[v].seen = "confirmed"
          /\ \A t \in rsRun'[v].old : rsLink'[t] # NoStream
          /\ rsRun'[v].pc = "flag" => \A t \in rsRun'[v].cluster : rsLink'[t] # NoStream
    <3> SUFFICES ASSUME NEW v \in Workers
                 PROVE  /\ rsRun'[v].pc = "create" => rsRun'[v].stream \in Streams
                        /\ Holding(v)' => rsRun'[v].stream \in Rows
                        /\ rsRun'[v].pc = "flag" => rsRun'[v].seen = "confirmed"
                        /\ \A t \in rsRun'[v].old : rsLink'[t] # NoStream
                        /\ rsRun'[v].pc = "flag" =>
                             \A t \in rsRun'[v].cluster : rsLink'[t] # NoStream
      OBVIOUS
    <3>1. CASE v = w
      BY <3>1, <2>1, <2>2, <2>3, <2>4, <2>7 DEF Linked, Holding
    <3>2. CASE v # w
      BY <3>2, <2>3, <2>4, <2>5 DEF Linked, Holding
    <3>3. QED
      BY <3>1, <3>2
  <2>10. \A t \in Joinable : rsLink'[t] # NoStream => rsLink'[t] \in Rows
    BY <2>1, <2>2, <2>3 DEF Linked
  <2>11. QED
    BY <2>8, <2>9, <2>10 DEF Linked, Rows
<1>8. CASE Flag(w)
  BY <1>8 DEF RSTypeOK, Linked, Holding, Flag, NewlyLinked, RunStep, NextCluster, Ended, Runs, Rows, rsRows
<1>9. CASE Finish(w)
  BY <1>9 DEF RSTypeOK, Linked, Holding, Finish, RunStep, Ended, Rows, rsRows, rsMarks
<1>10. CASE Cut(w)
  BY <1>10 DEF RSTypeOK, Linked, Holding, Cut, RunStep, Ended, Rows, rsRows, rsMarks
<1>11. QED
  BY <1>1, <1>2, <1>3, <1>4, <1>5, <1>6, <1>7, <1>8, <1>9, <1>10 DEF RunNext

LEMMA LinkedAsk ==
  ASSUME RSTypeOK, Linked, NEW d \in Decisions,
         AskNext(d) \/ Answered(d) \/ \E s \in Streams, to \in Decided : AskFor(d, s, to)
  PROVE  Linked'
<1>1. CASE Find(d)
  BY <1>1 DEF RSTypeOK, Linked, Holding, Find, AskStep, Asks, Over, Rows, rsRows, rsMarks
<1>2. CASE Decide(d)
  BY <1>2, NoStreamAssumption DEF RSTypeOK, Linked, Holding, Decide, AskStep, JoinedTo, Asks, Decided, Over, Rows
<1>3. CASE Answered(d)
  BY <1>3 DEF RSTypeOK, Linked, Holding, Answered, AskStep, NotAsked, Over, Rows, rsRows, rsMarks
<1>4. CASE \E s \in Streams, to \in Decided : AskFor(d, s, to)
  BY <1>4 DEF RSTypeOK, Linked, Holding, AskFor, AskStep, Over, Rows, rsRows, rsMarks
<1>5. QED
  BY <1>1, <1>2, <1>3, <1>4 DEF AskNext

LEMMA StepLinked == RSTypeOK /\ Linked /\ [RSNext]_rsVars => Linked'
<1>1. RSTypeOK /\ Linked /\ UNCHANGED rsVars => Linked'
  BY DEF Linked, Holding, Rows, rsVars, rsRows, rsMarks, rsHistory
<1>2. QED
  BY <1>1, LinkedRun, LinkedAsk DEF RSNext

-----------------------------------------------------------------------------
(* HalfMade. *)

(* A step of one run is no step of another. *)
LEMMA OthersRun ==
  ASSUME RSTypeOK, NEW w \in Workers, Detect(w) \/ RunNext(w)
  PROVE  \A v \in Workers \ {w} : rsRun'[v] = rsRun[v]
BY DEF RSTypeOK, RunNext, Detect, MatchFails, Match, MatchNone, CreateStream, Fill, Link, Flag,
       Finish, Cut, RunStep

LEMMA HalfMadeRun ==
  ASSUME RSTypeOK, Linked, HalfMade, NEW w \in Workers, Detect(w) \/ RunNext(w)
  PROVE  HalfMade'
<1> SUFFICES ASSUME ~rsCut', NEW s \in Rows' \ rsFilled'
             PROVE  \E v \in Workers : rsRun'[v].pc = "fill" /\ rsRun'[v].stream = s
  BY DEF HalfMade
<1>1. \A v \in Workers \ {w} : rsRun'[v] = rsRun[v]
  BY OthersRun
<1>2. s \in Rows \ rsFilled /\ ~rsCut =>
        \E v \in Workers : rsRun[v].pc = "fill" /\ rsRun[v].stream = s
  BY DEF HalfMade
<1>3. CASE /\ UNCHANGED <<rsRows, rsCut>> /\ rsRun[w].pc # "fill"
  BY <1>1, <1>2, <1>3 DEF Rows, rsRows
<1>4. CASE CreateStream(w)
  <2>1. rsRun'[w].pc = "fill" /\ rsRun'[w].stream = rsRun[w].stream /\ rsRun[w].pc = "create"
    BY <1>4 DEF RSTypeOK, CreateStream, RunStep, Runs
  <2>2. CASE s = rsRun[w].stream
    BY <2>1, <2>2
  <2>3. CASE s # rsRun[w].stream
    BY <1>1, <1>2, <1>4, <2>1, <2>3 DEF RSTypeOK, CreateStream, Rows, rsHistory
  <2>4. QED
    BY <2>2, <2>3
<1>5. CASE Fill(w)
  BY <1>1, <1>2, <1>5 DEF Fill, Rows, rsHistory
<1>6. CASE Cut(w)
  BY <1>1, <1>2, <1>6 DEF Cut, Rows, rsRows
<1>7. QED
  BY <1>3, <1>4, <1>5, <1>6
     DEF RunNext, Detect, MatchFails, Match, MatchNone, Link, Flag, Finish, Over, rsHistory

LEMMA HalfMadeAsk ==
  ASSUME RSTypeOK, Linked, HalfMade, NEW d \in Decisions,
         AskNext(d) \/ Answered(d) \/ \E s \in Streams, to \in Decided : AskFor(d, s, to)
  PROVE  HalfMade'
<1>1. CASE Decide(d)
  BY <1>1 DEF RSTypeOK, Linked, HalfMade, Decide, Asks, Decided, Over, Rows
<1>2. CASE Find(d) \/ Answered(d) \/ \E s \in Streams, to \in Decided : AskFor(d, s, to)
  BY <1>2 DEF HalfMade, Find, Answered, AskFor, Rows, rsRows, rsMarks, rsHistory
<1>3. QED
  BY <1>1, <1>2 DEF AskNext

-----------------------------------------------------------------------------
(* MarksFollow, for one transaction. *)

MarkFollows(t) ==
  rsLink[t] # NoStream =>
    /\ rsStatus[rsLink[t]] = "confirmed" => t \in rsRecurring \/ AboutToFlag(t)
    /\ rsStatus[rsLink[t]] = "dismissed" => t \notin rsRecurring

(* Who is about to flag a transaction is, so long as its run is as it was.   *)
LEMMA StillAboutToFlag ==
  ASSUME NEW w \in Workers, NEW t, AboutToFlag(t), rsRun[w].pc # "flag" \/ t \notin NewlyLinked(w),
         \A v \in Workers \ {w} : rsRun'[v] = rsRun[v]
  PROVE  AboutToFlag(t)'
BY DEF AboutToFlag, NewlyLinked

LEMMA MarksRun ==
  ASSUME RSTypeOK, Linked, MarksFollow, NEW w \in Workers, Detect(w) \/ RunNext(w)
  PROVE  MarksFollow'
<1> SUFFICES ASSUME NEW t \in Joinable, t \notin rsAstray'
             PROVE  MarkFollows(t)'
  BY DEF MarksFollow, MarkFollows, AboutToFlag
<1>1. \A v \in Workers \ {w} : rsRun'[v] = rsRun[v]
  BY OthersRun
<1>2. t \notin rsAstray => MarkFollows(t)
  BY DEF MarksFollow, MarkFollows
<1>3. CASE /\ UNCHANGED <<rsStatus, rsMarks, rsAstray>>
           /\ rsRun[w].pc # "flag"
  BY <1>1, <1>2, <1>3, StillAboutToFlag DEF MarkFollows, rsMarks
<1>4. CASE CreateStream(w)
  <2>1. rsRun[w].stream \in Streams /\ rsRun[w].pc = "create"
    BY <1>4 DEF Linked, CreateStream
  <2>2. rsLink[t] # NoStream => rsLink[t] \in Streams /\ rsStatus[rsLink[t]] # "none"
    BY DEF Linked, Rows
  <2>3. rsLink[t] # NoStream => rsStatus'[rsLink[t]] = rsStatus[rsLink[t]]
    BY <1>4, <2>1, <2>2 DEF RSTypeOK, CreateStream
  <2>4. QED
    BY <1>1, <1>2, <1>4, <2>1, <2>3, StillAboutToFlag
       DEF MarkFollows, CreateStream, rsMarks, rsHistory
<1>5. CASE Link(w)
  <2> DEFINE run == rsRun[w]
  <2>1. t \notin rsAstray /\ run.pc = "link" /\ run.stream \in Rows
    BY <1>5 DEF Link, Linked, Holding
  <2>2. CASE t \notin run.cluster
    BY <1>1, <1>2, <1>5, <2>1, <2>2, StillAboutToFlag DEF RSTypeOK, MarkFollows, Link, rsRows
  <2>3. CASE t \in run.cluster
    <3>1. /\ rsLink'[t] = run.stream /\ rsLink[t] \in {NoStream, run.stream}
          /\ run.seen = rsStatus[run.stream]
      BY <1>5, <2>3 DEF Link, Mislinked
    <3>2. run.seen = "confirmed" /\ t \notin run.old => AboutToFlag(t)'
      BY <1>5, <2>1, <2>3 DEF RSTypeOK, Runs, Link, RunStep, AboutToFlag, NewlyLinked
    <3>3. t \in run.old => rsLink[t] # NoStream
      BY DEF Linked
    <3>4. rsLink[t] = NoStream /\ run.seen = "dismissed" => t \notin rsRecurring
      BY <1>5, <2>3 DEF Link, Mislinked
    <3>5. AboutToFlag(t) => AboutToFlag(t)'
      BY <1>1, <2>1, StillAboutToFlag
    <3>6. UNCHANGED <<rsStatus, rsRecurring>>
      BY <1>5 DEF Link, rsRows
    <3>7. QED
      BY <1>2, <2>1, <3>1, <3>2, <3>3, <3>4, <3>5, <3>6, NoStreamAssumption DEF MarkFollows, Rows
  <2>4. QED
    BY <2>2, <2>3
<1>6. CASE Flag(w)
  <2>1. /\ t \notin rsAstray /\ t \notin Misflagged(w)
        /\ UNCHANGED <<rsStatus, rsLink>> /\ rsRecurring' = rsRecurring \cup NewlyLinked(w)
    BY <1>6 DEF Flag, rsRows
  <2>2. CASE t \in NewlyLinked(w)
    BY <2>1, <2>2 DEF MarkFollows, Misflagged
  <2>3. CASE t \notin NewlyLinked(w)
    BY <1>1, <1>2, <2>1, <2>3, StillAboutToFlag DEF MarkFollows
  <2>4. QED
    BY <2>2, <2>3
<1>7. CASE Cut(w)
  <2>1. /\ t \notin rsAstray /\ (rsRun[w].pc = "flag" => t \notin NewlyLinked(w))
        /\ UNCHANGED <<rsStatus, rsLink, rsRecurring>>
    BY <1>7 DEF Cut, rsRows, rsMarks
  <2>2. QED
    BY <1>1, <1>2, <2>1, StillAboutToFlag DEF MarkFollows
<1>8. QED
  BY <1>3, <1>4, <1>5, <1>6, <1>7
     DEF RunNext, Detect, MatchFails, Match, MatchNone, Fill, Finish, Over, rsRows, rsHistory

LEMMA MarksAsk ==
  ASSUME RSTypeOK, Linked, MarksFollow, NEW d \in Decisions,
         AskNext(d) \/ Answered(d) \/ \E s \in Streams, to \in Decided : AskFor(d, s, to)
  PROVE  MarksFollow'
<1> SUFFICES ASSUME NEW t \in Joinable, t \notin rsAstray'
             PROVE  MarkFollows(t)'
  BY DEF MarksFollow, MarkFollows, AboutToFlag
<1>1. t \notin rsAstray => MarkFollows(t)
  BY DEF MarksFollow, MarkFollows
<1>2. CASE UNCHANGED <<rsStatus, rsMarks, rsRun, rsAstray>>
  BY <1>1, <1>2 DEF MarkFollows, AboutToFlag, NewlyLinked, rsMarks
<1>3. CASE Decide(d)
  <2> DEFINE ask == rsAsk[d]
  <2>1. ask.stream \in Streams /\ ask.to \in Decided
    BY <1>3 DEF RSTypeOK, Asks, Linked, Decide, Over, Rows
  <2>2. CASE rsLink[t] = ask.stream
    <3>1. ~(ask.seen = ask.to /\ rsStatus[ask.stream] # ask.to)
      BY <1>3, <2>2 DEF Decide, JoinedTo
    <3>2. rsStatus'[ask.stream] = ask.to
      BY <1>3, <2>1, <3>1 DEF RSTypeOK, Decide
    <3>3. /\ rsLink'[t] = ask.stream
          /\ ask.to = "confirmed" => t \in rsRecurring'
          /\ ask.to = "dismissed" => t \notin rsRecurring'
      BY <1>3, <2>2 DEF Decide, JoinedTo
    <3>4. QED
      BY <2>1, <3>2, <3>3 DEF MarkFollows, Decided
  <2>3. CASE rsLink[t] # ask.stream
    <3>1. t \notin rsAstray /\ rsLink'[t] = rsLink[t] /\ (t \in rsRecurring' <=> t \in rsRecurring)
      BY <1>3, <2>3 DEF Decide, JoinedTo
    <3>2. rsLink[t] # NoStream => rsStatus'[rsLink[t]] = rsStatus[rsLink[t]]
      BY <1>3, <2>1, <2>3 DEF RSTypeOK, Decide
    <3>3. AboutToFlag(t)' <=> AboutToFlag(t)
      BY <1>3 DEF Decide, AboutToFlag, NewlyLinked
    <3>4. QED
      BY <1>1, <3>1, <3>2, <3>3 DEF MarkFollows
  <2>4. QED
    BY <2>2, <2>3
<1>4. QED
  BY <1>2, <1>3 DEF AskNext, Find, Answered, AskFor, rsRows, rsHistory

-----------------------------------------------------------------------------
(* The theorems about the streams. *)

LEMMA InitStreams == RSInit => RSIInv
<1> SUFFICES ASSUME RSInit PROVE RSIInv
  OBVIOUS
<1>1. MarksFollow
  BY DEF RSInit, MarksFollow
<1>2. HalfMade
  BY DEF RSInit, HalfMade
<1>3. QED
  BY <1>1, <1>2, InitTyped, InitLinked DEF RSIInv, StreamsSound

LEMMA NextStreams == RSIInv /\ [RSNext]_rsVars => RSIInv'
<1> SUFFICES ASSUME RSIInv, [RSNext]_rsVars PROVE RSIInv'
  OBVIOUS
<1> USE DEF RSIInv, StreamsSound
<1>1. RSTypeOK' /\ Linked'
  BY StepTyped, StepLinked
<1>2. ASSUME NEW w \in Workers, Detect(w) \/ RunNext(w) PROVE StreamsSound'
  BY <1>2, MarksRun, HalfMadeRun
<1>3. ASSUME NEW d \in Decisions,
             AskNext(d) \/ Answered(d) \/ \E s \in Streams, to \in Decided : AskFor(d, s, to)
      PROVE  StreamsSound'
  BY <1>3, MarksAsk, HalfMadeAsk
<1>4. CASE UNCHANGED rsVars
  <2>1. UNCHANGED <<rsStatus, rsFilled, rsLink, rsRecurring, rsRun, rsAstray, rsCut>>
    BY <1>4 DEF rsVars, rsRows, rsMarks, rsHistory
  <2>2. MarksFollow'
    BY <2>1 DEF MarksFollow, AboutToFlag, NewlyLinked
  <2>3. HalfMade'
    BY <2>1 DEF HalfMade, Rows
  <2>4. QED
    BY <1>1, <2>2, <2>3
<1>5. QED
  BY <1>1, <1>2, <1>3, <1>4 DEF RSNext

LEMMA StreamsInvariant == RSSpec => []RSIInv
BY InitStreams, NextStreams, PTL DEF RSSpec

(* Type correctness of the streams, the marks, the runs and the requests.    *)
THEOREM StreamsTypeCorrect == RSSpec => []RSTypeOK
BY StreamsInvariant, PTL DEF RSIInv

(* Whatever runs of the detection and decisions of users overlap, marks      *)
(* follow the status but for the accidents of rsAstray, and only a run cut   *)
(* in the middle leaves a stream half made.                                  *)
THEOREM StreamsStaySound == RSSpec => []StreamsSound
BY StreamsInvariant, PTL DEF RSIInv

(* The detection takes no decision back, also with decisions made between    *)
(* the reading of the rows and the creation of a stream.                     *)
THEOREM DecisionsStand == RSSpec => NeverSuggestedAgain
<1> DEFINE Stand == \A s \in Streams : rsStatus[s] \in Decided => rsStatus'[s] \in Decided
<1>1. RSIInv /\ [RSNext]_rsVars => [Stand]_rsStatus
  <2> SUFFICES ASSUME RSTypeOK, Linked, RSNext PROVE Stand \/ UNCHANGED rsStatus
    BY DEF RSIInv, rsVars, rsRows
  <2>1. ASSUME NEW w \in Workers, CreateStream(w) PROVE Stand
    BY <2>1 DEF RSTypeOK, CreateStream, Decided
  <2>2. ASSUME NEW d \in Decisions, Decide(d) PROVE Stand
    <3>1. rsAsk[d].to \in Decided
      BY DEF RSTypeOK, Asks
    <3>2. QED
      BY <2>2, <3>1 DEF RSTypeOK, Decide
  <2>3. QED
    BY <2>1, <2>2 DEF RSNext, RunNext, AskNext, Detect, MatchFails, Match, MatchNone, Fill, Link,
                      Flag, Finish, Cut, Find, Answered, AskFor, rsRows
<1>2. QED
  BY <1>1, StreamsInvariant, PTL DEF RSSpec, NeverSuggestedAgain

(* Every step of the page is one of RecurringStreams, or leaves the streams  *)
(* alone.                                                                    *)
LEMMA StreamsStep == [RCNext]_rcVars => [RSNext]_rsVars
<1> SUFFICES ASSUME RCNext PROVE RSNext \/ UNCHANGED rsVars
  BY DEF rcVars
<1>1. CASE ConfirmStream \/ DismissStream
  <2>1. PICK s \in Streams, to \in Decided : RowAction(s, to)
    BY <1>1 DEF ConfirmStream, DismissStream, ShownRows, RowsOf, Decided
  <2>2. QED
    BY <2>1 DEF RowAction, RSNext
<1>2. CASE RunDetection \/ SyncDetects
  BY <1>2, PostAssumption DEF RunDetection, SyncDetects, RSNext
<1>3. CASE ServerRuns \/ ServerDecides
  BY <1>3 DEF ServerRuns, ServerDecides, RSNext
<1>4. CASE \E d \in Decisions : RowReplaced(d) \/ RowFails(d)
  BY <1>4 DEF RowReplaced, RowFails, RowEnds, RSNext
<1>5. CASE SetActiveTab \/ Detected \/ DetectionFails
  BY <1>5 DEF SetActiveTab, Detected, DetectionFails
<1>6. CASE \E i \in DOMAIN rcNet : ListServed(i) \/ ListAnswered(i) \/ ListFails(i)
  BY <1>6 DEF ListServed, ListAnswered, ListFails, ListLoaded
<1>7. QED
  BY <1>1, <1>2, <1>3, <1>4, <1>5, <1>6 DEF RCNext

(* The page with all that goes on behind it implements the server.           *)
THEOREM PageImplementsStreams == RCSpec => RSSpec
<1>1. RCInit => RSInit
  BY DEF RCInit
<1>2. QED
  BY <1>1, StreamsStep, PTL DEF RCSpec, RSSpec

(* What holds of the streams therefore holds behind the page.                *)
THEOREM PageStreamsSound == RCSpec => []StreamsSound /\ NeverSuggestedAgain
BY PageImplementsStreams, StreamsStaySound, DecisionsStand, PTL

-----------------------------------------------------------------------------
(* The page of a merchant: its invariant. *)

Subjects == PageIds \cup {TheGroup}

RowOrNone == MerchantRows \cup {NoMerchant}

PageRequests ==
  [kind : {"stats"}, of : Subjects, served : BOOLEAN]
    \cup [kind : {"merchant", "refresh"}, id : PageIds, served : BOOLEAN, row : RowOrNone]
    \cup [kind : {"update", "remove_tag"}, id : PageIds, tags : (SUBSET PageTags) \cup {NoMerchant},
          apply : BOOLEAN, served : BOOLEAN, row : RowOrNone, new : SUBSET PageTags]
    \cup [kind : {"details", "leave", "primary"}, id : PageIds, was : MerchantRows, served : BOOLEAN]

BringsRow == {"merchant", "refresh", "update", "remove_tag"}
TagEdits  == {"update", "remove_tag"}
MadeByUser == {"update", "remove_tag", "details", "leave", "primary"}

(* Types. *)
PageTyped ==
  /\ mpId \in PageIds
  /\ mpMerchant \in RowOrNone
  /\ mpLoading \in BOOLEAN /\ mpCalm \in BOOLEAN
  /\ mpModal \in PendingChanges \cup {NoMerchant}
  /\ mpSearch \in Subjects /\ mpStats \in Subjects \cup {NoMerchant}
  /\ mpNet \in Seq(PageRequests)
  /\ mpSent \in 0..MaxPageSent
  /\ mpServer \in [PageIds -> MerchantRows] /\ (\A m \in PageIds : mpServer[m].id = m)
  /\ mpMeant \in [PageIds -> SUBSET PageTags]
  /\ \A i \in DOMAIN mpNet :
       mpNet[i].served /\ mpNet[i].kind \in BringsRow => mpNet[i].row \in MerchantRows

(* A page that loads has a request for its merchant under way. *)
Awaited == mpLoading => \E i \in DOMAIN mpNet : mpNet[i].kind = "merchant"

(* The change fits the merchant as the server has it: its whole list of tags *)
(* is the server's with what is new.                                         *)
Fits(change) ==
  /\ change.id = mpId
  /\ \/ change.tags = NoMerchant /\ change.new = {}
     \/ change.tags = mpServer[mpId].tags \cup change.new

(* A question is open over a page at rest, or its answer alone is awaited. *)
AskedAtRest ==
  mpModal # NoMerchant =>
    \/ mpNet = << >> /\ Fits(mpModal)
    \/ Len(mpNet) = 1 /\ mpNet[1].kind = "update"

(* A change of the user's comes before what was asked for after it; a change *)
(* of the group has nothing after it.                                        *)
UserFirst ==
  \A i \in DOMAIN mpNet : /\ mpNet[i].kind \in MadeByUser => i = 1
                          /\ mpNet[i].kind \in {"leave", "primary"} => Len(mpNet) = 1

(* Requests are served in the order sent. *)
InOrder == \A i, j \in DOMAIN mpNet : i < j /\ mpNet[j].served => mpNet[i].served

(* The tags of a merchant once the edit under way is served, which are those *)
(* the user meant.                                                           *)
EditComes == 1 \in DOMAIN mpNet /\ mpNet[1].kind \in TagEdits /\ ~mpNet[1].served

TagsAfter(m) ==
  IF EditComes /\ m \in GroupOf(mpNet[1].id) THEN TagsGiven(mpNet[1]) ELSE mpServer[m].tags

MeantComes == \A m \in PageIds : mpMeant[m] = TagsAfter(m)

(* The answer to q will show the merchant of the path as the server has it: *)
(* the row it brings, or the merchant on screen that it describes.           *)
WillShow(q) ==
  /\ q.id = mpId
  /\ q.served /\ q.kind \in BringsRow => q.row = mpServer[mpId]
  /\ q.kind = "details" =>
       IF q.served THEN mpServer[mpId] = [q.was EXCEPT !.described = TRUE] ELSE q.was = mpServer[mpId] /\ mpServer[mpId].grouped

OnlyStats(net) == \A i \in DOMAIN net : net[i].kind = "stats"

(* What comes last but for statistics shows the server's merchant.           *)
LastComes ==
  \A i \in DOMAIN mpNet :
    /\ mpNet[i].kind # "stats"
    /\ \A j \in DOMAIN mpNet : j > i => mpNet[j].kind = "stats"
    => WillShow(mpNet[i])

(* With nothing but statistics to come the page shows the server's merchant, *)
(* and the last statistics are those of its subject.                         *)
RestShows ==
  OnlyStats(mpNet) =>
    /\ mpMerchant = mpServer[mpId]
    /\ mpSearch = SubjectOf(mpMerchant, mpId)
    /\ IF mpNet = << >> THEN mpStats = mpSearch ELSE mpNet[Len(mpNet)].of = mpSearch

CalmPage == mpCalm => AskedAtRest /\ UserFirst /\ InOrder /\ MeantComes /\ LastComes /\ RestShows

PageInv == PageTyped /\ PendingTogether /\ Awaited /\ CalmPage

-----------------------------------------------------------------------------
(* Sequences. *)

LEMMA Extended ==
  ASSUME NEW S, NEW s \in Seq(S), NEW e \in S
  PROVE  /\ Append(s, e) \in Seq(S)
         /\ DOMAIN s = 1..Len(s) /\ Len(s) \in Nat
         /\ DOMAIN Append(s, e) = 1..(Len(s) + 1) /\ Len(Append(s, e)) = Len(s) + 1
         /\ \A j \in 1..Len(s) : Append(s, e)[j] = s[j]
         /\ Append(s, e)[Len(s) + 1] = e
OBVIOUS

LEMMA Changed ==
  ASSUME NEW S, NEW s \in Seq(S), NEW i \in DOMAIN s, NEW e \in S
  PROVE  /\ [s EXCEPT ![i] = e] \in Seq(S)
         /\ DOMAIN [s EXCEPT ![i] = e] = DOMAIN s /\ Len([s EXCEPT ![i] = e]) = Len(s)
         /\ \A j \in DOMAIN s : [s EXCEPT ![i] = e][j] = IF j = i THEN e ELSE s[j]
OBVIOUS

LEMMA Dropped ==
  ASSUME NEW S, NEW s \in Seq(S), NEW i \in DOMAIN s
  PROVE  /\ RemoveAt(s, i) \in Seq(S)
         /\ DOMAIN s = 1..Len(s) /\ Len(s) \in Nat \ {0}
         /\ Len(RemoveAt(s, i)) = Len(s) - 1 /\ DOMAIN RemoveAt(s, i) = 1..(Len(s) - 1)
         /\ \A j \in 1..(Len(s) - 1) : RemoveAt(s, i)[j] = IF j < i THEN s[j] ELSE s[j + 1]
<1> DEFINE a == SubSeq(s, 1, i - 1)
           b == SubSeq(s, i + 1, Len(s))
           t == a \o b
<1>1. DOMAIN s = 1..Len(s) /\ i \in 1..Len(s) /\ Len(s) \in Nat \ {0}
  OBVIOUS
<1>2. a \in Seq(S) /\ Len(a) = i - 1 /\ \A j \in 1..(i - 1) : a[j] = s[j]
  BY <1>1
<1>3. b \in Seq(S) /\ Len(b) = Len(s) - i /\ \A j \in 1..(Len(s) - i) : b[j] = s[j + i]
  BY <1>1
<1> HIDE DEF a, b
<1>4. t \in Seq(S) /\ Len(t) = Len(s) - 1 /\ DOMAIN t = 1..(Len(s) - 1)
  <2>0. a \in Seq(S) /\ b \in Seq(S)
    BY <1>2, <1>3
  <2>1. t \in Seq(S) /\ Len(t) = Len(a) + Len(b)
    BY <2>0
  <2>2. Len(t) = Len(s) - 1
    BY <1>1, <1>2, <1>3, <2>1
  <2> HIDE DEF t
  <2>3. QED
    BY <2>1, <2>2
<1>5. ASSUME NEW j \in 1..(Len(s) - 1) PROVE t[j] = IF j < i THEN s[j] ELSE s[j + 1]
  <2>1. CASE j < i
    BY <1>1, <1>2, <1>3, <2>1
  <2>2. CASE ~(j < i)
    <3>1. j - (i - 1) \in 1..(Len(s) - i) /\ (j - (i - 1)) + i = j + 1
      BY <1>1, <2>2
    <3>2. t[j] = b[j - (i - 1)]
      BY <1>1, <1>2, <1>3, <2>2, <3>1
    <3>3. QED
      BY <1>3, <2>2, <3>1, <3>2
  <2>3. QED
    BY <2>1, <2>2
<1>6. RemoveAt(s, i) = t
  BY DEF RemoveAt, t, a, b
<1> HIDE DEF t
<1>7. QED
  BY <1>1, <1>4, <1>5, <1>6

(* A sequence whatever it holds. *)
Queue(s) == \E S : s \in Seq(S)

\* Each of t is one of s, or is e.
FromOr(s, e, t) == \A i \in DOMAIN t : t[i] = e \/ \E j \in DOMAIN s : t[i] = s[j]

(* A queue with one more at its end, one changed, and one less. *)
LEMMA QueueMore ==
  ASSUME NEW s, Queue(s), NEW e
  PROVE  Queue(Append(s, e)) /\ FromOr(s, e, Append(s, e))
<1> PICK S : s \in Seq(S)
  BY DEF Queue
<1> DEFINE T == S \cup {e}
<1>1. s \in Seq(T) /\ e \in T
  OBVIOUS
<1> HIDE DEF T
<1>2. /\ Append(s, e) \in Seq(T)
      /\ DOMAIN Append(s, e) = 1..(Len(s) + 1) /\ DOMAIN s = 1..Len(s) /\ Len(s) \in Nat
      /\ \A j \in 1..Len(s) : Append(s, e)[j] = s[j]
      /\ Append(s, e)[Len(s) + 1] = e
  BY <1>1
<1>3. ASSUME NEW i \in DOMAIN Append(s, e)
      PROVE  Append(s, e)[i] = e \/ \E j \in DOMAIN s : Append(s, e)[i] = s[j]
  <2>1. i = Len(s) + 1 \/ i \in 1..Len(s)
    BY <1>2
  <2>2. QED
    BY <1>2, <2>1
<1>4. QED
  BY <1>2, <1>3 DEF Queue, FromOr

LEMMA QueueChanged ==
  ASSUME NEW s, Queue(s), NEW i \in DOMAIN s, NEW e
  PROVE  Queue([s EXCEPT ![i] = e]) /\ FromOr(s, e, [s EXCEPT ![i] = e])
<1> PICK S : s \in Seq(S)
  BY DEF Queue
<1> DEFINE T == S \cup {e}
<1>1. s \in Seq(T) /\ e \in T
  OBVIOUS
<1> HIDE DEF T
<1>2. [s EXCEPT ![i] = e] \in Seq(T)
  BY <1>1
<1>3. \A j \in DOMAIN [s EXCEPT ![i] = e] : j \in DOMAIN s /\ [s EXCEPT ![i] = e][j] = IF j = i THEN e ELSE s[j]
  OBVIOUS
<1>4. QED
  BY <1>2, <1>3 DEF Queue, FromOr

LEMMA QueueLess ==
  ASSUME NEW s, Queue(s), NEW i \in DOMAIN s
  PROVE  Queue(RemoveAt(s, i)) /\ FromOr(s, s[i], RemoveAt(s, i))
<1> PICK S : s \in Seq(S)
  BY DEF Queue
<1> DEFINE r == RemoveAt(s, i)
<1>1. /\ r \in Seq(S) /\ Len(s) \in Nat /\ DOMAIN s = 1..Len(s) /\ DOMAIN r = 1..(Len(s) - 1)
      /\ \A j \in 1..(Len(s) - 1) : r[j] = IF j < i THEN s[j] ELSE s[j + 1]
  BY Dropped
<1> HIDE DEF r
<1>2. ASSUME NEW j \in DOMAIN r PROVE \E k \in DOMAIN s : r[j] = s[k]
  <2>1. j \in DOMAIN s /\ j + 1 \in DOMAIN s /\ (r[j] = s[j] \/ r[j] = s[j + 1])
    BY <1>1
  <2>2. QED
    BY <2>1
<1>3. QED
  BY <1>1, <1>2 DEF r, Queue, FromOr

(* The same, place by place. *)
LEMMA QueueShape ==
  ASSUME NEW s, Queue(s)
  PROVE  Len(s) \in Nat /\ DOMAIN s = 1..Len(s) /\ (s = << >> <=> Len(s) = 0)
<1> PICK S : s \in Seq(S)
  BY DEF Queue
<1>1. QED
  OBVIOUS

LEMMA OneQueued ==
  ASSUME NEW e
  PROVE  Queue(<<e>>) /\ Len(<<e>>) = 1 /\ DOMAIN <<e>> = {1} /\ <<e>>[1] = e
<1> DEFINE s == <<e>>
<1>1. s \in Seq({e}) /\ Len(s) = 1 /\ DOMAIN s = {1} /\ s[1] = e
  OBVIOUS
<1> HIDE DEF s
<1>2. Queue(s)
  BY <1>1 DEF Queue
<1>3. QED
  BY <1>1, <1>2 DEF s

LEMMA Queued ==
  ASSUME NEW s, Queue(s), NEW e
  PROVE  /\ Queue(Append(s, e)) /\ Len(s) \in Nat
         /\ DOMAIN s = 1..Len(s) /\ DOMAIN Append(s, e) = 1..(Len(s) + 1)
         /\ Len(Append(s, e)) = Len(s) + 1
         /\ \A j \in 1..Len(s) : Append(s, e)[j] = s[j]
         /\ Append(s, e)[Len(s) + 1] = e
<1> PICK S : s \in Seq(S)
  BY DEF Queue
<1> DEFINE T == S \cup {e}
<1>1. s \in Seq(T) /\ e \in T
  OBVIOUS
<1> HIDE DEF T
<1>2. Append(s, e) \in Seq(T)
  BY <1>1
<1>3. QED
  BY <1>1, <1>2, Extended DEF Queue

LEMMA ChangedInQueue ==
  ASSUME NEW s, Queue(s), NEW i \in DOMAIN s, NEW e
  PROVE  /\ Queue([s EXCEPT ![i] = e]) /\ Len(s) \in Nat
         /\ DOMAIN s = 1..Len(s) /\ DOMAIN [s EXCEPT ![i] = e] = 1..Len(s)
         /\ Len([s EXCEPT ![i] = e]) = Len(s)
         /\ \A j \in 1..Len(s) : [s EXCEPT ![i] = e][j] = IF j = i THEN e ELSE s[j]
<1> PICK S : s \in Seq(S)
  BY DEF Queue
<1> DEFINE T == S \cup {e}
<1>1. s \in Seq(T) /\ e \in T
  OBVIOUS
<1> HIDE DEF T
<1>2. QED
  BY <1>1, Changed DEF Queue

LEMMA Unqueued ==
  ASSUME NEW s, Queue(s), NEW i \in DOMAIN s
  PROVE  /\ Queue(RemoveAt(s, i)) /\ Len(s) \in Nat \ {0}
         /\ DOMAIN s = 1..Len(s) /\ DOMAIN RemoveAt(s, i) = 1..(Len(s) - 1)
         /\ Len(RemoveAt(s, i)) = Len(s) - 1
         /\ \A j \in 1..(Len(s) - 1) : RemoveAt(s, i)[j] = IF j < i THEN s[j] ELSE s[j + 1]
<1> PICK S : s \in Seq(S)
  BY DEF Queue
<1>1. QED
  BY Dropped DEF Queue

-----------------------------------------------------------------------------
(* The page of a merchant: merchants and requests. *)

LEMMA RequestFields ==
  ASSUME NEW q \in PageRequests
  PROVE  /\ q.kind \in {"stats"} \cup BringsRow \cup MadeByUser /\ q.served \in BOOLEAN
         /\ q.kind = "stats" => q.of \in Subjects
         /\ q.kind # "stats" => q.id \in PageIds
         /\ q.kind \in BringsRow => q.row \in RowOrNone
         /\ q.kind \in TagEdits => q.tags \in (SUBSET PageTags) \cup {NoMerchant}
         /\ q.kind = "details" => q.was \in MerchantRows
BY DEF PageRequests, BringsRow, MadeByUser, TagEdits, Subjects, RowOrNone

LEMMA RequestServed ==
  ASSUME NEW q \in PageRequests
  PROVE  LET e == [q EXCEPT !.served = TRUE]
         IN  /\ e \in PageRequests /\ e.served /\ e.kind = q.kind
             /\ q.kind = "stats" => e.of = q.of
             /\ q.kind # "stats" => e.id = q.id
             /\ q.kind \in TagEdits => e.tags = q.tags
             /\ q.kind = "details" => e.was = q.was
BY DEF PageRequests, BringsRow, TagEdits, Subjects, RowOrNone

LEMMA RowServed ==
  ASSUME NEW q \in PageRequests, q.kind \in BringsRow, NEW r \in MerchantRows
  PROVE  LET e == [q EXCEPT !.served = TRUE, !.row = r]
         IN  /\ e \in PageRequests /\ e.served /\ e.kind = q.kind
             /\ e.id = q.id /\ e.row = r
             /\ q.kind \in TagEdits => e.tags = q.tags
BY DEF PageRequests, BringsRow, TagEdits, Subjects, RowOrNone

LEMMA StoreTyped ==
  ASSUME mpServer \in [PageIds -> MerchantRows], NEW q \in PageRequests
  PROVE  /\ ServedStore(q) \in [PageIds -> MerchantRows]
         /\ \A m \in PageIds : ServedStore(q)[m].id = mpServer[m].id
         /\ \A m \in PageIds :
              ServedStore(q)[m].tags = IF q.kind \in TagEdits /\ m \in GroupOf(q.id)
                                       THEN TagsGiven(q) ELSE mpServer[m].tags
<1>1. CASE q.kind \in TagEdits
  <2>1. q.id \in PageIds /\ q.tags \in (SUBSET PageTags) \cup {NoMerchant}
    BY <1>1, RequestFields DEF TagEdits
  <2>2. TagsGiven(q) \in SUBSET PageTags
    BY <2>1 DEF TagsGiven, MerchantRows
  <2>3. ServedStore(q) = [m \in PageIds |-> IF m \in GroupOf(q.id)
                                             THEN [mpServer[m] EXCEPT !.tags = TagsGiven(q)]
                                             ELSE mpServer[m]]
    BY <1>1 DEF ServedStore, PropagateDefaults, WithTags, TagEdits
  <2> HIDE DEF ServedStore
  <2>4. ASSUME NEW m \in PageIds
        PROVE  /\ ServedStore(q)[m] \in MerchantRows
               /\ ServedStore(q)[m].id = mpServer[m].id
               /\ ServedStore(q)[m].tags = IF m \in GroupOf(q.id) THEN TagsGiven(q) ELSE mpServer[m].tags
    <3>1. /\ mpServer[m] \in MerchantRows
          /\ ServedStore(q)[m] = IF m \in GroupOf(q.id) THEN [mpServer[m] EXCEPT !.tags = TagsGiven(q)]
                                                        ELSE mpServer[m]
      BY <2>3
    <3>2. QED
      BY <2>2, <3>1 DEF MerchantRows
  <2>5. ServedStore(q) \in [PageIds -> MerchantRows]
    BY <2>3, <2>4
  <2>6. QED
    BY <1>1, <2>4, <2>5
<1>2. CASE q.kind = "leave"
  <2>1. ServedStore(q) = [mpServer EXCEPT ![q.id].grouped = FALSE] /\ q.id \in PageIds
    BY <1>2, RequestFields DEF ServedStore
  <2> HIDE DEF ServedStore
  <2>2. [mpServer[q.id] EXCEPT !.grouped = FALSE] \in MerchantRows
    <3>1. mpServer[q.id] \in MerchantRows
      BY <2>1
    <3>2. QED
      BY <3>1 DEF MerchantRows
  <2>3. \A m \in PageIds : ServedStore(q)[m] = IF m = q.id THEN [mpServer[q.id] EXCEPT !.grouped = FALSE]
                                                           ELSE mpServer[m]
    BY <2>1
  <2>4. ServedStore(q) \in [PageIds -> MerchantRows]
    BY <2>1, <2>2
  <2>5. QED
    BY <1>2, <2>1, <2>3, <2>4 DEF TagEdits, MerchantRows
<1>3. CASE q.kind = "primary"
  <2>1. ServedStore(q) = [m \in PageIds |-> [mpServer[m] EXCEPT !.primary = m = q.id]]
    BY <1>3 DEF ServedStore
  <2> HIDE DEF ServedStore
  <2>2. ASSUME NEW m \in PageIds
        PROVE  /\ ServedStore(q)[m] \in MerchantRows
               /\ ServedStore(q)[m].id = mpServer[m].id /\ ServedStore(q)[m].tags = mpServer[m].tags
    <3>1. mpServer[m] \in MerchantRows /\ ServedStore(q)[m] = [mpServer[m] EXCEPT !.primary = m = q.id]
      BY <2>1
    <3>2. QED
      BY <3>1 DEF MerchantRows
  <2>3. ServedStore(q) \in [PageIds -> MerchantRows]
    BY <2>1, <2>2
  <2>4. QED
    BY <1>3, <2>2, <2>3 DEF TagEdits
<1>4. CASE q.kind = "details"
  <2>1. ServedStore(q) = [m \in PageIds |-> IF mpServer[m].grouped
                                            THEN [mpServer[m] EXCEPT !.described = TRUE]
                                            ELSE mpServer[m]]
    BY <1>4 DEF ServedStore
  <2> HIDE DEF ServedStore
  <2>2. ASSUME NEW m \in PageIds
        PROVE  /\ ServedStore(q)[m] \in MerchantRows
               /\ ServedStore(q)[m].id = mpServer[m].id /\ ServedStore(q)[m].tags = mpServer[m].tags
    <3>1. /\ mpServer[m] \in MerchantRows
          /\ ServedStore(q)[m] = IF mpServer[m].grouped THEN [mpServer[m] EXCEPT !.described = TRUE]
                                                        ELSE mpServer[m]
      BY <2>1
    <3>2. QED
      BY <3>1 DEF MerchantRows
  <2>3. ServedStore(q) \in [PageIds -> MerchantRows]
    BY <2>1, <2>2
  <2>4. QED
    BY <1>4, <2>2, <2>3 DEF TagEdits
<1>5. CASE q.kind \in {"stats", "merchant", "refresh"}
  <2>1. ServedStore(q) = mpServer
    BY <1>5 DEF ServedStore
  <2>2. QED
    BY <1>5, <2>1 DEF TagEdits
<1>6. QED
  BY <1>1, <1>2, <1>3, <1>4, <1>5, RequestFields DEF TagEdits, BringsRow, MadeByUser

-----------------------------------------------------------------------------
(* The page of a merchant: the steps of the user. *)

LEMMA InitPage == MPInit => PageInv
<1> SUFFICES ASSUME MPInit PROVE PageInv
  OBVIOUS
<1> DEFINE q == FetchRequest(1)
<1>1. q \in PageRequests /\ ~q.served /\ q.kind = "merchant" /\ q.id = 1
  BY DEF FetchRequest, PageRequests, PageIds, RowOrNone
<1>2. mpNet = <<q>> /\ mpNet \in Seq(PageRequests) /\ Len(mpNet) = 1 /\ DOMAIN mpNet = {1} /\ mpNet[1] = q
  BY <1>1 DEF MPInit
<1> HIDE DEF q
<1>3. mpServer \in [PageIds -> MerchantRows] /\ \A m \in PageIds : mpServer[m].id = m
  BY DEF MPInit, MerchantRows, PageTags, PageIds
<1>4. PageTyped
  BY <1>1, <1>2, <1>3, MaxPageSentAssumption
     DEF PageTyped, MPInit, RowOrNone, Subjects, PageIds, MerchantRows
<1>5. PendingTogether /\ Awaited
  BY <1>1, <1>2 DEF MPInit, PendingTogether, Awaited
<1>6. UserFirst /\ InOrder /\ MeantComes
  BY <1>1, <1>2 DEF MPInit, UserFirst, MadeByUser, InOrder, MeantComes, TagsAfter, EditComes, TagEdits
<1>7. AskedAtRest /\ LastComes /\ RestShows
  BY <1>1, <1>2 DEF MPInit, AskedAtRest, LastComes, WillShow, RestShows, OnlyStats
<1>8. QED
  BY <1>4, <1>5, <1>6, <1>7 DEF PageInv, CalmPage

(* A question changes nothing that is under way or shown.                    *)
LEMMA AskKeeps ==
  ASSUME PageInv, AddDefaultTag \/ ChangeDefaultCategory
  PROVE  PageInv'
<1>1. PICK tags \in (SUBSET PageTags) \cup {NoMerchant}, new \in SUBSET PageTags :
        /\ Ask(tags, new) /\ Visible
        /\ \/ tags = NoMerchant /\ new = {}
           \/ tags = mpMerchant.tags \cup new
  <2>1. CASE AddDefaultTag
    <3>1. PICK t \in PageTags \ mpMerchant.tags : Ask(mpMerchant.tags \cup {t}, {t})
      BY <2>1 DEF AddDefaultTag
    <3>2. mpMerchant.tags \subseteq PageTags
      BY <2>1 DEF PageInv, PageTyped, RowOrNone, AddDefaultTag, Visible, MerchantRows
    <3>3. mpMerchant.tags \cup {t} \in SUBSET PageTags
      BY <3>2
    <3>4. QED
      BY <2>1, <3>1, <3>3 DEF AddDefaultTag
  <2>2. CASE ChangeDefaultCategory
    BY <2>2 DEF ChangeDefaultCategory
  <2>3. QED
    BY <2>1, <2>2
<1> DEFINE yes == MPUpdate(tags, TRUE, new)
           no  == MPUpdate(tags, FALSE, new)
<1>2. mpMerchant \in MerchantRows /\ mpMerchant.id \in PageIds
  BY <1>1 DEF PageInv, PageTyped, RowOrNone, Visible, MerchantRows
<1>3. /\ yes \in PendingChanges /\ no \in PendingChanges /\ yes.apply /\ no = [yes EXCEPT !.apply = FALSE]
      /\ yes.tags = tags /\ yes.new = new /\ yes.id = mpMerchant.id
  <2>1. yes = [kind |-> "update", id |-> mpMerchant.id, tags |-> tags, apply |-> TRUE, served |-> FALSE,
               row |-> NoMerchant, new |-> new]
    BY DEF MPUpdate
  <2>2. no = [kind |-> "update", id |-> mpMerchant.id, tags |-> tags, apply |-> FALSE, served |-> FALSE,
              row |-> NoMerchant, new |-> new]
    BY DEF MPUpdate
  <2> HIDE DEF yes, no
  <2>3. yes.apply /\ yes.tags = tags /\ yes.new = new /\ yes.id = mpMerchant.id
    BY <2>1
  <2>6. no = [yes EXCEPT !.apply = FALSE]
    <3> DEFINE F == {"kind", "id", "tags", "apply", "served", "row", "new"}
               e == [yes EXCEPT !.apply = FALSE]
    <3>1. e = [f \in F |-> e[f]] /\ no = [f \in F |-> no[f]]
      BY <2>1, <2>2
    <3>2. \A f \in F : e[f] = no[f]
      <4>1. \A f \in F : e[f] = IF f = "apply" THEN FALSE ELSE yes[f]
        BY <2>1
      <4>2. /\ yes.kind = no.kind /\ yes.id = no.id /\ yes.tags = no.tags /\ no.apply = FALSE
            /\ yes.served = no.served /\ yes.row = no.row /\ yes.new = no.new
        BY <2>1, <2>2
      <4> HIDE DEF e
      <4>3. QED
        BY <4>1, <4>2
    <3> HIDE DEF F, e
    <3>3. e = no
      BY <3>1, <3>2
    <3>4. QED
      BY <3>3 DEF e
  <2>4. yes \in PendingChanges /\ no \in PendingChanges
    BY <1>1, <1>2, <2>1, <2>2 DEF PendingChanges
  <2>5. QED
    BY <2>3, <2>4, <2>6
<1>4. mpModal' = yes /\ mpRef' = no /\ yes # NoMerchant
  BY <1>1, <1>3, NoMerchantAssumption DEF Ask
<1>5. /\ UNCHANGED <<mpId, mpMerchant, mpLoading, mpSearch, mpStats, mpNet, mpSent, mpServer, mpMeant>>
      /\ mpCalm' = (mpCalm /\ Idle)
  BY <1>1 DEF Ask, mpScreen
<1> HIDE DEF yes, no
<1>6. PageTyped'
  BY <1>3, <1>4, <1>5 DEF PageInv, PageTyped
<1>7. PendingTogether' /\ Awaited'
  BY <1>3, <1>4, <1>5 DEF PageInv, PendingTogether, Awaited
<1>8. ASSUME mpCalm' PROVE AskedAtRest'
  <2>1. mpNet = << >> /\ mpMerchant = mpServer[mpId] /\ mpMerchant.id = mpId
    BY <1>5, <1>8 DEF Idle, PageInv, PageTyped
  <2>2. Fits(yes)
    BY <1>1, <1>3, <2>1 DEF Fits
  <2>3. QED
    BY <1>4, <1>5, <2>1, <2>2 DEF AskedAtRest, Fits
<1>9. CalmPage'
  BY ZenonT(30), <1>5, <1>8 DEF PageInv, CalmPage, UserFirst, InOrder, MeantComes, TagsAfter, EditComes, GroupOf,
                              TagsGiven, LastComes, WillShow, RestShows, OnlyStats
<1>10. QED
  BY <1>6, <1>7, <1>9 DEF PageInv

LEMMA CloseKeeps ==
  ASSUME PageInv, CloseModal
  PROVE  PageInv'
BY DEF PageInv, CloseModal, PageTyped, PendingTogether, Awaited, CalmPage, AskedAtRest, UserFirst, InOrder,
       MeantComes, TagsAfter, EditComes, GroupOf, TagsGiven, LastComes, WillShow, RestShows, OnlyStats, mpScreen

-----------------------------------------------------------------------------
(* The page of a merchant: requests that the user causes. *)

LEMMA Sent ==
  ASSUME PageTyped, NEW e \in PageRequests, ~e.served, PageSend(mpNet, e)
  PROVE  /\ mpNet' \in Seq(PageRequests) /\ mpSent' \in 0..MaxPageSent
         /\ DOMAIN mpNet = 1..Len(mpNet) /\ Len(mpNet) \in Nat
         /\ DOMAIN mpNet' = 1..(Len(mpNet) + 1) /\ Len(mpNet') = Len(mpNet) + 1
         /\ \A j \in 1..Len(mpNet) : mpNet'[j] = mpNet[j]
         /\ mpNet'[Len(mpNet) + 1] = e
         /\ \A i \in DOMAIN mpNet' :
              mpNet'[i].served /\ mpNet'[i].kind \in BringsRow => mpNet'[i].row \in MerchantRows
<1>1. mpNet' = Append(mpNet, e) /\ mpNet \in Seq(PageRequests)
  BY DEF PageTyped, PageSend
<1>2. /\ mpNet' \in Seq(PageRequests)
      /\ DOMAIN mpNet = 1..Len(mpNet) /\ Len(mpNet) \in Nat
      /\ DOMAIN mpNet' = 1..(Len(mpNet) + 1) /\ Len(mpNet') = Len(mpNet) + 1
      /\ \A j \in 1..Len(mpNet) : mpNet'[j] = mpNet[j]
      /\ mpNet'[Len(mpNet) + 1] = e
  BY <1>1, Extended
<1>3. mpSent' \in 0..MaxPageSent
  BY MaxPageSentAssumption DEF PageTyped, PageSend
<1>4. ASSUME NEW i \in DOMAIN mpNet', mpNet'[i].served, mpNet'[i].kind \in BringsRow
      PROVE  mpNet'[i].row \in MerchantRows
  <2>1. i \in DOMAIN mpNet /\ mpNet'[i] = mpNet[i]
    BY <1>2, <1>4
  <2>2. QED
    BY <1>4, <2>1 DEF PageTyped
<1>5. QED
  BY <1>2, <1>3, <1>4

(* A change made at rest is alone under way.                                 *)
LEMMA SentAtRest ==
  ASSUME PageTyped, NEW e \in PageRequests, ~e.served, e.kind \in MadeByUser, PageSend(mpNet, e),
         mpNet = << >>, WillShow(e), UNCHANGED <<mpId, mpServer>>
  PROVE  UserFirst' /\ InOrder' /\ LastComes' /\ RestShows' /\ DOMAIN mpNet' = {1} /\ mpNet'[1] = e
<1>1. DOMAIN mpNet' = {1} /\ Len(mpNet') = 1 /\ mpNet'[1] = e
  BY Sent
<1>2. e.kind # "stats"
  BY DEF MadeByUser
<1>3. LastComes'
  BY <1>1 DEF LastComes, WillShow
<1>4. QED
  BY <1>1, <1>2, <1>3 DEF UserFirst, InOrder, RestShows, OnlyStats

LEMMA ConfirmKeeps ==
  ASSUME PageInv, HandleConfirm
  PROVE  PageInv'
<1>1. PICK apply \in BOOLEAN :
        /\ PageSend(mpNet, IF apply THEN mpModal ELSE mpRef)
        /\ LET c == IF apply THEN mpModal ELSE mpRef
           IN  mpMeant' = MeantFor(c.id, mpMeant[c.id] \cup c.new)
  BY DEF HandleConfirm
<1> DEFINE q == IF apply THEN mpModal ELSE mpRef
<1>2. mpModal \in PendingChanges /\ mpModal # NoMerchant /\ mpRef = [mpModal EXCEPT !.apply = FALSE]
  BY DEF HandleConfirm, PageInv, PageTyped, PendingTogether
<1>3. mpRef \in PendingChanges /\ mpRef.id = mpModal.id /\ mpRef.tags = mpModal.tags /\ mpRef.new = mpModal.new
  BY <1>2 DEF PendingChanges
<1>4. q \in PendingChanges /\ q.id = mpModal.id /\ q.tags = mpModal.tags /\ q.new = mpModal.new
  BY <1>2, <1>3
<1>5. PageSend(mpNet, q) /\ mpMeant' = MeantFor(q.id, mpMeant[q.id] \cup q.new)
  BY <1>1
<1> HIDE DEF q
<1>6. q \in PageRequests /\ ~q.served /\ q.kind = "update" /\ q.id \in PageIds /\ q.new \subseteq PageTags
  BY <1>4 DEF PendingChanges, PageRequests, RowOrNone
<1>7. /\ UNCHANGED <<mpId, mpMerchant, mpLoading, mpSearch, mpStats, mpModal, mpRef, mpServer, mpCalm>>
      /\ ~Saving
  BY DEF HandleConfirm, mpScreen
<1>8. mpMeant' \in [PageIds -> SUBSET PageTags]
  BY <1>5, <1>6 DEF MeantFor, PageInv, PageTyped
<1>9. PageTyped'
  BY <1>5, <1>6, <1>7, <1>8, Sent DEF PageInv, PageTyped
<1>10. PendingTogether'
  BY <1>7 DEF PageInv, PendingTogether
<1>11. Awaited'
  <2>1. \A i \in DOMAIN mpNet : i \in DOMAIN mpNet' /\ mpNet'[i] = mpNet[i]
    BY <1>5, <1>6, Sent DEF PageInv
  <2>2. QED
    BY <1>7, <2>1 DEF PageInv, Awaited
<1>12. ASSUME mpCalm' PROVE AskedAtRest' /\ UserFirst' /\ InOrder' /\ MeantComes' /\ LastComes' /\ RestShows'
  <2>1. mpNet = << >> /\ Fits(mpModal) /\ MeantComes
    <3>1. AskedAtRest /\ MeantComes
      BY <1>7, <1>12 DEF PageInv, CalmPage
    <3>2. ~(Len(mpNet) = 1 /\ mpNet[1].kind = "update")
      BY <1>7 DEF Saving, PageInv, PageTyped
    <3>3. QED
      BY <1>2, <3>1, <3>2 DEF AskedAtRest
  <2>2. WillShow(q)
    BY <1>4, <1>6, <2>1 DEF WillShow, Fits
  <2>3. UserFirst' /\ InOrder' /\ LastComes' /\ RestShows' /\ DOMAIN mpNet' = {1} /\ mpNet'[1] = q
    BY <1>5, <1>6, <1>7, <2>1, <2>2, SentAtRest DEF PageInv, MadeByUser
  <2>4. AskedAtRest'
    BY <1>6, <1>9, <2>3 DEF AskedAtRest, PageTyped
  <2>5. ASSUME NEW m \in PageIds PROVE mpMeant'[m] = TagsAfter(m)'
    <3>1. q.id = mpId /\ ((q.tags = NoMerchant /\ q.new = {}) \/ q.tags = mpServer[mpId].tags \cup q.new)
      BY <1>4, <2>1 DEF Fits
    <3>2. mpMeant[m] = mpServer[m].tags /\ mpMeant[mpId] = mpServer[mpId].tags
      BY <1>6, <2>1, <3>1 DEF MeantComes, TagsAfter, EditComes
    <3>3. mpMeant'[m] = IF m \in GroupOf(q.id) THEN mpServer[mpId].tags \cup q.new ELSE mpServer[m].tags
      BY <1>5, <3>1, <3>2 DEF MeantFor
    <3>4. TagsAfter(m)' = IF m \in GroupOf(q.id) THEN TagsGiven(q) ELSE mpServer[m].tags
      BY <1>6, <1>7, <2>3 DEF TagsAfter, EditComes, TagEdits, GroupOf, TagsGiven
    <3>5. mpServer[mpId].tags \cup q.new \in SUBSET PageTags
      BY <1>6 DEF PageInv, PageTyped, MerchantRows
    <3>6. mpServer[mpId].tags \cup q.new # NoMerchant
      BY <3>5, NoMerchantAssumption
    <3>7. TagsGiven(q) = mpServer[mpId].tags \cup q.new
      BY <3>1, <3>6 DEF TagsGiven
    <3>8. QED
      BY <3>3, <3>4, <3>7
  <2>6. QED
    BY <2>3, <2>4, <2>5 DEF MeantComes
<1>13. QED
  BY <1>9, <1>10, <1>11, <1>12 DEF PageInv, CalmPage

LEMMA RemoveKeeps ==
  ASSUME PageInv, RemoveDefaultTag
  PROVE  PageInv'
<1>1. PICK t \in mpMerchant.tags :
        /\ PageSend(mpNet, [MPUpdate(mpMerchant.tags \ {t}, FALSE, {}) EXCEPT !.kind = "remove_tag"])
        /\ mpMeant' = MeantFor(mpMerchant.id, mpMeant[mpMerchant.id] \ {t})
  BY DEF RemoveDefaultTag
<1> DEFINE q == [MPUpdate(mpMerchant.tags \ {t}, FALSE, {}) EXCEPT !.kind = "remove_tag"]
<1>2. mpMerchant \in MerchantRows /\ mpMerchant.id \in PageIds /\ mpMerchant.tags \subseteq PageTags
  BY DEF RemoveDefaultTag, Visible, PageInv, PageTyped, RowOrNone, MerchantRows
<1>3. /\ q \in PageRequests /\ ~q.served /\ q.kind = "remove_tag" /\ q.id = mpMerchant.id
      /\ q.tags = mpMerchant.tags \ {t}
  BY <1>2 DEF MPUpdate, PageRequests, RowOrNone
<1>4. PageSend(mpNet, q)
  BY <1>1
<1> HIDE DEF q
<1>5. /\ UNCHANGED <<mpId, mpMerchant, mpLoading, mpSearch, mpStats, mpModal, mpRef, mpServer>>
      /\ mpModal = NoMerchant /\ mpCalm' = (mpCalm /\ Idle)
  BY DEF RemoveDefaultTag, mpScreen
<1>6. mpMeant' \in [PageIds -> SUBSET PageTags]
  BY <1>1, <1>2 DEF MeantFor, PageInv, PageTyped
<1>7. mpCalm' \in BOOLEAN
  BY <1>5 DEF PageInv, PageTyped
<1>8. PageTyped'
  BY <1>3, <1>4, <1>5, <1>6, <1>7, Sent DEF PageInv, PageTyped
<1>9. PendingTogether' /\ Awaited'
  <2>1. \A i \in DOMAIN mpNet : i \in DOMAIN mpNet' /\ mpNet'[i] = mpNet[i]
    BY <1>3, <1>4, Sent DEF PageInv
  <2>2. QED
    BY <1>5, <2>1 DEF PageInv, Awaited, PendingTogether
<1>10. ASSUME mpCalm' PROVE AskedAtRest' /\ UserFirst' /\ InOrder' /\ MeantComes' /\ LastComes' /\ RestShows'
  <2>1. mpNet = << >> /\ mpMerchant = mpServer[mpId] /\ mpMerchant.id = mpId /\ MeantComes
    BY <1>5, <1>10 DEF Idle, PageInv, PageTyped, CalmPage
  <2>2. WillShow(q)
    BY <1>3, <2>1 DEF WillShow
  <2>3. UserFirst' /\ InOrder' /\ LastComes' /\ RestShows' /\ DOMAIN mpNet' = {1} /\ mpNet'[1] = q
    BY <1>3, <1>4, <1>5, <2>1, <2>2, SentAtRest DEF PageInv, MadeByUser
  <2>4. AskedAtRest'
    BY <1>5 DEF AskedAtRest
  <2>5. ASSUME NEW m \in PageIds PROVE mpMeant'[m] = TagsAfter(m)'
    <3>1. mpMeant[m] = mpServer[m].tags /\ mpMeant[mpId] = mpServer[mpId].tags
      BY <1>2, <2>1 DEF MeantComes, TagsAfter, EditComes
    <3>2. mpMeant'[m] = IF m \in GroupOf(q.id) THEN mpServer[mpId].tags \ {t} ELSE mpServer[m].tags
      BY <1>1, <1>3, <2>1, <3>1 DEF MeantFor
    <3>3. TagsAfter(m)' = IF m \in GroupOf(q.id) THEN TagsGiven(q) ELSE mpServer[m].tags
      BY <1>3, <1>5, <2>3 DEF TagsAfter, EditComes, TagEdits, GroupOf, TagsGiven
    <3>4. q.tags \in SUBSET PageTags
      BY <1>2, <1>3
    <3>5. TagsGiven(q) = mpServer[mpId].tags \ {t}
      BY <1>3, <2>1, <3>4, NoMerchantAssumption DEF TagsGiven
    <3>6. QED
      BY <3>2, <3>3, <3>5
  <2>6. QED
    BY <2>3, <2>4, <2>5 DEF MeantComes
<1>11. QED
  BY <1>8, <1>9, <1>10 DEF PageInv, CalmPage

LEMMA GroupKeeps ==
  ASSUME PageInv, NEW kind \in {"details", "leave", "primary"}, GroupEdit(kind)
  PROVE  PageInv'
<1> DEFINE q == [kind |-> kind, id |-> mpMerchant.id, was |-> mpMerchant, served |-> FALSE]
<1>2. mpMerchant \in MerchantRows /\ mpMerchant.id \in PageIds /\ mpMerchant.grouped
  BY DEF GroupEdit, Visible, PageInv, PageTyped, RowOrNone, MerchantRows
<1>3. q \in PageRequests /\ ~q.served /\ q.kind = kind /\ q.id = mpMerchant.id /\ q.was = mpMerchant
  BY <1>2 DEF PageRequests
<1>4. PageSend(mpNet, q)
  BY DEF GroupEdit
<1> HIDE DEF q
<1>5. /\ UNCHANGED <<mpId, mpMerchant, mpLoading, mpSearch, mpStats, mpModal, mpRef, mpServer, mpMeant>>
      /\ mpModal = NoMerchant /\ mpCalm' = (mpCalm /\ Idle)
  BY DEF GroupEdit, mpScreen
<1>7. mpCalm' \in BOOLEAN
  BY <1>5 DEF PageInv, PageTyped
<1>8. PageTyped'
  BY <1>3, <1>4, <1>5, <1>7, Sent DEF PageInv, PageTyped
<1>9. PendingTogether' /\ Awaited'
  <2>1. \A i \in DOMAIN mpNet : i \in DOMAIN mpNet' /\ mpNet'[i] = mpNet[i]
    BY <1>3, <1>4, Sent DEF PageInv
  <2>2. QED
    BY <1>5, <2>1 DEF PageInv, Awaited, PendingTogether
<1>10. ASSUME mpCalm' PROVE AskedAtRest' /\ UserFirst' /\ InOrder' /\ MeantComes' /\ LastComes' /\ RestShows'
  <2>1. mpNet = << >> /\ mpMerchant = mpServer[mpId] /\ mpMerchant.id = mpId /\ MeantComes
    BY <1>5, <1>10 DEF Idle, PageInv, PageTyped, CalmPage
  <2>2. WillShow(q)
    BY <1>2, <1>3, <2>1 DEF WillShow, BringsRow
  <2>3. UserFirst' /\ InOrder' /\ LastComes' /\ RestShows' /\ DOMAIN mpNet' = {1} /\ mpNet'[1] = q
    BY <1>3, <1>4, <1>5, <2>1, <2>2, SentAtRest DEF PageInv, MadeByUser
  <2>4. AskedAtRest'
    BY <1>5 DEF AskedAtRest
  <2>5. ASSUME NEW m \in PageIds PROVE mpMeant'[m] = TagsAfter(m)'
    <3>1. mpMeant[m] = mpServer[m].tags
      BY <2>1 DEF MeantComes, TagsAfter, EditComes
    <3>2. TagsAfter(m)' = mpServer[m].tags
      BY <1>3, <1>5, <2>3 DEF TagsAfter, EditComes, TagEdits
    <3>3. QED
      BY <1>5, <3>1, <3>2
  <2>6. QED
    BY <2>3, <2>4, <2>5 DEF MeantComes
<1>11. QED
  BY <1>8, <1>9, <1>10 DEF PageInv, CalmPage

(* To another merchant: what was under way still comes first.                *)
LEMMA GoKeeps ==
  ASSUME PageInv, GoToMerchant
  PROVE  PageInv'
<1>1. PICK m \in PageIds \ {mpId} :
       /\ mpId' = m
       /\ mpSearch' = SubjectOf(mpMerchant, m)
       /\ mpSent + 1 < MaxPageSent /\ mpSent' = mpSent + 2
       /\ mpNet' = mpNet \o <<FetchRequest(m), StatsRequest(mpMerchant, m)>>
  BY DEF GoToMerchant
<1> DEFINE f == FetchRequest(m)
           g == StatsRequest(mpMerchant, m)
           n == Len(mpNet)
<1>2. /\ f \in PageRequests /\ ~f.served /\ f.kind = "merchant" /\ f.id = m
      /\ g \in PageRequests /\ ~g.served /\ g.kind = "stats"
      /\ SubjectOf(mpMerchant, m) \in Subjects
  BY DEF FetchRequest, StatsRequest, SubjectOf, PageRequests, RowOrNone, Subjects
<1>3. mpNet' = mpNet \o <<f, g>> /\ mpNet \in Seq(PageRequests)
  BY <1>1 DEF PageInv, PageTyped
<1> HIDE DEF f, g
<1>4. /\ n \in Nat /\ DOMAIN mpNet = 1..n
      /\ mpNet' \in Seq(PageRequests) /\ Len(mpNet') = n + 2 /\ DOMAIN mpNet' = 1..(n + 2)
      /\ \A i \in 1..n : mpNet'[i] = mpNet[i]
      /\ mpNet'[n + 1] = f /\ mpNet'[n + 2] = g
  <2>1. <<f, g>> \in Seq(PageRequests) /\ Len(<<f, g>>) = 2 /\ <<f, g>>[1] = f /\ <<f, g>>[2] = g
    BY <1>2
  <2> DEFINE fg == <<f, g>>
  <2> HIDE DEF fg
  <2>2. mpNet \o fg \in Seq(PageRequests) /\ Len(mpNet \o fg) = n + Len(fg)
    BY <1>3, <2>1 DEF fg
  <2>3. \A i \in 1..(n + 2) : (mpNet \o fg)[i] = IF i <= n THEN mpNet[i] ELSE fg[i - n]
    BY <1>3, <2>1, <2>2 DEF fg
  <2>4. QED
    BY <1>3, <2>1, <2>2, <2>3 DEF fg
<1> HIDE DEF n
<1>5. /\ mpLoading' = TRUE /\ mpModal' = NoMerchant /\ mpRef' = NoMerchant
      /\ mpCalm' = (mpCalm /\ ~GroupChanging)
      /\ UNCHANGED <<mpMerchant, mpStats, mpServer, mpMeant>>
  BY DEF GoToMerchant
<1>6. PageTyped'
  <2>1. mpCalm' \in BOOLEAN /\ mpId' \in PageIds /\ mpSent' \in 0..MaxPageSent /\ mpSearch' \in Subjects
    BY <1>1, <1>2, <1>5, MaxPageSentAssumption DEF PageInv, PageTyped
  <2>2. ASSUME NEW i \in DOMAIN mpNet', mpNet'[i].served, mpNet'[i].kind \in BringsRow
        PROVE  mpNet'[i].row \in MerchantRows
    <3>1. i \in 1..n
      BY <1>2, <1>4, <2>2
    <3>2. QED
      BY <1>4, <2>2, <3>1 DEF PageInv, PageTyped
  <2>3. QED
    BY <1>4, <1>5, <2>1, <2>2 DEF PageInv, PageTyped
<1>7. PendingTogether' /\ Awaited'
  <2>1. n + 1 \in DOMAIN mpNet'
    BY <1>4
  <2>2. QED
    BY <1>2, <1>4, <1>5, <2>1 DEF PendingTogether, Awaited
<1>8. ASSUME mpCalm' PROVE AskedAtRest' /\ UserFirst' /\ InOrder' /\ MeantComes' /\ LastComes' /\ RestShows'
  <2>0. /\ UserFirst /\ InOrder /\ MeantComes
        /\ \A i \in DOMAIN mpNet : mpNet[i].kind \notin {"leave", "primary"}
    BY <1>5, <1>8 DEF PageInv, CalmPage, GroupChanging
  <2>1. AskedAtRest'
    BY <1>5 DEF AskedAtRest
  <2>2. UserFirst'
    <3> SUFFICES ASSUME NEW i \in DOMAIN mpNet', mpNet'[i].kind \in MadeByUser
                 PROVE  i = 1 /\ mpNet'[i].kind \notin {"leave", "primary"}
      BY DEF UserFirst, MadeByUser
    <3>1. i \in 1..n
      BY <1>2, <1>4 DEF MadeByUser
    <3>2. QED
      BY <1>4, <2>0, <3>1 DEF UserFirst
  <2>3. InOrder'
    <3> SUFFICES ASSUME NEW i \in DOMAIN mpNet', NEW j \in DOMAIN mpNet', i < j, mpNet'[j].served
                 PROVE  mpNet'[i].served
      BY DEF InOrder
    <3>1. i \in 1..n /\ j \in 1..n
      BY <1>2, <1>4
    <3>2. QED
      BY <1>4, <2>0, <3>1 DEF InOrder
  <2>4. ASSUME NEW k \in PageIds PROVE mpMeant'[k] = TagsAfter(k)'
    <3>1. EditComes' <=> EditComes
      BY <1>2, <1>4 DEF EditComes, TagEdits
    <3>2. EditComes => mpNet'[1] = mpNet[1]
      BY <1>4 DEF EditComes
    <3>3. QED
      BY <1>5, <2>0, <3>1, <3>2 DEF MeantComes, TagsAfter, GroupOf, TagsGiven
  <2>5. LastComes'
    <3> SUFFICES ASSUME NEW i \in DOMAIN mpNet', mpNet'[i].kind # "stats",
                        \A j \in DOMAIN mpNet' : j > i => mpNet'[j].kind = "stats"
                 PROVE  mpNet'[i].id = mpId' /\ ~mpNet'[i].served /\ mpNet'[i].kind = "merchant"
      BY DEF LastComes, WillShow
    <3>1. i = n + 1
      BY <1>2, <1>4
    <3>2. mpNet'[i] = f
      BY <1>4, <3>1
    <3>3. QED
      BY <1>1, <1>2, <3>2
  <2>6. RestShows'
    <3>1. n + 1 \in DOMAIN mpNet' /\ mpNet'[n + 1].kind # "stats"
      BY <1>2, <1>4
    <3>2. QED
      BY <3>1 DEF RestShows, OnlyStats
  <2>7. QED
    BY <2>1, <2>2, <2>3, <2>4, <2>5, <2>6 DEF MeantComes
<1>9. QED
  BY <1>6, <1>7, <1>8 DEF PageInv, CalmPage

-----------------------------------------------------------------------------
(* The page of a merchant: a request is served. *)

LEMMA StoreKept ==
  ASSUME NEW q \in PageRequests, q.kind \in {"stats", "merchant", "refresh"}
  PROVE  ServedStore(q) = mpServer
BY DEF ServedStore

LEMMA StoreDescribed ==
  ASSUME mpServer \in [PageIds -> MerchantRows], NEW q \in PageRequests, q.kind = "details",
         NEW m \in PageIds, mpServer[m].grouped
  PROVE  ServedStore(q)[m] = [mpServer[m] EXCEPT !.described = TRUE]
BY DEF ServedStore

LEMMA Served ==
  ASSUME PageTyped, NEW i \in DOMAIN mpNet, MPServe(i)
  PROVE  \E e \in PageRequests :
           /\ e.served /\ e.kind = mpNet[i].kind
           /\ e.kind = "stats" => e.of = mpNet[i].of
           /\ e.kind # "stats" => e.id = mpNet[i].id
           /\ e.kind = "details" => e.was = mpNet[i].was
           /\ e.kind \in BringsRow => e.row = mpServer'[e.id]
           /\ mpNet' \in Seq(PageRequests)
           /\ DOMAIN mpNet' = DOMAIN mpNet /\ Len(mpNet') = Len(mpNet)
           /\ \A j \in DOMAIN mpNet : mpNet'[j] = IF j = i THEN e ELSE mpNet[j]
<1> DEFINE q == mpNet[i]
           e == IF q.kind \in BringsRow THEN [q EXCEPT !.served = TRUE, !.row = mpServer'[q.id]]
                                        ELSE [q EXCEPT !.served = TRUE]
<1>1. q \in PageRequests /\ mpNet \in Seq(PageRequests)
  BY DEF PageTyped
<1>2. mpServer' = ServedStore(q) /\ mpNet' = [mpNet EXCEPT ![i] = e]
  BY DEF MPServe, BringsRow
<1> HIDE DEF q
<1>3. mpServer' \in [PageIds -> MerchantRows]
  BY <1>1, <1>2, StoreTyped DEF PageTyped
<1>4. /\ e \in PageRequests /\ e.served /\ e.kind = q.kind
      /\ q.kind = "stats" => e.of = q.of
      /\ q.kind # "stats" => e.id = q.id
      /\ q.kind = "details" => e.was = q.was
      /\ q.kind \in BringsRow => e.row = mpServer'[e.id]
  <2>1. CASE q.kind \in BringsRow
    <3>1. q.id \in PageIds
      BY <1>1, <2>1, RequestFields DEF BringsRow
    <3>2. mpServer'[q.id] \in MerchantRows
      BY <1>3, <3>1
    <3> DEFINE r == mpServer'[q.id]
               c == [q EXCEPT !.served = TRUE, !.row = r]
    <3>3. e = c /\ r \in MerchantRows
      BY <2>1, <3>2
    <3> HIDE DEF r
    <3>4. /\ c \in PageRequests /\ c.served /\ c.kind = q.kind /\ c.id = q.id /\ c.row = r
      BY ZenonT(30), <1>1, <2>1, <3>3, RowServed
    <3> HIDE DEF c, e
    <3>5. QED
      BY <2>1, <3>3, <3>4 DEF BringsRow, r
  <2>2. CASE q.kind \notin BringsRow
    BY <1>1, <2>2, RequestServed
  <2>3. QED
    BY <2>1, <2>2
<1> HIDE DEF e
<1>5. /\ mpNet' \in Seq(PageRequests)
      /\ DOMAIN mpNet' = DOMAIN mpNet /\ Len(mpNet') = Len(mpNet)
      /\ \A j \in DOMAIN mpNet : mpNet'[j] = IF j = i THEN e ELSE mpNet[j]
  BY <1>1, <1>2, <1>4, Changed
<1>6. QED
  BY <1>4, <1>5 DEF q

LEMMA ServeKeeps ==
  ASSUME PageInv, NEW i \in DOMAIN mpNet, MPServe(i)
  PROVE  PageInv'
<1> DEFINE q == mpNet[i]
<1>1. PICK e \in PageRequests :
           /\ e.served /\ e.kind = q.kind
           /\ e.kind = "stats" => e.of = q.of
           /\ e.kind # "stats" => e.id = q.id
           /\ e.kind = "details" => e.was = q.was
           /\ e.kind \in BringsRow => e.row = mpServer'[e.id]
           /\ mpNet' \in Seq(PageRequests)
           /\ DOMAIN mpNet' = DOMAIN mpNet /\ Len(mpNet') = Len(mpNet)
           /\ \A j \in DOMAIN mpNet : mpNet'[j] = IF j = i THEN e ELSE mpNet[j]
  BY Served DEF PageInv
<1>2. q \in PageRequests /\ ~q.served /\ mpServer' = ServedStore(q)
  BY DEF PageInv, PageTyped, MPServe
<1> HIDE DEF q
<1>3. /\ mpServer' \in [PageIds -> MerchantRows] /\ \A m \in PageIds : mpServer'[m].id = m
      /\ \A m \in PageIds :
           mpServer'[m].tags = IF q.kind \in TagEdits /\ m \in GroupOf(q.id)
                               THEN TagsGiven(q) ELSE mpServer[m].tags
  BY <1>2, StoreTyped DEF PageInv, PageTyped
<1>4. /\ mpCalm' = (mpCalm /\ \A j \in 1..(i - 1) : mpNet[j].served)
      /\ UNCHANGED <<mpId, mpMerchant, mpLoading, mpSearch, mpStats, mpModal, mpRef, mpSent, mpMeant>>
  BY DEF MPServe, mpScreen
<1>5. PageTyped'
  <2>1. ASSUME NEW j \in DOMAIN mpNet', mpNet'[j].served, mpNet'[j].kind \in BringsRow
        PROVE  mpNet'[j].row \in MerchantRows
    <3>1. CASE j = i
      <4>1. e.id \in PageIds /\ e.row = mpServer'[e.id]
        BY <1>1, <2>1, <3>1, RequestFields DEF BringsRow
      <4>2. QED
        BY <1>1, <1>3, <3>1, <4>1
    <3>2. CASE j # i
      BY <1>1, <2>1, <3>2 DEF PageInv, PageTyped
    <3>3. QED
      BY <3>1, <3>2
  <2>2. mpCalm' \in BOOLEAN
    BY <1>4 DEF PageInv, PageTyped
  <2>3. QED
    BY <1>1, <1>3, <1>4, <2>1, <2>2 DEF PageInv, PageTyped
<1>6. PendingTogether' /\ Awaited'
  <2>1. \A j \in DOMAIN mpNet : j \in DOMAIN mpNet' /\ mpNet'[j].kind = mpNet[j].kind
    BY <1>1 DEF q
  <2>2. QED
    BY <1>4, <2>1 DEF PageInv, PendingTogether, Awaited
<1>7. ASSUME mpCalm' PROVE AskedAtRest' /\ UserFirst' /\ InOrder' /\ MeantComes' /\ LastComes' /\ RestShows'
  <2>0. /\ AskedAtRest /\ UserFirst /\ InOrder /\ MeantComes /\ LastComes /\ RestShows
        /\ \A j \in 1..(i - 1) : mpNet[j].served
        /\ DOMAIN mpNet = 1..Len(mpNet) /\ Len(mpNet) \in Nat /\ i \in 1..Len(mpNet)
    <3>1. mpNet \in Seq(PageRequests)
      BY DEF PageInv, PageTyped
    <3>2. DOMAIN mpNet = 1..Len(mpNet) /\ Len(mpNet) \in Nat /\ i \in 1..Len(mpNet)
      BY <3>1
    <3>3. QED
      BY <1>4, <1>7, <3>2 DEF PageInv, CalmPage
  <2>1. \A j \in DOMAIN mpNet : mpNet'[j].kind = mpNet[j].kind
    BY <1>1 DEF q
  <2>2. AskedAtRest'
    BY <1>1, <1>4, <2>0, <2>1 DEF AskedAtRest
  <2>3. UserFirst'
    BY <1>1, <2>0, <2>1 DEF UserFirst
  <2>4. InOrder'
    <3> SUFFICES ASSUME NEW j \in DOMAIN mpNet, NEW k \in DOMAIN mpNet, j < k, mpNet'[k].served
                 PROVE  mpNet'[j].served
      BY <1>1 DEF InOrder
    <3>1. CASE j = i
      BY <1>1, <3>1
    <3>2. CASE j # i /\ k = i
      BY <1>1, <2>0, <3>2
    <3>3. CASE j # i /\ k # i
      BY <1>1, <2>0, <3>3 DEF InOrder
    <3>4. QED
      BY <3>1, <3>2, <3>3
  <2>5. q.kind \in MadeByUser => i = 1
    BY <2>0 DEF UserFirst, q
  <2>6. ASSUME NEW m \in PageIds PROVE mpMeant'[m] = TagsAfter(m)'
    <3>1. mpMeant'[m] = TagsAfter(m)
      BY <1>4, <2>0 DEF MeantComes
    <3>2. CASE q.kind \in TagEdits
      <4>1. i = 1 /\ \A j \in DOMAIN mpNet : mpNet[j].kind \in TagEdits => j = 1
        BY <2>0, <2>5, <3>2 DEF UserFirst, TagEdits, MadeByUser
      <4>2. TagsAfter(m) = IF m \in GroupOf(q.id) THEN TagsGiven(q) ELSE mpServer[m].tags
        BY <1>2, <2>0, <3>2, <4>1 DEF TagsAfter, EditComes, q
      <4>3. TagsAfter(m)' = mpServer'[m].tags
        BY <1>1, <4>1 DEF TagsAfter, EditComes
      <4>4. QED
        BY <1>3, <3>1, <3>2, <4>2, <4>3
    <3>3. CASE q.kind \notin TagEdits
      <4>1. mpServer'[m].tags = mpServer[m].tags
        BY <1>3, <3>3
      <4>2. ~EditComes
        BY <2>0, <3>3 DEF EditComes, q
      <4>3. ~EditComes'
        BY <1>1, <2>0, <3>3, <4>2 DEF EditComes, q
      <4>4. QED
        BY <3>1, <4>1, <4>2, <4>3 DEF TagsAfter
    <3>4. QED
      BY <3>2, <3>3
  <2>7. LastComes'
    <3> SUFFICES ASSUME NEW k \in DOMAIN mpNet, mpNet[k].kind # "stats",
                        \A j \in DOMAIN mpNet : j > k => mpNet[j].kind = "stats"
                 PROVE  /\ mpNet'[k].id = mpId
                        /\ mpNet'[k].served /\ mpNet'[k].kind \in BringsRow => mpNet'[k].row = mpServer'[mpId]
                        /\ mpNet'[k].kind = "details" =>
                             IF mpNet'[k].served THEN mpServer'[mpId] = [mpNet'[k].was EXCEPT !.described = TRUE]
                             ELSE mpNet'[k].was = mpServer'[mpId] /\ mpServer'[mpId].grouped
      BY <1>1, <1>4, <2>1 DEF LastComes, WillShow
    <3>1. WillShow(mpNet[k])
      BY <2>0 DEF LastComes
    <3>2. CASE k = i
      <4>1. mpNet'[k] = e /\ e.served /\ e.id = mpId
        BY <1>1, <3>1, <3>2 DEF WillShow, q
      <4>2. e.kind = "details" => mpServer'[mpId] = [e.was EXCEPT !.described = TRUE]
        <5> SUFFICES ASSUME e.kind = "details" PROVE mpServer'[mpId] = [e.was EXCEPT !.described = TRUE]
          OBVIOUS
        <5>1. q.was = mpServer[mpId] /\ mpServer[mpId].grouped /\ e.was = q.was /\ q.kind = "details"
          BY <1>1, <1>2, <3>1, <3>2 DEF WillShow, q
        <5>2. QED
          BY <1>2, <5>1, StoreDescribed DEF PageInv, PageTyped
      <4>3. QED
        BY <1>1, <4>1, <4>2
    <3>3. CASE k # i /\ q.kind \in {"stats", "merchant", "refresh"}
      <4>1. mpNet'[k] = mpNet[k] /\ mpServer' = mpServer
        BY <1>1, <1>2, <3>3, StoreKept
      <4>2. QED
        BY <3>1, <4>1 DEF WillShow
    <3>4. CASE k # i /\ q.kind \in MadeByUser
      <4>1. i = 1 /\ k > 1 /\ mpNet'[k] = mpNet[k]
        BY <1>1, <2>0, <2>5, <3>4
      <4>2. ~mpNet[k].served /\ mpNet[k].kind \notin MadeByUser
        BY <1>2, <2>0, <4>1 DEF InOrder, UserFirst, q
      <4>3. QED
        BY <3>1, <4>1, <4>2 DEF WillShow, MadeByUser
    <3>5. QED
      BY <1>2, <3>2, <3>3, <3>4, RequestFields DEF BringsRow, MadeByUser
  <2>8. RestShows'
    <3> SUFFICES ASSUME OnlyStats(mpNet)
                 PROVE  /\ mpMerchant = mpServer'[mpId]
                        /\ mpSearch = SubjectOf(mpMerchant, mpId)
                        /\ mpNet' # << >> /\ mpNet'[Len(mpNet')].of = mpSearch
      BY <1>1, <1>4, <2>1 DEF RestShows, OnlyStats
    <3>1. q.kind = "stats" /\ mpServer' = mpServer
      BY <1>2, StoreKept DEF OnlyStats, q
    <3>2. mpNet # << >>
      BY <2>0
    <3>3. /\ mpMerchant = mpServer[mpId] /\ mpSearch = SubjectOf(mpMerchant, mpId)
          /\ mpNet[Len(mpNet)].of = mpSearch
      BY <2>0, <3>2 DEF RestShows
    <3>4. mpNet'[Len(mpNet)].of = mpNet[Len(mpNet)].of /\ Len(mpNet') = Len(mpNet) /\ Len(mpNet) > 0
      BY <1>1, <2>0, <3>1 DEF q
    <3>5. mpNet' # << >>
      BY <1>1, <3>4
    <3>6. QED
      BY <3>1, <3>3, <3>4, <3>5
  <2>9. QED
    BY <2>2, <2>3, <2>4, <2>6, <2>7, <2>8 DEF MeantComes
<1>8. QED
  BY <1>5, <1>6, <1>7 DEF PageInv, CalmPage

-----------------------------------------------------------------------------
(* The page of a merchant: a request is answered, or fails. *)

(* What is left without it, and what may be sent in answer.                  *)
LEMMA Left ==
  ASSUME PageTyped, NEW i \in DOMAIN mpNet
  PROVE  LET rest == RemoveAt(mpNet, i)
             n    == Len(mpNet)
         IN  /\ rest \in Seq(PageRequests) /\ n \in Nat \ {0} /\ DOMAIN mpNet = 1..n
             /\ Len(rest) = n - 1 /\ DOMAIN rest = 1..(n - 1)
             /\ \A j \in 1..(n - 1) : rest[j] = IF j < i THEN mpNet[j] ELSE mpNet[j + 1]
             /\ \A j \in DOMAIN rest :
                  rest[j].served /\ rest[j].kind \in BringsRow => rest[j].row \in MerchantRows
             /\ \A k \in DOMAIN mpNet \ {i} : \E j \in DOMAIN rest : rest[j] = mpNet[k]
<1> DEFINE rest == RemoveAt(mpNet, i)
           n    == Len(mpNet)
<1>1. /\ rest \in Seq(PageRequests) /\ n \in Nat \ {0} /\ DOMAIN mpNet = 1..n
      /\ Len(rest) = n - 1 /\ DOMAIN rest = 1..(n - 1)
      /\ \A j \in 1..(n - 1) : rest[j] = IF j < i THEN mpNet[j] ELSE mpNet[j + 1]
  BY Dropped DEF PageTyped
<1> HIDE DEF rest, n
<1>2. i \in 1..n
  BY <1>1
<1>3. ASSUME NEW j \in DOMAIN rest, rest[j].served, rest[j].kind \in BringsRow
      PROVE  rest[j].row \in MerchantRows
  <2>1. PICK k \in 1..n : rest[j] = mpNet[k]
    <3>1. j \in 1..(n - 1) /\ j \in 1..n /\ j + 1 \in 1..n
      BY <1>1, <1>3
    <3>2. rest[j] = mpNet[j] \/ rest[j] = mpNet[j + 1]
      BY <1>1, <3>1
    <3>3. QED
      BY <3>1, <3>2
  <2>2. QED
    BY <1>1, <1>3, <2>1 DEF PageTyped
<1>4. ASSUME NEW k \in DOMAIN mpNet \ {i} PROVE \E j \in DOMAIN rest : rest[j] = mpNet[k]
  <2>1. CASE k < i
    <3>1. k \in 1..(n - 1) /\ rest[k] = mpNet[k]
      BY <1>1, <1>2, <2>1
    <3>2. QED
      BY <1>1, <3>1
  <2>2. CASE k > i
    <3>1. k - 1 \in 1..(n - 1) /\ ~(k - 1 < i) /\ (k - 1) + 1 = k
      BY <1>1, <1>2, <2>2
    <3>2. rest[k - 1] = mpNet[k]
      BY <1>1, <3>1
    <3>3. QED
      BY <1>1, <3>1, <3>2
  <2>3. QED
    BY <1>1, <1>2, <2>1, <2>2
<1>5. QED
  BY <1>1, <1>3, <1>4 DEF rest, n

LEMMA LeftAnd ==
  ASSUME PageTyped, NEW i \in DOMAIN mpNet, NEW e \in PageRequests, ~e.served,
         PageSend(RemoveAt(mpNet, i), e)
  PROVE  LET n == Len(mpNet)
         IN  /\ mpNet' \in Seq(PageRequests) /\ n \in Nat \ {0} /\ DOMAIN mpNet = 1..n
             /\ Len(mpNet') = n /\ DOMAIN mpNet' = 1..n
             /\ \A j \in 1..(n - 1) : mpNet'[j] = IF j < i THEN mpNet[j] ELSE mpNet[j + 1]
             /\ mpNet'[n] = e
             /\ \A j \in DOMAIN mpNet' :
                  mpNet'[j].served /\ mpNet'[j].kind \in BringsRow => mpNet'[j].row \in MerchantRows
             /\ \A k \in DOMAIN mpNet \ {i} : \E j \in DOMAIN mpNet' : mpNet'[j] = mpNet[k]
             /\ mpSent' \in 0..MaxPageSent
<1> DEFINE rest == RemoveAt(mpNet, i)
           n    == Len(mpNet)
<1>1. /\ rest \in Seq(PageRequests) /\ n \in Nat \ {0} /\ DOMAIN mpNet = 1..n
      /\ Len(rest) = n - 1 /\ DOMAIN rest = 1..(n - 1)
      /\ \A j \in 1..(n - 1) : rest[j] = IF j < i THEN mpNet[j] ELSE mpNet[j + 1]
      /\ \A j \in DOMAIN rest :
           rest[j].served /\ rest[j].kind \in BringsRow => rest[j].row \in MerchantRows
      /\ \A k \in DOMAIN mpNet \ {i} : \E j \in DOMAIN rest : rest[j] = mpNet[k]
  BY Left
<1>2. mpNet' = Append(rest, e)
  BY DEF PageSend
<1> HIDE DEF rest, n
<1>3. /\ mpNet' \in Seq(PageRequests)
      /\ DOMAIN mpNet' = 1..((n - 1) + 1) /\ Len(mpNet') = (n - 1) + 1
      /\ \A j \in 1..(n - 1) : mpNet'[j] = rest[j]
      /\ mpNet'[(n - 1) + 1] = e
  BY <1>1, <1>2, Extended
<1>4. (n - 1) + 1 = n /\ 1..(n - 1) \subseteq 1..n
  BY <1>1
<1>5. DOMAIN mpNet' = 1..n /\ Len(mpNet') = n /\ mpNet'[n] = e
  BY <1>3, <1>4
<1>6. ASSUME NEW j \in DOMAIN mpNet', mpNet'[j].served, mpNet'[j].kind \in BringsRow
      PROVE  mpNet'[j].row \in MerchantRows
  <2>1. j \in 1..(n - 1)
    BY <1>1, <1>5, <1>6
  <2>2. QED
    BY <1>1, <1>3, <1>6, <2>1
<1>7. ASSUME NEW k \in DOMAIN mpNet \ {i} PROVE \E j \in DOMAIN mpNet' : mpNet'[j] = mpNet[k]
  <2>1. PICK j \in DOMAIN rest : rest[j] = mpNet[k]
    BY <1>1
  <2>2. j \in DOMAIN mpNet' /\ mpNet'[j] = mpNet[k]
    BY <1>1, <1>3, <1>4, <1>5, <2>1
  <2>3. QED
    BY <2>2
<1>8. mpSent' \in 0..MaxPageSent
  BY MaxPageSentAssumption DEF PageTyped, PageSend
<1>9. QED
  BY <1>1, <1>3, <1>5, <1>6, <1>7, <1>8 DEF n

(* The answers that come first leave what came after them as it was.         *)
LEMMA FirstLeft ==
  ASSUME PageTyped, UserFirst, InOrder, MeantComes, LastComes,
         1 \in DOMAIN mpNet, mpNet[1].served, UNCHANGED <<mpId, mpServer, mpMeant>>,
         NEW e \in PageRequests, ~e.served, e.kind \notin MadeByUser,
         e.kind = "stats" \/ e.id = mpId,
         \/ mpNet' = RemoveAt(mpNet, 1)
         \/ PageSend(RemoveAt(mpNet, 1), e)
  PROVE  UserFirst' /\ InOrder' /\ MeantComes' /\ LastComes'
<1> DEFINE n == Len(mpNet)
           N == Len(mpNet')
<1>1. /\ n \in Nat \ {0} /\ DOMAIN mpNet = 1..n
      /\ N \in {n - 1, n} /\ DOMAIN mpNet' = 1..N
      /\ \A j \in 1..(n - 1) : mpNet'[j] = mpNet[j + 1]
      /\ N = n => mpNet'[n] = e
  <2>1. CASE mpNet' = RemoveAt(mpNet, 1)
    BY <2>1, Left
  <2>2. CASE PageSend(RemoveAt(mpNet, 1), e)
    BY <2>2, LeftAnd
  <2>3. QED
    BY <2>1, <2>2
<1> HIDE DEF n, N
<1>2. ASSUME NEW j \in DOMAIN mpNet', mpNet'[j] # e \/ mpNet'[j].kind # e.kind
      PROVE  j \in 1..(n - 1) /\ j + 1 \in DOMAIN mpNet /\ j + 1 > 1 /\ mpNet'[j] = mpNet[j + 1]
  BY <1>1, <1>2
<1>3. ASSUME NEW j \in DOMAIN mpNet' PROVE mpNet'[j].kind \notin MadeByUser
  <2>1. CASE mpNet'[j] = e
    BY <2>1
  <2>2. CASE mpNet'[j] # e
    BY <1>2, <2>2 DEF UserFirst
  <2>3. QED
    BY <2>1, <2>2
<1>4. UserFirst'
  BY <1>3 DEF UserFirst, MadeByUser
<1>5. InOrder'
  <2> SUFFICES ASSUME NEW j \in DOMAIN mpNet', NEW k \in DOMAIN mpNet', j < k, mpNet'[k].served
               PROVE  mpNet'[j].served
    BY DEF InOrder
  <2>1. k \in 1..(n - 1) /\ k + 1 \in DOMAIN mpNet /\ mpNet'[k] = mpNet[k + 1]
    BY <1>2
  <2>2. j \in 1..(n - 1) /\ j + 1 \in DOMAIN mpNet /\ mpNet'[j] = mpNet[j + 1] /\ j + 1 < k + 1
    BY <1>1, <2>1
  <2>3. QED
    BY <2>1, <2>2 DEF InOrder
<1>6. MeantComes'
  <2> SUFFICES ASSUME NEW m \in PageIds PROVE mpMeant[m] = TagsAfter(m)'
    BY DEF MeantComes
  <2>1. TagsAfter(m)' = mpServer[m].tags
    BY <1>3 DEF TagsAfter, EditComes, TagEdits, MadeByUser
  <2>2. TagsAfter(m) = mpServer[m].tags
    BY DEF TagsAfter, EditComes
  <2>3. QED
    BY <2>1, <2>2 DEF MeantComes
<1>7. LastComes'
  <2> SUFFICES ASSUME NEW k \in DOMAIN mpNet', mpNet'[k].kind # "stats",
                      \A j \in DOMAIN mpNet' : j > k => mpNet'[j].kind = "stats"
               PROVE  /\ mpNet'[k].id = mpId
                      /\ mpNet'[k].served /\ mpNet'[k].kind \in BringsRow => mpNet'[k].row = mpServer[mpId]
                      /\ mpNet'[k].kind # "details"
    BY <1>3 DEF LastComes, WillShow, MadeByUser
  <2>1. mpNet'[k].kind # "details"
    BY <1>3 DEF MadeByUser
  <2>2. CASE mpNet'[k] = e
    BY <2>1, <2>2
  <2>3. CASE mpNet'[k] # e
    <3>1. k \in 1..(n - 1) /\ k + 1 \in DOMAIN mpNet /\ mpNet'[k] = mpNet[k + 1]
      BY <1>2, <2>3
    <3>2. ASSUME NEW j \in DOMAIN mpNet, j > k + 1 PROVE mpNet[j].kind = "stats"
      <4>1. j - 1 \in 1..(n - 1) /\ (j - 1) + 1 = j /\ j - 1 > k /\ j - 1 \in DOMAIN mpNet'
        BY <1>1, <3>1, <3>2
      <4>2. mpNet'[j - 1] = mpNet[j]
        BY <1>1, <4>1
      <4>3. QED
        BY <4>1, <4>2
    <3>3. WillShow(mpNet[k + 1])
      BY <3>1, <3>2 DEF LastComes
    <3>4. QED
      BY <2>1, <3>1, <3>3 DEF WillShow
  <2>4. QED
    BY <2>2, <2>3
<1>8. QED
  BY <1>4, <1>5, <1>6, <1>7

(* The answer of request i puts a merchant on screen.                        *)
LEMMA ShowKeeps ==
  ASSUME PageInv, NEW i \in DOMAIN mpNet, mpNet[i].served, NEW row \in MerchantRows,
         mpNet[i].kind \in BringsRow \cup {"details"},
         SetMerchant(RemoveAt(mpNet, i), row),
         WillShow(mpNet[i]) => row = mpServer[mpId],
         mpLoading' = IF mpNet[i].kind = "merchant" THEN FALSE ELSE mpLoading,
         IF mpNet[i].kind = "update" THEN mpModal' = NoMerchant /\ mpRef' = NoMerchant
                                     ELSE UNCHANGED <<mpModal, mpRef>>,
         mpCalm' = (mpCalm /\ i = 1),
         UNCHANGED <<mpId, mpServer, mpMeant>>
  PROVE  PageInv'
<1> DEFINE q == mpNet[i]
           g == StatsRequest(row, mpId)
           n == Len(mpNet)
<1>1. /\ g \in PageRequests /\ ~g.served /\ g.kind = "stats" /\ g.of = SubjectOf(row, mpId)
      /\ SubjectOf(row, mpId) \in Subjects
  BY DEF StatsRequest, SubjectOf, PageRequests, Subjects, PageInv, PageTyped
<1>2. /\ mpMerchant' = row /\ mpSearch' = SubjectOf(row, mpId) /\ mpStats' = mpStats
      /\ PageSend(RemoveAt(mpNet, i), g)
  BY DEF SetMerchant
<1> HIDE DEF g
<1>3. /\ mpNet' \in Seq(PageRequests) /\ n \in Nat \ {0} /\ DOMAIN mpNet = 1..n
      /\ Len(mpNet') = n /\ DOMAIN mpNet' = 1..n
      /\ \A j \in 1..(n - 1) : mpNet'[j] = IF j < i THEN mpNet[j] ELSE mpNet[j + 1]
      /\ mpNet'[n] = g
      /\ \A j \in DOMAIN mpNet' :
           mpNet'[j].served /\ mpNet'[j].kind \in BringsRow => mpNet'[j].row \in MerchantRows
      /\ \A k \in DOMAIN mpNet \ {i} : \E j \in DOMAIN mpNet' : mpNet'[j] = mpNet[k]
      /\ mpSent' \in 0..MaxPageSent
  BY <1>1, <1>2, LeftAnd DEF PageInv
<1> HIDE DEF q, n
<1>4. PageTyped'
  <2>1. mpLoading' \in BOOLEAN /\ mpCalm' \in BOOLEAN /\ mpModal' \in PendingChanges \cup {NoMerchant}
    BY DEF PageInv, PageTyped
  <2>2. mpMerchant' \in RowOrNone /\ mpSearch' \in Subjects
    BY <1>1, <1>2 DEF RowOrNone
  <2>3. QED
    BY <1>2, <1>3, <2>1, <2>2 DEF PageInv, PageTyped
<1>5. PendingTogether'
  BY DEF PageInv, PendingTogether
<1>6. Awaited'
  <2> SUFFICES ASSUME mpLoading' PROVE \E j \in DOMAIN mpNet' : mpNet'[j].kind = "merchant"
    BY DEF Awaited
  <2>1. q.kind # "merchant" /\ mpLoading
    BY DEF q
  <2>2. PICK k \in DOMAIN mpNet : mpNet[k].kind = "merchant"
    BY <2>1 DEF PageInv, Awaited
  <2>3. k # i
    BY <2>1, <2>2 DEF q
  <2>4. QED
    BY <1>3, <2>2, <2>3
<1>7. ASSUME mpCalm' PROVE AskedAtRest' /\ UserFirst' /\ InOrder' /\ MeantComes' /\ LastComes' /\ RestShows'
  <2>0. i = 1 /\ AskedAtRest /\ UserFirst /\ InOrder /\ MeantComes /\ LastComes
    BY <1>7 DEF PageInv, CalmPage
  <2>1. UserFirst' /\ InOrder' /\ MeantComes' /\ LastComes'
    <3>1. g.kind \notin MadeByUser
      BY <1>1 DEF MadeByUser
    <3>2. PageTyped /\ mpNet[1].served /\ 1 \in DOMAIN mpNet /\ PageSend(RemoveAt(mpNet, 1), g)
      BY <1>2, <2>0 DEF PageInv
    <3>3. QED
      BY <1>1, <2>0, <3>1, <3>2, FirstLeft
  <2>2. AskedAtRest'
    <3> SUFFICES ASSUME mpModal' # NoMerchant PROVE FALSE
      BY DEF AskedAtRest
    <3>1. mpModal # NoMerchant /\ mpNet[1].kind # "update"
      BY <2>0
    <3>2. mpNet # << >>
      BY <1>3
    <3>3. QED
      BY <2>0, <3>1, <3>2 DEF AskedAtRest
  <2>3. RestShows'
    <3> SUFFICES ASSUME \A j \in DOMAIN mpNet' : mpNet'[j].kind = "stats"
                 PROVE  row = mpServer[mpId] /\ mpNet' # << >> /\ mpNet'[Len(mpNet')].of = SubjectOf(row, mpId)
      BY <1>2 DEF RestShows, OnlyStats
    <3>1. mpNet' # << >> /\ mpNet'[Len(mpNet')].of = SubjectOf(row, mpId)
      BY <1>1, <1>3
    <3>2. ASSUME NEW j \in DOMAIN mpNet, j > 1 PROVE mpNet[j].kind = "stats"
      <4>1. j - 1 \in 1..(n - 1) /\ (j - 1) + 1 = j /\ j - 1 \in DOMAIN mpNet' /\ ~(j - 1 < 1)
        BY <1>3, <3>2
      <4>2. mpNet'[j - 1] = mpNet[j]
        BY <1>3, <2>0, <4>1
      <4>3. QED
        BY <4>1, <4>2
    <3>3. mpNet[1].kind # "stats"
      BY <2>0 DEF BringsRow
    <3>4. WillShow(mpNet[1])
      BY <2>0, <3>2, <3>3 DEF LastComes
    <3>5. QED
      BY <2>0, <3>1, <3>4
  <2>4. QED
    BY <2>1, <2>2, <2>3
<1>8. QED
  BY <1>4, <1>5, <1>6, <1>7 DEF PageInv, CalmPage

LEMMA StatsKeep ==
  ASSUME PageInv, NEW i \in DOMAIN mpNet, mpNet[i].kind = "stats", MPAnswer(i)
  PROVE  PageInv'
<1> DEFINE q == mpNet[i]
           n == Len(mpNet)
           rest == RemoveAt(mpNet, i)
<1>1. /\ q.served /\ mpStats' = q.of /\ mpNet' = rest
      /\ mpCalm' = (mpCalm /\ i = 1)
      /\ UNCHANGED <<mpId, mpServer, mpMeant, mpMerchant, mpSearch, mpSent, mpLoading, mpModal, mpRef>>
  BY DEF MPAnswer
<1>2. q \in PageRequests /\ q.of \in Subjects
  <2>1. q \in PageRequests
    BY DEF PageInv, PageTyped
  <2>2. QED
    BY <2>1, RequestFields
<1>3. /\ mpNet' \in Seq(PageRequests) /\ n \in Nat \ {0} /\ DOMAIN mpNet = 1..n
      /\ Len(mpNet') = n - 1 /\ DOMAIN mpNet' = 1..(n - 1)
      /\ \A j \in 1..(n - 1) : mpNet'[j] = IF j < i THEN mpNet[j] ELSE mpNet[j + 1]
      /\ \A j \in DOMAIN mpNet' :
           mpNet'[j].served /\ mpNet'[j].kind \in BringsRow => mpNet'[j].row \in MerchantRows
      /\ \A k \in DOMAIN mpNet \ {i} : \E j \in DOMAIN mpNet' : mpNet'[j] = mpNet[k]
  BY <1>1, Left DEF PageInv
<1> HIDE DEF rest, n
<1>4. PageTyped'
  <2>1. mpCalm' \in BOOLEAN
    BY <1>1 DEF PageInv, PageTyped
  <2>2. QED
    BY <1>1, <1>2, <1>3, <2>1 DEF PageInv, PageTyped
<1>5. PendingTogether'
  BY <1>1 DEF PageInv, PendingTogether
<1>6. Awaited'
  <2> SUFFICES ASSUME mpLoading PROVE \E j \in DOMAIN mpNet' : mpNet'[j].kind = "merchant"
    BY <1>1 DEF Awaited
  <2>1. PICK k \in DOMAIN mpNet : mpNet[k].kind = "merchant"
    BY DEF PageInv, Awaited
  <2>2. QED
    BY <1>3, <2>1
<1>7. ASSUME mpCalm' PROVE AskedAtRest' /\ UserFirst' /\ InOrder' /\ MeantComes' /\ LastComes' /\ RestShows'
  <2>0. i = 1 /\ AskedAtRest /\ UserFirst /\ InOrder /\ MeantComes /\ LastComes /\ RestShows
    BY <1>1, <1>7 DEF PageInv, CalmPage
  <2>1. UserFirst' /\ InOrder' /\ MeantComes' /\ LastComes'
    <3> DEFINE e == [kind |-> "stats", of |-> TheGroup, served |-> FALSE]
    <3>1. e \in PageRequests /\ ~e.served /\ e.kind = "stats" /\ e.kind \notin MadeByUser
      BY DEF PageRequests, Subjects, MadeByUser
    <3> HIDE DEF e
    <3>2. PageTyped /\ mpNet[1].served /\ 1 \in DOMAIN mpNet /\ mpNet' = RemoveAt(mpNet, 1)
      BY <1>1, <2>0 DEF PageInv, rest
    <3>3. QED
      BY <1>1, <2>0, <3>1, <3>2, FirstLeft
  <2>2. AskedAtRest'
    <3>1. mpNet # << >> /\ mpNet[1].kind = "stats"
      BY <1>3, <2>0
    <3>2. QED
      BY <1>1, <2>0, <3>1 DEF AskedAtRest
  <2>3. RestShows'
    <3> SUFFICES ASSUME \A j \in DOMAIN mpNet' : mpNet'[j].kind = "stats"
                 PROVE  /\ mpMerchant = mpServer[mpId] /\ mpSearch = SubjectOf(mpMerchant, mpId)
                        /\ IF mpNet' = << >> THEN q.of = mpSearch ELSE mpNet'[Len(mpNet')].of = mpSearch
      BY <1>1 DEF RestShows, OnlyStats
    <3>1. ASSUME NEW j \in DOMAIN mpNet PROVE mpNet[j].kind = "stats"
      <4>1. CASE j > 1
        <5>1. j - 1 \in 1..(n - 1) /\ (j - 1) + 1 = j /\ j - 1 \in DOMAIN mpNet' /\ ~(j - 1 < 1)
          BY <1>3, <4>1
        <5>2. mpNet'[j - 1] = mpNet[j]
          BY <1>3, <2>0, <5>1
        <5>3. QED
          BY <5>1, <5>2
      <4>2. CASE j = 1
        BY <2>0, <4>2
      <4>3. QED
        BY <1>3, <4>1, <4>2
    <3>2. mpNet # << >>
      BY <1>3
    <3>3. mpMerchant = mpServer[mpId] /\ mpSearch = SubjectOf(mpMerchant, mpId) /\ mpNet[n].of = mpSearch
      BY <2>0, <3>1, <3>2 DEF RestShows, OnlyStats, n
    <3>4. CASE n = 1
      <4>1. q.of = mpSearch
        BY <2>0, <3>3, <3>4
      <4>2. mpNet' = << >>
        BY <1>3, <3>4
      <4>3. QED
        BY <3>3, <4>1, <4>2
    <3>5. CASE n > 1
      <4>1. n - 1 \in 1..(n - 1) /\ (n - 1) + 1 = n /\ ~(n - 1 < 1)
        BY <1>3, <3>5
      <4>2. mpNet'[n - 1] = mpNet[n] /\ Len(mpNet') = n - 1 /\ n - 1 # 0
        BY <1>3, <2>0, <4>1
      <4>3. mpNet' # << >>
        BY <1>3, <4>2
      <4>4. QED
        BY <3>3, <4>2, <4>3
    <3>6. QED
      BY <1>3, <3>4, <3>5
  <2>4. QED
    BY <2>1, <2>2, <2>3
<1>8. QED
  BY <1>4, <1>5, <1>6, <1>7 DEF PageInv, CalmPage

(* A change of the group is followed by a fetch.                             *)
LEMMA GroupAnswered ==
  ASSUME PageInv, NEW i \in DOMAIN mpNet, mpNet[i].kind \in {"leave", "primary"}, MPAnswer(i)
  PROVE  PageInv'
<1> DEFINE q == mpNet[i]
           e == [FetchRequest(q.id) EXCEPT !.kind = "refresh"]
           n == Len(mpNet)
<1>1. /\ q.served /\ PageSend(RemoveAt(mpNet, i), e)
      /\ mpCalm' = (mpCalm /\ i = 1)
      /\ UNCHANGED <<mpId, mpServer, mpMeant, mpMerchant, mpSearch, mpStats, mpLoading, mpModal, mpRef>>
  BY DEF MPAnswer, mpScreen
<1>2. q.id \in PageIds
  <2>1. q \in PageRequests
    BY DEF PageInv, PageTyped
  <2>2. QED
    BY <2>1, RequestFields
<1>3. e \in PageRequests /\ ~e.served /\ e.kind = "refresh" /\ e.id = q.id
  BY <1>2 DEF FetchRequest, PageRequests, RowOrNone
<1> HIDE DEF e
<1>4. /\ mpNet' \in Seq(PageRequests) /\ n \in Nat \ {0} /\ DOMAIN mpNet = 1..n
      /\ Len(mpNet') = n /\ DOMAIN mpNet' = 1..n
      /\ mpNet'[n] = e
      /\ \A j \in DOMAIN mpNet' :
           mpNet'[j].served /\ mpNet'[j].kind \in BringsRow => mpNet'[j].row \in MerchantRows
      /\ \A k \in DOMAIN mpNet \ {i} : \E j \in DOMAIN mpNet' : mpNet'[j] = mpNet[k]
      /\ mpSent' \in 0..MaxPageSent
  BY <1>1, <1>3, LeftAnd DEF PageInv
<1> HIDE DEF n
<1>5. PageTyped'
  <2>1. mpCalm' \in BOOLEAN
    BY <1>1 DEF PageInv, PageTyped
  <2>2. QED
    BY <1>1, <1>4, <2>1 DEF PageInv, PageTyped
<1>6. PendingTogether'
  BY <1>1 DEF PageInv, PendingTogether
<1>7. Awaited'
  <2> SUFFICES ASSUME mpLoading PROVE \E j \in DOMAIN mpNet' : mpNet'[j].kind = "merchant"
    BY <1>1 DEF Awaited
  <2>1. PICK k \in DOMAIN mpNet : mpNet[k].kind = "merchant"
    BY DEF PageInv, Awaited
  <2>2. QED
    BY <1>4, <2>1
<1>8. ASSUME mpCalm' PROVE AskedAtRest' /\ UserFirst' /\ InOrder' /\ MeantComes' /\ LastComes' /\ RestShows'
  <2>0. i = 1 /\ AskedAtRest /\ UserFirst /\ InOrder /\ MeantComes /\ LastComes
    BY <1>1, <1>8 DEF PageInv, CalmPage
  <2>1. n = 1
    BY <2>0 DEF UserFirst, n
  <2>2. q.id = mpId
    <3>1. \A j \in DOMAIN mpNet : ~(j > i)
      BY <1>4, <2>0, <2>1
    <3>2. WillShow(q)
      BY <2>0, <3>1 DEF LastComes
    <3>3. QED
      BY <3>2 DEF WillShow
  <2>3. UserFirst' /\ InOrder' /\ MeantComes' /\ LastComes'
    <3>1. e.kind \notin MadeByUser
      BY <1>3 DEF MadeByUser
    <3>2. PageTyped /\ mpNet[1].served /\ 1 \in DOMAIN mpNet /\ PageSend(RemoveAt(mpNet, 1), e)
      BY <1>1, <2>0 DEF PageInv
    <3>3. QED
      BY <1>1, <1>3, <2>0, <2>2, <3>1, <3>2, FirstLeft
  <2>4. AskedAtRest'
    <3>1. mpNet # << >> /\ mpNet[1].kind # "update"
      BY <1>4, <2>0
    <3>2. QED
      BY <1>1, <2>0, <3>1 DEF AskedAtRest
  <2>5. RestShows'
    <3>1. n \in DOMAIN mpNet' /\ mpNet'[n].kind # "stats"
      BY <1>3, <1>4
    <3>2. QED
      BY <3>1 DEF RestShows, OnlyStats
  <2>6. QED
    BY <2>3, <2>4, <2>5
<1>9. QED
  BY <1>5, <1>6, <1>7, <1>8 DEF PageInv, CalmPage

LEMMA AnswerKeeps ==
  ASSUME PageInv, NEW i \in DOMAIN mpNet, MPAnswer(i)
  PROVE  PageInv'
<1> DEFINE q == mpNet[i]
<1>1. q \in PageRequests /\ q.served /\ (q.kind \in BringsRow => q.row \in MerchantRows)
  BY DEF PageInv, PageTyped, MPAnswer
<1>2. CASE q.kind \in BringsRow
  <2>1. WillShow(q) => q.row = mpServer[mpId]
    BY <1>1, <1>2 DEF WillShow
  <2>2. /\ SetMerchant(RemoveAt(mpNet, i), q.row)
        /\ mpLoading' = IF q.kind = "merchant" THEN FALSE ELSE mpLoading
        /\ IF q.kind = "update" THEN mpModal' = NoMerchant /\ mpRef' = NoMerchant
                                ELSE UNCHANGED <<mpModal, mpRef>>
        /\ mpCalm' = (mpCalm /\ i = 1)
        /\ UNCHANGED <<mpId, mpServer, mpMeant>>
    BY <1>2 DEF MPAnswer, BringsRow
  <2> HIDE DEF MPAnswer
  <2>3. QED
    BY <1>1, <1>2, <2>1, <2>2, ShowKeeps
<1>3. CASE q.kind = "details"
  <2>1. q.was \in MerchantRows
    BY <1>1, <1>3, RequestFields
  <2> DEFINE row == [q.was EXCEPT !.described = TRUE]
  <2>2. row \in MerchantRows
    BY <2>1 DEF MerchantRows
  <2>3. WillShow(q) => row = mpServer[mpId]
    BY <1>1, <1>3 DEF WillShow
  <2>4. /\ SetMerchant(RemoveAt(mpNet, i), row)
        /\ mpLoading' = mpLoading /\ UNCHANGED <<mpModal, mpRef>>
        /\ mpCalm' = (mpCalm /\ i = 1)
        /\ UNCHANGED <<mpId, mpServer, mpMeant>>
    BY <1>3 DEF MPAnswer
  <2> HIDE DEF row
  <2>5. QED
    BY <1>1, <1>3, <2>2, <2>3, <2>4, ShowKeeps
<1>4. QED
  BY <1>1, <1>2, <1>3, StatsKeep, GroupAnswered, RequestFields DEF BringsRow, MadeByUser

LEMMA FailKeeps ==
  ASSUME PageInv, NEW i \in DOMAIN mpNet, MPFail(i)
  PROVE  PageInv'
<1> DEFINE q == mpNet[i]
<1>1. /\ mpNet' = RemoveAt(mpNet, i)
      /\ mpLoading' = IF q.kind = "merchant" THEN FALSE ELSE mpLoading
      /\ IF q.kind = "update" THEN mpModal' = NoMerchant /\ mpRef' = NoMerchant
                              ELSE UNCHANGED <<mpModal, mpRef>>
      /\ mpCalm' = FALSE
      /\ UNCHANGED <<mpId, mpMerchant, mpSearch, mpStats, mpSent, mpServer, mpMeant>>
  BY DEF MPFail
<1>2. /\ mpNet' \in Seq(PageRequests)
      /\ \A j \in DOMAIN mpNet' :
           mpNet'[j].served /\ mpNet'[j].kind \in BringsRow => mpNet'[j].row \in MerchantRows
      /\ \A k \in DOMAIN mpNet \ {i} : \E j \in DOMAIN mpNet' : mpNet'[j] = mpNet[k]
  BY <1>1, Left DEF PageInv
<1> HIDE DEF q
<1>3. PageTyped'
  BY <1>1, <1>2 DEF PageInv, PageTyped
<1>4. PendingTogether'
  BY <1>1 DEF PageInv, PendingTogether
<1>5. Awaited'
  <2> SUFFICES ASSUME mpLoading' PROVE \E j \in DOMAIN mpNet' : mpNet'[j].kind = "merchant"
    BY DEF Awaited
  <2>1. mpLoading /\ q.kind # "merchant"
    BY <1>1
  <2>2. PICK k \in DOMAIN mpNet : mpNet[k].kind = "merchant"
    BY <2>1 DEF PageInv, Awaited
  <2>3. QED
    BY <1>2, <2>1, <2>2 DEF q
<1>6. CalmPage'
  BY <1>1 DEF CalmPage
<1>7. QED
  BY <1>3, <1>4, <1>5, <1>6 DEF PageInv

-----------------------------------------------------------------------------
(* The theorems about the page of a merchant. *)

LEMMA NextPage == PageInv /\ [MPNext]_mpVars => PageInv'
<1>1. PageInv /\ UNCHANGED mpVars => PageInv'
  BY DEF mpVars, PageInv, PageTyped, PendingTogether, Awaited, CalmPage, AskedAtRest, Fits, UserFirst, InOrder,
         MeantComes, TagsAfter, EditComes, GroupOf, TagsGiven, LastComes, WillShow, RestShows, OnlyStats
<1>2. PageInv /\ MPNext => PageInv'
  BY AskKeeps, CloseKeeps, ConfirmKeeps, RemoveKeeps, GroupKeeps, GoKeeps, ServeKeeps, AnswerKeeps, FailKeeps
     DEF MPNext, SaveGroupDetails, RemoveFromGroup, MakePrimary
<1>3. QED
  BY <1>1, <1>2

LEMMA PageInvariant == MPSpec => []PageInv
BY InitPage, NextPage, PTL DEF MPSpec

(* Type correctness of the merchant's page.                                  *)
THEOREM MerchantTypeCorrect == MPSpec => []MPTypeOK
<1>1. PageInv => MPTypeOK
  BY DEF PageInv, PageTyped, MPTypeOK, RowOrNone, MerchantRows, Subjects
<1>2. QED
  BY <1>1, PageInvariant, PTL

(* A page at rest shows the merchant of its path as the server has it, with  *)
(* the search and the statistics that belong to it, whatever was edited,     *)
(* left or gone to before, so long as all came in order, nothing failed, and *)
(* no other merchant was gone to during a change of the group.               *)
THEOREM PageSettles == MPSpec => []PageSettled
<1>1. PageInv => PageSettled
  BY DEF PageInv, CalmPage, RestShows, OnlyStats, Awaited, PageSettled
<1>2. QED
  BY <1>1, PageInvariant, PTL

-----------------------------------------------------------------------------
(* The page of a transaction: what its requests carry. *)

(* A transaction as it was or will be held: pending or not as the server has *)
(* it, and then without children.                                            *)
Holdable(t, pending) ==
  t # NotOpen =>
    /\ t = [edit |-> t.edit, tags |-> t.tags, defaults |-> t.defaults, kids |-> t.kids,
            amount |-> t.amount, pending |-> t.pending]
    /\ t.pending = pending
    /\ t.pending => t.kids = << >>

TXCarries(q, pending) ==
  /\ q \in [kind : {q.kind}, what : {q.what}, was : {q.was}, served : {q.served}, answer : {q.answer},
            id : {q.id}]
  /\ Holdable(q.was, pending) /\ Holdable(q.answer, pending)
  /\ q.kind \in Partial => q.was # NotOpen
  /\ q.kind = "split" => SumOf(q.what.rows) = q.what.amount /\ ~pending

(* Every split under way adds up to its amount, and none is of a pending     *)
(* transaction, nor is one begun in the dialog.                              *)
SplitInv ==
  /\ Queue(txNet)
  /\ \A i \in DOMAIN txNet : TXCarries(txNet[i], txStore.pending)
  /\ Holdable(tx, txStore.pending)
  /\ txStore = [edit |-> txStore.edit, tags |-> txStore.tags, defaults |-> txStore.defaults,
                kids |-> txStore.kids, amount |-> txStore.amount, pending |-> txStore.pending]
  /\ txStore.pending => txStore.kids = << >>
  /\ txSplit # NotOpen => ~txStore.pending

LEMMA SplitInit == TXInit => SplitInv
<1> SUFFICES ASSUME TXInit PROVE SplitInv
  OBVIOUS
<1>1. txStore \in [edit : {1}, tags : {{}}, defaults : {{}}, kids : {<< >>}, amount : {Amount}, pending : BOOLEAN]
  BY DEF TXInit
<1> DEFINE q == [kind |-> "get", what |-> NotOpen, was |-> NotOpen, served |-> FALSE, answer |-> NotOpen, id |-> 1]
<1>2. txNet = <<q>> /\ txSplit = NotOpen /\ tx = NotOpen
  BY DEF TXInit
<1>3. TXCarries(q, txStore.pending)
  BY DEF TXCarries, Holdable, Partial
<1> HIDE DEF q
<1>4. Queue(txNet) /\ \A i \in DOMAIN txNet : txNet[i] = q
  <2>1. <<q>> \in Seq({q}) /\ DOMAIN <<q>> = {1} /\ <<q>>[1] = q
    OBVIOUS
  <2>2. Queue(txNet)
    BY <1>2, <2>1 DEF Queue
  <2>3. QED
    BY <1>2, <2>1, <2>2
<1>5. QED
  BY <1>1, <1>2, <1>3, <1>4 DEF SplitInv, Holdable

(* A request that carries what it should joins the others. *)
LEMMA TXSent ==
  ASSUME SplitInv, NEW kind, NEW what, TXSend(kind, what), UNCHANGED <<tx, txStore>>,
         kind \in Partial => tx # NotOpen,
         kind = "split" => SumOf(what.rows) = what.amount /\ ~txStore.pending
  PROVE  Queue(txNet') /\ (\A i \in DOMAIN txNet' : TXCarries(txNet'[i], txStore.pending))
<1>1. PICK q : txNet' = Append(txNet, q) /\ TXCarries(q, txStore.pending)
  <2> DEFINE e == [kind |-> kind, what |-> what, was |-> IF kind \in Partial THEN tx ELSE NotOpen,
                   served |-> FALSE, answer |-> NotOpen, id |-> txSent']
  <2>1. TXCarries(e, txStore.pending)
    BY DEF TXCarries, Holdable, SplitInv
  <2>2. QED
    BY <2>1 DEF TXSend
<1>2. TXCarries(q, txStore.pending)
  BY <1>1
<1>3. Queue(txNet') /\ FromOr(txNet, q, txNet')
  BY <1>1, QueueMore DEF SplitInv
<1>4. QED
  BY <1>2, <1>3 DEF SplitInv, FromOr

LEMMA SendKeeps ==
  ASSUME SplitInv, NEW kind, NEW what, TXSend(kind, what), UNCHANGED <<tx, txSplit, txStore>>,
         kind \in Partial => tx # NotOpen,
         kind = "split" => SumOf(what.rows) = what.amount /\ ~txStore.pending
  PROVE  SplitInv'
<1>1. Queue(txNet') /\ \A i \in DOMAIN txNet' : TXCarries(txNet'[i], txStore.pending)
  BY TXSent
<1>2. QED
  BY <1>1 DEF SplitInv

LEMMA DialogKeeps ==
  ASSUME SplitInv, UNCHANGED <<tx, txNet, txStore>>, txSplit' # NotOpen => ~txStore.pending
  PROVE  SplitInv'
  BY DEF SplitInv

(* What the dialog lets through adds up: where no row's amount is zero each  *)
(* is the number it stands for.                                              *)
LEMMA SavedSum ==
  ASSUME CanSave(txSplit, tx.amount)
  PROVE  SumOf([i \in DOMAIN txSplit |-> txSplit[i].amount]) = tx.amount
<1>1. \A i \in DOMAIN txSplit : NumberOf(txSplit[i].amount) = txSplit[i].amount
  BY DEF CanSave, NumberOf
<1>2. [i \in DOMAIN txSplit |-> NumberOf(txSplit[i].amount)] = [i \in DOMAIN txSplit |-> txSplit[i].amount]
  BY <1>1
<1>3. QED
  BY <1>2 DEF CanSave, Allocated

LEMMA UserKeepsSplit ==
  ASSUME SplitInv,
         \/ EditOrTag \/ AskDefault \/ RemoveDefault \/ AskUnsplit \/ TXConfirm \/ TXCancel
         \/ OpenSplit \/ CloseSplit \/ EditRows \/ SaveSplit
  PROVE  SplitInv'
<1>1. CASE EditOrTag
  <2>1. PICK kind, what : kind \in {"update", "tag", "untag", "get"} /\ TXSend(kind, what)
    BY <1>1 DEF EditOrTag
  <2>2. tx # NotOpen /\ UNCHANGED <<tx, txSplit, txStore>>
    BY <1>1 DEF EditOrTag, Clickable, TXDrawn, txDialogs
  <2>3. QED
    BY <2>1, <2>2, SendKeeps
<1>2. CASE RemoveDefault
  <2>1. PICK what : TXSend("default", what)
    BY <1>2 DEF RemoveDefault
  <2>2. tx # NotOpen /\ UNCHANGED <<tx, txSplit, txStore>>
    BY <1>2 DEF RemoveDefault, Clickable, TXDrawn, txDialogs
  <2>3. QED
    BY <2>1, <2>2, SendKeeps
<1>3. CASE AskDefault \/ AskUnsplit \/ TXCancel
  BY <1>3, DialogKeeps DEF AskDefault, AskUnsplit, TXCancel, SplitInv
<1>4. CASE OpenSplit \/ CloseSplit \/ EditRows
  <2>1. UNCHANGED <<tx, txNet, txStore>>
    BY <1>4 DEF OpenSplit, CloseSplit, EditRows, RowsBecome
  <2>2. CASE OpenSplit
    <3>1. ~txStore.pending
      BY <2>2 DEF OpenSplit, Clickable, TXDrawn, SplitInv, Holdable
    <3>2. QED
      BY <2>1, <3>1, DialogKeeps
  <2>3. CASE CloseSplit
    BY <2>1, <2>3, DialogKeeps DEF CloseSplit, SplitInv
  <2>4. CASE EditRows
    BY <2>1, <2>4, DialogKeeps DEF EditRows, SplitInv
  <2>5. QED
    BY <1>4, <2>2, <2>3, <2>4
<1>5. CASE SaveSplit
  <2> DEFINE what == [amount |-> tx.amount, rows |-> [i \in DOMAIN txSplit |-> txSplit[i].amount]]
  <2>1. TXSend("split", what) /\ UNCHANGED <<tx, txSplit, txStore>>
    BY <1>5 DEF SaveSplit
  <2>2. SumOf(what.rows) = what.amount /\ ~txStore.pending
    BY <1>5, SavedSum DEF SaveSplit, SplitInv
  <2> HIDE DEF what
  <2>3. QED
    BY <2>1, <2>2, SendKeeps DEF Partial
<1>6. CASE TXConfirm
  <2>1. TXSend("unsplit", NotOpen) \/ \E what : TXSend("default", what)
    BY <1>6 DEF TXConfirm
  <2>2. tx # NotOpen /\ UNCHANGED <<tx, txSplit, txStore>>
    BY <1>6 DEF TXConfirm, TXDrawn
  <2>3. CASE TXSend("unsplit", NotOpen)
    BY <2>2, <2>3, SendKeeps DEF Partial
  <2>4. ASSUME NEW what, TXSend("default", what) PROVE SplitInv'
    BY <2>2, <2>4, SendKeeps
  <2>5. QED
    BY <2>1, <2>3, <2>4
<1>7. QED
  BY <1>1, <1>2, <1>3, <1>4, <1>5, <1>6

-----------------------------------------------------------------------------
(* The page of a transaction: a request is served, and answered. *)

LEMMA ServedTransaction ==
  ASSUME SplitInv, NEW i \in DOMAIN txNet, Accepted(txNet[i])
  PROVE  LET t == TXStored(txNet[i]) IN
         /\ t = [edit |-> t.edit, tags |-> t.tags, defaults |-> t.defaults, kids |-> t.kids,
                 amount |-> t.amount, pending |-> t.pending]
         /\ t.pending = txStore.pending
         /\ t.pending => t.kids = << >>
<1> DEFINE q == txNet[i]
<1>1. q.kind = "split" => ~txStore.pending
  BY DEF SplitInv, TXCarries
<1> HIDE DEF q
<1>2. QED
  BY <1>1 DEF TXStored, SplitInv, q

LEMMA AnsweredCarries ==
  ASSUME NEW q, NEW pending, TXCarries(q, pending), NEW answer, Holdable(answer, pending)
  PROVE  TXCarries([q EXCEPT !.served = TRUE, !.answer = answer], pending)
<1> DEFINE e == [q EXCEPT !.served = TRUE, !.answer = answer]
<1>1. e \in [kind : {q.kind}, what : {q.what}, was : {q.was}, served : {TRUE}, answer : {answer}, id : {q.id}]
  BY DEF TXCarries
<1>2. QED
  BY <1>1 DEF TXCarries

LEMMA ServeKeepsSplit ==
  ASSUME SplitInv, NEW i \in DOMAIN txNet, TXServe(i)
  PROVE  SplitInv'
<1> DEFINE q == txNet[i]
           answer == IF Accepted(q) THEN txStore' ELSE NotOpen
           e == [q EXCEPT !.served = TRUE, !.answer = answer]
<1>1. /\ txStore' = [edit |-> txStore'.edit, tags |-> txStore'.tags, defaults |-> txStore'.defaults,
                     kids |-> txStore'.kids, amount |-> txStore'.amount, pending |-> txStore'.pending]
      /\ txStore'.pending = txStore.pending
      /\ txStore'.pending => txStore'.kids = << >>
  <2>1. txStore' = IF Accepted(q) THEN TXStored(q) ELSE txStore
    BY DEF TXServe
  <2>2. CASE Accepted(q)
    BY <2>1, <2>2, ServedTransaction
  <2>3. CASE ~Accepted(q)
    BY <2>1, <2>3 DEF SplitInv
  <2>4. QED
    BY <2>2, <2>3
<1>2. TXCarries(q, txStore.pending) /\ Queue(txNet)
  BY DEF SplitInv
<1>3. txNet' = [txNet EXCEPT ![i] = e] /\ UNCHANGED <<tx, txSplit>>
  BY DEF TXServe, txDialogs
<1>4. Holdable(answer, txStore.pending)
  BY <1>1 DEF Holdable
<1>5. TXCarries(e, txStore.pending)
  BY <1>2, <1>4, AnsweredCarries
<1> HIDE DEF e, q, answer
<1>6. Queue(txNet') /\ FromOr(txNet, e, txNet')
  BY <1>2, <1>3, QueueChanged
<1>7. \A j \in DOMAIN txNet' : TXCarries(txNet'[j], txStore.pending)
  BY <1>5, <1>6 DEF SplitInv, FromOr
<1>8. QED
  BY <1>1, <1>3, <1>6, <1>7 DEF SplitInv

(* What an answer makes of the transaction held can be held. *)
LEMMA PutHoldable ==
  ASSUME NEW q, TXCarries(q, txStore.pending), q.answer # NotOpen
  PROVE  Holdable(TXPut(q), txStore.pending)
  BY DEF TXCarries, Holdable, TXPut, Partial

LEMMA EndKeepsSplit ==
  ASSUME SplitInv, NEW i \in DOMAIN txNet, TXAnswer(i) \/ TXFail(i)
  PROVE  SplitInv'
<1>1. txNet' = RemoveAt(txNet, i) /\ UNCHANGED txStore
  BY DEF TXAnswer, TXFail
<1>2. Queue(txNet') /\ FromOr(txNet, txNet[i], txNet')
  BY <1>1, QueueLess DEF SplitInv
<1>3. \A j \in DOMAIN txNet' : TXCarries(txNet'[j], txStore.pending)
  BY <1>2 DEF SplitInv, FromOr
<1>4. Holdable(tx', txStore.pending)
  <2>1. CASE UNCHANGED tx
    BY <2>1 DEF SplitInv
  <2>2. CASE txNet[i].answer # NotOpen /\ tx' = TXPut(txNet[i])
    BY <2>2, PutHoldable DEF SplitInv
  <2>3. QED
    BY <2>1, <2>2 DEF TXAnswer, TXFail, TransactionSet
<1>5. txSplit' # NotOpen => txSplit # NotOpen
  BY DEF TXAnswer, TXFail, TransactionSet
<1>6. QED
  BY <1>1, <1>2, <1>3, <1>4, <1>5 DEF SplitInv

LEMMA BankKeepsSplit == SplitInv /\ BankChanges => SplitInv'
<1> SUFFICES ASSUME SplitInv, BankChanges PROVE SplitInv'
  OBVIOUS
<1>1. /\ txStore' = [edit |-> txStore'.edit, tags |-> txStore'.tags, defaults |-> txStore'.defaults,
                     kids |-> txStore'.kids, amount |-> txStore'.amount, pending |-> txStore'.pending]
      /\ txStore'.pending = txStore.pending /\ txStore'.kids = txStore.kids
      /\ UNCHANGED <<tx, txSplit, txNet>>
  BY DEF SplitInv, BankChanges, txDialogs
<1>2. QED
  BY <1>1 DEF SplitInv

LEMMA SplitStep == SplitInv /\ [TXNext]_txVars => SplitInv'
<1>1. SplitInv /\ UNCHANGED txVars => SplitInv'
  BY DialogKeeps DEF txVars, txDialogs, SplitInv
<1>2. SplitInv /\ TXNext => SplitInv'
  BY UserKeepsSplit, ServeKeepsSplit, EndKeepsSplit, BankKeepsSplit DEF TXNext
<1>3. QED
  BY <1>1, <1>2

LEMMA SplitInvariant == TXSpec => []SplitInv
BY SplitInit, SplitStep, PTL DEF TXSpec

(* A split that was let through is refused by the server only if the bank    *)
(* has changed the amount since: whatever rows were added, removed, filled   *)
(* with the remainder or filled anew under the user's hands, it adds up, and *)
(* none is ever sent of a pending transaction.                               *)
THEOREM SplitsAreAccepted == TXSpec => SplitsAccepted
<1>1. SplitInv /\ [TXNext]_txVars =>
        [\A i \in DOMAIN txNet :
           txNet[i].kind = "split" /\ txNet[i].what.amount = txStore.amount /\ TXServe(i) => Accepted(txNet[i])]_txVars
  BY DEF SplitInv, TXCarries, Accepted
<1>2. QED
  BY <1>1, SplitInvariant, PTL DEF TXSpec, SplitsAccepted

-----------------------------------------------------------------------------
(* The page of the categories: every tree it ever showed, and every change   *)
(* it asks for, so long as each was served on the tree it was chosen on.     *)

(* What is asked for is a step of CategoryTree from the tree it was seen on. *)
MayAsk(change) ==
  /\ Sound(change.seen)
  /\ change.do # "create" => change.id \in Tags
  /\ change.do \in {"move", "edit"} /\ change.parent # None =>
       change.parent \notin Descendants(change.seen, change.id)
  /\ change.do \in {"create", "edit"} => change.type \in TagTypes
  /\ change.do \in {"create", "edit", "budget"} => change.budget \in BOOLEAN

CSCarries(q) == Sound(q.answer) /\ (q.kind # "load" => MayAsk(q.change))

AsShown ==
  /\ TreeInv /\ csFresh \subseteq Tags
  /\ Sound(csFlat.d)
  /\ csModal # Closed => Sound(csModal.seen) /\ csModal.id \in csModal.seen.tags \cup {None}
  /\ csConfirm # Closed => MayAsk(csConfirm)
  /\ \A i \in DOMAIN csNet : CSCarries(csNet[i])

ShownInv == Queue(csNet) /\ csAsSeen \in BOOLEAN /\ (csAsSeen => AsShown)

(* Of a sound table every category is drawn.                                 *)
LEMMA SoundDrawn ==
  ASSUME NEW d, Sound(d)
  PROVE  DrawnTags(d) = d.tags
<1> DEFINE D == DrawnTags(d)
           S == d.tags \ D
<1>1. D \subseteq d.tags
  BY DEF DrawnTags, Roots, Descendants, Below
<1>2. ASSUME NEW s \in S PROVE d.parent[s] \in S
  <2>1. s \notin Roots(d)
    BY DEF DrawnTags, Descendants
  <2>2. d.parent[s] \in d.tags
    BY <2>1 DEF Roots
  <2>3. ASSUME NEW r \in Roots(d), d.parent[s] \in Descendants(d, r) PROVE FALSE
    <3>1. s \in Children(d, d.parent[s])
      BY DEF Children
    <3>2. s \in Below(d, r)
      BY <2>3, <3>1, BelowClosed DEF Descendants
    <3>3. QED
      BY <3>2 DEF DrawnTags, Descendants
  <2>4. QED
    BY <2>2, <2>3 DEF DrawnTags
<1> HIDE DEF D
<1>3. S = {}
  BY <1>2 DEF Sound, Rooted
<1>4. QED
  BY <1>1, <1>3 DEF D

LEMMA EmptySound == Sound(EmptyTree)
<1>1. EmptyTree \in Tree /\ EmptyTree.tags = {}
  BY DEF EmptyTree, Tree, TagTypes
<1>2. QED
  BY <1>1 DEF Sound, ParentsExist, Rooted, Typed, LeafFlags, Budgets

LEMMA StartSound == CSInit => AsShown
<1> SUFFICES ASSUME CSInit PROVE AsShown
  OBVIOUS
<1>1. Sound(EmptyTree)
  BY EmptySound
<1>2. PICK above \in StartForests :
        tree = [EmptyTree EXCEPT
                  !.tags   = DOMAIN above,
                  !.parent = [t \in Tags |-> IF t \in DOMAIN above THEN above[t] ELSE None],
                  !.leaf   = [t \in Tags |-> t \notin Range(above)],
                  !.budget = [t \in Tags |-> t \in DOMAIN above /\ t \notin Range(above)]]
  BY DEF CSInit
<1>3. /\ tree.tags = DOMAIN above
      /\ tree.parent = [t \in Tags |-> IF t \in DOMAIN above THEN above[t] ELSE None]
      /\ tree.type = [t \in Tags |-> "expense"]
      /\ tree.leaf = [t \in Tags |-> t \notin Range(above)]
      /\ tree.budget = [t \in Tags |-> t \in DOMAIN above /\ t \notin Range(above)]
      /\ tree = [tags |-> tree.tags, parent |-> tree.parent, type |-> tree.type, leaf |-> tree.leaf,
                 budget |-> tree.budget]
  BY <1>2 DEF EmptyTree
<1>4. /\ DOMAIN above \subseteq Tags /\ None \notin Tags
      /\ \A t \in DOMAIN above : above[t] \in DOMAIN above \cup {None} /\ above[t] \in Range(above)
      /\ \A S \in SUBSET DOMAIN above : S # {} => \E s \in S : above[s] \notin S
  BY StartForestsAssumption, TagsAssumption DEF Range
<1>5. \A t \in tree.tags : tree.parent[t] = above[t]
  BY <1>3, <1>4
<1>6. tree \in Tree
  <2>1. tree.parent \in [Tags -> Tags \cup {None}]
    BY <1>3, <1>4
  <2>2. tree.type \in [Tags -> TagTypes]
    BY <1>3 DEF TagTypes
  <2>3. tree.leaf \in [Tags -> BOOLEAN] /\ tree.budget \in [Tags -> BOOLEAN]
    BY <1>3
  <2>4. QED
    BY <1>3, <1>4, <2>1, <2>2, <2>3 DEF Tree
<1>7. ParentsExist(tree) /\ Rooted(tree) /\ Typed(tree)
  <2>1. ParentsExist(tree)
    BY <1>3, <1>4, <1>5 DEF ParentsExist
  <2>2. ASSUME NEW S \in SUBSET tree.tags, S # {} PROVE \E s \in S : tree.parent[s] \notin S
    BY <1>3, <1>4, <1>5, <2>2
  <2>3. \A t \in Tags : tree.type[t] = "expense"
    BY <1>3
  <2>4. Typed(tree)
    BY <1>3, <1>4, <2>1, <2>3 DEF Typed, ParentsExist
  <2>5. QED
    BY <2>1, <2>2, <2>4 DEF Rooted
<1>8. \A t \in tree.tags : Children(tree, t) = {} <=> t \notin Range(above)
  BY <1>3, <1>5 DEF Children, Range
<1>9. LeafFlags(tree) /\ Budgets(tree)
  BY <1>3, <1>4, <1>8 DEF LeafFlags, Budgets
<1>10. TreeInv
  BY <1>6, <1>7, <1>9 DEF Sound, TreeInv, CSInit, LabelsExist
<1>11. csFresh \subseteq Tags /\ Sound(csFlat.d) /\ csModal = Closed /\ csConfirm = Closed
  BY <1>1 DEF CSInit
<1>12. \A i \in DOMAIN csNet : CSCarries(csNet[i])
  BY <1>1 DEF CSInit, CSLoad, CSRequest, CSCarries
<1>13. QED
  BY <1>10, <1>11, <1>12 DEF AsShown

LEMMA ShownInit == CSInit => ShownInv
<1> SUFFICES ASSUME CSInit PROVE ShownInv
  OBVIOUS
<1>1. Queue(csNet)
  <2>1. <<CSLoad(csRange, "effect")>> \in Seq({CSLoad(csRange, "effect")})
    OBVIOUS
  <2>2. QED
    BY <2>1 DEF CSInit, Queue
<1>2. QED
  BY <1>1, StartSound DEF ShownInv, CSInit

-----------------------------------------------------------------------------
(* The page of the categories: the steps of the user. *)

LEMMA AskedWell ==
  ASSUME ShownInv, NEW then, NEW change, csAsSeen => MayAsk(change), Mutate(change, then)
  PROVE  Queue(csNet') /\ (csAsSeen => \A i \in DOMAIN csNet' : CSCarries(csNet'[i]))
<1>1. PICK q : csNet' = Append(csNet, q) /\ q = CSRequest("change", csRange, then, change)
  BY DEF Mutate, CSSend
<1>2. csAsSeen => CSCarries(q)
  BY <1>1, EmptySound DEF CSRequest, CSCarries
<1>3. Queue(csNet') /\ FromOr(csNet, q, csNet')
  BY <1>1, QueueMore DEF ShownInv
<1>4. QED
  BY <1>2, <1>3 DEF ShownInv, AsShown, FromOr

LEMMA LoadedWell ==
  ASSUME ShownInv, NEW range, NEW then, NEW net, Queue(net),
         csAsSeen => \A i \in DOMAIN net : CSCarries(net[i]),
         csNet' = Append(net, CSLoad(range, then))
  PROVE  Queue(csNet') /\ (csAsSeen => \A i \in DOMAIN csNet' : CSCarries(csNet'[i]))
<1>1. PICK q : csNet' = Append(net, q) /\ q = CSLoad(range, then)
  OBVIOUS
<1>2. CSCarries(q)
  BY <1>1, EmptySound DEF CSLoad, CSRequest, CSCarries
<1>3. Queue(csNet') /\ FromOr(net, q, csNet')
  BY <1>1, QueueMore
<1>4. QED
  BY <1>2, <1>3 DEF FromOr

LEMMA UserKeepsShown ==
  ASSUME ShownInv,
         \/ SetRange \/ StartDrag \/ EndDrag \/ DropOn \/ AskDelete \/ CSConfirm \/ CSCancel
         \/ OpenModal \/ CSCloseModal \/ SaveModal \/ SaveBudget
  PROVE  ShownInv'
<1>1. UNCHANGED <<tree, label, csFresh, csFlat, csAsSeen>>
  BY DEF SetRange, StartDrag, EndDrag, DropOn, AskDelete, CSConfirm, CSCancel, OpenModal, CSCloseModal,
         SaveModal, SaveBudget, csPage, csDialogs, csServer, csHistory, treeVars
<1>2. TreeInv => TreeInv'
  BY <1>1 DEF TreeInv, LabelsExist
<1>3. \A d : Sound(d) => None \notin d.tags /\ d.tags \subseteq Tags /\ DrawnTags(d) = d.tags
  BY SoundDrawn, TagsAssumption DEF Sound, Tree
<1>4. CASE SetRange
  <2>1. UNCHANGED <<csModal, csConfirm>>
    BY <1>4 DEF SetRange, csDialogs
  <2>2. PICK range : csNet' = Append(csNet, CSLoad(range, "effect"))
    BY <1>4 DEF SetRange, CSSend
  <2>3. Queue(csNet') /\ (csAsSeen => \A i \in DOMAIN csNet' : CSCarries(csNet'[i]))
    BY <2>2, LoadedWell DEF ShownInv, AsShown
  <2>4. QED
    BY <1>1, <1>2, <2>1, <2>3 DEF ShownInv, AsShown
<1>5. CASE StartDrag \/ EndDrag
  <2>1. UNCHANGED <<csModal, csConfirm, csNet>>
    BY <1>5 DEF StartDrag, EndDrag
  <2>2. QED
    BY <1>1, <1>2, <2>1 DEF ShownInv, AsShown
<1>6. CASE DropOn
  <2>1. UNCHANGED <<csModal, csNet>>
    BY <1>6 DEF DropOn
  <2>2. csAsSeen => MayAsk(csConfirm')
    BY <1>3, <1>6 DEF DropOn, CanDropOn, MayAsk, ShownInv, AsShown
  <2>3. QED
    BY <1>1, <1>2, <2>1, <2>2 DEF ShownInv, AsShown
<1>7. CASE AskDelete
  <2>1. UNCHANGED <<csModal, csNet>>
    BY <1>7 DEF AskDelete
  <2>2. csAsSeen => MayAsk(csConfirm')
    BY <1>3, <1>7 DEF AskDelete, MayAsk, ShownInv, AsShown
  <2>3. QED
    BY <1>1, <1>2, <2>1, <2>2 DEF ShownInv, AsShown
<1>8. CASE CSConfirm
  <2>1. csConfirm # Closed /\ csConfirm' = Closed /\ csModal' = csModal /\ Mutate(csConfirm, "note")
    BY <1>8 DEF CSConfirm
  <2>2. Queue(csNet') /\ (csAsSeen => \A i \in DOMAIN csNet' : CSCarries(csNet'[i]))
    BY <2>1, AskedWell DEF ShownInv, AsShown
  <2>3. QED
    BY <1>1, <1>2, <2>1, <2>2 DEF ShownInv, AsShown
<1>9. CASE CSCancel \/ CSCloseModal
  <2>1. /\ csNet' = csNet
        /\ csModal' \in {csModal, Closed} /\ csConfirm' \in {csConfirm, Closed}
    BY <1>9 DEF CSCancel, CSCloseModal
  <2>2. QED
    BY <1>1, <1>2, <2>1 DEF ShownInv, AsShown
<1>10. CASE OpenModal
  <2>1. UNCHANGED <<csConfirm, csNet>>
    BY <1>10 DEF OpenModal
  <2>2. csAsSeen => Sound(csModal'.seen) /\ csModal'.id \in csModal'.seen.tags \cup {None}
    BY <1>3, <1>10 DEF OpenModal, ShownInv, AsShown
  <2>3. QED
    BY <1>1, <1>2, <2>1, <2>2 DEF ShownInv, AsShown
<1>11. CASE SaveModal
  <2>1. PICK parent \in ParentOptions \cup {None}, type \in TagTypes :
          Mutate([do |-> IF csModal.id = None THEN "create" ELSE "edit", id |-> csModal.id,
                  parent |-> parent, type |-> type,
                  budget |-> csModal.id = None \/ csModal.seen.budget[csModal.id], seen |-> csModal.seen],
                 "modal")
    BY <1>11 DEF SaveModal
  <2> DEFINE change == [do |-> IF csModal.id = None THEN "create" ELSE "edit", id |-> csModal.id,
                        parent |-> parent, type |-> type,
                        budget |-> csModal.id = None \/ csModal.seen.budget[csModal.id], seen |-> csModal.seen]
  <2>2. csModal # Closed /\ UNCHANGED <<csModal, csConfirm>>
    BY <1>11 DEF SaveModal
  <2>3. ASSUME csAsSeen PROVE MayAsk(change)
    <3>1. Sound(csModal.seen) /\ csModal.id \in csModal.seen.tags \cup {None}
      BY <2>2, <2>3 DEF ShownInv, AsShown
    <3>2. csModal.id # None => csModal.id \in Tags /\ csModal.seen.budget[csModal.id] \in BOOLEAN
      BY <3>1 DEF Sound, Tree
    <3>3. csModal.id # None /\ parent # None => parent \notin Descendants(csModal.seen, csModal.id)
      BY <2>1 DEF ParentOptions
    <3>4. QED
      BY <3>1, <3>2, <3>3 DEF MayAsk
  <2> HIDE DEF change
  <2>4. Queue(csNet') /\ (csAsSeen => \A i \in DOMAIN csNet' : CSCarries(csNet'[i]))
    BY <2>1, <2>3, AskedWell DEF change
  <2>5. QED
    BY <1>1, <1>2, <2>2, <2>4 DEF ShownInv, AsShown
<1>12. CASE SaveBudget
  <2>1. PICK t \in DrawnTags(csFlat.d) :
          Mutate([do |-> "budget", id |-> t, budget |-> ~csFlat.d.budget[t], seen |-> csFlat.d], "note")
    BY <1>12 DEF SaveBudget
  <2>2. UNCHANGED <<csModal, csConfirm>>
    BY <1>12 DEF SaveBudget, csDialogs
  <2> DEFINE change == [do |-> "budget", id |-> t, budget |-> ~csFlat.d.budget[t], seen |-> csFlat.d]
  <2>3. ASSUME csAsSeen PROVE MayAsk(change)
    BY <1>3, <2>1, <2>3 DEF MayAsk, ShownInv, AsShown
  <2> HIDE DEF change
  <2>4. Queue(csNet') /\ (csAsSeen => \A i \in DOMAIN csNet' : CSCarries(csNet'[i]))
    BY <2>1, <2>3, AskedWell DEF change
  <2>5. QED
    BY <1>1, <1>2, <2>2, <2>4 DEF ShownInv, AsShown
<1>13. QED
  BY <1>4, <1>5, <1>6, <1>7, <1>8, <1>9, <1>10, <1>11, <1>12

-----------------------------------------------------------------------------
(* The page of the categories: requests. *)

(* A change served on the tree it was chosen on is a step of CategoryTree.   *)
LEMMA ActsOnTree ==
  ASSUME TreeInv, csFresh \subseteq Tags, NEW q, MayAsk(q), q.seen = tree, Acts(q)
  PROVE  TreeNext
<1>1. tree \in Tree /\ tree.tags \subseteq Tags /\ None \notin Tags /\ Rooted(tree) /\ ParentsExist(tree)
  BY TagsAssumption DEF TreeInv, Sound, Tree
<1>2. CASE q.do = "create"
  <2>1. PICK t \in csFresh : Create(t, q.parent, q.type, q.budget)
    BY <1>2 DEF Acts
  <2>2. t \in Tags /\ q.parent \in Tags \cup {None} /\ q.type \in TagTypes /\ q.budget \in BOOLEAN
    BY <1>1, <1>2, <2>1 DEF MayAsk, Create
  <2>3. QED
    BY <2>1, <2>2 DEF TreeNext
<1>3. CASE q.do = "delete"
  <2>1. Destroy(q.id) /\ q.id \in Tags
    BY <1>3 DEF Acts, MayAsk
  <2>2. QED
    BY <2>1 DEF TreeNext
<1>4. CASE q.do \in {"move", "budget", "edit"}
  <2>1. /\ q.id \in tree.tags /\ q.id \in Tags
        /\ q.do # "budget" => q.parent \in tree.tags \cup {None}
        /\ tree' = Updated(q) /\ UNCHANGED label
    BY <1>1, <1>4 DEF Acts
  <2> DEFINE p    == IF q.do = "budget" THEN tree.parent[q.id] ELSE q.parent
             type == IF q.do = "edit" THEN q.type ELSE tree.type[q.id]
             b    == IF q.do = "move" THEN tree.budget[q.id] ELSE q.budget
             e    == [tree EXCEPT !.parent[q.id] = p, !.type[q.id] = type, !.budget[q.id] = b]
             d    == CASE q.do = "move"   -> [tree EXCEPT !.parent[q.id] = q.parent]
                       [] q.do = "budget" -> [tree EXCEPT !.budget[q.id] = q.budget]
                       [] OTHER           -> [tree EXCEPT !.parent[q.id] = q.parent, !.type[q.id] = q.type,
                                                          !.budget[q.id] = q.budget]
  <2>2. p \in (tree.tags \cup {None}) \ (Below(tree, q.id) \cup {q.id})
    <3>1. CASE q.do = "budget"
      <4>1. p \in tree.tags \cup {None}
        BY <2>1, <3>1 DEF TreeInv, Sound, ParentsExist
      <4>2. p \notin Below(tree, q.id) /\ p # q.id
        BY <1>1, <2>1, <3>1, ParentNotBelow, NoShortCycle
      <4>3. QED
        BY <4>1, <4>2
    <3>2. CASE q.do # "budget"
      <4>1. None \notin Below(tree, q.id) \cup {q.id}
        BY <1>1, <2>1 DEF Below
      <4>2. QED
        BY <1>4, <2>1, <3>2, <4>1 DEF MayAsk, Descendants
    <3>3. QED
      BY <3>1, <3>2
  <2>3. type \in TagTypes /\ b \in BOOLEAN /\ p \in Tags \cup {None}
    BY <1>1, <1>4, <2>1, <2>2 DEF MayAsk, Tree
  <2>4. d = e
    <3>1. CASE q.do = "move"
      <4>1. d \in Tree /\ e \in Tree
        BY <1>1, <2>1, <2>3, <3>1 DEF Tree
      <4>2. /\ e.tags = d.tags /\ e.parent = d.parent /\ e.leaf = d.leaf
            /\ e.type = d.type /\ e.budget = d.budget
        BY <1>1, <2>1, <3>1 DEF Tree
      <4> HIDE DEF d, e
      <4>3. QED
        BY <4>1, <4>2, TableIs
    <3>2. CASE q.do = "budget"
      <4>1. d \in Tree /\ e \in Tree
        BY <1>1, <2>1, <2>3, <3>2 DEF Tree
      <4>2. /\ e.tags = d.tags /\ e.parent = d.parent /\ e.leaf = d.leaf
            /\ e.type = d.type /\ e.budget = d.budget
        BY <1>1, <2>1, <3>2 DEF Tree
      <4> HIDE DEF d, e
      <4>3. QED
        BY <4>1, <4>2, TableIs
    <3>3. CASE q.do = "edit"
      BY <3>3
    <3>4. QED
      BY <1>4, <3>1, <3>2, <3>3
  <2>5. tree' = Save(d, q.id, Loaded(tree, q.id))
    BY <2>1 DEF Updated
  <2> HIDE DEF p, type, b, d
  <2>6. Update(q.id, p, type, b)
    BY <2>1, <2>2, <2>4, <2>5 DEF Update
  <2>7. QED
    BY <2>1, <2>3, <2>6 DEF TreeNext
<1>5. QED
  BY <1>2, <1>3, <1>4 DEF Acts

LEMMA ServeOnTree ==
  ASSUME ShownInv, NEW i \in DOMAIN csNet, CSServe(i), csAsSeen'
  PROVE  /\ csAsSeen /\ [TreeNext]_treeVars
         /\ csFresh' \subseteq Tags
<1>1. csAsSeen
  BY DEF CSServe
<1>2. TreeInv /\ csFresh \subseteq Tags /\ CSCarries(csNet[i])
  BY <1>1 DEF ShownInv, AsShown
<1>3. CASE csNet[i].kind = "load"
  BY <1>1, <1>2, <1>3 DEF CSServe, csServer
<1>4. CASE csNet[i].kind # "load"
  <2>1. Acts(csNet[i].change) /\ csNet[i].change.seen = tree /\ MayAsk(csNet[i].change)
    BY <1>2, <1>4 DEF CSServe, CSCarries
  <2>2. TreeNext
    BY <1>2, <2>1, ActsOnTree
  <2>3. csFresh' \subseteq Tags
    BY <1>2, <2>1 DEF Acts
  <2>4. QED
    BY <1>1, <2>2, <2>3
<1>5. QED
  BY <1>3, <1>4

LEMMA ServeKeepsShown ==
  ASSUME ShownInv, NEW i \in DOMAIN csNet, CSServe(i)
  PROVE  ShownInv'
<1> DEFINE e == [csNet[i] EXCEPT !.served = TRUE, !.answer = tree]
<1>1. csNet' = [csNet EXCEPT ![i] = e] /\ UNCHANGED <<csFlat, csModal, csConfirm>>
  BY DEF CSServe, csPage, csDialogs
<1>2. csAsSeen' \in BOOLEAN
  BY DEF CSServe, ShownInv
<1> HIDE DEF e
<1>3. Queue(csNet') /\ FromOr(csNet, e, csNet')
  BY <1>1, QueueChanged DEF ShownInv
<1>4. ASSUME csAsSeen' PROVE AsShown'
  <2>1. csAsSeen /\ [TreeNext]_treeVars /\ csFresh' \subseteq Tags
    BY <1>4, ServeOnTree
  <2>2. AsShown
    BY <2>1 DEF ShownInv
  <2>3. TreeInv'
    BY <2>1, <2>2, TreeStep DEF AsShown
  <2>4. CSCarries(e)
    BY <2>2 DEF e, AsShown, CSCarries, TreeInv
  <2>5. \A j \in DOMAIN csNet' : CSCarries(csNet'[j])
    BY <1>3, <2>2, <2>4 DEF AsShown, FromOr
  <2>6. QED
    BY <1>1, <2>1, <2>2, <2>3, <2>5 DEF AsShown
<1>5. QED
  BY <1>2, <1>3, <1>4 DEF ShownInv

LEMMA EndKeepsShown ==
  ASSUME ShownInv, NEW i \in DOMAIN csNet, CSAnswer(i) \/ CSFail(i)
  PROVE  ShownInv'
<1> DEFINE net == RemoveAt(csNet, i)
<1>1. Queue(net) /\ FromOr(csNet, csNet[i], net)
  BY QueueLess DEF ShownInv
<1>2. csAsSeen => \A j \in DOMAIN net : CSCarries(net[j])
  BY <1>1 DEF ShownInv, AsShown, FromOr
<1> HIDE DEF net
<1>3. UNCHANGED <<tree, label, csFresh, csConfirm, csAsSeen>>
  BY DEF CSAnswer, CSFail, csServer, treeVars
<1>4. TreeInv => TreeInv'
  BY <1>3 DEF TreeInv, LabelsExist
<1>5. Queue(csNet') /\ (csAsSeen => \A j \in DOMAIN csNet' : CSCarries(csNet'[j]))
  <2>1. CASE csNet' = net
    BY <1>1, <1>2, <2>1
  <2>2. CASE csNet' = Append(net, CSLoad(csNet[i].range, csNet[i].then))
    BY <1>1, <1>2, <2>2, LoadedWell
  <2>3. QED
    BY <2>1, <2>2 DEF CSAnswer, CSFail, net
<1>6. csModal' \in {csModal, Closed}
  BY DEF CSAnswer, CSFail, Refreshed
<1>7. csAsSeen => Sound(csFlat'.d)
  <2>1. csFlat' = csFlat \/ csFlat' = [d |-> csNet[i].answer, range |-> csNet[i].range]
    BY DEF CSAnswer, CSFail, Refreshed
  <2>2. csAsSeen => Sound(csFlat.d) /\ Sound(csNet[i].answer)
    BY DEF ShownInv, AsShown, CSCarries
  <2>3. QED
    BY <2>1, <2>2
<1>8. QED
  BY <1>3, <1>4, <1>5, <1>6, <1>7 DEF ShownInv, AsShown

LEMMA ShownStep == ShownInv /\ [CSNext]_csVars => ShownInv'
<1>1. ShownInv /\ UNCHANGED csVars => ShownInv'
  BY DEF csVars, csPage, csDialogs, csServer, csHistory, treeVars, ShownInv, AsShown, TreeInv, LabelsExist
<1>2. ShownInv /\ CSNext => ShownInv'
  BY UserKeepsShown, ServeKeepsShown, EndKeepsShown DEF CSNext
<1>3. QED
  BY <1>1, <1>2

LEMMA ShownInvariant == CSSpec => []ShownInv
BY ShownInit, ShownStep, PTL DEF CSSpec

(* The page asks the server, which takes any parent, for nothing that would  *)
(* break the forest: every change that still meets the tree it was chosen on *)
(* is a step of CategoryTree, whatever was loaded anew under an open dialog  *)
(* or during a drag.                                                         *)
THEOREM ChangesAreSteps == CSSpec => ChangesAsProved
<1>1. ShownInv /\ [CSNext]_csVars => [csAsSeen' /\ tree' # tree => TreeNext]_treeVars
  <2> SUFFICES ASSUME ShownInv, CSNext, csAsSeen', tree' # tree PROVE TreeNext
    BY DEF csVars, csServer
  <2>1. CASE \E i \in DOMAIN csNet : CSServe(i)
    BY <2>1, ServeOnTree DEF treeVars
  <2>2. CASE \E i \in DOMAIN csNet : CSAnswer(i) \/ CSFail(i)
    BY <2>2 DEF CSAnswer, CSFail, csServer, treeVars
  <2>3. QED
    BY <2>1, <2>2
       DEF CSNext, SetRange, StartDrag, EndDrag, DropOn, AskDelete, CSConfirm, CSCancel, OpenModal,
           CSCloseModal, SaveModal, SaveBudget, csServer, treeVars
<1>2. QED
  BY <1>1, ShownInvariant, PTL DEF CSSpec, ChangesAsProved

(* So long as that is so, what the theorems on CategoryTree say holds of the *)
(* server behind the page.                                                   *)
THEOREM ServerStaysSound == CSSpec => [](csAsSeen => Forest /\ OneTypePerTree /\ LeafTruthful /\ LabelsExist)
<1>1. ShownInv => (csAsSeen => Forest /\ OneTypePerTree /\ LeafTruthful /\ LabelsExist)
  BY DEF ShownInv, AsShown, TreeInv, Sound, Forest, OneTypePerTree, LeafTruthful, Budgets
<1>2. QED
  BY <1>1, ShownInvariant, PTL

(* And no category disappears from the page: each one loaded is drawn, as a  *)
(* root or below one.                                                        *)
THEOREM EveryCategoryIsDrawn == CSSpec => []EveryCategoryDrawn
<1>1. ShownInv => EveryCategoryDrawn
  BY SoundDrawn DEF ShownInv, AsShown, EveryCategoryDrawn
<1>2. QED
  BY <1>1, ShownInvariant, PTL

-----------------------------------------------------------------------------
(* The page of the recurring streams. *)

ListRequests == [served : BOOLEAN, found : [Streams -> Statuses]]

RCTyped ==
  /\ rcList \in [Streams -> Statuses] /\ rcLoading \in BOOLEAN
  /\ rcTab \in Statuses \ {"none"} /\ rcTabbed \in BOOLEAN
  /\ rcDetecting \in {"no", "run", "list"}
  /\ rcBusy \subseteq ShownRows /\ rcHeard \subseteq Decisions
  /\ rcNet \in Seq(ListRequests)
  /\ rcActs \in 0..MaxStreamActs /\ rcCalm \in BOOLEAN

(* The page waits for its own run as long as that lasts. *)
RunAwaited == rcDetecting # "run" => rsRun[Post].pc \in Over

(* One list at most is under way, and the page waits for it. *)
ListAwaited == Len(rcNet) <= 1 /\ (Len(rcNet) = 1 <=> rcLoading \/ rcDetecting = "list")

(* No decision is under way beside a list, and no two for one stream. *)
ListAlone == Len(rcNet) = 1 => \A d \in Decisions : ~UnderWay(d)

DecisionsApart ==
  \A d, e \in Decisions : UnderWay(d) /\ rsAsk[e].stream = rsAsk[d].stream => e = d

(* A list that was served still is what there is, unless a run goes on. *)
ListNew == rcDetecting # "run" => \A i \in DOMAIN rcNet : rcNet[i].served => rcNet[i].found = rsStatus

(* A decision under way is of a row that is listed, of a status that no one  *)
(* else changes.                                                             *)
DecisionHolds(d) ==
  /\ rsAsk[d].stream \in Rows /\ rcList[rsAsk[d].stream] # "none"
  /\ rsAsk[d].pc = "decide" => rsStatus[rsAsk[d].stream] = rsAsk[d].seen
  /\ rsAsk[d].pc = "done"   => rsStatus[rsAsk[d].stream] = rsAsk[d].to

(* Each row has its stream's status, or a decision made that will give it.   *)
RowFollows(s) ==
  \/ rcList[s] = rsStatus[s]
  \/ \E d \in Decisions : rsAsk[d].stream = s /\ rsAsk[d].pc = "done"

CalmStreams ==
  /\ ListAwaited /\ ListAlone /\ DecisionsApart /\ ListNew
  /\ \A d \in Decisions : UnderWay(d) => DecisionHolds(d)
  /\ rcDetecting = "no" /\ ~rcLoading => \A s \in Streams : RowFollows(s)

RCInv == RSIInv /\ RCTyped /\ RunAwaited /\ (rcCalm => CalmStreams)

LEMMA RCTypedInit == RCInit => RCTyped
<1> SUFFICES ASSUME RCInit PROVE RCTyped
  OBVIOUS
<1>1. rcNet = <<ListRequest>> /\ ListRequest \in ListRequests
  BY DEF RCInit, ListRequest, ListRequests, Statuses
<1>2. <<ListRequest>> \in Seq(ListRequests)
  BY <1>1
<1>3. rcActs \in 0..MaxStreamActs
  BY MaxStreamActsAssumption DEF RCInit
<1>4. QED
  BY <1>1, <1>2, <1>3 DEF RCInit, RCTyped, Statuses

LEMMA RCInitInv == RCInit => RCInv
<1> SUFFICES ASSUME RCInit PROVE RCInv
  OBVIOUS
<1>1. RSIInv
  BY InitStreams DEF RCInit
<1>2. RunAwaited
  BY PostAssumption DEF RCInit, RSInit, RunAwaited, Ended, Over
<1>3. \A d \in Decisions : ~UnderWay(d)
  BY DEF RCInit, RSInit, NotAsked, UnderWay
<1>4. Len(rcNet) = 1 /\ DOMAIN rcNet = {1} /\ rcNet[1] = ListRequest
  BY OneQueued DEF RCInit
<1>5. CalmStreams
  BY <1>3, <1>4 DEF RCInit, CalmStreams, ListAwaited, ListAlone, DecisionsApart, ListNew,
                    ListRequest, UnderWay
<1>6. QED
  BY <1>1, <1>2, <1>5, RCTypedInit DEF RCInv

-----------------------------------------------------------------------------
(* The page of the recurring streams: types. *)

(* The row's own part of a step. *)
LEMMA RowActionTyped ==
  ASSUME RCTyped, NEW s \in ShownRows, NEW to \in Decided, RowAction(s, to)
  PROVE  RCTyped'
<1>1. rcActs' \in 0..MaxStreamActs
  BY MaxStreamActsAssumption DEF RCTyped, RowAction, StreamActs
<1>2. UNCHANGED <<rcList, rcLoading, rcTab, rcTabbed, rcDetecting, rcNet>>
  BY DEF RowAction, rcView
<1>3. rcBusy' \subseteq ShownRows' /\ rcHeard' \subseteq Decisions /\ rcCalm' \in BOOLEAN
  BY <1>2 DEF RCTyped, RowAction, ShownRows, RowsOf
<1>4. QED
  BY <1>1, <1>2, <1>3 DEF RCTyped

LEMMA ListTyped ==
  ASSUME RSTypeOK, RCTyped, NEW i \in DOMAIN rcNet, ListServed(i) \/ ListAnswered(i) \/ ListFails(i)
  PROVE  RCTyped'
<1>1. CASE ListServed(i)
  <2> DEFINE e == [served |-> TRUE, found |-> rsStatus]
  <2>1. e \in ListRequests
    BY DEF RSTypeOK, ListRequests
  <2>2. rcNet' = [rcNet EXCEPT ![i] = e]
    BY <1>1 DEF ListServed
  <2> HIDE DEF e
  <2>3. rcNet' \in Seq(ListRequests)
    BY <2>1, <2>2, Changed DEF RCTyped
  <2>4. QED
    BY <1>1, <2>3 DEF RCTyped, ListServed, rcView, rcRow, ShownRows, RowsOf
<1>2. ASSUME NEW list \in [Streams -> Statuses], ListLoaded(i, list), rcCalm' \in BOOLEAN PROVE RCTyped'
  <2>1. rcNet' \in Seq(ListRequests)
    BY <1>2, Dropped DEF RCTyped, ListLoaded
  <2>2. rcList' = list /\ rcLoading' = FALSE /\ rcActs' = rcActs
    BY <1>2 DEF ListLoaded
  <2>3. rcTab' \in Statuses \ {"none"} /\ rcTabbed' \in BOOLEAN
    BY <1>2 DEF RCTyped, ListLoaded, AutoSelected, Statuses
  <2>4. rcBusy' \subseteq ShownRows' /\ rcHeard' \subseteq Decisions
    BY <1>2, <2>2 DEF RCTyped, ListLoaded, RowsKept, ShownRows, RowsOf
  <2>5. rcDetecting' \in {"no", "run", "list"}
    BY <1>2 DEF RCTyped, ListLoaded
  <2>6. QED
    BY <1>2, <2>1, <2>2, <2>3, <2>4, <2>5 DEF RCTyped
<1>3. rcNet[i].found \in [Streams -> Statuses] /\ rcList \in [Streams -> Statuses]
  <2>1. rcNet[i] \in ListRequests
    BY DEF RCTyped
  <2>2. QED
    BY <2>1 DEF RCTyped, ListRequests
<1>4. CASE ListAnswered(i)
  BY <1>2, <1>3, <1>4 DEF ListAnswered, RCTyped
<1>5. CASE ListFails(i)
  BY <1>2, <1>3, <1>5 DEF ListFails
<1>6. QED
  BY <1>1, <1>4, <1>5

LEMMA RowTyped ==
  ASSUME RSTypeOK, RCTyped, NEW d \in Decisions, RowReplaced(d) \/ RowFails(d)
  PROVE  RCTyped'
<1>1. ASSUME NEW list \in [Streams -> Statuses], RowEnds(d, list), rcCalm' \in BOOLEAN,
             RowsOf(rcList, rcTab) = RowsOf(list, rcTab) \/ ~rcLoading \/ rcBusy = {}
      PROVE  RCTyped'
  <2>1. UNCHANGED <<rcLoading, rcTab, rcTabbed, rcDetecting, rcNet, rcActs>> /\ rcList' = list
    BY <1>1 DEF RowEnds
  <2>2. rcBusy' \subseteq ShownRows' /\ rcHeard' \subseteq Decisions
    BY <1>1, <2>1 DEF RCTyped, RowEnds, ShownRows, RowsOf
  <2>3. QED
    BY <1>1, <2>1, <2>2 DEF RCTyped
<1>2. ~rcLoading \/ rcBusy = {}
  BY DEF RCTyped, ShownRows
<1>3. rsAsk[d].to \in Statuses
  BY DEF RSTypeOK, Asks, Decided, Statuses
<1>4. CASE RowReplaced(d)
  BY <1>1, <1>2, <1>3, <1>4 DEF RowReplaced, RCTyped
<1>5. CASE RowFails(d)
  BY <1>1, <1>2, <1>5 DEF RowFails, RCTyped
<1>6. QED
  BY <1>4, <1>5

LEMMA RCTypedStep ==
  ASSUME RSTypeOK, RCTyped, [RCNext]_rcVars
  PROVE  RCTyped'
<1>1. CASE UNCHANGED rcVars
  BY <1>1 DEF RCTyped, rcVars, rcView, rcRow, ShownRows, RowsOf
<1>2. CASE SetActiveTab
  <2>1. rcTab' \in Statuses \ {"none"}
    BY <1>2 DEF SetActiveTab, Statuses
  <2>2. rcBusy' = {}
    BY <1>2, <2>1 DEF SetActiveTab, RowsKept, RowsOf
  <2>3. rcHeard' \subseteq Decisions
    BY <1>2 DEF RCTyped, SetActiveTab, RowsKept
  <2>4. QED
    BY <1>2, <2>1, <2>2, <2>3 DEF RCTyped, SetActiveTab
<1>3. CASE ConfirmStream \/ DismissStream
  <2>1. PICK s \in ShownRows, to \in Decided : RowAction(s, to)
    BY <1>3 DEF ConfirmStream, DismissStream, Decided
  <2>2. QED
    BY <2>1, RowActionTyped
<1>4. CASE RunDetection \/ SyncDetects \/ ServerRuns \/ ServerDecides \/ DetectionFails
  <2>1. rcActs' \in 0..MaxStreamActs
    BY <1>4, MaxStreamActsAssumption
       DEF RCTyped, RunDetection, SyncDetects, ServerRuns, ServerDecides, DetectionFails, StreamActs
  <2>2. UNCHANGED <<rcList, rcLoading, rcTab, rcTabbed, rcBusy, rcHeard, rcNet>>
    BY <1>4 DEF RunDetection, SyncDetects, ServerRuns, ServerDecides, DetectionFails, rcView, rcRow
  <2>3. rcDetecting' \in {"no", "run", "list"}
    BY <1>4 DEF RCTyped, RunDetection, SyncDetects, ServerRuns, ServerDecides, DetectionFails
  <2>4. rcCalm' \in BOOLEAN
    BY <1>4 DEF RCTyped, RunDetection, SyncDetects, ServerRuns, ServerDecides, DetectionFails
  <2>5. QED
    BY <2>1, <2>2, <2>3, <2>4 DEF RCTyped, ShownRows, RowsOf
<1>5. CASE \E i \in DOMAIN rcNet : ListServed(i) \/ ListAnswered(i) \/ ListFails(i)
  BY <1>5, ListTyped
<1>6. CASE \E d \in Decisions : RowReplaced(d) \/ RowFails(d)
  BY <1>6, RowTyped
<1>7. CASE Detected
  <2>1. ListRequest \in ListRequests
    BY DEF ListRequest, ListRequests, Statuses
  <2>2. rcNet' \in Seq(ListRequests)
    BY <1>7, <2>1, Extended DEF RCTyped, Detected
  <2>3. rcActs' \in 0..MaxStreamActs
    BY <1>7, MaxStreamActsAssumption DEF RCTyped, Detected, StreamActs
  <2>4. QED
    BY <1>7, <2>2, <2>3 DEF RCTyped, Detected, rcView, rcRow, ShownRows, RowsOf
<1>8. QED
  BY <1>1, <1>2, <1>3, <1>4, <1>5, <1>6, <1>7 DEF RCNext

-----------------------------------------------------------------------------
(* The page of the recurring streams at rest. *)

(* A run changes no status that a stream had, and no decision.               *)
LEMMA RunSpares ==
  ASSUME RSTypeOK, Linked, NEW w \in Workers, Detect(w) \/ RunNext(w)
  PROVE  /\ rsAsk' = rsAsk
         /\ \A s \in Rows : rsStatus'[s] = rsStatus[s] /\ s \in Rows'
         /\ \A v \in Workers \ {w} : rsRun'[v] = rsRun[v]
<1>1. \A v \in Workers \ {w} : rsRun'[v] = rsRun[v]
  BY OthersRun
<1>2. CASE CreateStream(w)
  BY <1>1, <1>2 DEF RSTypeOK, Linked, CreateStream, Rows
<1>3. CASE ~CreateStream(w)
  <2>1. rsAsk' = rsAsk /\ rsStatus' = rsStatus
    BY <1>3 DEF RunNext, Detect, MatchFails, Match, MatchNone, Fill, Link, Flag, Finish, Cut, rsRows
  <2>2. QED
    BY <1>1, <2>1 DEF Rows
<1>4. QED
  BY <1>2, <1>3

(* The step of a decision, and that of the others and of the other rows.     *)
LEMMA DecisionStep ==
  ASSUME RSTypeOK, Linked, NEW d \in Decisions, AskNext(d), UnderWay(d) => DecisionHolds(d)
  PROVE  /\ UnderWay(d) /\ UnderWay(d)' /\ rsAsk'[d].stream = rsAsk[d].stream /\ rsAsk[d].stream \in Rows'
         /\ \A e \in Decisions \ {d} : rsAsk'[e] = rsAsk[e]
         /\ \A s \in Streams \ {rsAsk[d].stream} : rsStatus'[s] = rsStatus[s]
         /\ rsAsk'[d].pc = "decide" => rsStatus'[rsAsk[d].stream] = rsAsk'[d].seen
         /\ rsAsk'[d].pc = "done"   => rsStatus'[rsAsk[d].stream] = rsAsk'[d].to
         /\ rsStatus'[rsAsk[d].stream] # rsStatus[rsAsk[d].stream] => rsAsk'[d].pc = "done"
         /\ rsAsk[d].pc # "done" /\ rsRun' = rsRun
<1> DEFINE s == rsAsk[d].stream
<1>1. rsAsk[d] \in Asks /\ s \in Rows /\ s \in Streams /\ UnderWay(d) /\ rsAsk[d].pc # "done"
  BY NoStreamAssumption DEF RSTypeOK, Linked, AskNext, Find, Decide, Over, Rows, UnderWay
<1>2. CASE Find(d)
  <2>1. /\ rsAsk' = [rsAsk EXCEPT ![d] = rsAsk'[d]] /\ rsStatus' = rsStatus /\ rsRun' = rsRun
        /\ rsAsk'[d].pc # "done" /\ rsAsk'[d].stream = s /\ rsAsk'[d].seen = rsStatus[s]
    BY <1>1, <1>2 DEF RSTypeOK, Find, AskStep, Asks, rsRows
  <2>2. QED
    BY <1>1, <2>1 DEF RSTypeOK, Rows, UnderWay
<1>3. CASE Decide(d)
  <2>1. /\ rsAsk' = [rsAsk EXCEPT ![d] = rsAsk'[d]] /\ rsRun' = rsRun
        /\ rsAsk'[d].pc = "done" /\ rsAsk'[d].stream = s /\ rsAsk'[d].to = rsAsk[d].to
        /\ rsAsk[d].to \in Decided
    BY <1>1, <1>3 DEF RSTypeOK, Decide, AskStep, Asks
  <2>2. rsStatus[s] = rsAsk[d].seen
    BY <1>1, <1>3 DEF DecisionHolds, Decide
  <2>3. rsStatus' = IF rsAsk[d].seen = rsAsk[d].to THEN rsStatus ELSE [rsStatus EXCEPT ![s] = rsAsk[d].to]
    BY <1>3 DEF Decide
  <2>4. rsStatus'[s] = rsAsk[d].to /\ \A r \in Streams \ {s} : rsStatus'[r] = rsStatus[r]
    BY <1>1, <2>2, <2>3 DEF RSTypeOK
  <2>5. s \in Rows'
    BY <1>1, <2>1, <2>4 DEF Rows, Decided
  <2>6. QED
    BY <1>1, <2>1, <2>4, <2>5 DEF RSTypeOK, UnderWay
<1>4. QED
  BY <1>2, <1>3 DEF AskNext

(* What does not touch the streams, the list or what is awaited.             *)
LEMMA RCStays ==
  ASSUME CalmStreams,
         UNCHANGED <<rsStatus, rsAsk, rcList, rcLoading, rcNet>>, rcDetecting' \in {rcDetecting, "run"},
         rcDetecting' # rcDetecting => rcDetecting = "no"
  PROVE  CalmStreams'
<1>1. ListAwaited' /\ ListAlone' /\ DecisionsApart' /\ ListNew'
  BY DEF CalmStreams, ListAwaited, ListAlone, DecisionsApart, ListNew, UnderWay
<1>2. \A d \in Decisions : UnderWay(d)' => DecisionHolds(d)'
  BY DEF CalmStreams, UnderWay, DecisionHolds, Rows
<1>3. rcDetecting' = "no" /\ ~rcLoading' => \A s \in Streams : RowFollows(s)'
  BY DEF CalmStreams, RowFollows
<1>4. QED
  BY <1>1, <1>2, <1>3 DEF CalmStreams

LEMMA RowActionKeeps ==
  ASSUME RCInv, NEW s \in ShownRows, NEW to \in Decided, RowAction(s, to), rcCalm'
  PROVE  CalmStreams'
<1>1. CalmStreams /\ rcNet = << >> /\ \A d \in Decisions : rsAsk[d].stream # s
  BY DEF RCInv, RowAction
<1>2. PICK d \in Decisions : ~UnderWay(d) /\ AskFor(d, s, to)
  BY DEF RowAction
<1>3. /\ s \in Streams /\ s # NoStream /\ rcList[s] # "none" /\ s \in Rows
      /\ UNCHANGED <<rcList, rcLoading, rcDetecting, rcNet, rsStatus>>
  BY <1>2, NoStreamAssumption DEF RCInv, RCTyped, ShownRows, RowsOf, RowAction, rcView, AskFor, rsRows
<1>4. rsAsk' = [rsAsk EXCEPT ![d] = [pc |-> "find", stream |-> s, to |-> to, seen |-> "none"]]
  BY <1>2 DEF AskFor, AskStep
<1>5. rsAsk'[d] = [pc |-> "find", stream |-> s, to |-> to, seen |-> "none"]
      /\ \A e \in Decisions \ {d} : rsAsk'[e] = rsAsk[e]
  BY <1>4 DEF RCInv, RSIInv, RSTypeOK
<1>6. Len(rcNet) # 1
  BY <1>1
<1>7. ListAwaited' /\ ListAlone' /\ ListNew'
  BY <1>1, <1>3, <1>6 DEF CalmStreams, ListAwaited, ListAlone, ListNew
<1>8. DecisionsApart'
  BY <1>1, <1>5 DEF CalmStreams, DecisionsApart, UnderWay
<1>9. \A e \in Decisions : UnderWay(e)' => DecisionHolds(e)'
  BY <1>1, <1>3, <1>5 DEF CalmStreams, UnderWay, DecisionHolds, Rows
<1>10. ASSUME rcDetecting' = "no", ~rcLoading', NEW r \in Streams PROVE RowFollows(r)'
  <2>1. RowFollows(r)
    BY <1>1, <1>3, <1>10 DEF CalmStreams
  <2>2. r # NoStream /\ rsAsk[d].stream = NoStream
    BY <1>2, NoStreamAssumption DEF UnderWay
  <2>3. QED
    BY <1>3, <1>5, <2>1, <2>2 DEF RowFollows
<1>11. QED
  BY <1>7, <1>8, <1>9, <1>10 DEF CalmStreams

LEMMA RunKeepsCalm ==
  ASSUME RCInv, RSTypeOK', ServerRuns, rcCalm'
  PROVE  CalmStreams'
<1>1. PICK w \in Workers : RunNext(w) /\ (w # Post => rsStatus' = rsStatus)
  BY DEF ServerRuns
<1>2. CalmStreams /\ UNCHANGED <<rcList, rcLoading, rcDetecting, rcNet>>
  BY DEF RCInv, ServerRuns, rcView
<1>3. rsAsk' = rsAsk /\ (\A s \in Rows : rsStatus'[s] = rsStatus[s] /\ s \in Rows')
  BY <1>1, RunSpares DEF RCInv, RSIInv
<1>4. CASE rsStatus' = rsStatus
  BY <1>2, <1>3, <1>4, RCStays
<1>5. CASE rsStatus' # rsStatus
  <2>1. w = Post
    BY <1>1, <1>5
  <2>2. rsRun[Post].pc \notin Over
    BY <1>1, <2>1 DEF RunNext, MatchFails, Match, MatchNone, CreateStream, Fill, Link, Flag, Finish, Cut, Over
  <2>3. rcDetecting = "run"
    BY <2>2 DEF RCInv, RunAwaited
  <2>4. ListAwaited' /\ ListAlone' /\ DecisionsApart' /\ ListNew'
    BY <1>2, <1>3, <2>3 DEF CalmStreams, ListAwaited, ListAlone, DecisionsApart, ListNew, UnderWay
  <2>5. \A d \in Decisions : UnderWay(d)' => DecisionHolds(d)'
    BY <1>2, <1>3 DEF CalmStreams, UnderWay, DecisionHolds
  <2>6. QED
    BY <1>2, <2>3, <2>4, <2>5 DEF CalmStreams
<1>6. QED
  BY <1>4, <1>5

LEMMA DecisionKeepsCalm ==
  ASSUME RCInv, RSTypeOK', ServerDecides, rcCalm'
  PROVE  CalmStreams'
<1>1. PICK d \in Decisions : AskNext(d)
  BY DEF ServerDecides
<1>2. CalmStreams /\ UNCHANGED <<rcList, rcLoading, rcDetecting, rcNet>>
  BY DEF RCInv, ServerDecides, rcView
<1> DEFINE s == rsAsk[d].stream
<1>3. /\ UnderWay(d) /\ UnderWay(d)' /\ rsAsk'[d].stream = s /\ s \in Rows'
      /\ \A e \in Decisions \ {d} : rsAsk'[e] = rsAsk[e]
      /\ \A r \in Streams \ {s} : rsStatus'[r] = rsStatus[r]
      /\ rsAsk'[d].pc = "decide" => rsStatus'[s] = rsAsk'[d].seen
      /\ rsAsk'[d].pc = "done"   => rsStatus'[s] = rsAsk'[d].to
      /\ rsStatus'[s] # rsStatus[s] => rsAsk'[d].pc = "done"
      /\ rsAsk[d].pc # "done"
  BY <1>1, <1>2, DecisionStep DEF RCInv, RSIInv, CalmStreams
<1>4. Len(rcNet) # 1
  BY <1>2, <1>3 DEF CalmStreams, ListAlone
<1>5. Len(rcNet) \in Nat /\ DOMAIN rcNet = 1..Len(rcNet)
  BY DEF RCInv, RCTyped
<1>6. DOMAIN rcNet = {}
  BY <1>2, <1>4, <1>5 DEF CalmStreams, ListAwaited
<1>7. ListAwaited' /\ ListAlone' /\ ListNew'
  BY <1>2, <1>4, <1>6 DEF CalmStreams, ListAwaited, ListAlone, ListNew
<1>8. DecisionsApart'
  BY <1>2, <1>3 DEF CalmStreams, DecisionsApart, UnderWay
<1>9. ASSUME NEW e \in Decisions, UnderWay(e)' PROVE DecisionHolds(e)'
  <2>1. CASE e = d
    BY <1>2, <1>3, <2>1 DEF CalmStreams, DecisionHolds
  <2>2. CASE e # d
    <3>1. UnderWay(e) /\ DecisionHolds(e) /\ rsAsk'[e] = rsAsk[e] /\ rsAsk[e].stream # s
      BY <1>2, <1>3, <1>9, <2>2 DEF CalmStreams, DecisionsApart, UnderWay
    <3>2. rsStatus'[rsAsk[e].stream] = rsStatus[rsAsk[e].stream]
      BY <1>3, <3>1 DEF DecisionHolds, Rows
    <3>3. QED
      BY <1>2, <3>1, <3>2 DEF DecisionHolds, Rows
  <2>3. QED
    BY <2>1, <2>2
<1>10. ASSUME rcDetecting' = "no", ~rcLoading', NEW r \in Streams PROVE RowFollows(r)'
  <2>1. RowFollows(r)
    BY <1>2, <1>10 DEF CalmStreams
  <2>2. QED
    BY <1>2, <1>3, <2>1 DEF RowFollows
<1>11. QED
  BY <1>7, <1>8, <1>9, <1>10 DEF CalmStreams

LEMMA ListKeepsCalm ==
  ASSUME RCInv, NEW i \in DOMAIN rcNet, ListServed(i) \/ ListAnswered(i) \/ ListFails(i), rcCalm'
  PROVE  CalmStreams'
<1>1. CalmStreams /\ i = 1 /\ Len(rcNet) = 1 /\ rcNet \in Seq(ListRequests) /\ UNCHANGED <<rsStatus, rsAsk>>
  <2>1. rcCalm /\ UNCHANGED <<rsStatus, rsAsk>>
    BY DEF RCInv, ListServed, ListAnswered, ListFails, ListLoaded, rsVars, rsRows
  <2>2. CalmStreams /\ rcNet \in Seq(ListRequests)
    BY <2>1 DEF RCInv, RCTyped
  <2>3. i \in 1..Len(rcNet) /\ Len(rcNet) <= 1 /\ Len(rcNet) \in Nat
    BY <2>2 DEF CalmStreams, ListAwaited
  <2>4. QED
    BY <2>1, <2>2, <2>3
<1>2. \A d \in Decisions : ~UnderWay(d) /\ ~UnderWay(d)'
  BY <1>1 DEF CalmStreams, ListAlone, UnderWay
<1>3. CASE ListServed(i)
  <2> DEFINE e == [served |-> TRUE, found |-> rsStatus]
  <2>1. rcNet' = [rcNet EXCEPT ![1] = e] /\ UNCHANGED <<rcList, rcLoading, rcDetecting>>
    BY <1>1, <1>3 DEF ListServed, rcView
  <2>2. Len(rcNet') = 1 /\ DOMAIN rcNet' = {1} /\ rcNet'[1].found = rsStatus
    BY <1>1, <2>1
  <2>3. ListAwaited' /\ ListAlone' /\ ListNew'
    BY <1>1, <1>2, <2>1, <2>2 DEF CalmStreams, ListAwaited, ListAlone, ListNew
  <2>4. DecisionsApart' /\ \A d \in Decisions : UnderWay(d)' => DecisionHolds(d)'
    BY <1>2 DEF DecisionsApart
  <2>5. rcDetecting' = "no" => rcLoading'
    BY <1>1, <2>1 DEF CalmStreams, ListAwaited
  <2>6. QED
    BY <2>3, <2>4, <2>5 DEF CalmStreams
<1>4. CASE ListAnswered(i)
  <2>1. /\ rcList' = rcNet[1].found /\ rcLoading' = FALSE /\ rcNet[1].served
        /\ rcDetecting' = IF rcDetecting = "list" THEN "no" ELSE rcDetecting
        /\ rcNet' = RemoveAt(rcNet, 1)
    BY <1>1, <1>4 DEF ListAnswered, ListLoaded
  <2>2. Len(rcNet') = 0 /\ DOMAIN rcNet' = {}
    BY <1>1, <2>1, Dropped
  <2>3. rcDetecting' # "run" => rcList' = rsStatus
    BY <1>1, <2>1 DEF CalmStreams, ListNew
  <2>4. ListAwaited' /\ ListAlone' /\ ListNew'
    BY <1>2, <2>1, <2>2 DEF ListAwaited, ListAlone, ListNew
  <2>5. DecisionsApart' /\ \A d \in Decisions : UnderWay(d)' => DecisionHolds(d)'
    BY <1>2 DEF DecisionsApart
  <2>6. \A s \in Streams : rcDetecting' = "no" => RowFollows(s)'
    BY <1>1, <2>3 DEF RowFollows
  <2>7. QED
    BY <2>4, <2>5, <2>6 DEF CalmStreams
<1>5. CASE ListFails(i)
  BY <1>5 DEF ListFails
<1>6. QED
  BY <1>3, <1>4, <1>5

LEMMA RowKeepsCalm ==
  ASSUME RCInv, NEW d \in Decisions, RowReplaced(d) \/ RowFails(d), rcCalm'
  PROVE  CalmStreams'
<1> DEFINE s == rsAsk[d].stream
<1>1. RowReplaced(d) /\ CalmStreams
  BY DEF RCInv, RowReplaced, RowFails
<1>2. UnderWay(d) /\ rsAsk[d].pc = "done" /\ DecisionHolds(d)
  BY <1>1 DEF RowReplaced, CalmStreams
<1>3. /\ rcList' = [rcList EXCEPT ![s] = rsAsk[d].to]
      /\ UNCHANGED <<rsStatus, rcLoading, rcDetecting, rcNet>>
  BY <1>1, <1>2 DEF RowReplaced, RowEnds, DecisionHolds, Answered, rsRows
<1>4. /\ s \in Streams /\ rsStatus[s] = rsAsk[d].to /\ rsAsk[d].to # "none"
      /\ rcList'[s] = rsStatus[s] /\ \A r \in Streams \ {s} : rcList'[r] = rcList[r]
  BY <1>2, <1>3 DEF DecisionHolds, Rows, RCInv, RCTyped
<1>5. ~UnderWay(d)' /\ \A e \in Decisions \ {d} : rsAsk'[e] = rsAsk[e]
  BY <1>1 DEF RowReplaced, RowEnds, Answered, AskStep, NotAsked, UnderWay, RCInv, RSIInv, RSTypeOK
<1>6. Len(rcNet) # 1
  BY <1>1, <1>2 DEF CalmStreams, ListAlone
<1>7. ListAwaited' /\ ListAlone' /\ ListNew'
  BY <1>1, <1>3, <1>6 DEF CalmStreams, ListAwaited, ListAlone, ListNew
<1>8. DecisionsApart'
  BY <1>1, <1>5 DEF CalmStreams, DecisionsApart, UnderWay
<1>9. ASSUME NEW e \in Decisions, UnderWay(e)' PROVE DecisionHolds(e)'
  <2>1. e # d /\ rsAsk'[e] = rsAsk[e] /\ UnderWay(e) /\ rsAsk[e].stream # s
    BY <1>1, <1>2, <1>5, <1>9 DEF CalmStreams, DecisionsApart, UnderWay
  <2>2. DecisionHolds(e)
    BY <1>1, <2>1 DEF CalmStreams
  <2>3. QED
    BY <1>3, <1>4, <2>1, <2>2 DEF DecisionHolds, Rows
<1>10. ASSUME rcDetecting' = "no", ~rcLoading', NEW r \in Streams PROVE RowFollows(r)'
  <2>1. RowFollows(r)
    BY <1>1, <1>3, <1>10 DEF CalmStreams
  <2>2. CASE r = s
    BY <1>3, <1>4, <2>2 DEF RowFollows
  <2>3. CASE r # s
    BY <1>3, <1>4, <1>5, <2>1, <2>3 DEF RowFollows
  <2>4. QED
    BY <2>2, <2>3
<1>11. QED
  BY <1>7, <1>8, <1>9, <1>10 DEF CalmStreams

LEMMA DetectedKeepsCalm ==
  ASSUME RCInv, Detected, rcCalm'
  PROVE  CalmStreams'
<1>1. CalmStreams /\ rcNet = << >> /\ (\A d \in Decisions : ~UnderWay(d)) /\ rcDetecting' = "list"
  BY DEF RCInv, Detected
<1>2. rcNet' = <<ListRequest>> /\ UNCHANGED <<rsStatus, rsAsk>>
  BY <1>1 DEF Detected, rsVars, rsRows
<1>3. Len(rcNet') = 1 /\ DOMAIN rcNet' = {1} /\ ~rcNet'[1].served
  BY <1>2, OneQueued DEF ListRequest
<1>4. \A d \in Decisions : ~UnderWay(d)'
  BY <1>1, <1>2 DEF UnderWay
<1>5. QED
  BY <1>1, <1>3, <1>4 DEF CalmStreams, ListAwaited, ListAlone, DecisionsApart, ListNew

LEMMA RunAwaitedStep ==
  ASSUME RSIInv, RunAwaited, [RCNext]_rcVars
  PROVE  RunAwaited'
<1>1. CASE rsRun'[Post] = rsRun[Post] /\ (rcDetecting' = rcDetecting \/ rcDetecting' = "run")
  BY <1>1 DEF RunAwaited
<1>2. CASE RunDetection
  BY <1>2 DEF RunAwaited, RunDetection
<1>3. CASE SyncDetects
  BY <1>1, <1>3, RunSpares, PostAssumption DEF SyncDetects, RSIInv
<1>4. CASE ServerRuns
  <2>1. PICK w \in Workers : RunNext(w)
    BY <1>4 DEF ServerRuns
  <2>2. CASE w # Post
    BY <1>1, <1>4, <2>1, <2>2, RunSpares, PostAssumption DEF ServerRuns, RSIInv
  <2>3. CASE w = Post
    <3>1. rsRun[Post].pc \notin Over
      BY <2>1, <2>3 DEF RunNext, MatchFails, Match, MatchNone, CreateStream, Fill, Link, Flag, Finish, Cut, Over
    <3>2. QED
      BY <1>4, <3>1 DEF RunAwaited, ServerRuns
  <2>4. QED
    BY <2>2, <2>3
<1>5. CASE ServerDecides
  BY <1>1, <1>5 DEF ServerDecides, AskNext, Find, Decide
<1>6. CASE Detected \/ DetectionFails
  BY <1>6 DEF RunAwaited, Detected, DetectionFails, Over, rsVars
<1>7. CASE \E i \in DOMAIN rcNet : ListServed(i) \/ ListAnswered(i) \/ ListFails(i)
  BY <1>7 DEF RunAwaited, ListServed, ListAnswered, ListFails, ListLoaded, rsVars
<1>8. CASE \E d \in Decisions : RowReplaced(d) \/ RowFails(d)
  BY <1>1, <1>8 DEF RowReplaced, RowFails, RowEnds, Answered
<1>9. CASE ConfirmStream \/ DismissStream
  BY <1>1, <1>9 DEF ConfirmStream, DismissStream, RowAction, AskFor
<1>10. CASE SetActiveTab \/ UNCHANGED rcVars
  BY <1>1, <1>10 DEF SetActiveTab, rcVars, rsVars
<1>11. QED
  BY <1>2, <1>3, <1>4, <1>5, <1>6, <1>7, <1>8, <1>9, <1>10 DEF RCNext

LEMMA RCInvStep == RCInv /\ [RCNext]_rcVars => RCInv'
<1> SUFFICES ASSUME RCInv, [RCNext]_rcVars PROVE RCInv'
  OBVIOUS
<1>1. RSIInv'
  BY StreamsStep, NextStreams DEF RCInv
<1>2. RCTyped' /\ RunAwaited'
  BY RCTypedStep, RunAwaitedStep DEF RCInv, RSIInv
<1>3. ASSUME rcCalm' PROVE CalmStreams'
  <2>1. CASE ConfirmStream \/ DismissStream
    BY <1>3, <2>1, RowActionKeeps DEF ConfirmStream, DismissStream, Decided
  <2>2. CASE SetActiveTab \/ UNCHANGED rcVars
    BY <1>3, <2>2, RCStays DEF RCInv, SetActiveTab, rcVars, rcView, rsVars, rsRows
  <2>3. CASE RunDetection \/ SyncDetects
    <3>1. UNCHANGED <<rsStatus, rsAsk>>
      BY <2>3 DEF RunDetection, SyncDetects, Detect, rsRows
    <3>2. QED
      BY <1>3, <2>3, <3>1, RCStays DEF RCInv, RunDetection, SyncDetects, rcView
  <2>4. CASE ServerRuns \/ ServerDecides
    BY <1>1, <1>3, <2>4, RunKeepsCalm, DecisionKeepsCalm DEF RSIInv
  <2>5. CASE \E i \in DOMAIN rcNet : ListServed(i) \/ ListAnswered(i) \/ ListFails(i)
    BY <1>3, <2>5, ListKeepsCalm
  <2>6. CASE \E d \in Decisions : RowReplaced(d) \/ RowFails(d)
    BY <1>3, <2>6, RowKeepsCalm
  <2>7. CASE Detected \/ DetectionFails
    BY <1>3, <2>7, DetectedKeepsCalm DEF DetectionFails
  <2>8. QED
    BY <2>1, <2>2, <2>3, <2>4, <2>5, <2>6, <2>7 DEF RCNext
<1>4. QED
  BY <1>1, <1>2, <1>3 DEF RCInv

LEMMA RCInvariant == RCSpec => []RCInv
BY RCInitInv, RCInvStep, PTL DEF RCSpec

(* Type correctness of the page, with the server's streams under it.         *)
THEOREM RecurringTypeCorrect == RCSpec => []RCTypeOK
<1>1. RCInv => RCTypeOK
  BY DEF RCInv, RSIInv, RCTyped, RCTypeOK
<1>2. QED
  BY <1>1, RCInvariant, PTL

(* At rest each row has the status of its stream: a run of the page's own    *)
(* lists what it made, and a decision is in its row when it is answered.     *)
THEOREM StreamsSettle == RCSpec => []StreamsSettled
<1>1. RCInv => StreamsSettled
  <2> SUFFICES ASSUME RCInv, rcCalm, ~rcLoading, rcDetecting = "no", \A d \in Decisions : ~UnderWay(d)
               PROVE  rcList = rsStatus
    BY DEF StreamsSettled
  <2>1. \A s \in Streams : RowFollows(s) /\ s # NoStream
    BY NoStreamAssumption DEF RCInv, CalmStreams
  <2>2. \A s \in Streams : rcList[s] = rsStatus[s]
    BY <2>1 DEF RowFollows, UnderWay
  <2>3. rcList \in [Streams -> Statuses] /\ rsStatus \in [Streams -> Statuses]
    BY DEF RCInv, RCTyped, RSIInv, RSTypeOK
  <2>4. QED
    BY <2>2, <2>3
<1>2. QED
  BY <1>1, RCInvariant, PTL


(* A fold of numbers by addition is well defined, and a number.              *)
LEMMA TopIs ==
  ASSUME NEW k \in Nat, NEW s \in SUBSET (1..(k + 1))
  PROVE  /\ k + 1 \in s => Max(s) = k + 1
         /\ k + 1 \notin s => s \in SUBSET (1..k) /\ s \ {Max(s)} \in SUBSET (1..k)
         /\ s \ {k + 1} \in SUBSET (1..k)
<1>1. \A x \in s : x \in 1..(k + 1) /\ k + 1 >= x
  OBVIOUS
<1>2. ASSUME k + 1 \in s PROVE Max(s) = k + 1
  <2> DEFINE m == Max(s)
  <2>1. m \in s /\ \A y \in s : m >= y
    BY <1>1, <1>2 DEF Max
  <2> HIDE DEF m
  <2>2. m \in 1..(k + 1) /\ m >= k + 1
    BY <1>1, <1>2, <2>1
  <2>3. m = k + 1
    BY <2>2
  <2>4. QED
    BY <2>3 DEF m
<1>3. k + 1 \notin s => s \in SUBSET (1..k)
  BY <1>1
<1>4. s \ {k + 1} \in SUBSET (1..k)
  BY <1>1
<1>5. QED
  BY <1>2, <1>3, <1>4

SumStep(a, g, s) == IF s = {} THEN 0 ELSE g[s \ {Max(s)}] + a[Max(s)]

\* g sums up a over each set of its places below k.
SumsUp(a, g, k) == g \in [SUBSET (1..k) -> Int] /\ \A s \in SUBSET (1..k) : g[s] = SumStep(a, g, s)

LEMMA SumsFurther ==
  ASSUME NEW k \in Nat, NEW a, a[k + 1] \in Int, NEW g, SumsUp(a, g, k)
  PROVE  \E h : SumsUp(a, h, k + 1)
<1> DEFINE h == [s \in SUBSET (1..(k + 1)) |-> IF k + 1 \in s THEN g[s \ {k + 1}] + a[k + 1] ELSE g[s]]
<1>1. ASSUME NEW s \in SUBSET (1..(k + 1)) PROVE h[s] \in Int
  <2>1. CASE k + 1 \in s
    BY <2>1, TopIs DEF SumsUp
  <2>2. CASE k + 1 \notin s
    BY <2>2, TopIs DEF SumsUp
  <2>3. QED
    BY <2>1, <2>2
<1>2. h \in [SUBSET (1..(k + 1)) -> Int]
  BY <1>1
<1>3. ASSUME NEW s \in SUBSET (1..(k + 1)) PROVE h[s] = SumStep(a, h, s)
  <2>1. CASE k + 1 \in s
    <3> DEFINE r == s \ {k + 1}
    <3>1. Max(s) = k + 1 /\ r \in SUBSET (1..k) /\ r \in SUBSET (1..(k + 1)) /\ k + 1 \notin r /\ s # {}
      BY <2>1, TopIs
    <3>2. h[s] = g[r] + a[k + 1] /\ h[r] = g[r]
      BY <2>1, <3>1
    <3>3. QED
      BY <3>1, <3>2 DEF SumStep
  <2>2. CASE k + 1 \notin s
    <3> DEFINE r == s \ {Max(s)}
    <3>1. s \in SUBSET (1..k) /\ r \in SUBSET (1..k) /\ r \in SUBSET (1..(k + 1)) /\ k + 1 \notin r
      BY <2>2, TopIs
    <3>2. h[s] = g[s] /\ h[r] = g[r] /\ g[s] = SumStep(a, g, s)
      BY <2>2, <3>1 DEF SumsUp
    <3>3. QED
      BY <3>2 DEF SumStep
  <2>3. QED
    BY <2>1, <2>2
<1> HIDE DEF h
<1>4. QED
  BY <1>2, <1>3 DEF SumsUp

Summed(a, n) == {k \in Nat : k <= n => \E g : SumsUp(a, g, k)}

LEMMA SumsExist ==
  ASSUME NEW n \in Nat, NEW a \in [1..n -> Int]
  PROVE  \E g : SumsUp(a, g, n)
<1>1. 0 \in Summed(a, n)
  <2> DEFINE g == [s \in SUBSET (1..0) |-> 0]
  <2>1. SUBSET (1..0) = {{}}
    OBVIOUS
  <2>2. SumsUp(a, g, 0)
    BY <2>1 DEF SumsUp, SumStep
  <2> HIDE DEF g
  <2>3. QED
    BY <2>2 DEF Summed
<1>2. ASSUME NEW k \in Nat, k \in Summed(a, n) PROVE k + 1 \in Summed(a, n)
  <2> SUFFICES ASSUME k + 1 <= n PROVE \E h : SumsUp(a, h, k + 1)
    BY DEF Summed
  <2>1. PICK g : SumsUp(a, g, k)
    BY <1>2 DEF Summed
  <2>2. a[k + 1] \in Int
    OBVIOUS
  <2>3. QED
    BY <2>1, <2>2, SumsFurther
<1>3. n \in Summed(a, n)
  BY <1>1, <1>2, NatInduces
<1>4. QED
  BY <1>3 DEF Summed

IsSum(a, g, n) == g = [s \in SUBSET (1..n) |-> SumStep(a, g, s)]

SumUpTo(a, n) == CHOOSE g : IsSum(a, g, n)

LEMMA SumOfIs ==
  ASSUME NEW n \in Nat, NEW a \in [1..n -> Int]
  PROVE  /\ SumOf(a) = SumUpTo(a, n)[1..n]
         /\ \A s \in SUBSET (1..n) : SumUpTo(a, n)[s] = SumStep(a, SumUpTo(a, n), s)
<1>1. PICK g : SumsUp(a, g, n)
  BY SumsExist
<1>2. IsSum(a, g, n)
  <2>1. g \in [SUBSET (1..n) -> Int] /\ \A s \in SUBSET (1..n) : g[s] = SumStep(a, g, s)
    BY <1>1 DEF SumsUp
  <2>2. QED
    BY <2>1 DEF IsSum
<1>3. IsSum(a, SumUpTo(a, n), n)
  BY <1>2 DEF SumUpTo
<1>4. \A s \in SUBSET (1..n) : SumUpTo(a, n)[s] = SumStep(a, SumUpTo(a, n), s)
  <2> DEFINE h == SumUpTo(a, n)
  <2>1. h = [s \in SUBSET (1..n) |-> SumStep(a, h, s)]
    BY <1>3 DEF IsSum
  <2> HIDE DEF h
  <2>2. \A s \in SUBSET (1..n) : h[s] = SumStep(a, h, s)
    BY <2>1
  <2>3. QED
    BY <2>2 DEF h
<1>5. SumOf(a) = SumUpTo(a, n)[1..n]
  <2>1. DOMAIN a = 1..n
    OBVIOUS
  <2>2. QED
    BY <2>1 DEF SumOf, FoldLeft, MapThenFoldSet, SumUpTo, IsSum, SumStep
<1>6. QED
  BY <1>4, <1>5

SumsTyped(a, n) == {k \in Nat : k <= n => \A s \in SUBSET (1..k) : SumUpTo(a, n)[s] \in Int}

LEMMA SumIsInt ==
  ASSUME NEW n \in Nat, NEW a \in [1..n -> Int]
  PROVE  SumOf(a) \in Int
<1> DEFINE sum == SumUpTo(a, n)
<1>1. \A s \in SUBSET (1..n) : sum[s] = SumStep(a, sum, s)
  BY SumOfIs
<1>2. SumOf(a) = sum[1..n]
  BY SumOfIs
<1>3. 0 \in SumsTyped(a, n)
  <2>1. \A s \in SUBSET (1..0) : s = {} /\ s \in SUBSET (1..n)
    OBVIOUS
  <2>2. \A s \in SUBSET (1..0) : sum[s] = 0
    BY <1>1, <2>1 DEF SumStep
  <2>3. QED
    BY <2>2 DEF SumsTyped
<1>4. ASSUME NEW k \in Nat, k \in SumsTyped(a, n) PROVE k + 1 \in SumsTyped(a, n)
  <2> SUFFICES ASSUME k + 1 <= n, NEW s \in SUBSET (1..(k + 1)) PROVE sum[s] \in Int
    BY DEF SumsTyped
  <2>1. \A r \in SUBSET (1..k) : sum[r] \in Int
    BY <1>4 DEF SumsTyped
  <2>2. CASE k + 1 \in s
    <3>1. s # {} /\ Max(s) = k + 1 /\ s \ {Max(s)} \in SUBSET (1..k)
      BY <2>2, TopIs
    <3>2. s \in SUBSET (1..n)
      OBVIOUS
    <3>3. sum[s \ {Max(s)}] \in Int /\ a[Max(s)] \in Int
      BY <2>1, <3>1
    <3>4. sum[s] = sum[s \ {Max(s)}] + a[Max(s)]
      BY <1>1, <3>1, <3>2 DEF SumStep
    <3> HIDE DEF sum
    <3>5. QED
      BY <3>3, <3>4
  <2>3. CASE k + 1 \notin s
    BY <2>1, <2>3, TopIs
  <2>4. QED
    BY <2>2, <2>3
<1>5. n \in SumsTyped(a, n)
  BY <1>3, <1>4, NatInduces
<1>6. QED
  BY <1>2, <1>5 DEF SumsTyped

-----------------------------------------------------------------------------
(* The page of a transaction: its types. *)

RowType == [key : Nat, amount : Int \cup {NotOpen}]

\* As many rows as the dialog can have.
Fitting(s) == Len(s) \in 2..MaxRows

Holdings == {t \in Transactions : t.kids = << >> \/ Fitting(t.kids)}

KeysApart(rows) == \A i, j \in DOMAIN rows : rows[i].key = rows[j].key => i = j

SplitTyped(rows) == rows \in Seq(RowType) /\ Fitting(rows) /\ KeysApart(rows)

(* What a request carries, by its kind. *)
WhatTyped(kind, what) ==
  CASE kind = "update"           -> what \in 1..2
    [] kind = "tag"              -> what \in TxTags
    [] kind = "untag"            -> what \in TagRows
    [] kind = "default"          -> what.list \subseteq TxTags
    [] kind = "split"            -> what.rows \in Seq(Int) /\ Fitting(what.rows)
    [] OTHER                     -> kind \in {"get", "unsplit"}

TXRequestTyped(q) ==
  /\ WhatTyped(q.kind, q.what)
  /\ q.kind \in Partial => q.was \in Holdings
  /\ q.served \in BOOLEAN
  /\ q.answer \in Holdings \cup {NotOpen}
  /\ q.id \in 1..MaxTxSent

TXTyped ==
  /\ txStore \in Holdings /\ tx \in Holdings \cup {NotOpen}
  /\ txLoading \in BOOLEAN /\ txSaving \in BOOLEAN
  /\ txSplit # NotOpen => tx # NotOpen /\ SplitTyped(txSplit)
  /\ txAsk # NotOpen => txAsk.list \subseteq TxTags
  /\ \A i \in DOMAIN txNet : TXRequestTyped(txNet[i])
  /\ txSent \in 0..MaxTxSent /\ Len(txNet) <= txSent
  /\ txCalm \in BOOLEAN /\ txWhole \in BOOLEAN /\ txApplied \in {NotOpen} \cup SUBSET TagRows

-----------------------------------------------------------------------------
(* The page of a transaction at rest. *)

(* What the page will hold when the first n answers have come, each put into *)
(* the transaction of its request.                                           *)
HeldAfter(n) == IF n = 0 THEN tx ELSE TXPut(txNet[n])

ServedUpTo(n) ==
  /\ \A i \in DOMAIN txNet : txNet[i].served <=> i <= n
  /\ \A i \in DOMAIN txNet : i <= n /\ txNet[i].kind \in Partial => txNet[i].was = HeldAfter(i - 1)

(* So long as nobody else changes the transaction its amount is the same     *)
(* wherever it is held, and the server refuses nothing.                      *)
OneAmount ==
  /\ txStore.amount = Amount /\ (tx # NotOpen => tx.amount = Amount)
  /\ \A i \in DOMAIN txNet :
       /\ txNet[i].kind \in Partial => txNet[i].was.amount = Amount
       /\ txNet[i].kind = "split" => txNet[i].what.amount = Amount
       /\ txNet[i].served => txNet[i].answer # NotOpen /\ txNet[i].answer.amount = Amount

(* The first answer brings the transaction. *)
FirstBrings == tx = NotOpen => Len(txNet) = 1 /\ txNet[1].kind = "get"

Agrees(n) == AsKnown(HeldAfter(n), txApplied) = AsKnown(txStore, txApplied)

(* What has been served makes the page hold the server's transaction, but    *)
(* for what was applied behind its back.                                     *)
WillHold ==
  txWhole => \A n \in 0..Len(txNet) : ServedUpTo(n) => Agrees(n) \/ (n = 0 /\ tx = NotOpen)

ServedInOrder == \A i, j \in DOMAIN txNet : i < j /\ txNet[j].served => txNet[i].served

CalmTransaction == OneAmount /\ FirstBrings /\ ServedInOrder /\ WillHold

TXInv == SplitInv /\ TXTyped /\ (txCalm => CalmTransaction)

-----------------------------------------------------------------------------
(* The rows of the split dialog. *)

LEMMA RowsAre ==
  ASSUME NEW rows, SplitTyped(rows)
  PROVE  /\ Queue(rows) /\ Len(rows) \in Nat /\ DOMAIN rows = 1..Len(rows)
         /\ \A i \in DOMAIN rows : /\ rows[i].key \in Nat /\ rows[i].amount \in Int \cup {NotOpen}
                                   /\ NumberOf(rows[i].amount) \in Int
                                   /\ rows[i] = [key |-> rows[i].key, amount |-> rows[i].amount]
<1>1. rows \in Seq(RowType)
  BY DEF SplitTyped
<1>2. Len(rows) \in Nat /\ DOMAIN rows = 1..Len(rows) /\ \A i \in DOMAIN rows : rows[i] \in RowType
  BY <1>1
<1>3. Queue(rows)
  BY <1>1 DEF Queue
<1>4. QED
  BY <1>2, <1>3 DEF RowType, NumberOf

(* Rows as many as places. *)
LEMMA RowsMade ==
  ASSUME NEW n \in 2..MaxRows, NEW rows \in [1..n -> RowType],
         \A i, j \in 1..n : rows[i].key = rows[j].key => i = j
  PROVE  SplitTyped(rows)
<1>1. n \in Nat
  OBVIOUS
<1>2. rows \in Seq(RowType) /\ Len(rows) = n /\ DOMAIN rows = 1..n
  BY <1>1
<1>3. QED
  BY <1>2 DEF SplitTyped, Fitting, KeysApart

LEMMA SeededTyped ==
  ASSUME NEW t \in Holdings
  PROVE  SplitTyped(Seeded(t))
<1>1. CASE t.kids # << >>
  <2> DEFINE n == Len(t.kids)
             rows == [i \in 1..n |-> [key |-> i - 1, amount |-> t.kids[i]]]
  <2>1. t.kids \in Seq(Int) /\ n \in 2..MaxRows
    BY <1>1 DEF Holdings, Transactions, Fitting
  <2>2. DOMAIN t.kids = 1..n /\ n \in Nat /\ \A i \in 1..n : t.kids[i] \in Int
    BY <2>1
  <2>3. Seeded(t) = rows
    BY <1>1, <2>2 DEF Seeded
  <2> HIDE DEF n
  <2>4. rows \in [1..n -> RowType]
    BY <2>2 DEF RowType
  <2>5. \A i, j \in 1..n : rows[i].key = rows[j].key => i = j
    BY <2>2
  <2> HIDE DEF rows
  <2>6. QED
    BY <2>1, <2>3, <2>4, <2>5, RowsMade DEF n
<1>2. CASE t.kids = << >>
  <2> DEFINE rows == [i \in 1..2 |-> [key |-> i - 1, amount |-> NotOpen]]
  <2>1. Seeded(t) = rows
    BY <1>2 DEF Seeded
  <2>2. rows \in [1..2 -> RowType]
    BY DEF RowType
  <2>3. \A i, j \in 1..2 : rows[i].key = rows[j].key => i = j
    OBVIOUS
  <2>4. 2 \in 2..MaxRows
    BY TxBoundsAssumption
  <2> HIDE DEF rows
  <2>5. QED
    BY <2>1, <2>2, <2>3, <2>4, RowsMade
<1>3. QED
  BY <1>1, <1>2

LEMMA WithAmountTyped ==
  ASSUME SplitTyped(txSplit), NEW key, NEW a \in Int
  PROVE  SplitTyped(WithAmount(key, a))
<1> DEFINE n == Len(txSplit)
           rows == WithAmount(key, a)
<1>1. /\ n \in 2..MaxRows /\ DOMAIN txSplit = 1..n
      /\ \A i \in 1..n : /\ txSplit[i] = [key |-> txSplit[i].key, amount |-> txSplit[i].amount]
                         /\ txSplit[i].key \in Nat /\ txSplit[i].amount \in Int \cup {NotOpen}
  BY RowsAre DEF SplitTyped, Fitting
<1> HIDE DEF n
<1>2. \A i \in 1..n : rows[i] \in RowType /\ rows[i].key = txSplit[i].key
  BY <1>1 DEF WithAmount, RowType
<1>3. rows \in [1..n -> RowType]
  BY <1>1, <1>2 DEF WithAmount
<1>4. \A i, j \in 1..n : rows[i].key = rows[j].key => i = j
  BY <1>1, <1>2 DEF SplitTyped, KeysApart
<1> HIDE DEF rows
<1>5. SplitTyped(rows)
  BY <1>1, <1>3, <1>4, RowsMade
<1>6. QED
  BY <1>5 DEF rows

(* Among the first k rows one has the greatest key. *)
HasTop(rows, k) == \E m \in 1..k : \A i \in 1..k : rows[i].key <= rows[m].key

Topped(rows) == {k \in Nat : k # 0 /\ k <= Len(rows) => HasTop(rows, k)}

LEMMA NextKeyNew ==
  ASSUME NEW rows, SplitTyped(rows)
  PROVE  NextKey(rows) \in Nat /\ \A i \in DOMAIN rows : rows[i].key < NextKey(rows)
<1> DEFINE n == Len(rows)
           T == Topped(rows)
<1>1. n \in Nat \ {0} /\ DOMAIN rows = 1..n /\ \A i \in 1..n : rows[i].key \in Nat
  BY RowsAre DEF SplitTyped, Fitting
<1>2. 0 \in T
  BY DEF Topped
<1>3. ASSUME NEW k \in Nat, k \in T PROVE k + 1 \in T
  <2> SUFFICES ASSUME k + 1 <= n PROVE HasTop(rows, k + 1)
    BY DEF Topped
  <2>1. CASE k = 0
    BY <1>1, <2>1 DEF HasTop
  <2>2. CASE k # 0
    <3>1. PICK m \in 1..k : \A i \in 1..k : rows[i].key <= rows[m].key
      BY <1>1, <1>3, <2>2 DEF Topped, HasTop
    <3> HIDE DEF n
    <3>2. m \in 1..(k + 1) /\ k + 1 \in 1..(k + 1) /\ rows[m].key \in Nat /\ rows[k + 1].key \in Nat
      BY <1>1
    <3>3. CASE rows[m].key >= rows[k + 1].key
      <4>1. \A i \in 1..(k + 1) : rows[i].key <= rows[m].key
        BY <3>1, <3>2, <3>3
      <4>2. QED
        BY <3>2, <4>1 DEF HasTop
    <3>4. CASE rows[m].key < rows[k + 1].key
      <4>1. \A i \in 1..(k + 1) : rows[i].key <= rows[k + 1].key
        <5>1. \A i \in 1..k : rows[i].key \in Nat
          BY <1>1
        <5>2. QED
          BY <3>1, <3>2, <3>4, <5>1
      <4>2. QED
        BY <3>2, <4>1 DEF HasTop
    <3>5. QED
      BY <3>2, <3>3, <3>4
  <2>3. QED
    BY <2>1, <2>2
<1> HIDE DEF T
<1>4. n \in T
  BY <1>1, <1>2, <1>3, NatInduces
<1>5. PICK m \in 1..n : \A i \in 1..n : rows[i].key <= rows[m].key
  BY <1>1, <1>4 DEF T, Topped, HasTop
<1> DEFINE top == CHOOSE k \in {rows[i].key : i \in DOMAIN rows} : \A i \in DOMAIN rows : rows[i].key <= k
<1>6. top \in {rows[i].key : i \in DOMAIN rows} /\ \A i \in DOMAIN rows : rows[i].key <= top
  BY <1>1, <1>5
<1>7. NextKey(rows) = top + 1
  BY DEF NextKey
<1> HIDE DEF top
<1>8. top \in Nat
  BY <1>1, <1>6
<1>9. QED
  BY <1>1, <1>6, <1>7, <1>8

LEMMA RowAdded ==
  ASSUME SplitTyped(txSplit), Len(txSplit) < MaxRows
  PROVE  SplitTyped(Append(txSplit, [key |-> NextKey(txSplit), amount |-> NotOpen]))
<1> DEFINE e == [key |-> NextKey(txSplit), amount |-> NotOpen]
           n == Len(txSplit)
           rows == Append(txSplit, e)
<1>1. NextKey(txSplit) \in Nat /\ \A i \in DOMAIN txSplit : txSplit[i].key < NextKey(txSplit)
  BY NextKeyNew
<1>2. e \in RowType /\ txSplit \in Seq(RowType) /\ n \in 2..MaxRows
  BY <1>1 DEF RowType, SplitTyped, Fitting
<1>3. e.key = NextKey(txSplit)
  OBVIOUS
<1> HIDE DEF e
<1>4. /\ rows \in Seq(RowType) /\ n \in Nat /\ DOMAIN txSplit = 1..n
      /\ DOMAIN rows = 1..(n + 1) /\ Len(rows) = n + 1
      /\ (\A j \in 1..n : rows[j] = txSplit[j]) /\ rows[n + 1] = e
  BY <1>2, Extended
<1> HIDE DEF rows
<1>5. \A i \in 1..n : txSplit[i].key \in Nat
  BY <1>4, RowsAre
<1>6. Fitting(rows)
  BY <1>2, <1>4, TxBoundsAssumption DEF Fitting
<1>7. ASSUME NEW i \in 1..(n + 1), NEW j \in 1..(n + 1), rows[i].key = rows[j].key PROVE i = j
  <2>1. i \in 1..n /\ j \in 1..n => i = j
    BY <1>4, <1>7 DEF SplitTyped, KeysApart
  <2>2. ~(i = n + 1 /\ j \in 1..n) /\ ~(j = n + 1 /\ i \in 1..n)
    BY <1>1, <1>3, <1>4, <1>5, <1>7
  <2>3. QED
    BY <1>4, <2>1, <2>2
<1>8. SplitTyped(rows)
  BY <1>4, <1>6, <1>7 DEF SplitTyped, KeysApart
<1>9. QED
  BY <1>8 DEF rows, e

LEMMA RowRemoved ==
  ASSUME SplitTyped(txSplit), Len(txSplit) > 2, NEW i \in DOMAIN txSplit
  PROVE  SplitTyped(Filtered(txSplit, {j \in DOMAIN txSplit : txSplit[j].key # txSplit[i].key}))
<1> DEFINE n == Len(txSplit)
           I == {j \in DOMAIN txSplit : txSplit[j].key # txSplit[i].key}
           rows == Filtered(txSplit, I)
<1>1. txSplit \in Seq(RowType) /\ n \in Nat /\ DOMAIN txSplit = 1..n /\ n <= MaxRows /\ n > 2
  BY RowsAre DEF SplitTyped, Fitting
<1>2. I = (1..n) \ {i}
  BY <1>1 DEF SplitTyped, KeysApart
<1> HIDE DEF I, n
<1>3. Cardinality(I) = n - 1
  <2>1. IsFiniteSet(1..n) /\ Cardinality(1..n) = n
    BY <1>1, FS_Interval
  <2>2. QED
    BY <1>1, <1>2, <2>1, FS_RemoveElement
<1>4. /\ rows \in Seq(RowType) /\ Len(rows) = n - 1 /\ DOMAIN rows = 1..(n - 1)
      /\ \A j \in 1..(n - 1) : Place(I, j) \in I /\ rows[j] = txSplit[Place(I, j)]
      /\ \A j, k \in 1..(n - 1) : j < k => Place(I, j) < Place(I, k)
  <2>1. I \in SUBSET DOMAIN txSplit
    BY <1>1, <1>2
  <2>2. /\ rows \in Seq(RowType) /\ Len(rows) = Cardinality(I) /\ DOMAIN rows = 1..Cardinality(I)
        /\ \A j \in 1..Cardinality(I) : Place(I, j) \in I /\ rows[j] = txSplit[Place(I, j)]
        /\ \A j, k \in 1..Cardinality(I) : j < k => Place(I, j) < Place(I, k)
    BY <1>1, <2>1, FilterKeeps
  <2> HIDE DEF rows
  <2>3. QED
    BY <1>3, <2>2
<1> HIDE DEF rows
<1>5. Fitting(rows)
  BY <1>1, <1>4, TxBoundsAssumption DEF Fitting
<1>6. ASSUME NEW j \in 1..(n - 1), NEW k \in 1..(n - 1), rows[j].key = rows[k].key PROVE j = k
  <2>1. Place(I, j) \in 1..n /\ Place(I, k) \in 1..n
    BY <1>2, <1>4
  <2>2. Place(I, j) = Place(I, k)
    BY <1>1, <1>4, <1>6, <2>1 DEF SplitTyped, KeysApart
  <2>3. ~(j < k) /\ ~(k < j)
    BY <1>1, <1>4, <2>1, <2>2
  <2>4. QED
    BY <1>1, <2>3
<1>7. SplitTyped(rows)
  BY <1>4, <1>5, <1>6 DEF SplitTyped, KeysApart
<1>8. QED
  BY <1>7 DEF rows, I

LEMMA AllocatedIsInt ==
  ASSUME NEW rows, SplitTyped(rows)
  PROVE  Allocated(rows) \in Int
<1>1. [i \in DOMAIN rows |-> NumberOf(rows[i].amount)] \in [1..Len(rows) -> Int] /\ Len(rows) \in Nat
  BY RowsAre
<1>2. QED
  BY <1>1, SumIsInt DEF Allocated

(* Whatever the user does to the rows they stay apart, and in number. *)
LEMMA RowsEdited ==
  ASSUME SplitTyped(txSplit), tx \in Holdings, EditRows
  PROVE  SplitTyped(txSplit')
<1>1. CASE \E i \in DOMAIN txSplit, a \in TypedAmounts : RowsBecome(WithAmount(txSplit[i].key, a))
  <2>1. PICK i \in DOMAIN txSplit, a \in TypedAmounts : RowsBecome(WithAmount(txSplit[i].key, a))
    BY <1>1
  <2>2. SplitTyped(WithAmount(txSplit[i].key, a))
    BY WithAmountTyped, AmountAssumption
  <2>3. QED
    BY <2>1, <2>2 DEF RowsBecome
<1>2. CASE /\ Len(txSplit) < MaxRows
           /\ RowsBecome(Append(txSplit, [key |-> NextKey(txSplit), amount |-> NotOpen]))
  BY <1>2, RowAdded DEF RowsBecome
<1>3. CASE /\ Len(txSplit) > 2
           /\ \E i \in DOMAIN txSplit :
                RowsBecome(Filtered(txSplit, {j \in DOMAIN txSplit : txSplit[j].key # txSplit[i].key}))
  BY <1>3, RowRemoved DEF RowsBecome
<1>4. CASE LET last == txSplit[Len(txSplit)] IN
           RowsBecome(WithAmount(last.key, NumberOf(last.amount) + tx.amount - Allocated(txSplit)))
  <2> DEFINE last == txSplit[Len(txSplit)]
             a == NumberOf(last.amount) + tx.amount - Allocated(txSplit)
  <2>1. NumberOf(last.amount) \in Int
    BY RowsAre DEF SplitTyped, Fitting
  <2>2. tx.amount \in Int /\ Allocated(txSplit) \in Int
    BY AllocatedIsInt DEF Holdings, Transactions
  <2>3. a \in Int
    BY <2>1, <2>2
  <2>4. RowsBecome(WithAmount(last.key, a))
    BY <1>4
  <2> HIDE DEF a, last
  <2>5. QED
    BY <2>3, <2>4, WithAmountTyped DEF RowsBecome
<1>5. QED
  BY <1>1, <1>2, <1>3, <1>4 DEF EditRows

(* A key for each row. *)
LEMMA KeysCounted ==
  ASSUME NEW rows, SplitTyped(rows)
  PROVE  Cardinality({rows[i].key : i \in DOMAIN rows}) = Len(rows)
<1> DEFINE n == Len(rows)
           K == {rows[i].key : i \in DOMAIN rows}
           f == [i \in 1..n |-> rows[i].key]
<1>1. n \in Nat /\ DOMAIN rows = 1..n
  BY RowsAre
<1>2. IsFiniteSet(1..n) /\ Cardinality(1..n) = n
  <2> HIDE DEF n
  <2>1. QED
    BY <1>1, FS_Interval
<1>3. f \in [1..n -> K] /\ (\A k \in K : \E i \in 1..n : f[i] = k) /\ \A i, j \in 1..n : f[i] = f[j] => i = j
  BY <1>1 DEF SplitTyped, KeysApart
<1> HIDE DEF f, K, n
<1>4. f \in Surjection(1..n, K) /\ f \in Injection(1..n, K)
  BY <1>3 DEF Surjection, Injection, IsInjective
<1>5. Cardinality(K) = Cardinality(1..n)
  BY <1>2, <1>4, FS_Surjection
<1>6. QED
  BY <1>2, <1>5 DEF K, n

-----------------------------------------------------------------------------
(* The page of a transaction: every step keeps the types. *)

LEMMA TXTypedInit == TXInit => TXTyped
<1> SUFFICES ASSUME TXInit PROVE TXTyped
  OBVIOUS
<1> DEFINE q == [kind |-> "get", what |-> NotOpen, was |-> NotOpen, served |-> FALSE, answer |-> NotOpen, id |-> 1]
<1>1. TXRequestTyped(q)
  BY TxBoundsAssumption DEF TXRequestTyped, WhatTyped, Partial
<1>2. txNet = <<q>>
  BY DEF TXInit
<1> HIDE DEF q
<1>3. Len(txNet) = 1 /\ \A i \in DOMAIN txNet : TXRequestTyped(txNet[i])
  BY <1>1, <1>2, OneQueued
<1>4. txStore \in Holdings
  <2>1. << >> \in Seq(Int)
    OBVIOUS
  <2>2. PICK p \in BOOLEAN : txStore = [edit |-> 1, tags |-> {}, defaults |-> {}, kids |-> << >>,
                                        amount |-> Amount, pending |-> p]
    BY DEF TXInit
  <2>3. QED
    BY <2>1, <2>2, AmountAssumption DEF Holdings, Transactions
<1>5. txSent \in 0..MaxTxSent /\ Len(txNet) <= txSent
  BY <1>3, TxBoundsAssumption DEF TXInit
<1>6. QED
  BY <1>3, <1>4, <1>5 DEF TXInit, TXTyped

LEMMA HoldingIs ==
  ASSUME NEW t \in Holdings
  PROVE  /\ t # NotOpen /\ t.edit \in 1..2 /\ t.tags \subseteq TagRows /\ t.defaults \subseteq TxTags
         /\ t.kids \in Seq(Int) /\ t.amount \in Int /\ (t.kids = << >> \/ Fitting(t.kids))
  BY NotOpenAssumption DEF Holdings, Transactions

LEMMA SendTyped ==
  ASSUME SplitInv, TXTyped, NEW kind, NEW what, TXSend(kind, what), WhatTyped(kind, what),
         kind \in Partial => tx # NotOpen,
         UNCHANGED <<tx, txStore, txHistory>>, txLoading' \in BOOLEAN, txSaving' \in BOOLEAN,
         txSplit' # NotOpen => txSplit' = txSplit, txAsk' # NotOpen => txAsk' = txAsk
  PROVE  TXTyped'
<1> DEFINE e == [kind |-> kind, what |-> what, was |-> IF kind \in Partial THEN tx ELSE NotOpen,
                 served |-> FALSE, answer |-> NotOpen, id |-> txSent']
<1>1. TXRequestTyped(e)
  BY TxBoundsAssumption DEF TXRequestTyped, TXTyped, TXSend
<1>2. txNet' = Append(txNet, e) /\ txSent' = txSent + 1 /\ txSent < MaxTxSent
  BY DEF TXSend
<1> HIDE DEF e
<1>3. Len(txNet') = Len(txNet) + 1 /\ Len(txNet) \in Nat /\ \A i \in DOMAIN txNet' : TXRequestTyped(txNet'[i])
  <2>1. /\ Len(txNet) \in Nat /\ DOMAIN txNet = 1..Len(txNet) /\ DOMAIN txNet' = 1..(Len(txNet) + 1)
        /\ Len(txNet') = Len(txNet) + 1
        /\ \A j \in 1..Len(txNet) : txNet'[j] = txNet[j]
        /\ txNet'[Len(txNet) + 1] = e
    BY <1>2, Queued DEF SplitInv
  <2>2. QED
    BY <1>1, <2>1 DEF TXTyped
<1>4. txSent' \in 0..MaxTxSent /\ Len(txNet') <= txSent'
  BY <1>2, <1>3, TxBoundsAssumption DEF TXTyped
<1>5. QED
  BY <1>3, <1>4 DEF TXTyped, txHistory

\* What is sent of a split that can be saved.
LEMMA SavedTyped ==
  ASSUME SplitTyped(txSplit), CanSave(txSplit, tx.amount)
  PROVE  WhatTyped("split", [amount |-> tx.amount, rows |-> [i \in DOMAIN txSplit |-> txSplit[i].amount]])
<1> DEFINE n == Len(txSplit)
           rows == [i \in DOMAIN txSplit |-> txSplit[i].amount]
<1>1. n \in 2..MaxRows /\ n \in Nat /\ DOMAIN txSplit = 1..n
  BY RowsAre DEF SplitTyped, Fitting
<1>2. \A i \in DOMAIN txSplit : txSplit[i].amount \in Int
  BY RowsAre DEF CanSave, NumberOf
<1> HIDE DEF n
<1>3. rows \in [1..n -> Int]
  BY <1>1, <1>2
<1> HIDE DEF rows
<1>4. rows \in Seq(Int) /\ Len(rows) = n
  BY <1>1, <1>3
<1>5. QED
  BY <1>1, <1>4 DEF WhatTyped, Fitting, rows

LEMMA UserTyped ==
  ASSUME SplitInv, TXTyped,
         \/ EditOrTag \/ AskDefault \/ RemoveDefault \/ AskUnsplit \/ TXConfirm \/ TXCancel
         \/ OpenSplit \/ CloseSplit \/ EditRows \/ SaveSplit
  PROVE  TXTyped'
<1>1. CASE EditOrTag
  <2>1. /\ tx \in Holdings /\ UNCHANGED <<tx, txLoading, txSplit, txSaving, txAsk, txStore, txHistory>>
        /\ txLoading \in BOOLEAN /\ txSaving \in BOOLEAN
    BY <1>1 DEF EditOrTag, Clickable, TXDrawn, txDialogs, TXTyped
  <2>2. \E kind, what : TXSend(kind, what) /\ WhatTyped(kind, what)
    <3>1. CASE \E v \in 1..2 : TXSend("update", v)
      BY <3>1 DEF WhatTyped
    <3>2. CASE (\E t \in TxTags : TXSend("tag", t)) \/ (\E row \in TagRows : TXSend("untag", row))
      BY <3>2 DEF WhatTyped
    <3>3. CASE TXSend("get", NotOpen)
      BY <3>3 DEF WhatTyped
    <3>4. QED
      BY <1>1, <2>1, <3>1, <3>2, <3>3, HoldingIs DEF EditOrTag
  <2>3. PICK kind, what : TXSend(kind, what) /\ WhatTyped(kind, what)
    BY <2>2
  <2>4. QED
    BY <2>1, <2>3, HoldingIs, SendTyped
<1>2. CASE AskDefault \/ AskUnsplit \/ TXCancel
  <2>1. UNCHANGED <<tx, txLoading, txSplit, txSaving, txNet, txSent, txStore, txHistory>>
    BY <1>2 DEF AskDefault, AskUnsplit, TXCancel
  <2>2. txAsk' # NotOpen => txAsk'.list \subseteq TxTags
    BY <1>2, HoldingIs DEF AskDefault, AskUnsplit, TXCancel, Clickable, TXDrawn, TXTyped
  <2>3. QED
    BY <2>1, <2>2 DEF TXTyped, txHistory
<1>3. CASE RemoveDefault
  <2>1. /\ tx \in Holdings /\ UNCHANGED <<tx, txLoading, txSplit, txSaving, txAsk, txStore, txHistory>>
        /\ txLoading \in BOOLEAN /\ txSaving \in BOOLEAN
    BY <1>3 DEF RemoveDefault, Clickable, TXDrawn, txDialogs, TXTyped
  <2>2. PICK what : TXSend("default", what) /\ what.list \subseteq TxTags
    BY <1>3, <2>1, HoldingIs DEF RemoveDefault
  <2>3. WhatTyped("default", what)
    BY <2>2 DEF WhatTyped
  <2>4. QED
    BY <2>1, <2>2, <2>3, HoldingIs, SendTyped
<1>4. CASE TXConfirm
  <2>1. /\ tx # NotOpen /\ UNCHANGED <<tx, txLoading, txSplit, txSaving, txStore, txHistory>>
        /\ txLoading \in BOOLEAN /\ txSaving \in BOOLEAN /\ txAsk' = NotOpen /\ txAsk.list \subseteq TxTags
    BY <1>4 DEF TXConfirm, TXDrawn, TXTyped
  <2>2. \E kind, what : TXSend(kind, what) /\ WhatTyped(kind, what)
    <3>1. CASE TXSend("unsplit", NotOpen)
      BY <3>1 DEF WhatTyped
    <3>2. ASSUME NEW all, TXSend("default", [list |-> txAsk.list, apply |-> all])
          PROVE  \E kind, what : TXSend(kind, what) /\ WhatTyped(kind, what)
      <4>1. WhatTyped("default", [list |-> txAsk.list, apply |-> all])
        BY <2>1 DEF WhatTyped
      <4>2. QED
        BY <3>2, <4>1
    <3>3. QED
      BY <1>4, <3>1, <3>2 DEF TXConfirm
  <2>3. PICK kind, what : TXSend(kind, what) /\ WhatTyped(kind, what)
    BY <2>2
  <2>4. QED
    BY <2>1, <2>3, SendTyped
<1>5. CASE OpenSplit \/ CloseSplit \/ EditRows
  <2>1. UNCHANGED <<tx, txLoading, txSaving, txAsk, txNet, txSent, txStore, txHistory>>
    BY <1>5 DEF OpenSplit, CloseSplit, EditRows, RowsBecome
  <2>2. txSplit' # NotOpen => tx # NotOpen /\ SplitTyped(txSplit')
    <3>1. CASE OpenSplit
      <4>1. tx \in Holdings /\ tx # NotOpen /\ txSplit' = Seeded(tx)
        BY <3>1 DEF OpenSplit, Clickable, TXDrawn, RowsBecome, TXTyped
      <4>2. QED
        BY <4>1, SeededTyped
    <3>2. CASE CloseSplit
      BY <3>2 DEF CloseSplit, RowsBecome
    <3>3. CASE EditRows
      <4>1. tx \in Holdings /\ tx # NotOpen /\ SplitTyped(txSplit)
        BY <3>3 DEF EditRows, TXTyped
      <4>2. QED
        BY <3>3, <4>1, RowsEdited
    <3>4. QED
      BY <1>5, <3>1, <3>2, <3>3
  <2>3. QED
    BY <2>1, <2>2 DEF TXTyped, txHistory
<1>6. CASE SaveSplit
  <2> DEFINE what == [amount |-> tx.amount, rows |-> [i \in DOMAIN txSplit |-> txSplit[i].amount]]
  <2>1. /\ TXSend("split", what) /\ UNCHANGED <<tx, txLoading, txSplit, txAsk, txStore, txHistory>>
        /\ txLoading \in BOOLEAN /\ txSaving' \in BOOLEAN
    BY <1>6 DEF SaveSplit, TXTyped
  <2>2. WhatTyped("split", what)
    BY <1>6, SavedTyped DEF SaveSplit, TXTyped
  <2> HIDE DEF what
  <2>3. QED
    BY <2>1, <2>2, SendTyped DEF Partial
<1>7. QED
  BY <1>1, <1>2, <1>3, <1>4, <1>5, <1>6

\* The rows that a request makes.
LEMMA RowsMadeTyped ==
  ASSUME NEW id \in 1..MaxTxSent, NEW some \in SUBSET TxTags
  PROVE  some \X {id} \in SUBSET TagRows /\ \A t \in TxTags : {<<t, id>>} \in SUBSET TagRows
BY DEF TagRows

LEMMA AppliedTyped ==
  ASSUME NEW q, TXRequestTyped(q), q.kind = "default"
  PROVE  RowsApplied(q) \in SUBSET TagRows
<1>1. q.what.list \ TagsOf(txStore) \in SUBSET TxTags /\ q.id \in 1..MaxTxSent
  BY DEF TXRequestTyped, WhatTyped
<1>2. QED
  BY <1>1, RowsMadeTyped DEF RowsApplied

\* What the server makes of each kind of request.
LEMMA StoredIs ==
  ASSUME NEW q
  PROVE  /\ q.kind = "update" => TXStored(q) = [txStore EXCEPT !.edit = q.what]
         /\ q.kind = "tag" => TXStored(q) = [txStore EXCEPT !.tags = @ \cup {<<q.what, q.id>>}]
         /\ q.kind = "untag" => TXStored(q) = [txStore EXCEPT !.tags = @ \ {q.what}]
         /\ Applies(q) => TXStored(q) = [txStore EXCEPT !.defaults = q.what.list, !.edit = 1,
                                                        !.tags = @ \cup RowsApplied(q)]
         /\ q.kind = "default" /\ ~Applies(q) => TXStored(q) = [txStore EXCEPT !.defaults = q.what.list]
         /\ q.kind = "unsplit" => TXStored(q) = [txStore EXCEPT !.kids = << >>]
         /\ q.kind = "split" => TXStored(q) = [txStore EXCEPT !.kids = q.what.rows]
         /\ q.kind \notin {"update", "tag", "untag", "default", "unsplit", "split"} => TXStored(q) = txStore
<1>1. CASE q.kind = "default" /\ Applies(q)
  BY <1>1 DEF TXStored, Applies
<1>2. CASE q.kind = "default" /\ ~Applies(q)
  <2>1. ~q.what.apply
    BY <1>2 DEF Applies
  <2>2. QED
    BY <1>2, <2>1 DEF TXStored
<1>3. CASE q.kind # "default"
  <2>1. ~Applies(q)
    BY <1>3 DEF Applies
  <2>2. QED
    BY <1>3, <2>1 DEF TXStored
<1>4. QED
  BY <1>1, <1>2, <1>3

LEMMA StoredTyped ==
  ASSUME TXTyped, NEW q, TXRequestTyped(q)
  PROVE  TXStored(q) \in Holdings
<1>1. txStore \in Transactions /\ (txStore.kids = << >> \/ Fitting(txStore.kids))
  BY DEF TXTyped, Holdings
<1>2. WhatTyped(q.kind, q.what) /\ q.id \in 1..MaxTxSent
  BY DEF TXRequestTyped
<1>3. txStore.tags \in SUBSET TagRows
  BY <1>1 DEF Transactions
<1>4. CASE q.kind = "update"
  <2> DEFINE new == q.what
  <2>1. TXStored(q) = [txStore EXCEPT !.edit = new]
    BY <1>4, StoredIs
  <2>3. new \in 1..2
    BY <1>2, <1>4 DEF WhatTyped
  <2> HIDE DEF new
  <2>4. [txStore EXCEPT !.edit = new] \in Holdings
    BY <1>1, <2>3 DEF Holdings, Transactions
  <2>5. QED
    BY <2>1, <2>4
<1>5. CASE q.kind = "tag"
  <2> DEFINE new == txStore.tags \cup {<<q.what, q.id>>}
  <2>1. TXStored(q) = [txStore EXCEPT !.tags = new]
    BY <1>5, StoredIs
  <2>2. {<<q.what, q.id>>} \in SUBSET TagRows
    BY <1>2, <1>5, RowsMadeTyped DEF WhatTyped
  <2>3. new \in SUBSET TagRows
    BY <1>3, <2>2
  <2> HIDE DEF new
  <2>4. [txStore EXCEPT !.tags = new] \in Holdings
    BY <1>1, <2>3 DEF Holdings, Transactions
  <2>5. QED
    BY <2>1, <2>4
<1>6. CASE q.kind = "untag"
  <2> DEFINE new == txStore.tags \ {q.what}
  <2>1. TXStored(q) = [txStore EXCEPT !.tags = new]
    BY <1>6, StoredIs
  <2>3. new \in SUBSET TagRows
    BY <1>3
  <2> HIDE DEF new
  <2>4. [txStore EXCEPT !.tags = new] \in Holdings
    BY <1>1, <2>3 DEF Holdings, Transactions
  <2>5. QED
    BY <2>1, <2>4
<1>7. CASE q.kind = "default"
  <2> DEFINE list == q.what.list
             rows == txStore.tags \cup RowsApplied(q)
  <2>1. list \in SUBSET TxTags /\ rows \in SUBSET TagRows
    BY <1>2, <1>3, <1>7, AppliedTyped DEF WhatTyped
  <2>2. Applies(q) => TXStored(q) = [txStore EXCEPT !.defaults = list, !.edit = 1, !.tags = rows]
    BY <1>1, StoredIs DEF Transactions
  <2>3. ~Applies(q) => TXStored(q) = [txStore EXCEPT !.defaults = list]
    BY <1>7, StoredIs
  <2> HIDE DEF list, rows
  <2>4. [txStore EXCEPT !.defaults = list, !.edit = 1, !.tags = rows] \in Holdings
    <3> DEFINE one == [txStore EXCEPT !.defaults = list]
               two == [one EXCEPT !.edit = 1]
    <3>1. [txStore EXCEPT !.defaults = list, !.edit = 1, !.tags = rows] = [two EXCEPT !.tags = rows]
      BY <1>1 DEF Transactions
    <3>2. one \in Holdings
      BY <1>1, <2>1 DEF Holdings, Transactions
    <3> HIDE DEF one
    <3>3. two \in Holdings
      BY <3>2 DEF Holdings, Transactions
    <3> HIDE DEF two
    <3>4. [two EXCEPT !.tags = rows] \in Holdings
      BY <2>1, <3>3 DEF Holdings, Transactions
    <3>5. QED
      BY <3>1, <3>4
  <2>5. [txStore EXCEPT !.defaults = list] \in Holdings
    BY <1>1, <2>1 DEF Holdings, Transactions
  <2>6. QED
    BY <2>2, <2>3, <2>4, <2>5
<1>8. CASE q.kind = "unsplit"
  <2> DEFINE new == << >>
  <2>1. TXStored(q) = [txStore EXCEPT !.kids = new]
    BY <1>8, StoredIs
  <2>3. new \in Seq(Int) /\ (new = << >> \/ Fitting(new))
    OBVIOUS
  <2> HIDE DEF new
  <2>4. [txStore EXCEPT !.kids = new] \in Holdings
    BY <1>1, <2>3 DEF Holdings, Transactions
  <2>5. QED
    BY <2>1, <2>4
<1>9. CASE q.kind = "split"
  <2> DEFINE new == q.what.rows
  <2>1. TXStored(q) = [txStore EXCEPT !.kids = new]
    BY <1>9, StoredIs
  <2>3. new \in Seq(Int) /\ (new = << >> \/ Fitting(new))
    BY <1>2, <1>9 DEF WhatTyped
  <2> HIDE DEF new
  <2>4. [txStore EXCEPT !.kids = new] \in Holdings
    BY <1>1, <2>3 DEF Holdings, Transactions
  <2>5. QED
    BY <2>1, <2>4
<1>10. CASE q.kind \notin {"update", "tag", "untag", "default", "unsplit", "split"}
  BY <1>1, <1>10, StoredIs DEF Holdings
<1>11. QED
  BY <1>4, <1>5, <1>6, <1>7, <1>8, <1>9, <1>10

\* A request that has been served is the same but for its answer.
LEMMA ServedIs ==
  ASSUME SplitInv, NEW i \in DOMAIN txNet, TXServe(i)
  PROVE  LET answer == IF Accepted(txNet[i]) THEN txStore' ELSE NotOpen IN
         /\ txNet' = [txNet EXCEPT ![i] = [txNet[i] EXCEPT !.served = TRUE, !.answer = answer]]
         /\ Queue(txNet') /\ Len(txNet) \in Nat /\ DOMAIN txNet = 1..Len(txNet)
         /\ DOMAIN txNet' = DOMAIN txNet /\ Len(txNet') = Len(txNet)
         /\ \A j \in DOMAIN txNet : j # i => txNet'[j] = txNet[j]
         /\ txNet'[i].kind = txNet[i].kind /\ txNet'[i].what = txNet[i].what /\ txNet'[i].was = txNet[i].was
         /\ txNet'[i].served = TRUE /\ txNet'[i].answer = answer /\ txNet'[i].id = txNet[i].id
<1> DEFINE q == txNet[i]
           answer == IF Accepted(q) THEN txStore' ELSE NotOpen
           e == [q EXCEPT !.served = TRUE, !.answer = answer]
<1>1. txNet' = [txNet EXCEPT ![i] = e]
  BY DEF TXServe
<1>2. q \in [kind : {q.kind}, what : {q.what}, was : {q.was}, served : {q.served}, answer : {q.answer},
             id : {q.id}]
  BY DEF SplitInv, TXCarries
<1> HIDE DEF answer, q
<1>3. e.kind = q.kind /\ e.what = q.what /\ e.was = q.was /\ e.served = TRUE /\ e.answer = answer /\ e.id = q.id
  BY <1>2
<1> HIDE DEF e
<1>4. /\ Queue(txNet') /\ Len(txNet) \in Nat /\ DOMAIN txNet = 1..Len(txNet)
      /\ DOMAIN txNet' = 1..Len(txNet) /\ Len(txNet') = Len(txNet)
      /\ \A j \in 1..Len(txNet) : txNet'[j] = IF j = i THEN e ELSE txNet[j]
  <2>1. Queue(txNet)
    BY DEF SplitInv
  <2>2. QED
    BY ZenonT(30), <1>1, <2>1, ChangedInQueue
<1>5. txNet'[i] = e /\ DOMAIN txNet' = DOMAIN txNet /\ \A j \in DOMAIN txNet : j # i => txNet'[j] = txNet[j]
  BY <1>4
<1>6. QED
  BY <1>1, <1>3, <1>4, <1>5 DEF e, q, answer

LEMMA ServeTyped ==
  ASSUME SplitInv, TXTyped, NEW i \in DOMAIN txNet, TXServe(i)
  PROVE  TXTyped'
<1>1. txStore' \in Holdings
  BY StoredTyped DEF TXServe, TXTyped, TXRequestTyped
<1>2. UNCHANGED <<tx, txLoading, txSplit, txSaving, txAsk, txSent, txWhole>> /\ txCalm' \in BOOLEAN
  BY DEF TXServe, txDialogs, TXTyped
<1>3. TXRequestTyped(txNet'[i])
  BY <1>1, ServedIs DEF TXTyped, TXRequestTyped
<1>6. txApplied' \in {NotOpen} \cup SUBSET TagRows
  <2>1. TXRequestTyped(txNet[i]) /\ txApplied' = AppliedAfter(txNet[i]) /\ txApplied \in {NotOpen} \cup SUBSET TagRows
    BY DEF TXServe, TXTyped
  <2>2. Applies(txNet[i]) => RowsApplied(txNet[i]) \in SUBSET TagRows
    BY <2>1, AppliedTyped DEF Applies
  <2>3. QED
    BY <2>1, <2>2 DEF AppliedAfter
<1>4. Len(txNet') = Len(txNet) /\ \A j \in DOMAIN txNet' : TXRequestTyped(txNet'[j])
  BY <1>3, ServedIs DEF TXTyped
<1>5. QED
  BY <1>1, <1>2, <1>4, <1>6 DEF TXTyped

LEMMA PartialTyped ==
  ASSUME NEW q, TXRequestTyped(q), q.kind \in Partial
  PROVE  TXPut(q) \in Holdings
<1>1. q.was \in Transactions /\ (q.was.kids = << >> \/ Fitting(q.was.kids)) /\ WhatTyped(q.kind, q.what)
  BY DEF TXRequestTyped, Holdings
<1>2. CASE q.kind = "tag"
  <2> DEFINE rows == {<<q.what, q.id>>}
  <2>1. TXPut(q) = [q.was EXCEPT !.tags = @ \cup rows] /\ rows \in SUBSET TagRows
    BY <1>1, <1>2, RowsMadeTyped DEF TXPut, TXRequestTyped, WhatTyped
  <2> HIDE DEF rows
  <2>2. QED
    BY <1>1, <2>1 DEF Holdings, Transactions
<1>3. CASE q.kind # "tag"
  BY <1>1, <1>3 DEF TXPut, Partial, WhatTyped, Holdings, Transactions
<1>4. QED
  BY <1>2, <1>3

LEMMA PutTyped ==
  ASSUME NEW q, TXRequestTyped(q), q.answer # NotOpen
  PROVE  TXPut(q) \in Holdings
<1>1. CASE q.kind \notin Partial
  BY <1>1 DEF TXPut, Partial, TXRequestTyped
<1>2. QED
  BY <1>1, PartialTyped

LEMMA EndTyped ==
  ASSUME SplitInv, TXTyped, NEW i \in DOMAIN txNet, TXAnswer(i) \/ TXFail(i)
  PROVE  TXTyped'
<1>1. /\ txNet' = RemoveAt(txNet, i) /\ UNCHANGED <<txAsk, txSent, txStore, txApplied>>
      /\ txLoading' \in BOOLEAN /\ txSaving' \in BOOLEAN /\ txCalm' \in BOOLEAN /\ txWhole' \in BOOLEAN
  BY DEF TXAnswer, TXFail, TransactionSet, TXTyped
<1>2. Len(txNet') <= txSent' /\ \A j \in DOMAIN txNet' : TXRequestTyped(txNet'[j])
  <2>1. /\ Len(txNet) \in Nat \ {0} /\ DOMAIN txNet = 1..Len(txNet) /\ DOMAIN txNet' = 1..(Len(txNet) - 1)
        /\ Len(txNet') = Len(txNet) - 1
        /\ \A j \in 1..(Len(txNet) - 1) : txNet'[j] = IF j < i THEN txNet[j] ELSE txNet[j + 1]
    BY <1>1, Unqueued DEF SplitInv
  <2>2. \A j \in 1..(Len(txNet) - 1) : j \in 1..Len(txNet) /\ j + 1 \in 1..Len(txNet)
    BY <2>1
  <2>3. Len(txNet') <= txSent'
    BY <1>1, <2>1 DEF TXTyped
  <2>4. \A j \in DOMAIN txNet : TXRequestTyped(txNet[j])
    BY DEF TXTyped
  <2>5. QED
    BY <2>1, <2>2, <2>3, <2>4
<1>3. tx' \in Holdings \cup {NotOpen} /\ (txSplit' # NotOpen => tx' # NotOpen /\ SplitTyped(txSplit'))
  <2>1. CASE UNCHANGED <<tx, txSplit>>
    BY <2>1 DEF TXTyped
  <2>2. CASE txNet[i].answer # NotOpen /\ TransactionSet(txNet[i])
    <3>1. tx' \in Holdings
      BY <2>2, PutTyped DEF TransactionSet, TXTyped
    <3>2. SplitTyped(Seeded(tx'))
      BY <3>1, SeededTyped
    <3>3. QED
      BY <2>2, <3>1, <3>2, HoldingIs DEF TransactionSet
  <2>3. QED
    BY <2>1, <2>2 DEF TXAnswer, TXFail
<1>4. QED
  BY <1>1, <1>2, <1>3 DEF TXTyped

LEMMA BankTyped ==
  ASSUME TXTyped, BankChanges
  PROVE  TXTyped'
<1>1. txStore' \in Holdings
  BY AmountAssumption DEF BankChanges, TXTyped, Holdings, Transactions
<1>2. QED
  BY <1>1 DEF BankChanges, TXTyped, txDialogs

LEMMA TXTypedStep == SplitInv /\ TXTyped /\ [TXNext]_txVars => TXTyped'
<1>1. TXTyped /\ UNCHANGED txVars => TXTyped'
  BY DEF TXTyped, txVars, txDialogs
<1>2. SplitInv /\ TXTyped /\ TXNext => TXTyped'
  BY UserTyped, ServeTyped, EndTyped, BankTyped DEF TXNext
<1>3. QED
  BY <1>1, <1>2

-----------------------------------------------------------------------------
(* The page of a transaction at rest: every step keeps CalmTransaction. *)

LEMMA CalmInit == TXInit => CalmTransaction
<1> SUFFICES ASSUME TXInit PROVE CalmTransaction
  OBVIOUS
<1>1. /\ tx = NotOpen /\ txStore.amount = Amount
      /\ txNet = <<[kind |-> "get", what |-> NotOpen, was |-> NotOpen, served |-> FALSE, answer |-> NotOpen, id |-> 1]>>
  BY DEF TXInit
<1>2. Len(txNet) = 1 /\ DOMAIN txNet = {1} /\ txNet[1].kind = "get" /\ ~txNet[1].served
  BY <1>1, OneQueued
<1>3. OneAmount /\ FirstBrings /\ ServedInOrder
  BY <1>1, <1>2 DEF OneAmount, FirstBrings, ServedInOrder, Partial
<1>4. WillHold
  <2>1. ASSUME NEW n \in 0..1, ServedUpTo(n) PROVE n = 0
    BY <1>2, <2>1 DEF ServedUpTo
  <2>2. QED
    BY <1>1, <1>2, <2>1 DEF WillHold
<1>5. QED
  BY <1>3, <1>4 DEF CalmTransaction

LEMMA CalmStays ==
  ASSUME CalmTransaction, UNCHANGED <<tx, txNet, txStore, txWhole, txApplied>>
  PROVE  CalmTransaction'
<1>1. OneAmount' /\ FirstBrings' /\ ServedInOrder'
  BY DEF CalmTransaction, OneAmount, FirstBrings, ServedInOrder
<1>2. WillHold'
  BY DEF CalmTransaction, WillHold, ServedUpTo, Agrees, HeldAfter
<1>3. QED
  BY <1>1, <1>2 DEF CalmTransaction

LEMMA SendKeepsCalm ==
  ASSUME SplitInv, CalmTransaction, NEW kind, NEW what, TXSend(kind, what), tx # NotOpen,
         kind = "split" => what.amount = tx.amount,
         UNCHANGED <<tx, txStore, txWhole, txApplied>>
  PROVE  CalmTransaction'
<1> DEFINE e == [kind |-> kind, what |-> what, was |-> IF kind \in Partial THEN tx ELSE NotOpen,
                 served |-> FALSE, answer |-> NotOpen, id |-> txSent']
           m == Len(txNet)
<1>1. /\ ~e.served /\ (e.kind = "split" => e.what.amount = Amount)
      /\ (e.kind \in Partial => e.was.amount = Amount)
  BY DEF CalmTransaction, OneAmount
<1>2. txNet' = Append(txNet, e)
  BY DEF TXSend
<1> HIDE DEF e
<1>3. /\ m \in Nat /\ DOMAIN txNet = 1..m /\ DOMAIN txNet' = 1..(m + 1) /\ Len(txNet') = m + 1
      /\ \A j \in 1..m : txNet'[j] = txNet[j]
      /\ txNet'[m + 1] = e
  BY <1>2, Queued DEF SplitInv
<1> HIDE DEF m
<1>4. OneAmount' /\ FirstBrings'
  BY <1>1, <1>3 DEF CalmTransaction, OneAmount, FirstBrings
<1>5. ServedInOrder'
  BY <1>1, <1>3 DEF CalmTransaction, ServedInOrder
<1>6. ASSUME txWhole, NEW n \in 0..(m + 1), ServedUpTo(n)' PROVE Agrees(n)'
  <2>1. n \in 0..m
    BY <1>1, <1>3, <1>6 DEF ServedUpTo
  <2>2. \A i \in 0..m : HeldAfter(i)' = HeldAfter(i)
    BY <1>3 DEF HeldAfter
  <2>3. ServedUpTo(n)
    BY <1>3, <1>6, <2>2 DEF ServedUpTo
  <2>4. Agrees(n)
    BY <1>3, <1>6, <2>1, <2>3 DEF CalmTransaction, WillHold, m
  <2>5. QED
    BY <2>1, <2>2, <2>4 DEF Agrees
<1>7. QED
  BY <1>3, <1>4, <1>5, <1>6 DEF CalmTransaction, WillHold

\* When two transactions are the same but for what was applied.
LEMMA KnownFields ==
  ASSUME NEW s \in Transactions, NEW t \in Transactions, NEW applied, applied # NotOpen
  PROVE  AsKnown(s, applied) = AsKnown(t, applied)
           <=> /\ s.defaults = t.defaults /\ s.kids = t.kids /\ s.amount = t.amount /\ s.pending = t.pending
               /\ s.tags \ applied = t.tags \ applied
BY DEF AsKnown, Transactions

(* What an answer puts into a transaction known as the server has it is      *)
(* known again, whether rows were applied behind the page's back before or   *)
(* are now.                                                                  *)
LEMMA PutKnown ==
  ASSUME TXTyped, NEW q, TXRequestTyped(q), q.kind \in Partial, Accepted(q),
         AsKnown(q.was, txApplied) = AsKnown(txStore, txApplied)
  PROVE  AsKnown(TXPut(q), AppliedAfter(q)) = AsKnown(TXStored(q), AppliedAfter(q))
<1> DEFINE after == AppliedAfter(q)
<1>1. q.was \in Transactions /\ txStore \in Transactions
  BY DEF TXTyped, TXRequestTyped, Holdings
<1>2. TXPut(q) \in Transactions /\ TXStored(q) \in Transactions
  <2>1. TXStored(q) \in Holdings
    BY StoredTyped
  <2>2. TXPut(q) \in Holdings
    BY PartialTyped
  <2>3. QED
    BY <2>1, <2>2 DEF Holdings
<1>3. CASE Applies(q)
  <2>1. after = RowsApplied(q) \cup (IF txApplied = NotOpen THEN {} ELSE txApplied)
    BY <1>3 DEF AppliedAfter, Applies, Partial
  <2>2. after # NotOpen
    <3>1. RowsApplied(q) \in SUBSET TagRows /\ (txApplied # NotOpen => txApplied \in SUBSET TagRows)
      BY <1>3, AppliedTyped DEF Applies, TXTyped
    <3>2. QED
      BY <2>1, <3>1, NotOpenAssumption
  <2>3. /\ TXPut(q).defaults = q.what.list /\ TXPut(q).kids = q.was.kids /\ TXPut(q).amount = q.was.amount
        /\ TXPut(q).pending = q.was.pending /\ TXPut(q).tags = q.was.tags
    BY <1>1, <1>3 DEF Applies, TXPut, Transactions
  <2>4. /\ TXStored(q).defaults = q.what.list /\ TXStored(q).kids = txStore.kids
        /\ TXStored(q).amount = txStore.amount /\ TXStored(q).pending = txStore.pending
        /\ TXStored(q).tags = txStore.tags \cup RowsApplied(q)
    <3>1. TXStored(q) = [txStore EXCEPT !.defaults = q.what.list, !.edit = 1, !.tags = @ \cup RowsApplied(q)]
      BY <1>3, StoredIs
    <3>2. QED
      BY <1>1, <3>1 DEF Transactions
  <2>5. CASE txApplied = NotOpen
    <3>1. q.was = txStore
      BY <2>5 DEF AsKnown
    <3> HIDE DEF after
    <3>2. TXPut(q).tags \ after = TXStored(q).tags \ after
      BY <2>1, <2>3, <2>4, <3>1
    <3>3. QED
      BY <1>2, <2>2, <2>3, <2>4, <3>1, <3>2, KnownFields DEF after
  <2>6. CASE txApplied # NotOpen
    <3>1. /\ q.was.kids = txStore.kids /\ q.was.amount = txStore.amount /\ q.was.pending = txStore.pending
          /\ q.was.tags \ txApplied = txStore.tags \ txApplied
      BY <1>1, <2>6, KnownFields
    <3> HIDE DEF after
    <3>2. TXPut(q).tags \ after = TXStored(q).tags \ after
      BY <2>1, <2>3, <2>4, <2>6, <3>1
    <3>3. QED
      BY <1>2, <2>2, <2>3, <2>4, <3>1, <3>2, KnownFields DEF after
  <2>7. QED
    BY <2>5, <2>6
<1>4. CASE ~Applies(q)
  <2>1. after = txApplied
    BY <1>4 DEF AppliedAfter
  <2> HIDE DEF after
  <2>2. CASE txApplied = NotOpen
    <3>1. q.was = txStore
      BY <2>2 DEF AsKnown
    <3>2. TXPut(q) = TXStored(q)
      <4>1. CASE q.kind = "tag"
        BY <3>1, <4>1, StoredIs DEF TXPut
      <4>2. CASE q.kind = "untag"
        BY <3>1, <4>2, StoredIs DEF TXPut
      <4>3. CASE q.kind = "default"
        BY <1>4, <3>1, <4>3, StoredIs DEF TXPut
      <4>4. QED
        BY <4>1, <4>2, <4>3 DEF Partial
    <3>3. QED
      BY <3>2 DEF after
  <2>3. CASE txApplied # NotOpen
    <3>1. /\ q.was.kids = txStore.kids /\ q.was.amount = txStore.amount /\ q.was.pending = txStore.pending
          /\ q.was.defaults = txStore.defaults /\ q.was.tags \ txApplied = txStore.tags \ txApplied
      BY <1>1, <2>3, KnownFields
    <3>2. CASE q.kind = "default"
      <4>1. TXPut(q) = [q.was EXCEPT !.defaults = q.what.list] /\ TXStored(q) = [txStore EXCEPT !.defaults = q.what.list]
        BY <1>4, <3>2, StoredIs DEF TXPut
      <4>2. QED
        BY <1>1, <1>2, <2>1, <2>3, <3>1, <4>1, KnownFields DEF Transactions, after
    <3>3. CASE q.kind \in {"tag", "untag"}
      <4> DEFINE put(tags) == [q.was EXCEPT !.tags = tags]
                 stored(tags) == [txStore EXCEPT !.tags = tags]
      <4>1. CASE q.kind = "tag"
        <5> DEFINE row == {<<q.what, q.id>>}
        <5>1. TXPut(q) = put(q.was.tags \cup row)
          BY <4>1 DEF TXPut
        <5>2. TXStored(q) = stored(txStore.tags \cup row)
          BY <4>1, StoredIs
        <5> HIDE DEF row
        <5>3. /\ TXPut(q).kids = q.was.kids /\ TXPut(q).amount = q.was.amount
              /\ TXPut(q).pending = q.was.pending /\ TXPut(q).defaults = q.was.defaults
              /\ TXPut(q).tags = q.was.tags \cup row
          BY <1>1, <5>1 DEF Transactions
        <5>4. /\ TXStored(q).kids = txStore.kids /\ TXStored(q).amount = txStore.amount
              /\ TXStored(q).pending = txStore.pending /\ TXStored(q).defaults = txStore.defaults
              /\ TXStored(q).tags = txStore.tags \cup row
          BY <1>1, <5>2 DEF Transactions
        <5>5. TXPut(q).tags \ txApplied = TXStored(q).tags \ txApplied
          BY <3>1, <5>3, <5>4
        <5>6. QED
          BY <1>2, <2>1, <2>3, <3>1, <5>3, <5>4, <5>5, KnownFields DEF after
      <4>2. CASE q.kind = "untag"
        <5> DEFINE row == {q.what}
        <5>1. TXPut(q) = put(q.was.tags \ row)
          BY <4>2 DEF TXPut
        <5>2. TXStored(q) = stored(txStore.tags \ row)
          BY <4>2, StoredIs
        <5> HIDE DEF row
        <5>3. /\ TXPut(q).kids = q.was.kids /\ TXPut(q).amount = q.was.amount
              /\ TXPut(q).pending = q.was.pending /\ TXPut(q).defaults = q.was.defaults
              /\ TXPut(q).tags = q.was.tags \ row
          BY <1>1, <5>1 DEF Transactions
        <5>4. /\ TXStored(q).kids = txStore.kids /\ TXStored(q).amount = txStore.amount
              /\ TXStored(q).pending = txStore.pending /\ TXStored(q).defaults = txStore.defaults
              /\ TXStored(q).tags = txStore.tags \ row
          BY <1>1, <5>2 DEF Transactions
        <5>5. TXPut(q).tags \ txApplied = TXStored(q).tags \ txApplied
          BY <3>1, <5>3, <5>4
        <5>6. QED
          BY <1>2, <2>1, <2>3, <3>1, <5>3, <5>4, <5>5, KnownFields DEF after
      <4>3. QED
        BY <3>3, <4>1, <4>2
    <3>4. QED
      BY <3>2, <3>3 DEF Partial
  <2>4. QED
    BY <2>2, <2>3
<1>5. QED
  BY <1>3, <1>4

(* What is served in order is put into the transaction that the server has.  *)
LEMMA ServeKeepsCalm ==
  ASSUME SplitInv, TXTyped, CalmTransaction, NEW k \in DOMAIN txNet, TXServe(k), txCalm'
  PROVE  CalmTransaction'
<1> DEFINE q == txNet[k]
           m == Len(txNet)
<1>1. Accepted(q)
  BY DEF TXServe
<1>2. /\ txStore' = TXStored(q) /\ txApplied' = AppliedAfter(q) /\ UNCHANGED <<tx, txWhole>> /\ ~q.served
      /\ \A j \in 1..(k - 1) : txNet[j].served
  BY <1>1 DEF TXServe
<1>3. txStore' \in Holdings /\ txStore'.amount = Amount
  <2>1. txStore' \in Holdings
    BY <1>2, StoredTyped DEF TXTyped, TXRequestTyped
  <2>2. txStore \in Transactions /\ txStore.amount = Amount
    BY DEF TXTyped, Holdings, CalmTransaction, OneAmount
  <2>3. TXStored(q).amount = txStore.amount
    BY <2>2, StoredIs, ZenonT(60) DEF Transactions
  <2>4. QED
    BY <1>2, <2>1, <2>2, <2>3
<1>4. /\ m \in Nat /\ DOMAIN txNet = 1..m /\ DOMAIN txNet' = 1..m /\ Len(txNet') = m
      /\ \A j \in 1..m : /\ j # k => txNet'[j] = txNet[j]
                         /\ txNet'[j].kind = txNet[j].kind /\ txNet'[j].what = txNet[j].what
                         /\ txNet'[j].was = txNet[j].was /\ txNet'[j].id = txNet[j].id
      /\ txNet'[k].served /\ txNet'[k].answer = txStore'
  BY <1>1, ServedIs
<1> HIDE DEF m
<1>5. OneAmount' /\ FirstBrings'
  <2>1. FirstBrings'
    BY <1>2, <1>4 DEF CalmTransaction, FirstBrings, m
  <2>2. ASSUME NEW j \in 1..m
        PROVE  /\ txNet'[j].kind \in Partial => txNet'[j].was.amount = Amount
               /\ txNet'[j].kind = "split" => txNet'[j].what.amount = Amount
               /\ txNet'[j].served => txNet'[j].answer # NotOpen /\ txNet'[j].answer.amount = Amount
    <3>1. /\ txNet[j].kind \in Partial => txNet[j].was.amount = Amount
          /\ txNet[j].kind = "split" => txNet[j].what.amount = Amount
          /\ txNet[j].served => txNet[j].answer # NotOpen /\ txNet[j].answer.amount = Amount
      BY <1>4 DEF CalmTransaction, OneAmount
    <3>2. txStore' # NotOpen
      BY <1>3, NotOpenAssumption DEF Holdings
    <3>3. CASE j = k
      BY <1>3, <1>4, <3>1, <3>2, <3>3
    <3>4. CASE j # k
      BY <1>4, <3>1, <3>4
    <3>5. QED
      BY <3>3, <3>4
  <2>3. txStore'.amount = Amount /\ (tx' # NotOpen => tx'.amount = Amount)
    BY <1>2, <1>3 DEF CalmTransaction, OneAmount
  <2>4. QED
    BY <1>4, <2>1, <2>2, <2>3 DEF OneAmount
<1>6. k \in 1..m /\ \A j \in 1..m : txNet[j].served <=> j < k
  BY <1>2, <1>4 DEF CalmTransaction, ServedInOrder
<1>7. \A j \in 1..m : txNet'[j].served <=> j <= k
  BY <1>4, <1>6
<1>8. ServedInOrder'
  BY <1>4, <1>7 DEF ServedInOrder
<1>9. ASSUME txWhole, NEW n \in 0..m, ServedUpTo(n)' PROVE Agrees(n)'
  <2>1. \A i \in 1..m : txNet'[i].served <=> i <= n
    BY <1>4, <1>9 DEF ServedUpTo
  <2>2. n = k
    <3>1. k <= n
      BY <1>6, <1>7, <2>1
    <3>2. n \in 1..m
      BY <1>6, <3>1
    <3>3. n <= k
      BY <1>7, <2>1, <3>2
    <3>4. QED
      BY <1>6, <3>1, <3>3
  <2>3. k - 1 \in 0..m /\ \A i \in 0..(k - 1) : HeldAfter(i)' = HeldAfter(i)
    <3>1. \A i \in 1..(k - 1) : i \in 1..m /\ i # k
      BY <1>4, <1>6
    <3>2. QED
      BY <1>2, <1>4, <1>6, <3>1 DEF HeldAfter
  <2>4. \A i \in 1..m : i <= k /\ txNet[i].kind \in Partial => txNet[i].was = HeldAfter(i - 1)
    <3>1. \A i \in 1..m : i <= k /\ txNet[i].kind \in Partial => txNet[i].was = HeldAfter(i - 1)'
      BY <1>4, <1>9, <2>2 DEF ServedUpTo
    <3>2. \A i \in 1..m : i <= k => i - 1 \in 0..(k - 1)
      BY <1>4, <1>6
    <3>3. QED
      BY <2>3, <3>1, <3>2
  <2>5. ServedUpTo(k - 1)
    <3>1. \A i \in 1..m : i < k <=> i <= k - 1
      BY <1>4, <1>6
    <3>2. QED
      BY <1>4, <1>6, <2>4, <3>1 DEF ServedUpTo
  <2>6. Agrees(k - 1) \/ (k = 1 /\ tx = NotOpen)
    BY <1>4, <1>6, <1>9, <2>3, <2>5 DEF CalmTransaction, WillHold, m
  <2>7. CASE q.kind \in Partial
    <3>1. AsKnown(q.was, txApplied) = AsKnown(txStore, txApplied)
      BY <1>4, <1>6, <2>4, <2>6, <2>7 DEF CalmTransaction, FirstBrings, Partial, Agrees
    <3>2. AsKnown(TXPut(q), txApplied') = AsKnown(TXStored(q), txApplied')
      BY <1>1, <1>2, <2>7, <3>1, PutKnown DEF TXTyped
    <3>3. TXPut(txNet'[k]) = TXPut(q)
      BY <1>4, <1>6, <2>7 DEF TXPut, Partial
    <3>4. QED
      BY <1>2, <1>6, <2>2, <3>2, <3>3 DEF Agrees, HeldAfter
  <2>8. CASE q.kind \notin Partial
    <3>1. TXPut(txNet'[k]) = txStore'
      BY <1>4, <1>6, <2>8 DEF TXPut, Partial
    <3>2. QED
      BY <1>6, <2>2, <3>1 DEF Agrees, HeldAfter
  <2>9. QED
    BY <2>7, <2>8
<1>10. QED
  BY <1>2, <1>4, <1>5, <1>8, <1>9 DEF CalmTransaction, WillHold

LEMMA AnswerKeepsCalm ==
  ASSUME SplitInv, TXTyped, CalmTransaction, NEW i \in DOMAIN txNet, TXAnswer(i), txCalm'
  PROVE  CalmTransaction'
<1> DEFINE q == txNet[1]
           m == Len(txNet)
<1>1. i = 1 /\ q.served /\ txNet' = RemoveAt(txNet, 1) /\ UNCHANGED <<txStore, txApplied>>
  BY DEF TXAnswer
<1>2. /\ m \in Nat \ {0} /\ DOMAIN txNet = 1..m /\ DOMAIN txNet' = 1..(m - 1) /\ Len(txNet') = m - 1
      /\ \A j \in 1..(m - 1) : txNet'[j] = txNet[j + 1] /\ j + 1 \in 1..m
  <2>1. /\ m \in Nat \ {0} /\ DOMAIN txNet = 1..m /\ DOMAIN txNet' = 1..(m - 1) /\ Len(txNet') = m - 1
        /\ \A j \in 1..(m - 1) : txNet'[j] = IF j < 1 THEN txNet[j] ELSE txNet[j + 1]
    BY <1>1, Unqueued DEF SplitInv
  <2>2. QED
    BY <2>1
<1> HIDE DEF m
<1>3. q.answer # NotOpen /\ q.answer.amount = Amount /\ (q.kind \in Partial => q.was.amount = Amount)
  BY <1>1 DEF CalmTransaction, OneAmount
<1>4. tx' = TXPut(q) /\ (txWhole' => txWhole /\ (q.kind \in Partial => q.was = tx))
  BY <1>1, <1>3 DEF TXAnswer, TransactionSet
<1>5. tx' \in Holdings /\ tx' # NotOpen
  BY <1>1, <1>3, <1>4, PutTyped, HoldingIs DEF TXTyped
<1>6. tx'.amount = Amount
  <2>1. CASE q.kind \in Partial
    <3>1. q.was \in Transactions
      BY <1>1, <2>1 DEF TXTyped, TXRequestTyped, Holdings
    <3>2. QED
      BY <1>3, <1>4, <2>1, <3>1 DEF TXPut, Partial, Transactions
  <2>2. CASE q.kind \notin Partial
    BY <1>3, <1>4, <2>2 DEF TXPut, Partial
  <2>3. QED
    BY <2>1, <2>2
<1>7. OneAmount' /\ FirstBrings'
  BY <1>1, <1>2, <1>5, <1>6 DEF CalmTransaction, OneAmount, FirstBrings
<1>8. ServedInOrder'
  <2> SUFFICES ASSUME NEW j \in 1..(m - 1), NEW k \in 1..(m - 1), j < k, txNet'[k].served
               PROVE  txNet'[j].served
    BY <1>2 DEF ServedInOrder
  <2>1. j + 1 \in 1..m /\ k + 1 \in 1..m /\ j + 1 < k + 1 /\ txNet[k + 1].served
    BY <1>2
  <2>2. txNet[j + 1].served
    BY <1>2, <2>1 DEF CalmTransaction, ServedInOrder
  <2>3. QED
    BY <1>2, <2>2
<1>9. ASSUME txWhole', NEW n \in 0..(m - 1), ServedUpTo(n)' PROVE Agrees(n)'
  <2>1. \A j \in 0..(m - 1) : HeldAfter(j)' = HeldAfter(j + 1)
    BY <1>2, <1>4 DEF HeldAfter
  <2>2. \A j \in 1..m : txNet[j].served <=> j <= n + 1
    <3>1. \A j \in 1..(m - 1) : txNet[j + 1].served <=> j <= n
      BY <1>2, <1>9 DEF ServedUpTo
    <3>2. ASSUME NEW j \in 1..m PROVE txNet[j].served <=> j <= n + 1
      <4>1. CASE j = 1
        BY <1>1, <4>1
      <4>2. CASE j # 1
        <5>1. j - 1 \in 1..(m - 1) /\ (j - 1) + 1 = j /\ (j - 1 <= n <=> j <= n + 1)
          BY <1>2, <4>2
        <5>2. txNet[(j - 1) + 1].served <=> j - 1 <= n
          BY <3>1, <5>1
        <5>3. QED
          BY <5>1, <5>2
      <4>3. QED
        BY <4>1, <4>2
    <3>3. QED
      BY <3>2
  <2>3. \A j \in 1..m : j <= n + 1 /\ txNet[j].kind \in Partial => txNet[j].was = HeldAfter(j - 1)
    <3>1. ASSUME NEW j \in 1..(m - 1), j <= n, txNet[j + 1].kind \in Partial
          PROVE  txNet[j + 1].was = HeldAfter(j)
      <4>1. txNet[j + 1].was = HeldAfter(j - 1)'
        BY <1>2, <1>9, <3>1 DEF ServedUpTo
      <4>2. j - 1 \in 0..(m - 1) /\ (j - 1) + 1 = j
        BY <1>2
      <4>3. QED
        BY <2>1, <4>1, <4>2
    <3>2. ASSUME q.kind \in Partial PROVE q.was = HeldAfter(0)
      BY <1>4, <1>9, <3>2 DEF HeldAfter
    <3>3. ASSUME NEW j \in 1..m, j <= n + 1, txNet[j].kind \in Partial PROVE txNet[j].was = HeldAfter(j - 1)
      <4>1. CASE j = 1
        BY <3>2, <3>3, <4>1
      <4>2. CASE j # 1
        <5>1. j - 1 \in 1..(m - 1) /\ j - 1 <= n /\ (j - 1) + 1 = j
          BY <1>2, <3>3, <4>2
        <5>2. QED
          BY <3>1, <3>3, <5>1
      <4>3. QED
        BY <4>1, <4>2
    <3>4. QED
      BY <3>3
  <2>4. ServedUpTo(n + 1) /\ n + 1 \in 0..m /\ n + 1 # 0
    BY <1>2, <2>2, <2>3 DEF ServedUpTo
  <2>5. Agrees(n + 1)
    BY <1>4, <1>9, <2>4 DEF CalmTransaction, WillHold, m
  <2>6. QED
    BY <1>1, <2>1, <2>5 DEF Agrees
<1>10. QED
  BY <1>2, <1>7, <1>8, <1>9 DEF CalmTransaction, WillHold

LEMMA UserKeepsCalm ==
  ASSUME SplitInv, TXTyped, CalmTransaction,
         \/ EditOrTag \/ AskDefault \/ RemoveDefault \/ AskUnsplit \/ TXConfirm \/ TXCancel
         \/ OpenSplit \/ CloseSplit \/ EditRows \/ SaveSplit
  PROVE  CalmTransaction'
<1>1. CASE EditOrTag \/ RemoveDefault \/ TXConfirm
  <2>1. tx # NotOpen /\ UNCHANGED <<tx, txStore, txWhole, txApplied>>
    BY <1>1 DEF EditOrTag, RemoveDefault, TXConfirm, Clickable, TXDrawn, txHistory
  <2>2. PICK kind, what : kind # "split" /\ TXSend(kind, what)
    BY <1>1 DEF EditOrTag, RemoveDefault, TXConfirm
  <2>3. QED
    BY <2>1, <2>2, SendKeepsCalm
<1>2. CASE SaveSplit
  <2> DEFINE what == [amount |-> tx.amount, rows |-> [i \in DOMAIN txSplit |-> txSplit[i].amount]]
  <2>1. TXSend("split", what) /\ what.amount = tx.amount /\ tx # NotOpen
        /\ UNCHANGED <<tx, txStore, txWhole, txApplied>>
    BY <1>2 DEF SaveSplit, TXTyped, txHistory
  <2> HIDE DEF what
  <2>2. QED
    BY <2>1, SendKeepsCalm
<1>3. CASE AskDefault \/ AskUnsplit \/ TXCancel \/ OpenSplit \/ CloseSplit \/ EditRows
  <2>1. UNCHANGED <<tx, txNet, txStore, txWhole, txApplied>>
    BY <1>3 DEF AskDefault, AskUnsplit, TXCancel, OpenSplit, CloseSplit, EditRows, RowsBecome, txHistory
  <2>2. QED
    BY <2>1, CalmStays
<1>4. QED
  BY <1>1, <1>2, <1>3

LEMMA TXInvStep == TXInv /\ [TXNext]_txVars => TXInv'
<1> SUFFICES ASSUME TXInv, [TXNext]_txVars PROVE TXInv'
  OBVIOUS
<1>1. SplitInv' /\ TXTyped'
  BY SplitStep, TXTypedStep DEF TXInv
<1>2. ASSUME txCalm' PROVE CalmTransaction'
  <2>1. CASE UNCHANGED txVars
    <3>1. UNCHANGED <<tx, txNet, txStore, txWhole, txApplied, txCalm>>
      BY <2>1 DEF txVars
    <3>2. QED
      BY <1>2, <3>1, CalmStays DEF TXInv
  <2>2. CASE \/ EditOrTag \/ AskDefault \/ RemoveDefault \/ AskUnsplit \/ TXConfirm \/ TXCancel
             \/ OpenSplit \/ CloseSplit \/ EditRows \/ SaveSplit
    <3>1. UNCHANGED txCalm
      BY <2>2 DEF EditOrTag, AskDefault, RemoveDefault, AskUnsplit, TXConfirm, TXCancel,
                  OpenSplit, CloseSplit, EditRows, SaveSplit, RowsBecome, txHistory
    <3>2. QED
      BY <1>2, <2>2, <3>1, UserKeepsCalm DEF TXInv
  <2>3. CASE \E i \in DOMAIN txNet : TXServe(i)
    <3>1. txCalm
      BY <1>2, <2>3 DEF TXServe
    <3>2. QED
      BY <1>2, <2>3, <3>1, ServeKeepsCalm DEF TXInv
  <2>4. CASE \E i \in DOMAIN txNet : TXAnswer(i)
    <3>1. txCalm
      BY <1>2, <2>4 DEF TXAnswer
    <3>2. QED
      BY <1>2, <2>4, <3>1, AnswerKeepsCalm DEF TXInv
  <2>5. CASE BankChanges \/ \E i \in DOMAIN txNet : TXFail(i)
    BY <1>2, <2>5 DEF BankChanges, TXFail
  <2>6. QED
    BY <2>1, <2>2, <2>3, <2>4, <2>5 DEF TXNext
<1>3. QED
  BY <1>1, <1>2 DEF TXInv

LEMMA TXInvariant == TXSpec => []TXInv
<1>1. TXInit => TXInv
  BY SplitInit, TXTypedInit, CalmInit DEF TXInv
<1>2. QED
  BY <1>1, TXInvStep, PTL DEF TXSpec

(* Type correctness of the page: whatever is typed, added, removed or filled *)
(* with the remainder, the rows of the dialog are from two to MaxRows.       *)
THEOREM TransactionTypeCorrect == TXSpec => []TXTypeOK
<1>1. TXInv => TXTypeOK
  <2> SUFFICES ASSUME TXTyped PROVE TXTypeOK
    BY DEF TXInv
  <2>1. tx # NotOpen => tx.tags \subseteq TagRows /\ tx.defaults \subseteq TxTags /\ tx.amount \in Int
    BY HoldingIs DEF TXTyped
  <2>2. txSplit # NotOpen => tx # NotOpen /\ Len(txSplit) \in 2..MaxRows
    BY DEF TXTyped, SplitTyped, Fitting
  <2>3. QED
    BY <2>1, <2>2 DEF TXTyped, TXTypeOK
<1>2. QED
  BY <1>1, TXInvariant, PTL

(* At rest the page holds the server's transaction, after edits, tags,       *)
(* splits and default tags in any combination, but for the rows and the      *)
(* category that default tags applied to all gave it since an answer last    *)
(* brought it whole: so long as all came in order, nothing failed, nobody    *)
(* else changed it and no answer was put into an older transaction than the  *)
(* one held.                                                                 *)
THEOREM TransactionSettles == TXSpec => []TransactionSettled
<1>1. TXInv => TransactionSettled
  <2> SUFFICES ASSUME TXInv, txNet = << >>, txCalm, txWhole
               PROVE  AsKnown(tx, txApplied) = AsKnown(txStore, txApplied)
    BY DEF TransactionSettled
  <2>1. Len(txNet) = 0 /\ DOMAIN txNet = {}
    <3>1. Len(txNet) \in Nat /\ DOMAIN txNet = 1..Len(txNet) /\ Len(txNet) = 0
      BY QueueShape DEF TXInv, SplitInv
    <3>2. QED
      BY <3>1
  <2>2. ServedUpTo(0) /\ 0 \in 0..Len(txNet)
    BY <2>1 DEF ServedUpTo
  <2>3. tx # NotOpen
    BY <2>1 DEF TXInv, CalmTransaction, FirstBrings
  <2>4. QED
    BY <2>2, <2>3 DEF TXInv, CalmTransaction, WillHold, Agrees, HeldAfter
<1>2. QED
  BY <1>1, TXInvariant, PTL

(* No two rows of the dialog have the same key, after any sequence of        *)
(* additions and removals: an amount typed, or a row removed, is that row's  *)
(* alone.                                                                    *)
THEOREM RowsApart == TXSpec => []RowKeysApart
<1>1. TXInv => RowKeysApart
  BY KeysCounted DEF TXInv, TXTyped, RowKeysApart
<1>2. QED
  BY <1>1, TXInvariant, PTL

-----------------------------------------------------------------------------
(* The page of the categories: its types. *)

ChangeTyped(c) ==
  /\ c.seen \in Tree
  /\ c.do # "create" => c.id \in Tags
  /\ c.do \in {"create", "edit"} => c.type \in TagTypes
  /\ c.do \in {"create", "edit", "budget"} => c.budget \in BOOLEAN

CSRequestTyped(q) ==
  /\ q \in [kind : {"load", "change"}, range : Ranges, then : {"effect", "note", "modal"}, change : {q.change},
            served : BOOLEAN, answer : Tree]
  /\ q.kind = "change" => ChangeTyped(q.change)

CSTyped ==
  /\ TreeTypeOK /\ csFresh \subseteq Tags
  /\ csRange \in Ranges /\ csFlat.d \in Tree /\ csFlat.range \in Ranges
  /\ csLoading \in BOOLEAN /\ csSaving \in BOOLEAN /\ csErrors \in BOOLEAN
  /\ csModal # Closed => csModal.id \in Tags \cup {None} /\ csModal.seen \in Tree
  /\ csDrag \in Tags \cup {Closed}
  /\ csConfirm # Closed => csConfirm.do \in {"move", "delete"} /\ ChangeTyped(csConfirm)
  /\ \A i \in DOMAIN csNet : CSRequestTyped(csNet[i])
  /\ csSent \in Nat /\ Len(csNet) <= csSent
  /\ csCalm \in BOOLEAN

-----------------------------------------------------------------------------
(* The page of the categories at rest. *)

(* Who waits for a change is not the effect, and all but the effect's loads  *)
(* are for the range that is chosen.                                         *)
OneRange ==
  \A i \in DOMAIN csNet :
    /\ csNet[i].kind = "change" => csNet[i].then # "effect"
    /\ csNet[i].then # "effect" => csNet[i].range = csRange

(* So is the last of all. *)
LastInRange == Len(csNet) # 0 => csNet[Len(csNet)].range = csRange

(* A load brings the server's forest, but for changes that will be followed  *)
(* by a load.                                                                *)
LoadsNew ==
  \A i \in DOMAIN csNet :
    csNet[i].kind = "load" /\ csNet[i].served =>
      \/ csNet[i].answer = tree
      \/ \E j \in DOMAIN csNet : i < j /\ csNet[j].kind = "change" /\ csNet[j].served

ShownInTurn == \A i, j \in DOMAIN csNet : i < j /\ csNet[j].served => csNet[i].served

CalmCategories ==
  /\ OneRange /\ LastInRange /\ LoadsNew /\ ShownInTurn
  /\ Len(csNet) = 0 => csFlat = [d |-> tree, range |-> csRange]

CSInv == Queue(csNet) /\ CSTyped /\ (csCalm => CalmCategories)

-----------------------------------------------------------------------------
(* The page of the categories: the columns stay of their types, whatever     *)
(* parent a category is given.                                               *)

LEMMA BeforeSaveTable ==
  ASSUME NEW d \in Tree, NEW t \in Tags
  PROVE  BeforeSave(d, t) \in Tree
<1> DEFINE p == d.parent[t]
           isLeaf == Children(d, t) = {}
           budget == d.budget[t] /\ isLeaf
           type == IF p = None THEN d.type[t] ELSE d.type[p]
<1>1. type \in TagTypes /\ isLeaf \in BOOLEAN /\ budget \in BOOLEAN
  BY DEF Tree
<1>2. BeforeSave(d, t) = [d EXCEPT !.leaf[t] = isLeaf, !.budget[t] = budget, !.type[t] = type]
  BY DEF BeforeSave
<1> HIDE DEF type, isLeaf, budget
<1>3. /\ [d.leaf EXCEPT ![t] = isLeaf] \in [Tags -> BOOLEAN]
      /\ [d.budget EXCEPT ![t] = budget] \in [Tags -> BOOLEAN]
      /\ [d.type EXCEPT ![t] = type] \in [Tags -> TagTypes]
  BY <1>1 DEF Tree
<1>4. BeforeSave(d, t) = [tags |-> d.tags, parent |-> d.parent, type |-> [d.type EXCEPT ![t] = type],
                          leaf |-> [d.leaf EXCEPT ![t] = isLeaf], budget |-> [d.budget EXCEPT ![t] = budget]]
  BY <1>2 DEF Tree
<1>5. QED
  BY <1>3, <1>4 DEF Tree

LEMMA CascadeTable ==
  ASSUME NEW d \in Tree, NEW t \in Tags, NEW oldType
  PROVE  Cascade(d, t, oldType) \in Tree
<1> DEFINE types == [u \in Tags |-> IF u \in Below(d, t) THEN d.type[t] ELSE d.type[u]]
<1>1. types \in [Tags -> TagTypes]
  BY DEF Tree
<1>2. Cascade(d, t, oldType) = IF d.type[t] = oldType THEN d ELSE [d EXCEPT !.type = types]
  BY DEF Cascade
<1> HIDE DEF types
<1>3. QED
  BY <1>1, <1>2 DEF Tree

LEMMA ResaveTable ==
  ASSUME NEW d \in Tree, NEW p
  PROVE  Resave(d, p) \in Tree
<1>1. CASE p \in d.tags
  <2>1. p \in Tags
    BY <1>1 DEF Tree
  <2>2. BeforeSave(d, p) \in Tree
    BY <2>1, BeforeSaveTable
  <2>3. QED
    BY <1>1, <2>1, <2>2, CascadeTable DEF Resave
<1>2. CASE p \notin d.tags
  BY <1>2 DEF Resave
<1>3. QED
  BY <1>1, <1>2

LEMMA SaveTable ==
  ASSUME NEW d \in Tree, NEW t \in Tags, NEW from
  PROVE  Save(d, t, from) \in Tree
<1> DEFINE b == BeforeSave(d, t)
           c == SyncParents(b, from.parent, d.parent[t])
<1>1. b \in Tree
  BY BeforeSaveTable
<1> HIDE DEF b
<1>2. c \in Tree
  BY <1>1, ResaveTable DEF SyncParents
<1>3. Save(d, t, from) = Cascade(c, t, from.type)
  BY DEF Save, b
<1> HIDE DEF c
<1>4. QED
  BY <1>2, <1>3, CascadeTable

LEMMA ActsTyped ==
  ASSUME TreeTypeOK, csFresh \subseteq Tags, NEW q, ChangeTyped(q), Acts(q)
  PROVE  TreeTypeOK' /\ csFresh' \subseteq Tags
<1>1. tree \in Tree /\ label \in [Things -> Tags \cup {None}] /\ tree.tags \subseteq Tags
  BY DEF TreeTypeOK, Tree
<1>2. CASE q.do = "create"
  <2>1. PICK t \in csFresh : Create(t, q.parent, q.type, q.budget) /\ csFresh' = csFresh \ {t}
    BY <1>2 DEF Acts
  <2> DEFINE d == [tree EXCEPT !.tags = @ \cup {t}, !.parent[t] = q.parent, !.type[t] = q.type,
                               !.budget[t] = q.budget]
             from == [parent |-> None, type |-> q.type]
  <2>2. t \in Tags /\ q.parent \in Tags \cup {None} /\ q.type \in TagTypes /\ q.budget \in BOOLEAN
    BY <1>1, <1>2, <2>1 DEF Create, ChangeTyped
  <2>3. d \in Tree
    BY <1>1, <2>2 DEF Tree
  <2>4. tree' = Save(d, t, from) /\ label' = label
    BY <2>1 DEF Create
  <2> HIDE DEF d, from
  <2>5. QED
    BY <1>1, <2>1, <2>2, <2>3, <2>4, SaveTable DEF TreeTypeOK
<1>3. CASE q.do = "delete"
  <2> DEFINE t == q.id
             d == Promote(tree, t)
  <2>1. t \in Tags /\ Destroy(t) /\ csFresh' = csFresh
    BY <1>3 DEF Acts, ChangeTyped
  <2>2. d \in Tree
    <3> DEFINE parents == [u \in Tags |-> IF u \in Children(tree, t) THEN tree.parent[t] ELSE tree.parent[u]]
    <3>1. parents \in [Tags -> Tags \cup {None}]
      BY <1>1, <2>1 DEF Tree
    <3>2. d = [tree EXCEPT !.parent = parents]
      BY DEF Promote
    <3> HIDE DEF parents
    <3>3. QED
      BY <1>1, <3>1, <3>2 DEF Tree
  <2> HIDE DEF d, t
  <2>3. Erase(d, t) \in Tree
    BY <2>1, <2>2 DEF Erase, Tree
  <2>4. tree' \in Tree
    BY <2>1, <2>3, ResaveTable DEF Destroy, d
  <2>5. label' \in [Things -> Tags \cup {None}]
    BY <1>1, <2>1 DEF Destroy, Unlabel
  <2>6. QED
    BY <2>1, <2>4, <2>5 DEF TreeTypeOK
<1>4. CASE q.do \in {"move", "budget", "edit"}
  <2> DEFINE d == CASE q.do = "move"   -> [tree EXCEPT !.parent[q.id] = q.parent]
                    [] q.do = "budget" -> [tree EXCEPT !.budget[q.id] = q.budget]
                    [] OTHER           -> [tree EXCEPT !.parent[q.id] = q.parent, !.type[q.id] = q.type,
                                                       !.budget[q.id] = q.budget]
             from == Loaded(tree, q.id)
  <2>1. /\ q.id \in Tags /\ (q.do # "budget" => q.parent \in Tags \cup {None})
        /\ tree' = Save(d, q.id, from) /\ label' = label /\ csFresh' = csFresh
    BY <1>1, <1>4 DEF Acts, Updated
  <2>2. /\ q.do = "edit" => q.type \in TagTypes
        /\ q.do \in {"edit", "budget"} => q.budget \in BOOLEAN
    BY DEF ChangeTyped
  <2>3. d \in Tree
    <3>1. CASE q.do = "move"
      BY <1>1, <2>1, <3>1 DEF Tree
    <3>2. CASE q.do = "budget"
      BY <1>1, <2>1, <2>2, <3>2 DEF Tree
    <3>3. CASE q.do = "edit"
      BY <1>1, <2>1, <2>2, <3>3 DEF Tree
    <3>4. QED
      BY <1>4, <3>1, <3>2, <3>3
  <2> HIDE DEF d, from
  <2>4. QED
    BY <1>1, <2>1, <2>3, SaveTable DEF TreeTypeOK
<1>5. QED
  BY <1>2, <1>3, <1>4 DEF Acts

-----------------------------------------------------------------------------
(* The page of the categories: the initial state, and the steps of the user. *)

LEMMA CSInitInv == CSInit => CSInv
<1> SUFFICES ASSUME CSInit PROVE CSInv
  OBVIOUS
<1> DEFINE q == CSLoad(csRange, "effect")
<1>1. TreeInv /\ csFresh \subseteq Tags
  BY StartSound DEF AsShown
<1>2. TreeTypeOK
  BY <1>1 DEF CSInit, TreeInv, Sound, TreeTypeOK
<1>3. EmptyTree \in Tree
  BY EmptySound DEF Sound
<1>4. csRange \in Ranges
  BY RangesAssumption DEF CSInit
<1>5. CSRequestTyped(q) /\ ~q.served /\ q.kind = "load" /\ q.then = "effect" /\ q.range = csRange
  BY <1>3, <1>4 DEF CSRequestTyped, CSLoad, CSRequest
<1>6. csNet = <<q>>
  BY DEF CSInit
<1> HIDE DEF q
<1>7. Queue(csNet) /\ Len(csNet) = 1 /\ DOMAIN csNet = {1} /\ csNet[1] = q
  BY <1>6, OneQueued
<1>8. CSTyped
  <2>1. csFlat.d \in Tree /\ csFlat.range \in Ranges
    BY <1>3, <1>4 DEF CSInit
  <2>2. \A i \in DOMAIN csNet : CSRequestTyped(csNet[i])
    BY <1>5, <1>7
  <2>3. csSent \in Nat /\ Len(csNet) <= csSent
    BY <1>7 DEF CSInit
  <2>4. QED
    BY <1>1, <1>2, <1>4, <2>1, <2>2, <2>3 DEF CSInit, CSTyped
<1>9. CalmCategories
  BY <1>5, <1>7 DEF CalmCategories, OneRange, LastInRange, LoadsNew, ShownInTurn
<1>10. QED
  BY <1>7, <1>8, <1>9 DEF CSInv

(* One more request, not served yet, for the range chosen. *)
LEMMA CSMore ==
  ASSUME NEW net, Queue(net), NEW q, CSRequestTyped(q),
         \A i \in DOMAIN net : CSRequestTyped(net[i]),
         csNet' = Append(net, q)
  PROVE  /\ Queue(csNet') /\ Len(csNet') = Len(net) + 1 /\ Len(net) \in Nat
         /\ \A i \in DOMAIN csNet' : CSRequestTyped(csNet'[i])
<1>1. /\ Queue(csNet') /\ Len(net) \in Nat /\ DOMAIN net = 1..Len(net)
      /\ DOMAIN csNet' = 1..(Len(net) + 1) /\ Len(csNet') = Len(net) + 1
      /\ \A j \in 1..Len(net) : csNet'[j] = net[j]
      /\ csNet'[Len(net) + 1] = q
  BY Queued
<1>2. QED
  BY <1>1

(* The user, or the answer to a change, sends it. *)
LEMMA CSMoreCalm ==
  ASSUME CSInv, CalmCategories, NEW q, csNet' = Append(csNet, q), ~q.served,
         q.kind = "change" => q.then # "effect", q.range = csRange',
         csRange' = csRange \/ \A i \in DOMAIN csNet : csNet[i].then = "effect",
         UNCHANGED tree
  PROVE  CalmCategories'
<1> DEFINE m == Len(csNet)
<1>1. /\ m \in Nat /\ DOMAIN csNet = 1..m /\ DOMAIN csNet' = 1..(m + 1) /\ Len(csNet') = m + 1
      /\ \A j \in 1..m : csNet'[j] = csNet[j]
      /\ csNet'[m + 1] = q
  BY Queued DEF CSInv
<1> HIDE DEF m
<1>2. OneRange'
  BY <1>1 DEF CalmCategories, OneRange
<1>3. LastInRange' /\ Len(csNet') # 0
  BY <1>1 DEF LastInRange
<1>4. LoadsNew'
  <2>1. \A i \in 1..m : csNet'[i].kind = "load" /\ csNet'[i].served =>
          csNet'[i].answer = tree' \/ \E j \in 1..m : i < j /\ csNet'[j].kind = "change" /\ csNet'[j].served
    BY <1>1 DEF CalmCategories, LoadsNew
  <2>2. \A j \in 1..m : j \in 1..(m + 1)
    BY <1>1
  <2>3. \A i \in 1..(m + 1) : i \in 1..m \/ ~csNet'[i].served
    BY <1>1
  <2>4. QED
    BY <1>1, <2>1, <2>2, <2>3 DEF LoadsNew
<1>5. ShownInTurn'
  BY <1>1 DEF CalmCategories, ShownInTurn
<1>6. QED
  BY <1>2, <1>3, <1>4, <1>5 DEF CalmCategories

LEMMA CSStays ==
  ASSUME CalmCategories, UNCHANGED <<csRange, csFlat, csNet, tree>>
  PROVE  CalmCategories'
  BY DEF CalmCategories, OneRange, LastInRange, LoadsNew, ShownInTurn

(* Asking for a change. *)
LEMMA MutateKeeps ==
  ASSUME CSInv, NEW change, ChangeTyped(change), NEW then \in {"note", "modal"}, Mutate(change, then),
         UNCHANGED <<csRange, csFlat, csLoading, csDrag, csServer, csHistory>>, csErrors' \in BOOLEAN,
         csModal' = csModal, csConfirm' = csConfirm \/ csConfirm' = Closed
  PROVE  CSInv'
<1> DEFINE q == CSRequest("change", csRange, then, change)
<1>1. csNet' = Append(csNet, q) /\ csSaving' = TRUE /\ csSent' = csSent + 1 /\ UNCHANGED <<tree, label, csFresh, csCalm>>
  BY DEF Mutate, CSSend, csServer, treeVars, csHistory
<1>2. CSRequestTyped(q)
  BY EmptySound DEF CSInv, CSTyped, CSRequestTyped, CSRequest, Sound
<1>3. ~q.served /\ q.then # "effect" /\ q.range = csRange
  BY DEF CSRequest
<1> HIDE DEF q
<1>4. /\ Queue(csNet') /\ Len(csNet') = Len(csNet) + 1 /\ Len(csNet) \in Nat
      /\ \A i \in DOMAIN csNet' : CSRequestTyped(csNet'[i])
  BY <1>1, <1>2, CSMore DEF CSInv, CSTyped
<1>5. csSent' \in Nat /\ Len(csNet') <= csSent'
  BY <1>1, <1>4 DEF CSInv, CSTyped
<1>6. CSTyped'
  BY <1>1, <1>4, <1>5 DEF CSInv, CSTyped, TreeTypeOK
<1>7. csCalm' => CalmCategories'
  BY <1>1, <1>3, CSMoreCalm DEF CSInv
<1>8. QED
  BY <1>4, <1>6, <1>7 DEF CSInv

\* What is drawn is of the list.
LEMMA DrawnListed ==
  ASSUME NEW d \in Tree
  PROVE  DrawnTags(d) \subseteq d.tags /\ d.tags \subseteq Tags
  BY DEF DrawnTags, Roots, Descendants, Below, Tree

LEMMA CSUserKeeps ==
  ASSUME CSInv,
         \/ SetRange \/ StartDrag \/ EndDrag \/ DropOn \/ AskDelete \/ CSConfirm \/ CSCancel
         \/ OpenModal \/ CSCloseModal \/ SaveModal \/ SaveBudget
  PROVE  CSInv'
<1>1. csFlat.d \in Tree /\ DrawnTags(csFlat.d) \subseteq Tags /\ csFlat.d.tags \subseteq Tags
  BY DrawnListed DEF CSInv, CSTyped
<1>2. CASE SetRange
  <2>1. PICK range \in Ranges \ {csRange} : csRange' = range /\ CSSend(CSLoad(range, "effect"))
    BY <1>2 DEF SetRange
  <2> DEFINE q == CSLoad(range, "effect")
  <2>2. csNet' = Append(csNet, q) /\ csSent' = csSent + 1
    BY <2>1 DEF CSSend
  <2>3. CSRequestTyped(q) /\ ~q.served /\ q.kind = "load" /\ q.range = csRange'
    BY <2>1, EmptySound DEF CSRequestTyped, CSLoad, CSRequest, Sound
  <2> HIDE DEF q
  <2>4. /\ Queue(csNet') /\ Len(csNet') = Len(csNet) + 1 /\ Len(csNet) \in Nat
        /\ \A i \in DOMAIN csNet' : CSRequestTyped(csNet'[i])
    BY <2>2, <2>3, CSMore DEF CSInv, CSTyped
  <2>5. csSent' \in Nat /\ Len(csNet') <= csSent'
    BY <2>2, <2>4 DEF CSInv, CSTyped
  <2>6. csLoading' = TRUE /\ UNCHANGED <<csFlat, csSaving, csModal, csErrors, csDrag, csConfirm, tree, label, csFresh>>
    BY <1>2 DEF SetRange, csDialogs, csServer, treeVars
  <2>7. csCalm' \in BOOLEAN /\ (csCalm' => csCalm /\ \A i \in DOMAIN csNet : csNet[i].then = "effect")
    BY <1>2 DEF SetRange, CSInv, CSTyped
  <2>8. CSTyped'
    BY <2>1, <2>4, <2>5, <2>6, <2>7 DEF CSInv, CSTyped, TreeTypeOK
  <2>9. csCalm' => CalmCategories'
    BY <2>2, <2>3, <2>6, <2>7, CSMoreCalm DEF CSInv
  <2>10. QED
    BY <2>4, <2>8, <2>9 DEF CSInv
<1>3. ASSUME UNCHANGED <<csRange, csFlat, csLoading, csSaving, csNet, csSent, tree, label, csFresh, csCalm>>,
             csErrors' \in BOOLEAN, csDrag' \in Tags \cup {Closed},
             csModal' # Closed => csModal'.id \in Tags \cup {None} /\ csModal'.seen \in Tree,
             csConfirm' # Closed => csConfirm'.do \in {"move", "delete"} /\ ChangeTyped(csConfirm')
      PROVE  CSInv'
  <2>1. CSTyped'
    BY <1>3 DEF CSInv, CSTyped, TreeTypeOK
  <2>2. QED
    BY <1>3, <2>1, CSStays DEF CSInv
<1>4. CASE StartDrag \/ EndDrag \/ CSCancel \/ CSCloseModal
  <2>1. UNCHANGED <<csRange, csFlat, csLoading, csSaving, csNet, csSent, tree, label, csFresh, csCalm>>
    BY <1>4 DEF StartDrag, EndDrag, CSCancel, CSCloseModal, csPage, csServer, csHistory, treeVars
  <2>2. csDrag' \in Tags \cup {Closed} /\ csErrors' \in BOOLEAN
    BY <1>1, <1>4 DEF StartDrag, EndDrag, CSCancel, CSCloseModal, CSInv, CSTyped
  <2>3. (csModal' = csModal \/ csModal' = Closed) /\ (csConfirm' = csConfirm \/ csConfirm' = Closed)
    BY <1>4 DEF StartDrag, EndDrag, CSCancel, CSCloseModal
  <2>4. QED
    BY <1>3, <2>1, <2>2, <2>3 DEF CSInv, CSTyped
<1>5. CASE DropOn
  <2>1. PICK target \in DrawnTags(csFlat.d) \cup {None} :
          csConfirm' = [do |-> "move", id |-> csDrag, parent |-> target, seen |-> csFlat.d]
    BY <1>5 DEF DropOn
  <2>2. csDrag \in Tags
    BY <1>5 DEF DropOn, CSInv, CSTyped
  <2>3. csConfirm'.do = "move" /\ ChangeTyped(csConfirm')
    BY <1>1, <2>1, <2>2 DEF ChangeTyped
  <2>4. /\ UNCHANGED <<csRange, csFlat, csLoading, csSaving, csNet, csSent, tree, label, csFresh, csCalm>>
        /\ csDrag' = Closed /\ UNCHANGED <<csModal, csErrors>>
    BY <1>5 DEF DropOn, csPage, csServer, csHistory, treeVars
  <2>5. QED
    BY <1>3, <2>3, <2>4 DEF CSInv, CSTyped
<1>6. CASE AskDelete
  <2>1. PICK t \in DrawnTags(csFlat.d) :
          csConfirm' = [do |-> "delete", id |-> t, parent |-> None, seen |-> csFlat.d]
    BY <1>6 DEF AskDelete
  <2>2. csConfirm'.do = "delete" /\ ChangeTyped(csConfirm')
    BY <1>1, <2>1 DEF ChangeTyped
  <2>3. /\ UNCHANGED <<csRange, csFlat, csLoading, csSaving, csNet, csSent, tree, label, csFresh, csCalm>>
        /\ UNCHANGED <<csModal, csErrors, csDrag>>
    BY <1>6 DEF AskDelete, csPage, csServer, csHistory, treeVars
  <2>4. QED
    BY <1>3, <2>2, <2>3 DEF CSInv, CSTyped
<1>7. CASE OpenModal
  <2>1. csModal'.id \in Tags \cup {None} /\ csModal'.seen \in Tree
    BY <1>1, <1>7 DEF OpenModal
  <2>2. /\ UNCHANGED <<csRange, csFlat, csLoading, csSaving, csNet, csSent, tree, label, csFresh, csCalm>>
        /\ csErrors' = FALSE /\ UNCHANGED <<csDrag, csConfirm>>
    BY <1>7 DEF OpenModal, csPage, csServer, csHistory, treeVars
  <2>3. QED
    BY <1>3, <2>1, <2>2 DEF CSInv, CSTyped
<1>8. CASE CSConfirm
  <2>1. ChangeTyped(csConfirm) /\ Mutate(csConfirm, "note") /\ csErrors' \in BOOLEAN /\ csConfirm' = Closed
    BY <1>8 DEF CSConfirm, CSInv, CSTyped
  <2>2. UNCHANGED <<csRange, csFlat, csLoading, csModal, csDrag, csServer, csHistory>>
    BY <1>8 DEF CSConfirm
  <2>3. QED
    BY <2>1, <2>2, MutateKeeps
<1>9. CASE SaveModal
  <2>1. PICK parent \in ParentOptions \cup {None}, type \in TagTypes :
          Mutate([do |-> IF csModal.id = None THEN "create" ELSE "edit", id |-> csModal.id,
                  parent |-> parent, type |-> type,
                  budget |-> csModal.id = None \/ csModal.seen.budget[csModal.id], seen |-> csModal.seen],
                 "modal")
    BY <1>9 DEF SaveModal
  <2> DEFINE change == [do |-> IF csModal.id = None THEN "create" ELSE "edit", id |-> csModal.id,
                        parent |-> parent, type |-> type,
                        budget |-> csModal.id = None \/ csModal.seen.budget[csModal.id], seen |-> csModal.seen]
  <2>2. csModal.id \in Tags \cup {None} /\ csModal.seen \in Tree
    BY <1>9 DEF SaveModal, CSInv, CSTyped
  <2>3. (csModal.id = None \/ csModal.seen.budget[csModal.id]) \in BOOLEAN
    OBVIOUS
  <2>4. ChangeTyped(change)
    BY <2>2, <2>3 DEF ChangeTyped
  <2>5. Mutate(change, "modal") /\ csErrors' = FALSE
    BY <1>9, <2>1 DEF SaveModal
  <2>6. UNCHANGED <<csRange, csFlat, csLoading, csModal, csDrag, csConfirm, csServer, csHistory>>
    BY <1>9 DEF SaveModal
  <2> HIDE DEF change
  <2>7. QED
    BY <2>4, <2>5, <2>6, MutateKeeps
<1>10. CASE SaveBudget
  <2>1. PICK t \in DrawnTags(csFlat.d) :
          Mutate([do |-> "budget", id |-> t, budget |-> ~csFlat.d.budget[t], seen |-> csFlat.d], "note")
    BY <1>10 DEF SaveBudget
  <2> DEFINE change == [do |-> "budget", id |-> t, budget |-> ~csFlat.d.budget[t], seen |-> csFlat.d]
  <2>2. ChangeTyped(change)
    BY <1>1, <2>1 DEF ChangeTyped
  <2>3. Mutate(change, "note")
    BY <2>1
  <2>4. UNCHANGED <<csRange, csFlat, csLoading, csModal, csErrors, csDrag, csConfirm, csServer, csHistory>>
    BY <1>10 DEF SaveBudget, csDialogs
  <2> HIDE DEF change
  <2>5. QED
    BY <2>2, <2>3, <2>4, MutateKeeps DEF CSInv, CSTyped
<1>11. QED
  BY <1>2, <1>4, <1>5, <1>6, <1>7, <1>8, <1>9, <1>10

-----------------------------------------------------------------------------
(* The page of the categories: requests. *)

LEMMA CSServeKeeps ==
  ASSUME CSInv, NEW k \in DOMAIN csNet, CSServe(k)
  PROVE  CSInv'
<1> DEFINE m == Len(csNet)
           q == csNet[k]
           e == [q EXCEPT !.served = TRUE, !.answer = tree]
<1>1. /\ ~q.served /\ csNet' = [csNet EXCEPT ![k] = e]
      /\ UNCHANGED <<csRange, csFlat, csLoading, csSaving, csModal, csErrors, csDrag, csConfirm, csSent>>
      /\ csCalm' = (csCalm /\ \A j \in 1..(k - 1) : csNet[j].served)
  BY DEF CSServe, csPage, csDialogs
<1>2. CSRequestTyped(q) /\ tree \in Tree
  BY DEF CSInv, CSTyped, TreeTypeOK
<1>3. /\ CSRequestTyped(e) /\ e.served /\ e.answer = tree
      /\ e.kind = q.kind /\ e.then = q.then /\ e.range = q.range
  BY <1>2 DEF CSRequestTyped
<1>4. TreeTypeOK' /\ csFresh' \subseteq Tags /\ (q.kind = "load" => tree' = tree)
  <2>1. CASE q.kind = "load"
    BY <2>1 DEF CSServe, csServer, treeVars, CSInv, CSTyped, TreeTypeOK
  <2>2. CASE q.kind # "load"
    <3>1. ChangeTyped(q.change) /\ Acts(q.change)
      BY <1>2, <2>2 DEF CSRequestTyped, CSServe
    <3>2. QED
      BY <2>2, <3>1, ActsTyped DEF CSInv, CSTyped
  <2>3. QED
    BY <2>1, <2>2
<1> HIDE DEF e
<1>5. /\ Queue(csNet') /\ m \in Nat /\ DOMAIN csNet = 1..m /\ DOMAIN csNet' = 1..m /\ Len(csNet') = m
      /\ \A j \in 1..m : csNet'[j] = IF j = k THEN e ELSE csNet[j]
  <2>1. Queue(csNet) /\ csNet' = [csNet EXCEPT ![k] = e]
    BY <1>1 DEF CSInv
  <2>2. QED
    BY ZenonT(30), <2>1, ChangedInQueue
<1>6. \A j \in DOMAIN csNet' : CSRequestTyped(csNet'[j])
  BY <1>3, <1>5 DEF CSInv, CSTyped
<1>7. CSTyped'
  BY <1>1, <1>4, <1>5, <1>6 DEF CSInv, CSTyped
<1> HIDE DEF m
<1>8. ASSUME csCalm' PROVE CalmCategories'
  <2>1. CalmCategories
    BY <1>1, <1>8 DEF CSInv
  <2>2. k \in 1..m /\ \A j \in 1..m : csNet[j].served <=> j < k
    <3>1. k \in 1..m /\ \A j \in 1..m : j < k => j \in 1..(k - 1)
      BY <1>5
    <3>2. \A j \in 1..m : j < k => csNet[j].served
      BY <1>1, <1>8, <3>1
    <3>3. ~csNet[k].served /\ \A j \in 1..m : k < j /\ csNet[j].served => csNet[k].served
      BY <1>1, <1>5, <2>1 DEF CalmCategories, ShownInTurn
    <3>4. \A j \in 1..m : j < k \/ j = k \/ k < j
      BY <1>5
    <3>5. QED
      BY <3>1, <3>2, <3>3, <3>4
  <2>3. OneRange'
    BY <1>1, <1>3, <1>5, <2>1 DEF CalmCategories, OneRange
  <2>4. LastInRange' /\ m # 0
    <3>1. m \in 1..m
      BY <1>5, <2>2
    <3>2. csNet'[m].range = csNet[m].range
      BY <1>3, <1>5, <3>1
    <3>3. QED
      BY <1>1, <1>5, <2>1, <3>1, <3>2 DEF CalmCategories, LastInRange, m
  <2>5. ShownInTurn'
    <3>1. \A j \in 1..m : csNet'[j].served <=> j <= k
      BY <1>3, <1>5, <2>2
    <3>2. QED
      BY <1>5, <3>1 DEF ShownInTurn
  <2>6. LoadsNew'
    <3> SUFFICES ASSUME NEW i \in 1..m, csNet'[i].kind = "load", csNet'[i].served
                 PROVE  \/ csNet'[i].answer = tree'
                        \/ \E j \in 1..m : i < j /\ csNet'[j].kind = "change" /\ csNet'[j].served
      BY <1>5 DEF LoadsNew
    <3>1. CASE i = k
      BY <1>3, <1>4, <1>5, <3>1
    <3>2. CASE i # k
      <4>1. i < k /\ csNet'[i] = csNet[i] /\ csNet[i].served /\ csNet[i].kind = "load"
        BY <1>5, <2>2, <3>2
      <4>2. CASE q.kind = "change"
        BY <1>3, <1>5, <2>2, <4>1, <4>2
      <4>3. CASE q.kind = "load"
        <5>1. \/ csNet[i].answer = tree
              \/ \E j \in 1..m : i < j /\ csNet[j].kind = "change" /\ csNet[j].served
          BY <1>5, <2>1, <4>1 DEF CalmCategories, LoadsNew
        <5>2. QED
          BY <1>1, <1>4, <1>5, <4>1, <4>3, <5>1
      <4>4. QED
        BY <1>2, <4>2, <4>3 DEF CSRequestTyped
    <3>3. QED
      BY <3>1, <3>2
  <2>7. QED
    BY <1>5, <2>3, <2>4, <2>5, <2>6 DEF CalmCategories
<1>9. QED
  BY <1>5, <1>7, <1>8 DEF CSInv

(* The first of the requests has been answered: the others stay as they are. *)
LEMMA FirstAnswered ==
  ASSUME CSInv, NEW i \in DOMAIN csNet, i = 1, CalmCategories,
         NEW net, net = RemoveAt(csNet, i)
  PROVE  /\ Queue(net) /\ Len(net) = Len(csNet) - 1 /\ DOMAIN net = 1..(Len(csNet) - 1)
         /\ Len(csNet) \in Nat \ {0} /\ DOMAIN csNet = 1..Len(csNet)
         /\ \A j \in DOMAIN net : net[j] = csNet[j + 1] /\ j + 1 \in DOMAIN csNet
         /\ \A j \in DOMAIN net : net[j].kind = "load" /\ net[j].served =>
              net[j].answer = tree \/ \E k \in DOMAIN net : j < k /\ net[k].kind = "change" /\ net[k].served
<1> DEFINE m == Len(csNet)
<1>1. /\ Queue(net) /\ m \in Nat \ {0} /\ DOMAIN csNet = 1..m /\ DOMAIN net = 1..(m - 1) /\ Len(net) = m - 1
      /\ \A j \in 1..(m - 1) : net[j] = IF j < 1 THEN csNet[j] ELSE csNet[j + 1]
  BY Unqueued DEF CSInv
<1> HIDE DEF m
<1>2. \A j \in 1..(m - 1) : net[j] = csNet[j + 1] /\ j + 1 \in 1..m
  BY <1>1
<1>3. ASSUME NEW j \in 1..(m - 1), net[j].kind = "load", net[j].served, net[j].answer # tree
      PROVE  \E k \in 1..(m - 1) : j < k /\ net[k].kind = "change" /\ net[k].served
  <2>1. PICK h \in 1..m : j + 1 < h /\ csNet[h].kind = "change" /\ csNet[h].served
    BY <1>1, <1>2, <1>3 DEF CalmCategories, LoadsNew
  <2>2. h - 1 \in 1..(m - 1) /\ j < h - 1 /\ (h - 1) + 1 = h
    BY <1>1, <2>1
  <2>3. net[h - 1] = csNet[h]
    BY <1>2, <2>2
  <2>4. QED
    BY <2>1, <2>2, <2>3
<1>4. QED
  BY <1>1, <1>2, <1>3 DEF m

LEMMA CSAnswerTyped ==
  ASSUME CSInv, NEW i \in DOMAIN csNet, CSAnswer(i) \/ CSFail(i)
  PROVE  Queue(csNet') /\ CSTyped'
<1> DEFINE m == Len(csNet)
           q == csNet[i]
           net == RemoveAt(csNet, i)
<1>1. CSRequestTyped(q)
  BY DEF CSInv, CSTyped
<1>2. Queue(net) /\ m \in Nat /\ Len(net) = m - 1 /\ \A j \in DOMAIN net : CSRequestTyped(net[j])
  <2>1. /\ Queue(net) /\ m \in Nat \ {0} /\ DOMAIN csNet = 1..m /\ DOMAIN net = 1..(m - 1) /\ Len(net) = m - 1
        /\ \A j \in 1..(m - 1) : net[j] = IF j < i THEN csNet[j] ELSE csNet[j + 1]
    BY Unqueued DEF CSInv
  <2> HIDE DEF net
  <2>2. \A j \in 1..(m - 1) : j \in 1..m /\ j + 1 \in 1..m
    BY <2>1
  <2>3. \A j \in DOMAIN csNet : CSRequestTyped(csNet[j])
    BY DEF CSInv, CSTyped
  <2> HIDE DEF m
  <2>4. QED
    BY <2>1, <2>2, <2>3
<1>3. /\ UNCHANGED <<csRange, csDrag, csConfirm, tree, label, csFresh>>
      /\ csCalm' \in BOOLEAN /\ csLoading' \in BOOLEAN /\ csSaving' \in BOOLEAN /\ csErrors' \in BOOLEAN
      /\ csModal' = csModal \/ csModal' = Closed
      /\ csFlat' = csFlat \/ csFlat' = [d |-> q.answer, range |-> q.range]
  BY DEF CSAnswer, CSFail, Refreshed, EffectDone, csServer, treeVars, CSInv, CSTyped
<1>4. csFlat'.d \in Tree /\ csFlat'.range \in Ranges
  BY <1>1, <1>3 DEF CSRequestTyped, CSInv, CSTyped
<1>5. Queue(csNet') /\ csSent' \in Nat /\ Len(csNet') <= csSent' /\ \A j \in DOMAIN csNet' : CSRequestTyped(csNet'[j])
  <2>1. csSent \in Nat /\ m <= csSent
    BY DEF CSInv, CSTyped
  <2>2. CASE csNet' = net /\ csSent' = csSent
    BY <1>2, <2>1, <2>2
  <2>3. CASE q.kind = "change" /\ csNet' = Append(net, CSLoad(q.range, q.then)) /\ csSent' = csSent + 1
    <3> DEFINE e == CSLoad(q.range, q.then)
    <3>1. CSRequestTyped(e)
      BY <1>1, EmptySound DEF CSRequestTyped, CSLoad, CSRequest, Sound
    <3> HIDE DEF e, net
    <3>2. /\ Queue(csNet') /\ Len(csNet') = Len(net) + 1
          /\ \A j \in DOMAIN csNet' : CSRequestTyped(csNet'[j])
      BY <1>2, <2>3, <3>1, CSMore DEF e
    <3> HIDE DEF m
    <3>3. QED
      BY <1>2, <2>1, <2>3, <3>2
  <2>4. QED
    BY <1>1, <2>2, <2>3 DEF CSAnswer, CSFail, CSRequestTyped
<1>6. QED
  BY <1>3, <1>4, <1>5 DEF CSInv, CSTyped, TreeTypeOK

LEMMA CSAnswerCalm ==
  ASSUME CSInv, NEW i \in DOMAIN csNet, CSAnswer(i), csCalm'
  PROVE  CalmCategories'
<1> DEFINE m == Len(csNet)
           q == csNet[i]
           net == RemoveAt(csNet, i)
<1>1. i = 1 /\ csCalm /\ CalmCategories /\ q.served /\ UNCHANGED <<csRange, tree>>
  BY DEF CSAnswer, CSInv, csServer, treeVars
<1>2. CSRequestTyped(q)
  BY DEF CSInv, CSTyped
<1>3. /\ Queue(net) /\ Len(net) = m - 1 /\ DOMAIN net = 1..(m - 1)
      /\ m \in Nat \ {0} /\ DOMAIN csNet = 1..m
      /\ \A j \in 1..(m - 1) : net[j] = csNet[j + 1] /\ j + 1 \in 1..m
      /\ \A j \in 1..(m - 1) : net[j].kind = "load" /\ net[j].served =>
           net[j].answer = tree \/ \E k \in 1..(m - 1) : j < k /\ net[k].kind = "change" /\ net[k].served
  BY <1>1, FirstAnswered
<1> HIDE DEF net, m
<1>4. CASE q.kind = "load"
  <2>1. csNet' = net /\ csFlat' = [d |-> q.answer, range |-> q.range]
    BY <1>4 DEF CSAnswer, Refreshed, net
  <2>2. OneRange'
    BY <1>1, <1>3, <2>1 DEF CalmCategories, OneRange
  <2>3. LastInRange'
    <3> SUFFICES ASSUME m - 1 # 0 PROVE net[m - 1].range = csRange
      BY <1>1, <1>3, <2>1 DEF LastInRange
    <3>1. m - 1 \in 1..(m - 1) /\ (m - 1) + 1 = m
      BY <1>3
    <3>2. net[m - 1] = csNet[m]
      BY <1>3, <3>1
    <3>3. QED
      BY <1>1, <1>3, <3>2 DEF CalmCategories, LastInRange, m
  <2>4. LoadsNew'
    BY <1>1, <1>3, <2>1 DEF LoadsNew
  <2>5. ShownInTurn'
    <3> SUFFICES ASSUME NEW j \in 1..(m - 1), NEW k \in 1..(m - 1), j < k, net[k].served
                 PROVE  net[j].served
      BY <1>3, <2>1 DEF ShownInTurn
    <3>1. j + 1 < k + 1
      OBVIOUS
    <3>2. QED
      BY <1>1, <1>3, <3>1 DEF CalmCategories, ShownInTurn
  <2>6. ASSUME m - 1 = 0 PROVE csFlat' = [d |-> tree, range |-> csRange]
    <3>1. m = 1
      BY <1>3, <2>6
    <3>2. q.answer = tree
      BY <1>1, <1>3, <1>4, <3>1 DEF CalmCategories, LoadsNew
    <3>3. q.range = csRange
      BY <1>1, <3>1 DEF CalmCategories, LastInRange, m
    <3>4. QED
      BY <2>1, <3>2, <3>3
  <2>7. QED
    BY <1>1, <1>3, <2>1, <2>2, <2>3, <2>4, <2>5, <2>6 DEF CalmCategories
<1>5. CASE q.kind = "change"
  <2> DEFINE e == CSLoad(q.range, q.then)
  <2>1. csNet' = Append(net, e)
    BY <1>5 DEF CSAnswer, net
  <2>2. ~e.served /\ e.kind = "load" /\ e.range = csRange
    BY <1>1, <1>5 DEF CSLoad, CSRequest, CalmCategories, OneRange
  <2> HIDE DEF e
  <2>3. /\ DOMAIN csNet' = 1..m /\ Len(csNet') = m
        /\ \A j \in 1..(m - 1) : csNet'[j] = net[j]
        /\ csNet'[m] = e
    <3>1. /\ DOMAIN csNet' = 1..(Len(net) + 1) /\ Len(csNet') = Len(net) + 1
          /\ \A j \in 1..Len(net) : csNet'[j] = net[j]
          /\ csNet'[Len(net) + 1] = e
      BY <1>3, <2>1, Queued
    <3>2. Len(net) = m - 1 /\ Len(net) + 1 = m
      BY <1>3
    <3>3. QED
      BY <3>1, <3>2
  <2>4. \A j \in 1..m : j = m \/ j \in 1..(m - 1)
    BY <1>3
  <2>5. OneRange'
    <3>1. ASSUME NEW j \in 1..m PROVE (csNet'[j].kind = "change" => csNet'[j].then # "effect")
                                     /\ (csNet'[j].then # "effect" => csNet'[j].range = csRange)
      <4>1. CASE j = m
        BY <2>2, <2>3, <4>1
      <4>2. CASE j \in 1..(m - 1)
        <5>1. csNet'[j] = csNet[j + 1] /\ j + 1 \in DOMAIN csNet
          BY <1>3, <2>3, <4>2
        <5>2. QED
          BY <1>1, <5>1 DEF CalmCategories, OneRange
      <4>3. QED
        BY <2>4, <4>1, <4>2
    <3>2. QED
      BY <1>1, <2>3, <3>1 DEF OneRange
  <2>6. LastInRange' /\ Len(csNet') # 0
    BY <1>1, <1>3, <2>2, <2>3 DEF LastInRange
  <2>7. LoadsNew'
    <3> SUFFICES ASSUME NEW j \in 1..m, csNet'[j].kind = "load", csNet'[j].served
                 PROVE  \/ csNet'[j].answer = tree
                        \/ \E k \in 1..m : j < k /\ csNet'[k].kind = "change" /\ csNet'[k].served
      BY <1>1, <2>3 DEF LoadsNew
    <3>1. j \in 1..(m - 1) /\ csNet'[j] = net[j]
      BY <2>2, <2>3, <2>4
    <3>2. net[j].answer = tree \/ \E k \in 1..(m - 1) : j < k /\ net[k].kind = "change" /\ net[k].served
      BY <1>3, <3>1
    <3>3. \A k \in 1..(m - 1) : k \in 1..m /\ csNet'[k] = net[k]
      BY <1>3, <2>3
    <3>4. QED
      BY <3>1, <3>2, <3>3
  <2>8. ShownInTurn'
    <3> SUFFICES ASSUME NEW j \in 1..m, NEW k \in 1..m, j < k, csNet'[k].served
                 PROVE  csNet'[j].served
      BY <2>3 DEF ShownInTurn
    <3>1. k \in 1..(m - 1) /\ j \in 1..(m - 1)
      BY <1>3, <2>2, <2>3, <2>4
    <3>2. csNet'[j] = csNet[j + 1] /\ csNet'[k] = csNet[k + 1] /\ j + 1 \in 1..m /\ k + 1 \in 1..m /\ j + 1 < k + 1
      BY <1>3, <2>3, <3>1
    <3>3. QED
      BY <1>1, <1>3, <3>2 DEF CalmCategories, ShownInTurn
  <2>9. QED
    BY <2>5, <2>6, <2>7, <2>8 DEF CalmCategories
<1>6. QED
  BY <1>2, <1>4, <1>5 DEF CSRequestTyped

LEMMA CSInvStep == CSInv /\ [CSNext]_csVars => CSInv'
<1> SUFFICES ASSUME CSInv, [CSNext]_csVars PROVE CSInv'
  OBVIOUS
<1>1. CASE UNCHANGED csVars
  <2>1. /\ UNCHANGED <<csRange, csFlat, csLoading, csSaving, csModal, csErrors, csDrag, csConfirm, csNet, csSent>>
        /\ UNCHANGED <<tree, label, csFresh, csCalm>>
    BY <1>1 DEF csVars, csPage, csDialogs, csServer, treeVars, csHistory
  <2>2. CSTyped'
    BY <2>1 DEF CSInv, CSTyped, TreeTypeOK
  <2>3. QED
    BY <2>1, <2>2, CSStays DEF CSInv
<1>2. CASE \/ SetRange \/ StartDrag \/ EndDrag \/ DropOn \/ AskDelete \/ CSConfirm \/ CSCancel
           \/ OpenModal \/ CSCloseModal \/ SaveModal \/ SaveBudget
  BY <1>2, CSUserKeeps
<1>3. CASE \E i \in DOMAIN csNet : CSServe(i)
  BY <1>3, CSServeKeeps
<1>4. CASE \E i \in DOMAIN csNet : CSAnswer(i) \/ CSFail(i)
  <2>1. PICK i \in DOMAIN csNet : CSAnswer(i) \/ CSFail(i)
    BY <1>4
  <2>2. Queue(csNet') /\ CSTyped'
    BY <2>1, CSAnswerTyped
  <2>3. csCalm' => CalmCategories'
    BY <2>1, CSAnswerCalm DEF CSFail
  <2>4. QED
    BY <2>2, <2>3 DEF CSInv
<1>5. QED
  BY <1>1, <1>2, <1>3, <1>4 DEF CSNext

LEMMA CSInvariant == CSSpec => []CSInv
BY CSInitInv, CSInvStep, PTL DEF CSSpec

(* Type correctness of the page and of the server's forest under it,         *)
(* whatever parent a category is given.                                      *)
THEOREM CategoriesTypeCorrect == CSSpec => []CSTypeOK
<1>1. CSInv => CSTypeOK
  <2> SUFFICES ASSUME CSTyped PROVE CSTypeOK
    BY DEF CSInv
  <2>1. csFlat.d.tags \subseteq Tags
    BY DEF CSTyped, Tree
  <2>2. csConfirm # Closed => csConfirm.do \in {"move", "delete"} /\ csConfirm.id \in Tags
    BY DEF CSTyped, ChangeTyped
  <2>3. csModal # Closed => csModal.id \in Tags \cup {None}
    BY DEF CSTyped
  <2>4. QED
    BY <2>1, <2>2, <2>3 DEF CSTyped, CSTypeOK
<1>2. QED
  BY <1>1, CSInvariant, PTL

(* "Every mutation refetches": once nothing is under way the page shows the  *)
(* server's forest for the range that is chosen, also after changes that     *)
(* were under way together, so long as all came in order, nothing failed,    *)
(* and no range was chosen during a save.                                    *)
THEOREM CategoriesSettle == CSSpec => []CategoriesSettled
<1>1. CSInv => CategoriesSettled
  BY QueueShape DEF CSInv, CalmCategories, CategoriesSettled
<1>2. QED
  BY <1>1, CSInvariant, PTL

-----------------------------------------------------------------------------
(* The page of the categories: what its summary adds up. *)

Disjoint(A, S) == \A b, c \in S : b # c => A[b] \cap A[c] = {}

Together(A, s) == UNION {A[c] : c \in s}

LEMMA OneMore ==
  ASSUME NEW D, IsFiniteSet(D), NEW S, NEW A \in [S -> SUBSET D], Disjoint(A, S),
         NEW s \in SUBSET S, NEW x \in s
  PROVE  /\ IsFiniteSet(Together(A, s)) /\ Cardinality(Together(A, s)) \in Nat
         /\ Cardinality(Together(A, s)) = Cardinality(Together(A, s \ {x})) + Cardinality(A[x])
<1> DEFINE r == s \ {x}
<1>1. Together(A, s) \subseteq D /\ Together(A, r) \subseteq D /\ A[x] \subseteq D
  BY DEF Together
<1>2. /\ IsFiniteSet(Together(A, s)) /\ IsFiniteSet(Together(A, r)) /\ IsFiniteSet(A[x])
      /\ Cardinality(Together(A, s)) \in Nat /\ Cardinality(Together(A, r)) \in Nat /\ Cardinality(A[x]) \in Nat
  BY <1>1, FS_Subset, FS_CardinalityType
<1>3. Together(A, s) = Together(A, r) \cup A[x]
  BY DEF Together
<1>4. Together(A, r) \cap A[x] = {}
  BY DEF Together, Disjoint
<1>5. Cardinality(Together(A, r) \cup A[x]) = Cardinality(Together(A, r)) + Cardinality(A[x]) - Cardinality({})
  BY <1>2, <1>4, FS_Union
<1>6. Cardinality({}) = 0
  BY FS_EmptySet
<1>7. QED
  BY <1>2, <1>3, <1>5, <1>6

LEMMA SizesAddUp ==
  ASSUME NEW D, IsFiniteSet(D), NEW S, IsFiniteSet(S), NEW A \in [S -> SUBSET D], Disjoint(A, S),
         NEW f, \A c \in S : f[c] = Cardinality(A[c])
  PROVE  SumAll(f, S)[S] = Cardinality(Together(A, S))
<1> DEFINE size == [s \in SUBSET S |-> Cardinality(Together(A, s))]
<1>1. Together(A, {}) = {} /\ Cardinality({}) = 0
  BY FS_EmptySet DEF Together
<1>2. ASSUME NEW s \in SUBSET S PROVE Cardinality(Together(A, s)) \in Int
  <2>1. Together(A, s) \in SUBSET D
    BY DEF Together
  <2>2. QED
    BY <2>1, FS_Subset, FS_CardinalityType
<1>3. ASSUME NEW s \in SUBSET S, NEW x \in s PROVE size[s] = f[x] + size[s \ {x}]
  <2>1. Cardinality(Together(A, s)) = Cardinality(Together(A, s \ {x})) + Cardinality(A[x])
    BY OneMore
  <2>2. s \ {x} \in SUBSET S /\ f[x] = Cardinality(A[x]) /\ f[x] \in Int
    <3>1. A[x] \in SUBSET D
      OBVIOUS
    <3>2. QED
      BY <3>1, FS_Subset, FS_CardinalityType
  <2>3. Cardinality(Together(A, s \ {x})) \in Int
    BY <1>2, <2>2
  <2>4. QED
    BY <2>1, <2>2, <2>3
<1>4. AddsUp(f, size, S)
  BY <1>1, <1>2, <1>3 DEF AddsUp
<1> HIDE DEF size
<1>5. SumAll(f, S)[S] = size[S]
  BY <1>4, SumAllIs
<1>6. QED
  BY <1>5 DEF size

(* The tags below two tags meet only where one is below the other.           *)
LEMMA BelowApart ==
  ASSUME NEW d, Sound(d), NEW C \in SUBSET d.tags,
         \A b, c \in C : d.parent[b] \notin Descendants(d, c)
  PROVE  \A b, c \in C : b # c => Descendants(d, b) \cap Descendants(d, c) = {}
<1> SUFFICES ASSUME NEW b \in C, NEW c \in C, b # c
             PROVE  Descendants(d, b) \cap Descendants(d, c) = {}
  OBVIOUS
<1> DEFINE S == Descendants(d, b) \cap Descendants(d, c)
<1>1. S \in SUBSET d.tags
  BY DEF Descendants, Below
<1>2. ASSUME NEW s \in S PROVE d.parent[s] \in S
  <2>1. s = b \/ s \in Below(d, b)
    BY DEF Descendants
  <2>2. s = c \/ s \in Below(d, c)
    BY DEF Descendants
  <2>3. s = b => d.parent[s] \in Descendants(d, c)
    BY <1>2, <2>2, BelowParent DEF Descendants
  <2>4. s = c => d.parent[s] \in Descendants(d, b)
    BY <1>2, <2>1, BelowParent DEF Descendants
  <2>5. s # b /\ s # c
    BY <2>3, <2>4
  <2>6. QED
    BY <2>1, <2>2, <2>5, BelowParent DEF Descendants
<1> HIDE DEF S
<1>3. S = {}
  BY <1>1, <1>2 DEF Sound, Rooted
<1>4. QED
  BY <1>3 DEF S

(* Below the children of a tag: all that is below it, and the tag is not.    *)
LEMMA BelowChildren ==
  ASSUME NEW d, Sound(d), NEW u \in d.tags
  PROVE  /\ Below(d, u) = UNION {Descendants(d, c) : c \in Children(d, u)}
         /\ u \notin Below(d, u)
         /\ \A c \in Children(d, u) : c \in Below(d, u) /\ Descendants(d, c) \subseteq Below(d, u)
         /\ \A b, c \in Children(d, u) : b # c => Descendants(d, b) \cap Descendants(d, c) = {}
<1> DEFINE C == Children(d, u)
           U == UNION {Descendants(d, c) : c \in C}
<1>1. C \in SUBSET d.tags /\ \A c \in C : d.parent[c] = u
  BY DEF Children
<1>2. ASSUME NEW c \in C PROVE c \in Below(d, u) /\ Descendants(d, c) \subseteq Below(d, u)
  <2> DEFINE S == Below(d, u)
  <2>1. S \in SUBSET d.tags /\ C \subseteq S /\ \A s \in S : Children(d, s) \subseteq S
    BY BelowClosed DEF Below
  <2>2. c \in S /\ Children(d, c) \subseteq S
    BY <2>1
  <2> HIDE DEF S
  <2>3. Below(d, c) \subseteq S
    BY <2>1, <2>2 DEF Below
  <2>4. QED
    BY <2>2, <2>3 DEF Descendants, S
<1>3. Below(d, u) \subseteq U
  <2>1. U \in SUBSET d.tags
    BY <1>1 DEF Descendants, Below
  <2>2. C \subseteq U
    BY DEF Descendants
  <2>3. ASSUME NEW s \in U PROVE Children(d, s) \subseteq U
    <3>1. PICK c \in C : s \in Descendants(d, c)
      OBVIOUS
    <3>2. Children(d, s) \subseteq Descendants(d, c)
      BY <3>1, BelowClosed DEF Descendants
    <3>3. QED
      BY <3>2
  <2> HIDE DEF U, C
  <2>4. QED
    BY <2>1, <2>2, <2>3 DEF Below, C
<1>4. u \notin Below(d, u)
  <2> SUFFICES ASSUME u \in Below(d, u) PROVE FALSE
    OBVIOUS
  <2> DEFINE S == Below(d, u)
  <2>1. S \in SUBSET d.tags /\ S # {}
    BY DEF Below
  <2>2. \A s \in S : d.parent[s] \in S
    BY BelowParent
  <2> HIDE DEF S
  <2>3. QED
    BY <2>1, <2>2 DEF Sound, Rooted
<1>5. \A b, c \in C : d.parent[b] \notin Descendants(d, c)
  BY <1>1, <1>2, <1>4
<1>6. \A b, c \in C : b # c => Descendants(d, b) \cap Descendants(d, c) = {}
  <2> HIDE DEF C
  <2>1. QED
    BY <1>1, <1>5, BelowApart
<1>7. U = Below(d, u)
  BY <1>2, <1>3
<1>8. QED
  BY <1>2, <1>4, <1>6, <1>7

BudgetsIn(d, t) == {u \in Descendants(d, t) : d.budget[u]}

(* The budgets of a tag that is no leaf are those of its children.           *)
LEMMA BudgetsOfChildren ==
  ASSUME NEW d, Sound(d), NEW u \in d.tags
  PROVE  /\ d.leaf[u] => BudgetsIn(d, u) = IF d.budget[u] THEN {u} ELSE {}
         /\ ~d.leaf[u] => BudgetsIn(d, u) = UNION {BudgetsIn(d, c) : c \in Children(d, u)}
<1>1. /\ Below(d, u) = UNION {Descendants(d, c) : c \in Children(d, u)}
      /\ u \notin Below(d, u)
  BY BelowChildren
<1>2. d.leaf[u] <=> Children(d, u) = {}
  BY DEF Sound, LeafFlags
<1>3. d.budget[u] => Children(d, u) = {}
  BY DEF Sound, Budgets
<1>4. ASSUME d.leaf[u] PROVE BudgetsIn(d, u) = IF d.budget[u] THEN {u} ELSE {}
  <2>1. Below(d, u) = {}
    BY <1>1, <1>2, <1>4
  <2>2. QED
    BY <2>1 DEF BudgetsIn, Descendants
<1>5. ASSUME ~d.leaf[u] PROVE BudgetsIn(d, u) = UNION {BudgetsIn(d, c) : c \in Children(d, u)}
  <2>1. ~d.budget[u]
    BY <1>2, <1>3, <1>5
  <2>2. BudgetsIn(d, u) = {t \in Below(d, u) : d.budget[t]}
    BY <2>1 DEF BudgetsIn, Descendants
  <2>3. QED
    BY <1>1, <2>2 DEF BudgetsIn
<1>6. QED
  BY <1>4, <1>5

TotalStep(d, g, u) == IF d.leaf[u] THEN (IF d.budget[u] THEN 1 ELSE 0) ELSE SumAll(g, Children(d, u))[Children(d, u)]

\* g is the function that TotalBudget defines.
Totals(d, g) == g = [u \in Tags |-> TotalStep(d, g, u)]

TotalOver(d) == CHOOSE g : Totals(d, g)

LEMMA TotalIs ==
  ASSUME NEW d, NEW t
  PROVE  TotalBudget(d, t) = TotalOver(d)[t]
  BY DEF TotalBudget, TotalOver, Totals, TotalStep, FoldSet, MapThenFoldSet, SumAll, Adding, AddStep, OneOf

(* Where a function counts the budgets below the children, its step counts   *)
(* those below the tag.                                                      *)
LEMMA StepCounts ==
  ASSUME NEW d, Sound(d), IsFiniteSet(d.tags), NEW u \in d.tags, NEW g,
         \A c \in Children(d, u) : g[c] = Cardinality(BudgetsIn(d, c))
  PROVE  TotalStep(d, g, u) = Cardinality(BudgetsIn(d, u))
<1>1. CASE d.leaf[u]
  <2>1. BudgetsIn(d, u) = IF d.budget[u] THEN {u} ELSE {}
    BY <1>1, BudgetsOfChildren
  <2>2. QED
    BY <1>1, <2>1, FS_EmptySet, FS_Singleton DEF TotalStep
<1>2. CASE ~d.leaf[u]
  <2> DEFINE C == Children(d, u)
             A == [c \in C |-> BudgetsIn(d, c)]
  <2>1. C \in SUBSET d.tags
    BY DEF Children
  <2>2. IsFiniteSet(C)
    BY <2>1, FS_Subset
  <2>3. A \in [C -> SUBSET d.tags]
    BY <2>1 DEF BudgetsIn, Descendants, Below
  <2>4. Disjoint(A, C)
    <3>1. \A b, c \in C : b # c => Descendants(d, b) \cap Descendants(d, c) = {}
      BY BelowChildren
    <3>2. QED
      BY <3>1 DEF Disjoint, BudgetsIn
  <2>5. \A c \in C : g[c] = Cardinality(A[c])
    OBVIOUS
  <2>6. Together(A, C) = BudgetsIn(d, u)
    <3>1. BudgetsIn(d, u) = UNION {BudgetsIn(d, c) : c \in C}
      BY <1>2, BudgetsOfChildren
    <3>2. QED
      BY <3>1 DEF Together
  <2> HIDE DEF A, C
  <2>7. SumAll(g, C)[C] = Cardinality(Together(A, C))
    BY <2>2, <2>3, <2>4, <2>5, SizesAddUp
  <2>8. QED
    BY <1>2, <2>6, <2>7 DEF TotalStep, C
<1>3. QED
  BY <1>1, <1>2

\* Of a tag that is not in the table.
LEMMA StepOutside ==
  ASSUME NEW d, Sound(d), NEW u \in Tags, u \notin d.tags, NEW g
  PROVE  TotalStep(d, g, u) = IF d.leaf[u] /\ d.budget[u] THEN 1 ELSE 0
<1>1. Children(d, u) = {}
  BY TagsAssumption DEF Sound, ParentsExist, Children
<1>2. SumAll(g, {})[{}] = 0
  <2> DEFINE A == [c \in {} |-> {}]
  <2>1. IsFiniteSet({}) /\ Cardinality({}) = 0
    BY FS_EmptySet
  <2>2. A \in [{} -> SUBSET {}] /\ Disjoint(A, {}) /\ Together(A, {}) = {}
    BY DEF Disjoint, Together
  <2> HIDE DEF A
  <2>3. SumAll(g, {})[{}] = Cardinality(Together(A, {}))
    BY <2>1, <2>2, SizesAddUp
  <2>4. QED
    BY <2>1, <2>2, <2>3
<1>3. QED
  BY <1>1, <1>2 DEF TotalStep

LEMMA TotalCounts ==
  ASSUME NEW d, Sound(d), IsFiniteSet(d.tags), NEW t \in d.tags
  PROVE  TotalBudget(d, t) = Cardinality(BudgetsIn(d, t))
<1> DEFINE size == [u \in Tags |-> IF u \in d.tags THEN Cardinality(BudgetsIn(d, u))
                                   ELSE IF d.leaf[u] /\ d.budget[u] THEN 1 ELSE 0]
<1>1. d.tags \subseteq Tags
  BY DEF Sound, Tree
<1>2. ASSUME NEW u \in Tags PROVE size[u] = TotalStep(d, size, u)
  <2>1. CASE u \in d.tags
    <3>1. \A c \in Children(d, u) : size[c] = Cardinality(BudgetsIn(d, c))
      BY <1>1 DEF Children
    <3>2. size[u] = Cardinality(BudgetsIn(d, u))
      BY <2>1
    <3> HIDE DEF size
    <3>3. QED
      BY <2>1, <3>1, <3>2, StepCounts
  <2>2. CASE u \notin d.tags
    <3>1. size[u] = IF d.leaf[u] /\ d.budget[u] THEN 1 ELSE 0
      BY <2>2
    <3> HIDE DEF size
    <3>2. QED
      BY <2>2, <3>1, StepOutside
  <2>3. QED
    BY <2>1, <2>2
<1>3. Totals(d, size)
  <2>1. size = [u \in Tags |-> size[u]]
    OBVIOUS
  <2> HIDE DEF size
  <2>2. size = [u \in Tags |-> TotalStep(d, size, u)]
    BY <1>2, <2>1
  <2>3. QED
    BY <2>2 DEF Totals
<1> HIDE DEF size
<1> DEFINE g == TotalOver(d)
<1>4. Totals(d, g)
  BY <1>3 DEF TotalOver
<1> HIDE DEF g
<1>5. \A u \in Tags : g[u] = TotalStep(d, g, u)
  <2>1. g = [u \in Tags |-> TotalStep(d, g, u)]
    BY <1>4 DEF Totals
  <2>2. QED
    BY <2>1
<1> DEFINE W == {u \in d.tags : g[u] # Cardinality(BudgetsIn(d, u))}
           m == [u \in W |-> Cardinality(Below(d, u))]
<1>6. ASSUME W # {} PROVE FALSE
  <2>1. \A u \in d.tags : IsFiniteSet(Below(d, u)) /\ Cardinality(Below(d, u)) \in Nat
    <3> TAKE u \in d.tags
    <3>1. Below(d, u) \in SUBSET d.tags
      BY DEF Below
    <3>2. QED
      BY <3>1, FS_Subset, FS_CardinalityType
  <2>2. m \in [W -> Nat]
    BY <2>1
  <2>3. PICK u \in W : \A c \in W : m[u] <= m[c]
    BY <1>6, <2>2, LeastMeasure
  <2>4. ASSUME NEW c \in Children(d, u) PROVE g[c] = Cardinality(BudgetsIn(d, c))
    <3>1. c \in d.tags /\ u \in d.tags
      BY DEF Children
    <3>2. c \in Below(d, u) /\ Below(d, c) \in SUBSET Below(d, u) /\ c \notin Below(d, c)
      BY <3>1, BelowChildren DEF Descendants
    <3>3. Cardinality(Below(d, c)) <= Cardinality(Below(d, u)) /\ Cardinality(Below(d, c)) # Cardinality(Below(d, u))
      BY <2>1, <3>1, <3>2, FS_Subset
    <3>4. ASSUME c \in W PROVE FALSE
      <4>1. m[u] <= m[c] /\ m[u] = Cardinality(Below(d, u)) /\ m[c] = Cardinality(Below(d, c))
        BY <2>3, <3>4
      <4>2. Cardinality(Below(d, c)) \in Nat /\ Cardinality(Below(d, u)) \in Nat
        BY <2>1, <3>1
      <4>3. QED
        BY <3>3, <4>1, <4>2
    <3>5. QED
      BY <3>1, <3>4
  <2>5. u \in d.tags /\ u \in Tags /\ g[u] # Cardinality(BudgetsIn(d, u))
    BY <1>1
  <2>6. TotalStep(d, g, u) = Cardinality(BudgetsIn(d, u))
    BY <2>4, <2>5, StepCounts
  <2>7. QED
    BY <1>5, <2>5, <2>6
<1>7. g[t] = Cardinality(BudgetsIn(d, t))
  BY <1>6
<1>8. QED
  BY <1>7, TotalIs DEF g

(* The budgets of the trees of a type. *)
TreesOf(d, type) == {t \in Roots(d) : d.type[t] = type}

BudgetedIn(d, type) == UNION {BudgetsIn(d, t) : t \in TreesOf(d, type)}

LEMMA RootsApart ==
  ASSUME NEW d, Sound(d)
  PROVE  \A b, c \in Roots(d) : b # c => Descendants(d, b) \cap Descendants(d, c) = {}
<1>1. Roots(d) \in SUBSET d.tags
  BY DEF Roots
<1>2. \A b, c \in Roots(d) : d.parent[b] \notin Descendants(d, c)
  BY DEF Roots, Descendants, Below
<1>3. QED
  BY <1>1, <1>2, BelowApart

LEMMA BudgetedCounts ==
  ASSUME NEW d, Sound(d), IsFiniteSet(d.tags), NEW type
  PROVE  Budgeted(d, type) = Cardinality(BudgetedIn(d, type))
<1> DEFINE S == TreesOf(d, type)
           A == [t \in S |-> BudgetsIn(d, t)]
           f == [t \in S |-> TotalBudget(d, t)]
           g == SumAll(f, S)
<1>1. S \in SUBSET d.tags /\ S \subseteq Roots(d)
  BY DEF TreesOf, Roots
<1>2. IsFiniteSet(S)
  BY <1>1, FS_Subset
<1>3. A \in [S -> SUBSET d.tags]
  BY <1>1 DEF BudgetsIn, Descendants, Below
<1>4. Disjoint(A, S)
  <2>1. \A b, c \in S : b # c => Descendants(d, b) \cap Descendants(d, c) = {}
    BY <1>1, RootsApart
  <2>2. QED
    BY <2>1 DEF Disjoint, BudgetsIn
<1>5. \A t \in S : f[t] = Cardinality(A[t])
  BY <1>1, TotalCounts
<1>6. Together(A, S) = BudgetedIn(d, type)
  BY DEF Together, BudgetedIn
<1>7. SumAll(f, S)[S] = Cardinality(BudgetedIn(d, type))
  <2> HIDE DEF A, S, f
  <2>1. QED
    BY <1>2, <1>3, <1>4, <1>5, <1>6, SizesAddUp
<1>8. Budgeted(d, type) = SumAll(f, S)[S]
  <2> DEFINE step(h, s) == IF s = {} THEN 0 ELSE TotalBudget(d, OneOf(s)) + h[s \ {OneOf(s)}]
  <2>1. \A h : \A s \in SUBSET S : step(h, s) = AddStep(f, h, s)
    <3> TAKE h
    <3> TAKE s \in SUBSET S
    <3>1. s # {} => OneOf(s) \in S
      BY DEF OneOf
    <3>2. s # {} => f[OneOf(s)] = TotalBudget(d, OneOf(s))
      BY <3>1
    <3> HIDE DEF f, S
    <3>3. QED
      BY <3>2 DEF AddStep
  <2> HIDE DEF f, S
  <2>2. \A h : [s \in SUBSET S |-> step(h, s)] = [s \in SUBSET S |-> AddStep(f, h, s)]
    BY <2>1
  <2>3. \A h : h = [s \in SUBSET S |-> step(h, s)] <=> Adding(f, h, S)
    BY <2>2 DEF Adding
  <2> HIDE DEF step
  <2>4. (CHOOSE h : h = [s \in SUBSET S |-> step(h, s)]) = SumAll(f, S)
    BY <2>3 DEF SumAll
  <2>5. Budgeted(d, type) = (CHOOSE h : h = [s \in SUBSET S |-> step(h, s)])[S]
    BY DEF Budgeted, FoldSet, MapThenFoldSet, step, OneOf, S, TreesOf
  <2>6. QED
    BY <2>4, <2>5
<1>9. QED
  BY <1>7, <1>8

LEMMA BudgetsCounted ==
  ASSUME NEW d, Sound(d), IsFiniteSet(d.tags)
  PROVE  Budgeted(d, "expense") + Budgeted(d, "income") = Cardinality({t \in d.tags : d.budget[t]})
<1> DEFINE E == BudgetedIn(d, "expense")
           I == BudgetedIn(d, "income")
           B == {t \in d.tags : d.budget[t]}
<1>1. E \in SUBSET d.tags /\ I \in SUBSET d.tags
  BY DEF BudgetedIn, TreesOf, Roots, BudgetsIn, Descendants, Below
<1>2. E \cup I = B
  <2>1. DrawnTags(d) = d.tags
    BY SoundDrawn
  <2>2. ASSUME NEW t \in B PROVE t \in E \cup I
    <3>1. PICK r \in Roots(d) : t \in Descendants(d, r)
      BY <2>1 DEF DrawnTags
    <3>2. t \in BudgetsIn(d, r) /\ r \in Tags
      BY <3>1 DEF BudgetsIn, Roots, Sound, Tree
    <3>3. d.type[r] \in {"expense", "income"}
      BY <3>2 DEF Sound, Tree, TagTypes
    <3>4. QED
      BY <3>1, <3>2, <3>3 DEF BudgetedIn, TreesOf
  <2>3. E \cup I \subseteq B
    BY <1>1 DEF BudgetedIn, BudgetsIn
  <2>4. QED
    BY <2>2, <2>3
<1>3. E \cap I = {}
  <2> SUFFICES ASSUME NEW t \in E, t \in I PROVE FALSE
    OBVIOUS
  <2>1. PICK a \in TreesOf(d, "expense") : t \in BudgetsIn(d, a)
    BY DEF BudgetedIn
  <2>2. PICK b \in TreesOf(d, "income") : t \in BudgetsIn(d, b)
    BY DEF BudgetedIn
  <2>3. a \in Roots(d) /\ b \in Roots(d) /\ a # b
    BY DEF TreesOf
  <2>4. t \in Descendants(d, a) /\ t \in Descendants(d, b)
    BY <2>1, <2>2 DEF BudgetsIn
  <2>5. QED
    BY <2>3, <2>4, RootsApart
<1>4. Budgeted(d, "expense") = Cardinality(E) /\ Budgeted(d, "income") = Cardinality(I)
  BY BudgetedCounts
<1>5. IsFiniteSet(E) /\ IsFiniteSet(I)
  BY <1>1, FS_Subset
<1> HIDE DEF E, I, B
<1>6. Cardinality(E) \in Nat /\ Cardinality(I) \in Nat
  BY <1>5, FS_CardinalityType
<1>7. Cardinality(E \cup I) = Cardinality(E) + Cardinality(I) - Cardinality(E \cap I)
  BY <1>5, FS_Union
<1>8. Cardinality(E \cap I) = 0
  BY <1>3, FS_EmptySet
<1>9. Cardinality(E) + Cardinality(I) = Cardinality(B)
  <2>1. Cardinality(E \cup I) = Cardinality(B)
    BY <1>2
  <2>2. Cardinality(E) + Cardinality(I) - 0 = Cardinality(B)
    BY <1>7, <1>8, <2>1
  <2>3. QED
    BY <1>6, <2>2
<1>10. QED
  BY <1>4, <1>9 DEF B

-----------------------------------------------------------------------------
(* The page of the categories: its summary, so long as it shows what the     *)
(* server has.                                                               *)

(* Every forest the page of the categories knows of has finitely many categories. *)
Finitely ==
  /\ IsFiniteSet(tree.tags) /\ IsFiniteSet(csFlat.d.tags)
  /\ \A i \in DOMAIN csNet : IsFiniteSet(csNet[i].answer.tags)

LEMMA CascadeTags ==
  ASSUME NEW d \in Tree, NEW t, NEW oldType
  PROVE  Cascade(d, t, oldType).tags = d.tags
<1> DEFINE types == [u \in Tags |-> IF u \in Below(d, t) THEN d.type[t] ELSE d.type[u]]
<1>1. Cascade(d, t, oldType) = IF d.type[t] = oldType THEN d ELSE [d EXCEPT !.type = types]
  BY DEF Cascade
<1> HIDE DEF types
<1>2. QED
  BY <1>1 DEF Tree

LEMMA BeforeSaveTags ==
  ASSUME NEW d \in Tree, NEW t
  PROVE  BeforeSave(d, t).tags = d.tags
  BY DEF BeforeSave, Tree

LEMMA ResaveTags ==
  ASSUME NEW d \in Tree, NEW p
  PROVE  Resave(d, p).tags = d.tags
<1>1. CASE p \in d.tags
  <2>1. p \in Tags
    BY <1>1 DEF Tree
  <2>2. BeforeSave(d, p) \in Tree /\ BeforeSave(d, p).tags = d.tags
    BY <2>1, BeforeSaveTable, BeforeSaveTags
  <2>3. QED
    BY <1>1, <2>2, CascadeTags DEF Resave
<1>2. CASE p \notin d.tags
  BY <1>2 DEF Resave
<1>3. QED
  BY <1>1, <1>2

LEMMA SaveTags ==
  ASSUME NEW d \in Tree, NEW t \in Tags, NEW from
  PROVE  Save(d, t, from).tags = d.tags
<1> DEFINE b == BeforeSave(d, t)
           c == SyncParents(b, from.parent, d.parent[t])
<1>1. b \in Tree /\ b.tags = d.tags
  BY BeforeSaveTable, BeforeSaveTags
<1> HIDE DEF b
<1>2. c \in Tree /\ c.tags = d.tags
  BY <1>1, ResaveTable, ResaveTags DEF SyncParents
<1>3. Save(d, t, from) = Cascade(c, t, from.type)
  BY DEF Save, b
<1> HIDE DEF c
<1>4. QED
  BY <1>2, <1>3, CascadeTags

LEMMA ActsFinitely ==
  ASSUME TreeTypeOK, csFresh \subseteq Tags, NEW q, ChangeTyped(q), Acts(q), IsFiniteSet(tree.tags)
  PROVE  IsFiniteSet(tree'.tags)
<1>1. tree \in Tree /\ tree.tags \subseteq Tags
  BY DEF TreeTypeOK, Tree
<1>2. CASE q.do = "create"
  <2>1. PICK t \in csFresh : Create(t, q.parent, q.type, q.budget)
    BY <1>2 DEF Acts
  <2> DEFINE d == [tree EXCEPT !.tags = @ \cup {t}, !.parent[t] = q.parent, !.type[t] = q.type,
                               !.budget[t] = q.budget]
             from == [parent |-> None, type |-> q.type]
  <2>2. t \in Tags /\ q.parent \in Tags \cup {None} /\ q.type \in TagTypes /\ q.budget \in BOOLEAN
    BY <1>1, <1>2, <2>1 DEF Create, ChangeTyped
  <2>3. d \in Tree /\ d.tags = tree.tags \cup {t}
    BY <1>1, <2>2 DEF Tree
  <2>4. tree' = Save(d, t, from)
    BY <2>1 DEF Create
  <2> HIDE DEF d, from
  <2>5. tree'.tags = tree.tags \cup {t}
    BY <2>2, <2>3, <2>4, SaveTags
  <2>6. QED
    BY <2>5, FS_AddElement
<1>3. CASE q.do = "delete"
  <2> DEFINE t == q.id
             d == Promote(tree, t)
             parents == [u \in Tags |-> IF u \in Children(tree, t) THEN tree.parent[t] ELSE tree.parent[u]]
  <2>1. t \in Tags /\ Destroy(t)
    BY <1>3 DEF Acts, ChangeTyped
  <2>2. parents \in [Tags -> Tags \cup {None}]
    BY <1>1, <2>1 DEF Tree
  <2>3. d = [tree EXCEPT !.parent = parents]
    BY DEF Promote
  <2> HIDE DEF parents, d, t
  <2>4. d \in Tree /\ d.tags = tree.tags
    BY <1>1, <2>2, <2>3 DEF Tree
  <2>5. Erase(d, t) \in Tree /\ Erase(d, t).tags = tree.tags \ {t}
    BY <2>1, <2>4 DEF Erase, Tree
  <2>6. tree'.tags = tree.tags \ {t}
    BY <2>1, <2>5, ResaveTags DEF Destroy, d
  <2>7. QED
    BY <2>6, FS_RemoveElement
<1>4. CASE q.do \in {"move", "budget", "edit"}
  <2> DEFINE d == CASE q.do = "move"   -> [tree EXCEPT !.parent[q.id] = q.parent]
                    [] q.do = "budget" -> [tree EXCEPT !.budget[q.id] = q.budget]
                    [] OTHER           -> [tree EXCEPT !.parent[q.id] = q.parent, !.type[q.id] = q.type,
                                                       !.budget[q.id] = q.budget]
             from == Loaded(tree, q.id)
  <2>1. q.id \in Tags /\ (q.do # "budget" => q.parent \in Tags \cup {None}) /\ tree' = Save(d, q.id, from)
    BY <1>1, <1>4 DEF Acts, Updated
  <2>2. /\ q.do = "edit" => q.type \in TagTypes
        /\ q.do \in {"edit", "budget"} => q.budget \in BOOLEAN
    BY DEF ChangeTyped
  <2>3. d \in Tree /\ d.tags = tree.tags
    <3>1. CASE q.do = "move"
      BY <1>1, <2>1, <3>1 DEF Tree
    <3>2. CASE q.do = "budget"
      BY <1>1, <2>1, <2>2, <3>2 DEF Tree
    <3>3. CASE q.do = "edit"
      BY <1>1, <2>1, <2>2, <3>3 DEF Tree
    <3>4. QED
      BY <1>4, <3>1, <3>2, <3>3
  <2> HIDE DEF d, from
  <2>4. QED
    BY <2>1, <2>3, SaveTags
<1>5. QED
  BY <1>2, <1>3, <1>4 DEF Acts

LEMMA EmptyFinite == IsFiniteSet(EmptyTree.tags)
  BY FS_EmptySet DEF EmptyTree

LEMMA FinitelyInit == CSInit => Finitely
<1> SUFFICES ASSUME CSInit PROVE Finitely
  OBVIOUS
<1>1. IsFiniteSet(tree.tags)
  <2>1. PICK above \in StartForests : tree.tags = DOMAIN above
    BY DEF CSInit, EmptyTree
  <2>2. QED
    BY <2>1, StartForestsAssumption
<1>2. csFlat.d = EmptyTree
  BY DEF CSInit
<1>3. \A i \in DOMAIN csNet : csNet[i].answer = EmptyTree
  BY OneQueued DEF CSInit, CSLoad, CSRequest
<1>4. QED
  BY <1>1, <1>2, <1>3, EmptyFinite DEF Finitely

LEMMA FinitelyStep == CSInv /\ Finitely /\ [CSNext]_csVars => Finitely'
<1> SUFFICES ASSUME CSInv, Finitely, [CSNext]_csVars PROVE Finitely'
  OBVIOUS
<1>1. Queue(csNet)
  BY DEF CSInv
<1>2. CASE UNCHANGED <<tree, csFlat, csNet>>
  BY <1>2 DEF Finitely
<1>3. ASSUME NEW q, csNet' = Append(csNet, q), q.answer = EmptyTree, UNCHANGED <<tree, csFlat>>
      PROVE  Finitely'
  <2>1. FromOr(csNet, q, csNet')
    BY <1>1, <1>3, QueueMore
  <2>2. QED
    BY <1>3, <2>1, EmptyFinite DEF Finitely, FromOr
<1>4. CASE StartDrag \/ EndDrag \/ DropOn \/ AskDelete \/ CSCancel \/ OpenModal \/ CSCloseModal
  BY <1>2, <1>4
     DEF StartDrag, EndDrag, DropOn, AskDelete, CSCancel, OpenModal, CSCloseModal, csPage, csServer, treeVars
<1>5. CASE SetRange
  <2>1. PICK range : csNet' = Append(csNet, CSLoad(range, "effect"))
    BY <1>5 DEF SetRange, CSSend
  <2>2. QED
    BY <1>3, <1>5, <2>1 DEF SetRange, csServer, treeVars, CSLoad, CSRequest
<1>6. ASSUME NEW change, NEW then, Mutate(change, then), UNCHANGED <<tree, csFlat>> PROVE Finitely'
  BY <1>3, <1>6 DEF Mutate, CSSend, CSRequest
<1>7. CASE CSConfirm \/ SaveModal \/ SaveBudget
  <2>1. UNCHANGED <<tree, csFlat>>
    BY <1>7 DEF CSConfirm, SaveModal, SaveBudget, csServer, treeVars
  <2>2. \E change, then : Mutate(change, then)
    BY <1>7 DEF CSConfirm, SaveModal, SaveBudget
  <2>3. QED
    BY <1>6, <2>1, <2>2
<1>8. ASSUME NEW i \in DOMAIN csNet, CSServe(i) PROVE Finitely'
  <2> DEFINE e == [csNet[i] EXCEPT !.served = TRUE, !.answer = tree]
  <2>1. csNet' = [csNet EXCEPT ![i] = e] /\ csFlat' = csFlat
    BY <1>8 DEF CSServe, csPage
  <2>2. CSRequestTyped(csNet[i]) /\ TreeTypeOK /\ csFresh \subseteq Tags
    BY DEF CSInv, CSTyped
  <2>3. e.answer = tree
    BY <2>2 DEF CSRequestTyped
  <2>4. IsFiniteSet(tree'.tags)
    <3>1. CASE csNet[i].kind = "load"
      BY <1>8, <3>1 DEF CSServe, csServer, treeVars, Finitely
    <3>2. CASE csNet[i].kind # "load"
      <4>1. ChangeTyped(csNet[i].change) /\ Acts(csNet[i].change)
        BY <1>8, <2>2, <3>2 DEF CSRequestTyped, CSServe
      <4>2. QED
        BY <2>2, <4>1, ActsFinitely DEF Finitely
    <3>3. QED
      BY <3>1, <3>2
  <2> HIDE DEF e
  <2>5. FromOr(csNet, e, csNet')
    BY <1>1, <2>1, QueueChanged
  <2>6. QED
    BY <2>1, <2>3, <2>4, <2>5 DEF Finitely, FromOr
<1>9. ASSUME NEW i \in DOMAIN csNet, CSAnswer(i) \/ CSFail(i) PROVE Finitely'
  <2> DEFINE net == RemoveAt(csNet, i)
             q == CSLoad(csNet[i].range, csNet[i].then)
  <2>1. Queue(net) /\ FromOr(csNet, csNet[i], net)
    BY <1>1, QueueLess
  <2>2. \A j \in DOMAIN net : IsFiniteSet(net[j].answer.tags)
    <3> HIDE DEF net
    <3>1. QED
      BY <2>1 DEF Finitely, FromOr
  <2>3. /\ tree' = tree
        /\ csFlat' = csFlat \/ csFlat' = [d |-> csNet[i].answer, range |-> csNet[i].range]
        /\ csNet' = net \/ csNet' = Append(net, q)
    BY <1>9 DEF CSAnswer, CSFail, csServer, treeVars, Refreshed
  <2>4. q.answer = EmptyTree
    BY DEF CSLoad, CSRequest
  <2> HIDE DEF net, q
  <2>5. FromOr(net, q, Append(net, q))
    BY <2>1, QueueMore
  <2>6. \A j \in DOMAIN csNet' : IsFiniteSet(csNet'[j].answer.tags)
    BY <2>2, <2>3, <2>4, <2>5, EmptyFinite DEF FromOr
  <2>7. QED
    BY <2>3, <2>6 DEF Finitely
<1>10. CASE UNCHANGED csVars
  BY <1>2, <1>10 DEF csVars, csPage, csServer, treeVars
<1>11. QED
  BY <1>4, <1>5, <1>7, <1>8, <1>9, <1>10 DEF CSNext

LEMMA FinitelyInvariant == CSSpec => []Finitely
<1>1. CSInv /\ Finitely /\ [CSNext]_csVars => Finitely'
  BY FinitelyStep
<1>2. QED
  BY <1>1, FinitelyInit, CSInvariant, PTL DEF CSSpec

(* The summary counts every budget once: what it adds up along the trees     *)
(* that are drawn, of the one type and of the other, are the budgets of all  *)
(* the categories, so long as the page is shown what the server has.         *)
THEOREM BudgetsCountOnce == CSSpec => []BudgetsOnce
<1>1. ShownInv /\ Finitely => BudgetsOnce
  BY BudgetsCounted DEF ShownInv, AsShown, Finitely, BudgetsOnce
<1>2. QED
  BY <1>1, ShownInvariant, FinitelyInvariant, PTL

-----------------------------------------------------------------------------
(* The page of the accounts: its types. *)

Standing == [linked : SUBSET BankAccounts, archived : SUBSET BankAccounts,
             access : SUBSET BankAccounts, lost : SUBSET BankAccounts]

Changers == {"archive", "rename", "exchange", "reconnect"}

LinkKinds == {"token", "exchange", "reconnect"}

ACRequests ==
  [kind : {"list", "balances", "access"} \cup LinkKinds \cup Changers, id : Links, value : BOOLEAN,
   new : SUBSET BankAccounts, served : BOOLEAN, answer : Standing, heard : BOOLEAN]

\* No account is ever unlinked.
ACRequestTyped(q) ==
  /\ q \in ACRequests
  /\ q.answer.linked \subseteq acStore.linked
  /\ q.kind = "access" => q.id \in acStore.linked
  /\ q.kind = "archive" => q.id \in BankAccounts

ACTyped ==
  /\ acList \in Standing /\ acList.linked \subseteq acStore.linked
  /\ acBalances \subseteq acStore.linked /\ acBoxes \subseteq BankAccounts
  /\ acStore \in Standing /\ acStore.access \subseteq acStore.linked
  /\ acLoading \in BOOLEAN /\ acBalLoading \in BOOLEAN /\ acCalm \in BOOLEAN
  /\ acLink \in [Links -> {"off", "asked", "failed", "ready", "working"}]
  /\ acOpen \subseteq Links /\ acAsk \in BankAccounts \cup {NoAccount}
  /\ acActs \in 0..MaxActs
  /\ Queue(acNet) /\ \A i \in DOMAIN acNet : ACRequestTyped(acNet[i])

-----------------------------------------------------------------------------
(* The links of the page of the accounts. *)

HasButton(c) == ~acLoading /\ c \in LinksOf(acList)

LinksHeard ==
  /\ \A c \in Links : c \in acOpen \/ acLink[c] # "off" => HasButton(c)
  /\ \A i \in DOMAIN acNet : acNet[i].kind \in LinkKinds /\ acNet[i].heard => HasButton(acNet[i].id)
  /\ \A c \in Links : acLink[c] = "asked" =>
       \E i \in DOMAIN acNet : acNet[i].kind = "token" /\ acNet[i].id = c /\ acNet[i].heard

-----------------------------------------------------------------------------
(* The page of the accounts at rest. *)

SameAccounts(list, server) ==
  list.linked = server.linked /\ list.archived = server.archived /\ list.lost = server.lost

(* The server took them in the order sent. *)
ListsInTurn ==
  \A i, j \in DOMAIN acNet : i < j /\ acNet[j].served /\ acNet[j].kind # "token" => acNet[i].served

(* A list that was served is what the server has, but for changes that will  *)
(* be followed by another list.                                              *)
ListsNew ==
  \A i \in DOMAIN acNet :
    acNet[i].kind = "list" /\ acNet[i].served =>
      \/ SameAccounts(acNet[i].answer, acStore)
      \/ \E j \in DOMAIN acNet : i < j /\ acNet[j].kind \in Changers /\ acNet[j].served

ListComes ==
  \/ SameAccounts(acList, acStore)
  \/ \E i \in DOMAIN acNet : acNet[i].kind \in Changers \cup {"list"}

(* No box is clicked after a list was asked for, and before it came: such a  *)
(* list shows what the server has.                                           *)
BoxesFirst ==
  \A i \in DOMAIN acNet : acNet[i].kind = "list" =>
    /\ \A j \in DOMAIN acNet : acNet[j].kind = "access" => j < i
    /\ acNet[i].served => acNet[i].answer.access = acStore.access

Clicked(q, a) == q.kind = "access" /\ q.id = a /\ ~q.served

(* A box shows its last click that the server has yet to take, or else what  *)
(* the server has.                                                           *)
BoxFollows(a) ==
  \/ \E i \in DOMAIN acNet : /\ Clicked(acNet[i], a) /\ (acNet[i].value <=> a \in acBoxes)
                             /\ \A j \in DOMAIN acNet : i < j => ~Clicked(acNet[j], a)
  \/ /\ \A i \in DOMAIN acNet : ~Clicked(acNet[i], a)
     /\ a \in acBoxes <=> a \in acStore.access

BoxesFollow ==
  (\A i \in DOMAIN acNet : acNet[i].kind # "list") => \A a \in BankAccounts : BoxFollows(a)

CalmAccounts == ListsInTurn /\ ListsNew /\ ListComes /\ BoxesFirst /\ BoxesFollow

ACInv == ACTyped /\ LinksHeard /\ (acCalm => CalmAccounts)

-----------------------------------------------------------------------------
(* What becomes of the requests of the page of the accounts. *)

\* The same request, but perhaps no longer heard.
Alike(p, q) == p \in ACRequests /\ p = [q EXCEPT !.heard = p.heard] /\ (p.heard => q.heard)

LEMMA AlikeFields ==
  ASSUME NEW p, NEW q \in ACRequests, Alike(p, q)
  PROVE  /\ p \in ACRequests /\ (p.heard => q.heard)
         /\ p.kind = q.kind /\ p.id = q.id /\ p.value = q.value
         /\ p.new = q.new /\ p.served = q.served /\ p.answer = q.answer
BY DEF Alike, ACRequests

LEMMA NoAccountsStand == NoAccounts \in Standing /\ NoAccounts.linked = {}
BY DEF NoAccounts, Standing

LEMMA AskedIs ==
  ASSUME NEW kind \in {"list", "balances", "access"} \cup LinkKinds \cup Changers, NEW id \in Links
  PROVE  /\ Asked(kind, id) \in ACRequests
         /\ Asked(kind, id).kind = kind /\ Asked(kind, id).id = id
         /\ (Asked(kind, id).served <=> kind = "token")
         /\ Asked(kind, id).answer = NoAccounts /\ Asked(kind, id).heard
BY NoAccountsStand DEF Asked, ACRequests

LEMMA UnheardIs ==
  ASSUME NEW net, Queue(net), NEW gone, \A i \in DOMAIN net : net[i] \in ACRequests
  PROVE  /\ Unheard(net, gone) \in Seq(ACRequests)
         /\ Len(Unheard(net, gone)) = Len(net) /\ Len(net) \in Nat
         /\ DOMAIN net = 1..Len(net) /\ DOMAIN Unheard(net, gone) = 1..Len(net)
         /\ \A i \in 1..Len(net) :
              /\ Alike(Unheard(net, gone)[i], net[i])
              /\ Unheard(net, gone)[i].heard <=>
                   net[i].heard /\ ~(net[i].kind \in LinkKinds /\ net[i].id \in gone)
<1> DEFINE n == Len(net)
           Of(i) == IF net[i].kind \in LinkKinds /\ net[i].id \in gone
                    THEN [net[i] EXCEPT !.heard = FALSE] ELSE net[i]
           u == [i \in 1..n |-> Of(i)]
<1>1. n \in Nat /\ DOMAIN net = 1..n
  BY QueueShape
<1>2. Unheard(net, gone) = u
  BY <1>1 DEF Unheard, LinkKinds
<1>3. ASSUME NEW i \in 1..n
      PROVE  Alike(Of(i), net[i]) /\ (Of(i).heard <=> net[i].heard /\ ~(net[i].kind \in LinkKinds /\ net[i].id \in gone))
  <2>1. net[i] \in ACRequests
    BY <1>1
  <2>2. QED
    BY <2>1 DEF Alike, ACRequests
<1> HIDE DEF Of
<1>4. u \in [1..n -> ACRequests] /\ \A i \in 1..n : u[i] = Of(i)
  BY <1>3 DEF Alike
<1> HIDE DEF u, n
<1>5. u \in Seq(ACRequests) /\ Len(u) = n /\ DOMAIN u = 1..n
  BY <1>1, <1>4
<1>6. QED
  BY <1>1, <1>2, <1>3, <1>4, <1>5 DEF n

(* The tokens asked for are one for each link. *)
LEMMA TokensAre ==
  ASSUME NEW new \in SUBSET Links
  PROVE  LET s == SetToSeq({Asked("token", c) : c \in new})
         IN  /\ s \in Seq(ACRequests) /\ Len(s) \in Nat /\ DOMAIN s = 1..Len(s)
             /\ \A j \in DOMAIN s : \E c \in new : s[j] = Asked("token", c)
             /\ \A c \in new : \E j \in DOMAIN s : s[j] = Asked("token", c)
<1> DEFINE S == {Asked("token", c) : c \in new}
           n == Cardinality(S)
           s == SetToSeq(S)
<1>1. IsFiniteSet(new)
  <2>1. IsFiniteSet(BankAccounts \cup {NoAccount})
    BY AccountsAssumption, FS_AddElement
  <2>2. QED
    BY <2>1, FS_Subset DEF Links, Connect
<1>2. IsFiniteSet(S)
  <2> DEFINE f == [c \in new |-> Asked("token", c)]
  <2>1. f \in [new -> S] /\ \A q \in S : \E c \in new : f[c] = q
    OBVIOUS
  <2> HIDE DEF f, S
  <2>2. f \in Surjection(new, S)
    BY <2>1 DEF Surjection
  <2>3. QED
    BY <1>1, <2>2, FS_Surjection
<1>3. \A q \in S : q \in ACRequests
  BY AskedIs DEF LinkKinds
<1>4. \A q \in S : \E c \in new : q = Asked("token", c)
  OBVIOUS
<1>5. \A c \in new : Asked("token", c) \in S
  OBVIOUS
<1> HIDE DEF S
<1>6. n \in Nat /\ IsFiniteSet(1..n) /\ Cardinality(1..n) = n /\ ExistsBijection(1..n, S)
  BY <1>2, FS_CardinalityType, FS_Interval
<1>7. \E f \in [1..n -> S] : IsInjective(f)
  BY <1>6 DEF ExistsBijection, Bijection, Injection
<1>8. s \in [1..n -> S] /\ IsInjective(s)
  BY <1>7 DEF SetToSeq
<1> HIDE DEF s
<1>9. s \in Injection(1..n, S)
  BY <1>8 DEF Injection
<1>10. s \in Surjection(1..n, S)
  BY <1>2, <1>6, <1>9, FS_Injection
<1>11. \A q \in S : \E j \in 1..n : s[j] = q
  BY <1>10 DEF Surjection
<1> HIDE DEF n
<1>12. s \in [1..n -> ACRequests] /\ DOMAIN s = 1..n /\ \A j \in 1..n : s[j] \in S
  BY <1>3, <1>8
<1>13. s \in Seq(ACRequests) /\ Len(s) = n
  BY <1>6, <1>12
<1>14. QED
  BY <1>4, <1>5, <1>6, <1>11, <1>12, <1>13 DEF s, S

LEMMA Joined ==
  ASSUME NEW S, NEW s \in Seq(S), NEW t \in Seq(S)
  PROVE  /\ s \o t \in Seq(S) /\ Len(s \o t) = Len(s) + Len(t)
         /\ DOMAIN (s \o t) = 1..(Len(s) + Len(t))
         /\ \A j \in 1..Len(s) : (s \o t)[j] = s[j]
         /\ \A j \in 1..Len(t) : (s \o t)[Len(s) + j] = t[j]
OBVIOUS

\* Where the request at place j was before that at place i was taken out.
Before(i, j) == IF j < i THEN j ELSE j + 1

(* The others keep their order; new ones may follow. *)
OthersKept(i) ==
  /\ Queue(acNet') /\ DOMAIN acNet = 1..Len(acNet) /\ DOMAIN acNet' = 1..Len(acNet')
  /\ Len(acNet) \in Nat \ {0} /\ Len(acNet') \in Nat /\ Len(acNet) - 1 <= Len(acNet')
  /\ \A j \in 1..(Len(acNet) - 1) :
       /\ Before(i, j) \in DOMAIN acNet /\ Before(i, j) # i
       /\ j \in DOMAIN acNet' /\ Alike(acNet'[j], acNet[Before(i, j)])
  /\ \A k \in DOMAIN acNet : k # i => \E j \in 1..(Len(acNet) - 1) : Before(i, j) = k

LEMMA OneLess ==
  ASSUME ACTyped, NEW i \in DOMAIN acNet
  PROVE  LET r == RemoveAt(acNet, i)
             n == Len(acNet)
         IN  /\ Queue(r) /\ DOMAIN acNet = 1..n /\ n \in Nat \ {0}
             /\ Len(r) = n - 1 /\ DOMAIN r = 1..(n - 1)
             /\ \A j \in 1..(n - 1) : /\ Before(i, j) \in DOMAIN acNet /\ Before(i, j) # i
                                      /\ r[j] = acNet[Before(i, j)] /\ r[j] \in ACRequests
             /\ \A k \in DOMAIN acNet : k # i => \E j \in 1..(n - 1) : Before(i, j) = k
<1> DEFINE r == RemoveAt(acNet, i)
           n == Len(acNet)
<1>1. /\ Queue(r) /\ DOMAIN acNet = 1..n /\ n \in Nat \ {0} /\ Len(r) = n - 1 /\ DOMAIN r = 1..(n - 1)
      /\ \A j \in 1..(n - 1) : r[j] = IF j < i THEN acNet[j] ELSE acNet[j + 1]
  BY Unqueued DEF ACTyped
<1> HIDE DEF r, n
<1>2. i \in 1..n
  BY <1>1
<1>3. ASSUME NEW j \in 1..(n - 1)
      PROVE  Before(i, j) \in 1..n /\ Before(i, j) # i /\ r[j] = acNet[Before(i, j)]
  BY <1>1, <1>2 DEF Before
<1>4. ASSUME NEW k \in 1..n, k # i PROVE \E j \in 1..(n - 1) : Before(i, j) = k
  <2>1. CASE k < i
    BY <1>1, <1>2, <2>1 DEF Before
  <2>2. CASE i < k
    <3>1. k - 1 \in 1..(n - 1) /\ ~(k - 1 < i) /\ (k - 1) + 1 = k
      BY <1>1, <1>2, <2>2
    <3>2. QED
      BY <3>1 DEF Before
  <2>3. QED
    BY <1>1, <1>2, <1>4, <2>1, <2>2
<1>5. \A j \in DOMAIN acNet : acNet[j] \in ACRequests
  BY DEF ACTyped, ACRequestTyped
<1>6. QED
  BY <1>1, <1>3, <1>4, <1>5 DEF r, n

LEMMA AlikeItself == \A q \in ACRequests : Alike(q, q)
BY DEF Alike, ACRequests

LEMMA Forgotten ==
  ASSUME ACTyped, NEW i \in DOMAIN acNet, acNet' = RemoveAt(acNet, i)
  PROVE  /\ OthersKept(i) /\ Len(acNet') = Len(acNet) - 1
         /\ \A j \in DOMAIN acNet' : acNet'[j] = acNet[Before(i, j)]
<1> DEFINE n == Len(acNet)
<1>1. /\ Queue(acNet') /\ DOMAIN acNet = 1..n /\ n \in Nat \ {0}
      /\ Len(acNet') = n - 1 /\ DOMAIN acNet' = 1..(n - 1)
      /\ \A j \in 1..(n - 1) : /\ Before(i, j) \in DOMAIN acNet /\ Before(i, j) # i
                               /\ acNet'[j] = acNet[Before(i, j)] /\ acNet'[j] \in ACRequests
      /\ \A k \in DOMAIN acNet : k # i => \E j \in 1..(n - 1) : Before(i, j) = k
  BY OneLess
<1> HIDE DEF n
<1>2. \A j \in 1..(n - 1) : Alike(acNet'[j], acNet[Before(i, j)])
  BY <1>1, AlikeItself
<1>3. n - 1 \in Nat /\ n - 1 <= Len(acNet')
  BY <1>1
<1>4. QED
  BY <1>1, <1>2, <1>3 DEF OthersKept, n

LEMMA ListAsked ==
  ASSUME ACTyped, NEW i \in DOMAIN acNet, ListLoads(RemoveAt(acNet, i))
  PROVE  /\ OthersKept(i) /\ Len(acNet') = Len(acNet)
         /\ acNet'[Len(acNet)] = Asked("list", NoAccount)
         /\ \A j \in 1..(Len(acNet) - 1) : acNet'[j].heard => acNet'[j].kind \notin LinkKinds
<1> DEFINE n == Len(acNet)
           r == RemoveAt(acNet, i)
           u == Unheard(r, Links)
           q == Asked("list", NoAccount)
<1>1. acNet' = Append(u, q)
  BY DEF ListLoads
<1>2. /\ Queue(r) /\ DOMAIN acNet = 1..n /\ n \in Nat \ {0}
      /\ Len(r) = n - 1 /\ DOMAIN r = 1..(n - 1)
      /\ \A j \in 1..(n - 1) : /\ Before(i, j) \in DOMAIN acNet /\ Before(i, j) # i
                               /\ r[j] = acNet[Before(i, j)] /\ r[j] \in ACRequests
      /\ \A k \in DOMAIN acNet : k # i => \E j \in 1..(n - 1) : Before(i, j) = k
  BY OneLess
<1> HIDE DEF n, r
<1>3. /\ u \in Seq(ACRequests) /\ Len(u) = n - 1 /\ DOMAIN u = 1..(n - 1)
      /\ \A j \in 1..(n - 1) :
           /\ Alike(u[j], r[j])
           /\ u[j].heard <=> r[j].heard /\ ~(r[j].kind \in LinkKinds /\ r[j].id \in Links)
  BY <1>2, UnheardIs
<1> HIDE DEF u, q
<1>4. Queue(u)
  BY <1>3 DEF Queue
<1>5. /\ Queue(acNet') /\ DOMAIN acNet' = 1..((n - 1) + 1) /\ Len(acNet') = (n - 1) + 1
      /\ \A j \in 1..(n - 1) : acNet'[j] = u[j]
      /\ acNet'[(n - 1) + 1] = q
  BY <1>1, <1>3, <1>4, Queued
<1>6. (n - 1) + 1 = n /\ n - 1 \in Nat /\ n - 1 <= n /\ \A j \in 1..(n - 1) : j \in 1..n
  BY <1>2
<1>7. ASSUME NEW j \in 1..(n - 1) PROVE acNet'[j].heard => acNet'[j].kind \notin LinkKinds
  <2>1. r[j] \in ACRequests /\ Alike(u[j], r[j]) /\ r[j].id \in Links
    BY <1>2, <1>3 DEF ACRequests
  <2>2. u[j].kind = r[j].kind
    BY <2>1, AlikeFields
  <2>3. QED
    BY <1>3, <1>5, <2>1, <2>2
<1>8. \A j \in 1..(n - 1) : Alike(acNet'[j], acNet[Before(i, j)])
  BY <1>2, <1>3, <1>5
<1>9. QED
  BY <1>2, <1>5, <1>6, <1>7, <1>8 DEF OthersKept, n, q

LEMMA LinksDrawn ==
  ASSUME ACTyped, NEW i \in DOMAIN acNet, NEW list, BodyDrawn(list, RemoveAt(acNet, i)),
         LinksOf(list) \subseteq Links
  PROVE  /\ OthersKept(i)
         /\ \A j \in Len(acNet)..Len(acNet') : /\ acNet'[j] \in ACRequests /\ acNet'[j].kind = "token"
                                               /\ acNet'[j].id \in LinksOf(list) /\ acNet'[j].answer = NoAccounts
                                               /\ acNet'[j].served
         /\ \A j \in 1..(Len(acNet) - 1) :
              acNet'[j].heard <=> /\ acNet[Before(i, j)].heard
                                  /\ acNet[Before(i, j)].kind \in LinkKinds => acNet[Before(i, j)].id \in LinksOf(list)
         /\ \A c \in LinksOf(list) : acLoading \/ acLink[c] = "off" =>
              \E j \in DOMAIN acNet' : acNet'[j].kind = "token" /\ acNet'[j].id = c /\ acNet'[j].heard
<1> DEFINE n == Len(acNet)
           r == RemoveAt(acNet, i)
           u == Unheard(r, Links \ LinksOf(list))
           new == {c \in LinksOf(list) : acLoading \/ acLink[c] = "off"}
           t == SetToSeq({Asked("token", c) : c \in new})
<1>1. acNet' = u \o t
  BY DEF BodyDrawn
<1>2. /\ Queue(r) /\ DOMAIN acNet = 1..n /\ n \in Nat \ {0}
      /\ Len(r) = n - 1 /\ DOMAIN r = 1..(n - 1)
      /\ \A j \in 1..(n - 1) : /\ Before(i, j) \in DOMAIN acNet /\ Before(i, j) # i
                               /\ r[j] = acNet[Before(i, j)] /\ r[j] \in ACRequests
      /\ \A k \in DOMAIN acNet : k # i => \E j \in 1..(n - 1) : Before(i, j) = k
  BY OneLess
<1>3. new \in SUBSET Links
  OBVIOUS
<1> HIDE DEF n, r
<1>4. /\ u \in Seq(ACRequests) /\ Len(u) = n - 1 /\ DOMAIN u = 1..(n - 1)
      /\ \A j \in 1..(n - 1) :
           /\ Alike(u[j], r[j])
           /\ u[j].heard <=> r[j].heard /\ ~(r[j].kind \in LinkKinds /\ r[j].id \in Links \ LinksOf(list))
  BY <1>2, UnheardIs
<1>5. /\ t \in Seq(ACRequests) /\ Len(t) \in Nat /\ DOMAIN t = 1..Len(t)
      /\ \A j \in DOMAIN t : \E c \in new : t[j] = Asked("token", c)
      /\ \A c \in new : \E j \in DOMAIN t : t[j] = Asked("token", c)
  BY <1>3, TokensAre
<1> HIDE DEF u, t
<1> DEFINE m == Len(t)
<1>6. acNet' \in Seq(ACRequests) /\ Len(acNet') = (n - 1) + m /\ DOMAIN acNet' = 1..((n - 1) + m)
  <2>1. u \o t \in Seq(ACRequests) /\ Len(u \o t) = Len(u) + m /\ DOMAIN (u \o t) = 1..(Len(u) + m)
    <3>1. u \in Seq(ACRequests) /\ t \in Seq(ACRequests)
      BY <1>4, <1>5
    <3> HIDE DEF m
    <3>2. m = Len(t)
      BY DEF m
    <3>3. /\ u \o t \in Seq(ACRequests) /\ Len(u \o t) = Len(u) + Len(t)
          /\ DOMAIN (u \o t) = 1..(Len(u) + Len(t))
      BY <3>1, Joined
    <3>4. QED
      BY <3>2, <3>3
  <2>2. Len(u) = n - 1
    BY <1>4
  <2> HIDE DEF m
  <2>3. QED
    BY <1>1, <2>1, <2>2
<1>7. \A j \in 1..(n - 1) : acNet'[j] = u[j]
  BY <1>1, <1>4, <1>5, Joined
<1>8. \A j \in 1..m : acNet'[(n - 1) + j] = t[j]
  BY SMTT(30), <1>1, <1>4, <1>5, Joined
<1> HIDE DEF m
<1>9. n \in Nat \ {0} /\ m \in Nat
  BY <1>2, <1>5 DEF m
<1>10. \A c \in new : /\ c \in LinksOf(list) /\ Asked("token", c) \in ACRequests
                      /\ Asked("token", c).kind = "token" /\ Asked("token", c).id = c
                      /\ Asked("token", c).answer = NoAccounts
                      /\ Asked("token", c).served /\ Asked("token", c).heard
  BY <1>3, AskedIs DEF LinkKinds
<1>11. ASSUME NEW j \in n..((n - 1) + m) PROVE \E c \in new : acNet'[j] = Asked("token", c)
  <2>1. j - (n - 1) \in 1..m /\ (n - 1) + (j - (n - 1)) = j
    BY <1>9
  <2>2. PICK k \in 1..m : k = j - (n - 1) /\ (n - 1) + k = j
    BY <2>1
  <2>3. acNet'[j] = t[k] /\ k \in DOMAIN t
    BY <1>5, <1>8, <2>2 DEF m
  <2>4. QED
    BY <1>5, <2>3
<1>12. ASSUME NEW c \in new PROVE \E j \in 1..((n - 1) + m) : acNet'[j] = Asked("token", c)
  <2>1. PICK k \in 1..m : t[k] = Asked("token", c)
    BY <1>5 DEF m
  <2>2. (n - 1) + k \in 1..((n - 1) + m) /\ acNet'[(n - 1) + k] = t[k]
    BY <1>8, <1>9
  <2>3. QED
    BY <2>1, <2>2
<1>13. \A j \in 1..(n - 1) :
         /\ Alike(acNet'[j], acNet[Before(i, j)])
         /\ acNet'[j].heard <=> /\ acNet[Before(i, j)].heard
                                /\ acNet[Before(i, j)].kind \in LinkKinds => acNet[Before(i, j)].id \in LinksOf(list)
  <2> SUFFICES ASSUME NEW j \in 1..(n - 1)
               PROVE  /\ Alike(acNet'[j], acNet[Before(i, j)])
                      /\ acNet'[j].heard <=>
                           /\ acNet[Before(i, j)].heard
                           /\ acNet[Before(i, j)].kind \in LinkKinds => acNet[Before(i, j)].id \in LinksOf(list)
    OBVIOUS
  <2>1. acNet'[j] = u[j] /\ r[j] = acNet[Before(i, j)] /\ r[j].id \in Links
    BY <1>2, <1>7 DEF ACRequests
  <2>2. QED
    BY <1>4, <2>1
<1>14. /\ n - 1 \in Nat /\ (n - 1) + m \in Nat /\ n - 1 <= (n - 1) + m
       /\ \A j \in 1..(n - 1) : j \in 1..((n - 1) + m)
  BY <1>9
<1>15. Queue(acNet')
  BY <1>6 DEF Queue
<1>16. OthersKept(i)
  BY <1>2, <1>6, <1>13, <1>14, <1>15 DEF OthersKept, n
<1>17. \A j \in n..Len(acNet') : /\ acNet'[j] \in ACRequests /\ acNet'[j].kind = "token"
                                 /\ acNet'[j].id \in LinksOf(list) /\ acNet'[j].answer = NoAccounts
                                 /\ acNet'[j].served
  BY <1>6, <1>10, <1>11
<1>18. ASSUME NEW c \in LinksOf(list), acLoading \/ acLink[c] = "off"
       PROVE  \E j \in DOMAIN acNet' : acNet'[j].kind = "token" /\ acNet'[j].id = c /\ acNet'[j].heard
  <2>1. c \in new
    BY <1>18
  <2>2. QED
    BY <1>6, <1>10, <1>12, <2>1
<1>19. QED
  BY <1>13, <1>16, <1>17, <1>18 DEF n

-----------------------------------------------------------------------------
(* The page of the accounts: every step keeps the types. *)

NetTyped == Queue(acNet) /\ \A i \in DOMAIN acNet : ACRequestTyped(acNet[i])

LEMMA ACTypedInit == ACInit => ACTyped
<1> SUFFICES ASSUME ACInit PROVE ACTyped
  OBVIOUS
<1> DEFINE q == Asked("list", NoAccount)
           r == Asked("balances", NoAccount)
<1>1. acNet = <<q, r>>
  BY DEF ACInit
<1>2. NoAccount \in Links
  BY DEF Links, Connect
<1>3. q \in ACRequests /\ r \in ACRequests /\ q.kind = "list" /\ r.kind = "balances"
      /\ q.answer = NoAccounts /\ r.answer = NoAccounts
  BY <1>2, AskedIs
<1> HIDE DEF q, r
<1>4. acStore \in Standing /\ acStore.access \subseteq acStore.linked
  BY DEF ACInit, Standing
<1>5. Queue(acNet) /\ \A i \in DOMAIN acNet : acNet[i] \in {q, r}
  <2>1. acNet \in Seq(ACRequests) /\ \A i \in DOMAIN acNet : acNet[i] \in {q, r}
    BY <1>1, <1>3
  <2>2. QED
    BY <2>1 DEF Queue
<1>6. \A i \in DOMAIN acNet : ACRequestTyped(acNet[i])
  BY <1>3, <1>5, NoAccountsStand DEF ACRequestTyped
<1>7. QED
  BY <1>4, <1>5, <1>6, NoAccountsStand, MaxActsAssumption DEF ACInit, ACTyped

LEMMA SentTyped ==
  ASSUME ACTyped, NEW q, Act(q), ACRequestTyped(q), UNCHANGED acStore
  PROVE  NetTyped' /\ acActs' \in 0..MaxActs
<1> DEFINE n == Len(acNet)
<1>1. /\ Queue(acNet') /\ n \in Nat /\ DOMAIN acNet = 1..n /\ DOMAIN acNet' = 1..(n + 1)
      /\ \A j \in 1..n : acNet'[j] = acNet[j]
      /\ acNet'[n + 1] = q
  BY Queued DEF ACTyped, Act
<1> HIDE DEF n
<1>2. \A j \in 1..(n + 1) : j = n + 1 \/ j \in 1..n
  BY <1>1
<1>3. \A j \in DOMAIN acNet' : ACRequestTyped(acNet'[j])
  BY <1>1, <1>2 DEF ACTyped
<1>4. acActs' \in 0..MaxActs
  BY MaxActsAssumption DEF Act, ACTyped
<1>5. QED
  BY <1>1, <1>3, <1>4 DEF NetTyped, ACRequestTyped

LEMMA ActiveLinked ==
  ASSUME ACTyped
  PROVE  /\ \A a \in Active(acList) : a \in BankAccounts /\ a \in acStore.linked /\ a \in Links
         /\ \A a \in acList.linked : a \in BankAccounts /\ a \in acStore.linked /\ a \in Links
         /\ LinksOf(acList) \subseteq Links
BY DEF ACTyped, Standing, Active, Links, LinksOf

(* What the user does keeps the types. *)
LEMMA ACUserTyped ==
  ASSUME ACTyped,
         \/ ToggleAccess \/ Rename \/ AskArchive \/ CloseAsk \/ Unarchive
         \/ OpenLink \/ ExitLink \/ LinkSucceeds
  PROVE  ACTyped'
<1>1. CASE ToggleAccess
  <2>1. PICK a \in Active(acList) :
          /\ Act([Asked("access", a) EXCEPT !.value = a \notin acBoxes])
          /\ acBoxes' = IF a \in acBoxes THEN acBoxes \ {a} ELSE acBoxes \cup {a}
    BY <1>1 DEF ToggleAccess
  <2> DEFINE q == [Asked("access", a) EXCEPT !.value = a \notin acBoxes]
  <2>2. a \in BankAccounts /\ a \in acStore.linked /\ a \in Links
    BY ActiveLinked
  <2>3. ACRequestTyped(q)
    <3>1. /\ Asked("access", a) \in ACRequests /\ Asked("access", a).kind = "access"
          /\ Asked("access", a).id = a /\ Asked("access", a).answer = NoAccounts
      BY <2>2, AskedIs
    <3> HIDE DEF Asked
    <3>2. q \in ACRequests /\ q.kind = "access" /\ q.id = a /\ q.answer = NoAccounts
      BY <3>1 DEF ACRequests
    <3>3. QED
      BY <2>2, <3>2, NoAccountsStand DEF ACRequestTyped
  <2>4. NetTyped' /\ acActs' \in 0..MaxActs
    BY <1>1, <2>1, <2>3, SentTyped DEF ToggleAccess
  <2>5. acBoxes' \subseteq BankAccounts /\ acCalm' \in BOOLEAN
    BY <1>1, <2>1, <2>2 DEF ToggleAccess, ACTyped
  <2>6. QED
    BY <1>1, <2>4, <2>5 DEF ToggleAccess, ACTyped, NetTyped, acDialogs
<1>2. CASE Rename
  <2>1. PICK a \in Active(acList) : Act(Asked("rename", a))
    BY <1>2 DEF Rename
  <2>2. a \in Links
    BY ActiveLinked
  <2>3. ACRequestTyped(Asked("rename", a))
    BY <2>2, AskedIs, NoAccountsStand DEF ACRequestTyped, Changers
  <2>4. NetTyped' /\ acActs' \in 0..MaxActs
    BY <1>2, <2>1, <2>3, SentTyped DEF Rename
  <2>5. QED
    BY <1>2, <2>4 DEF Rename, ACTyped, NetTyped, acPage, acDialogs
<1>3. CASE AskArchive
  <2>1. acAsk' \in BankAccounts
    BY <1>3, ActiveLinked DEF AskArchive
  <2>2. QED
    BY <1>3, <2>1 DEF AskArchive, ACTyped, ACRequestTyped, acPage
<1>4. CASE CloseAsk
  <2>1. CASE Act([Asked("archive", acAsk) EXCEPT !.value = TRUE])
    <3> DEFINE q == [Asked("archive", acAsk) EXCEPT !.value = TRUE]
    <3>1. acAsk \in BankAccounts /\ acAsk \in Links
      BY <1>4 DEF CloseAsk, ACTyped, Links
    <3>2. ACRequestTyped(q)
      <4>1. /\ Asked("archive", acAsk) \in ACRequests /\ Asked("archive", acAsk).kind = "archive"
            /\ Asked("archive", acAsk).id = acAsk /\ Asked("archive", acAsk).answer = NoAccounts
        BY <3>1, AskedIs DEF Changers
      <4> HIDE DEF Asked
      <4>2. q \in ACRequests /\ q.kind = "archive" /\ q.id = acAsk /\ q.answer = NoAccounts
        BY <4>1 DEF ACRequests
      <4>3. QED
        BY <3>1, <4>2, NoAccountsStand DEF ACRequestTyped
    <3>3. NetTyped' /\ acActs' \in 0..MaxActs
      BY <1>4, <2>1, <3>2, SentTyped DEF CloseAsk
    <3>4. QED
      BY <1>4, <3>3 DEF CloseAsk, ACTyped, NetTyped, acPage
  <2>2. CASE UNCHANGED <<acNet, acActs>>
    BY <1>4, <2>2 DEF CloseAsk, ACTyped, ACRequestTyped, acPage
  <2>3. QED
    BY <1>4, <2>1, <2>2 DEF CloseAsk
<1>5. CASE Unarchive
  <2>1. PICK a \in acList.linked \cap acList.archived : Act(Asked("archive", a))
    BY <1>5 DEF Unarchive
  <2>2. a \in BankAccounts /\ a \in Links
    BY ActiveLinked
  <2>3. ACRequestTyped(Asked("archive", a))
    BY <2>2, AskedIs, NoAccountsStand DEF ACRequestTyped, Changers
  <2>4. NetTyped' /\ acActs' \in 0..MaxActs
    BY <1>5, <2>1, <2>3, SentTyped DEF Unarchive
  <2>5. QED
    BY <1>5, <2>4 DEF Unarchive, ACTyped, NetTyped, acPage, acDialogs
<1>6. CASE OpenLink \/ ExitLink
  <2>1. acOpen' \subseteq Links
    BY <1>6 DEF OpenLink, ExitLink
  <2>2. QED
    BY <1>6, <2>1 DEF OpenLink, ExitLink, ACTyped, ACRequestTyped, acPage
<1>7. CASE LinkSucceeds
  <2>1. PICK c \in acOpen :
          /\ IF c = Connect
             THEN \E new \in (SUBSET (BankAccounts \ acStore.linked)) \ {{}} :
                    Act([Asked("exchange", c) EXCEPT !.new = new])
             ELSE Act(Asked("reconnect", c))
          /\ acLink' = [acLink EXCEPT ![c] = "working"]
    BY <1>7 DEF LinkSucceeds
  <2>2. c \in Links
    BY DEF ACTyped
  <2>3. NetTyped' /\ acActs' \in 0..MaxActs
    <3>1. CASE c = Connect
      <4>1. PICK new \in SUBSET BankAccounts : Act([Asked("exchange", c) EXCEPT !.new = new])
        BY <2>1, <3>1
      <4> DEFINE q == [Asked("exchange", c) EXCEPT !.new = new]
      <4>2. ACRequestTyped(q)
        <5>1. /\ Asked("exchange", c) \in ACRequests /\ Asked("exchange", c).kind = "exchange"
              /\ Asked("exchange", c).answer = NoAccounts
          BY <2>2, AskedIs DEF Changers
        <5> HIDE DEF Asked
        <5>2. q \in ACRequests /\ q.kind = "exchange" /\ q.answer = NoAccounts
          BY <5>1 DEF ACRequests
        <5>3. QED
          BY <5>2, NoAccountsStand DEF ACRequestTyped
      <4>3. QED
        BY <1>7, <4>1, <4>2, SentTyped DEF LinkSucceeds
    <3>2. CASE c # Connect
      <4>1. ACRequestTyped(Asked("reconnect", c))
        BY <2>2, AskedIs, NoAccountsStand DEF ACRequestTyped, Changers
      <4>2. QED
        BY <1>7, <2>1, <3>2, <4>1, SentTyped DEF LinkSucceeds
    <3>3. QED
      BY <3>1, <3>2
  <2>4. acLink' \in [Links -> {"off", "asked", "failed", "ready", "working"}]
    BY <2>1, <2>2 DEF ACTyped
  <2>5. QED
    BY <1>7, <2>3, <2>4 DEF LinkSucceeds, ACTyped, NetTyped, acPage
<1>8. QED
  BY <1>1, <1>2, <1>3, <1>4, <1>5, <1>6, <1>7

(* What the server makes of a request.                                       *)
LEMMA ACStoredTyped ==
  ASSUME ACTyped, NEW q, ACRequestTyped(q), acStore' = ACStored(q)
  PROVE  /\ acStore' \in Standing /\ acStore'.access \subseteq acStore'.linked
         /\ acStore.linked \subseteq acStore'.linked
         /\ q.kind \notin Changers =>
              /\ acStore'.linked = acStore.linked /\ acStore'.archived = acStore.archived
              /\ acStore'.lost = acStore.lost
         /\ q.kind = "access" => acStore'.access = ACPut(acStore.access, q.id, q.value)
         /\ q.kind # "access" => acStore'.access = acStore.access
<1>1. acStore \in Standing /\ acStore.access \subseteq acStore.linked /\ q \in ACRequests
  BY DEF ACTyped, ACRequestTyped
<1>2. CASE q.kind = "access"
  <2>1. ACPut(acStore.access, q.id, q.value) \subseteq acStore.linked
    BY <1>1, <1>2 DEF ACPut, ACRequestTyped
  <2>2. acStore' = [acStore EXCEPT !.access = ACPut(acStore.access, q.id, q.value)]
    BY <1>2 DEF ACStored
  <2>3. QED
    BY <1>1, <1>2, <2>1, <2>2 DEF Standing, Changers
<1>3. CASE q.kind = "archive"
  <2>1. ACPut(acStore.archived, q.id, q.value) \subseteq BankAccounts
    BY <1>1, <1>3 DEF ACPut, ACRequestTyped, Standing
  <2>2. acStore' = [acStore EXCEPT !.archived = ACPut(acStore.archived, q.id, q.value)]
    BY <1>3 DEF ACStored
  <2>3. QED
    BY <1>1, <1>3, <2>1, <2>2 DEF Standing, Changers
<1>4. CASE q.kind = "exchange"
  <2>1. acStore' = [acStore EXCEPT !.linked = acStore.linked \cup q.new]
    BY <1>4 DEF ACStored
  <2>2. QED
    BY <1>1, <1>4, <2>1 DEF Standing, Changers, ACRequests
<1>5. CASE q.kind = "reconnect"
  <2>1. acStore' = [acStore EXCEPT !.lost = acStore.lost \ {q.id}]
    BY <1>5 DEF ACStored
  <2>2. QED
    BY <1>1, <1>5, <2>1 DEF Standing, Changers
<1>6. CASE q.kind \notin {"access", "archive", "exchange", "reconnect"}
  <2>1. acStore' = acStore
    BY <1>6 DEF ACStored
  <2>2. QED
    BY <1>1, <1>6, <2>1
<1>7. QED
  BY <1>2, <1>3, <1>4, <1>5, <1>6

\* What a request is once it was served.
ACServed(q) == [q EXCEPT !.served = TRUE,
                       !.answer = IF q.kind \in {"list", "balances"} THEN acStore' ELSE q.answer]

LEMMA ACServedIs ==
  ASSUME NEW q \in ACRequests, acStore' \in Standing
  PROVE  /\ ACServed(q) \in ACRequests /\ ACServed(q).served
         /\ ACServed(q).answer = IF q.kind \in {"list", "balances"} THEN acStore' ELSE q.answer
         /\ ACServed(q).kind = q.kind /\ ACServed(q).id = q.id /\ ACServed(q).value = q.value
         /\ ACServed(q).new = q.new /\ ACServed(q).heard = q.heard
BY DEF ACServed, ACRequests

LEMMA ServeNet ==
  ASSUME ACTyped, NEW k \in DOMAIN acNet, ACServe(k)
  PROVE  /\ ~acNet[k].served /\ acStore' = ACStored(acNet[k]) /\ ACRequestTyped(acNet[k])
         /\ acStore' \in Standing /\ ACServed(acNet[k]) \in ACRequests
         /\ Queue(acNet') /\ Len(acNet) \in Nat /\ DOMAIN acNet = 1..Len(acNet)
         /\ Len(acNet') = Len(acNet) /\ DOMAIN acNet' = 1..Len(acNet)
         /\ \A j \in 1..Len(acNet) : acNet'[j] = IF j = k THEN ACServed(acNet[k]) ELSE acNet[j]
<1>1. ~acNet[k].served /\ acStore' = ACStored(acNet[k]) /\ acNet' = [acNet EXCEPT ![k] = ACServed(acNet[k])]
  BY DEF ACServe, ACServed
<1>2. ACRequestTyped(acNet[k]) /\ acNet[k] \in ACRequests /\ Queue(acNet)
  BY DEF ACTyped, ACRequestTyped
<1>3. acStore' \in Standing
  BY <1>1, <1>2, ACStoredTyped
<1>4. ACServed(acNet[k]) \in ACRequests
  BY <1>2, <1>3, ACServedIs
<1> DEFINE e == ACServed(acNet[k])
<1> HIDE DEF e
<1>5. /\ Queue(acNet') /\ Len(acNet) \in Nat /\ DOMAIN acNet = 1..Len(acNet)
      /\ Len(acNet') = Len(acNet) /\ DOMAIN acNet' = 1..Len(acNet)
      /\ \A j \in 1..Len(acNet) : acNet'[j] = IF j = k THEN e ELSE acNet[j]
  <2>1. acNet' = [acNet EXCEPT ![k] = e]
    BY <1>1 DEF e
  <2>2. Queue(acNet)
    BY <1>2
  <2>3. QED
    BY ZenonT(30), <2>1, <2>2, ChangedInQueue
<1>6. QED
  BY <1>1, <1>2, <1>3, <1>4, <1>5 DEF e

LEMMA ACServeTyped ==
  ASSUME ACTyped, NEW k \in DOMAIN acNet, ACServe(k)
  PROVE  ACTyped'
<1> DEFINE q == acNet[k]
<1>1. /\ acStore' = ACStored(q) /\ ACRequestTyped(q) /\ Queue(acNet')
      /\ DOMAIN acNet = 1..Len(acNet) /\ DOMAIN acNet' = 1..Len(acNet)
      /\ \A j \in 1..Len(acNet) : acNet'[j] = IF j = k THEN ACServed(q) ELSE acNet[j]
  BY ServeNet
<1>2. /\ acStore' \in Standing /\ acStore'.access \subseteq acStore'.linked
      /\ acStore.linked \subseteq acStore'.linked
  BY <1>1, ACStoredTyped
<1> HIDE DEF ACServed
<1>3. ASSUME NEW j \in DOMAIN acNet' PROVE ACRequestTyped(acNet[j])'
  <2>1. CASE j = k
    <3>1. /\ ACServed(q) \in ACRequests
          /\ ACServed(q).answer = IF q.kind \in {"list", "balances"} THEN acStore' ELSE q.answer
          /\ ACServed(q).kind = q.kind /\ ACServed(q).id = q.id
      BY <1>1, <1>2, ACServedIs DEF ACRequestTyped
    <3>2. acNet'[j] = ACServed(q) /\ q.answer.linked \subseteq acStore.linked
      BY <1>1, <2>1 DEF ACRequestTyped
    <3>3. acNet'[j].answer.linked \subseteq acStore'.linked
      BY <1>2, <3>1, <3>2
    <3>4. QED
      BY <1>1, <1>2, <3>1, <3>2, <3>3 DEF ACRequestTyped
  <2>2. CASE j # k
    <3>1. acNet'[j] = acNet[j] /\ ACRequestTyped(acNet[j])
      BY <1>1, <2>2 DEF ACTyped
    <3>2. QED
      BY <1>2, <3>1 DEF ACRequestTyped
  <2>3. QED
    BY <2>1, <2>2
<1>4. acList'.linked \subseteq acStore'.linked /\ acBalances' \subseteq acStore'.linked /\ acCalm' \in BOOLEAN
  BY <1>2 DEF ACServe, ACTyped, acPage
<1>5. QED
  BY <1>1, <1>2, <1>3, <1>4 DEF ACServe, ACTyped, acPage, acDialogs

LEMMA RestTyped ==
  ASSUME ACTyped, NEW i \in DOMAIN acNet, OthersKept(i), UNCHANGED acStore,
         \A j \in Len(acNet)..Len(acNet') : ACRequestTyped(acNet'[j])
  PROVE  NetTyped'
<1>1. /\ Queue(acNet') /\ Len(acNet) \in Nat \ {0} /\ Len(acNet') \in Nat /\ DOMAIN acNet' = 1..Len(acNet')
      /\ \A j \in 1..(Len(acNet) - 1) :
           Before(i, j) \in DOMAIN acNet /\ Alike(acNet'[j], acNet[Before(i, j)])
  BY DEF OthersKept
<1>2. ASSUME NEW j \in DOMAIN acNet' PROVE ACRequestTyped(acNet'[j])
  <2>1. CASE j \in 1..(Len(acNet) - 1)
    <3> DEFINE p == acNet'[j]
               q == acNet[Before(i, j)]
    <3>1. ACRequestTyped(q) /\ q \in ACRequests /\ Alike(p, q)
      BY <1>1, <2>1 DEF ACTyped, ACRequestTyped
    <3> HIDE DEF p, q
    <3>2. p \in ACRequests /\ p.kind = q.kind /\ p.id = q.id /\ p.answer = q.answer
      BY <3>1, AlikeFields
    <3>3. ACRequestTyped(p)
      BY <3>1, <3>2 DEF ACRequestTyped
    <3>4. QED
      BY <3>3 DEF p
  <2>2. CASE j \notin 1..(Len(acNet) - 1)
    <3>1. j \in Len(acNet)..Len(acNet')
      BY <1>1, <2>2
    <3>2. QED
      BY <3>1
  <2>3. QED
    BY <2>1, <2>2
<1>3. \A j \in DOMAIN acNet' : ACRequestTyped(acNet[j])'
  BY <1>2 DEF ACRequestTyped
<1>4. QED
  BY <1>1, <1>3 DEF NetTyped

LEMMA ForgottenTyped ==
  ASSUME ACTyped, NEW i \in DOMAIN acNet, acNet' = RemoveAt(acNet, i), UNCHANGED acStore
  PROVE  NetTyped'
<1>1. OthersKept(i) /\ Len(acNet') = Len(acNet) - 1
  BY Forgotten
<1>2. \A j \in Len(acNet)..Len(acNet') : FALSE
  BY <1>1 DEF OthersKept
<1>3. QED
  BY <1>1, <1>2, RestTyped

LEMMA ListAskedTyped ==
  ASSUME ACTyped, NEW i \in DOMAIN acNet, ListLoads(RemoveAt(acNet, i)), UNCHANGED acStore
  PROVE  NetTyped'
<1>1. OthersKept(i) /\ Len(acNet') = Len(acNet) /\ acNet'[Len(acNet)] = Asked("list", NoAccount)
  BY ListAsked
<1>2. NoAccount \in Links
  BY DEF Links, Connect
<1>3. ACRequestTyped(Asked("list", NoAccount))
  BY <1>2, AskedIs, NoAccountsStand DEF ACRequestTyped
<1>4. \A j \in Len(acNet)..Len(acNet') : j = Len(acNet)
  <2>1. Len(acNet) \in Nat
    BY <1>1 DEF OthersKept
  <2>2. QED
    BY <1>1, <2>1
<1>5. QED
  BY <1>1, <1>3, <1>4, RestTyped

LEMMA LinksDrawnTyped ==
  ASSUME ACTyped, NEW i \in DOMAIN acNet, NEW list \in Standing, BodyDrawn(list, RemoveAt(acNet, i)),
         UNCHANGED acStore
  PROVE  /\ NetTyped' /\ acLoading' \in BOOLEAN /\ acBoxes' \subseteq BankAccounts
         /\ acLink' \in [Links -> {"off", "asked", "failed", "ready", "working"}]
         /\ acOpen' \subseteq Links
<1>1. LinksOf(list) \subseteq Links
  BY DEF Standing, LinksOf, Active, Links
<1>2. OthersKept(i) /\ \A j \in Len(acNet)..Len(acNet') : ACRequestTyped(acNet'[j])
  BY <1>1, LinksDrawn, NoAccountsStand DEF ACRequestTyped
<1>3. NetTyped'
  BY <1>2, RestTyped
<1>4. acLink' \in [Links -> {"off", "asked", "failed", "ready", "working"}]
  BY DEF BodyDrawn, ACTyped
<1>5. acLoading' \in BOOLEAN /\ acBoxes' \subseteq BankAccounts /\ acOpen' \subseteq Links
  BY <1>1 DEF BodyDrawn, Standing
<1>6. QED
  BY <1>3, <1>4, <1>5

LEMMA LinkBecomesTyped ==
  ASSUME ACTyped, NEW q \in ACRequests, NEW state \in {"ready", "failed"}, LinkBecomes(q, state)
  PROVE  /\ acLink' \in [Links -> {"off", "asked", "failed", "ready", "working"}]
         /\ acOpen' \subseteq Links
BY DEF LinkBecomes, ACTyped, ACRequests

LEMMA AnswerTyped ==
  ASSUME ACTyped, NEW i \in DOMAIN acNet, ACAnswer(i)
  PROVE  ACTyped'
<1> DEFINE q == acNet[i]
           r == RemoveAt(acNet, i)
<1>1. q \in ACRequests /\ ACRequestTyped(q) /\ UNCHANGED <<acAsk, acActs, acStore>>
      /\ acCalm' \in BOOLEAN
  BY DEF ACAnswer, ACTyped, ACRequestTyped
<1>2. q.answer \in Standing /\ q.answer.linked \subseteq acStore.linked
  BY <1>1 DEF ACRequestTyped, ACRequests
<1>3. CASE q.kind = "list"
  <2>1. acList' = q.answer /\ BodyDrawn(q.answer, r) /\ UNCHANGED <<acBalances, acBalLoading>>
    BY <1>3 DEF ACAnswer
  <2> HIDE DEF q, r
  <2>2. /\ NetTyped' /\ acLoading' \in BOOLEAN /\ acBoxes' \subseteq BankAccounts
        /\ acLink' \in [Links -> {"off", "asked", "failed", "ready", "working"}]
        /\ acOpen' \subseteq Links
    BY <1>1, <1>2, <2>1, LinksDrawnTyped DEF r
  <2>3. QED
    BY <1>1, <1>2, <2>1, <2>2 DEF ACTyped, NetTyped
<1>4. CASE q.kind = "balances"
  <2>1. /\ acBalances' = q.answer.linked /\ acBalLoading' = FALSE /\ acNet' = r
        /\ UNCHANGED <<acList, acLoading, acBoxes, acLink, acOpen>>
    BY <1>4 DEF ACAnswer
  <2>2. NetTyped'
    BY <1>1, <2>1, ForgottenTyped
  <2>3. QED
    BY <1>1, <1>2, <2>1, <2>2 DEF ACTyped, NetTyped
<1>5. CASE q.kind = "token"
  <2>1. LinkBecomes(q, "ready") /\ acNet' = r /\ UNCHANGED acPage
    BY <1>5 DEF ACAnswer
  <2>2. NetTyped'
    BY <1>1, <2>1, ForgottenTyped
  <2> HIDE DEF q, r
  <2>3. /\ acLink' \in [Links -> {"off", "asked", "failed", "ready", "working"}]
        /\ acOpen' \subseteq Links
    BY <1>1, <2>1, LinkBecomesTyped
  <2>4. QED
    BY <1>1, <2>1, <2>2, <2>3 DEF ACTyped, NetTyped, acPage
<1>6. CASE q.kind = "access"
  <2>1. acNet' = r /\ UNCHANGED <<acPage, acLink, acOpen>>
    BY <1>6 DEF ACAnswer
  <2>2. NetTyped'
    BY <1>1, <2>1, ForgottenTyped
  <2>3. QED
    BY <1>1, <2>1, <2>2 DEF ACTyped, NetTyped, acPage
<1>7. CASE q.kind \notin {"list", "balances", "token", "access"}
  <2>1. ListLoads(r) /\ UNCHANGED <<acList, acBalances, acBalLoading, acBoxes>>
    BY <1>7 DEF ACAnswer
  <2>2. NetTyped'
    BY <1>1, <2>1, ListAskedTyped
  <2>3. /\ acLoading' \in BOOLEAN /\ acLink' \in [Links -> {"off", "asked", "failed", "ready", "working"}]
        /\ acOpen' \subseteq Links
    BY <2>1 DEF ListLoads
  <2>4. QED
    BY <1>1, <2>1, <2>2, <2>3 DEF ACTyped, NetTyped
<1>8. QED
  BY <1>3, <1>4, <1>5, <1>6, <1>7

\* What a failed list leaves: the old one.
OldList == [acList EXCEPT !.access = IF acLoading THEN acList.access ELSE acBoxes]

LEMMA OldListIs ==
  ASSUME ACTyped
  PROVE  OldList \in Standing /\ LinksOf(OldList) = LinksOf(acList)
BY DEF ACTyped, OldList, Standing, LinksOf, Active

LEMMA FailTyped ==
  ASSUME ACTyped, NEW i \in DOMAIN acNet, ACFail(i)
  PROVE  ACTyped'
<1> DEFINE q == acNet[i]
           r == RemoveAt(acNet, i)
<1>1. q \in ACRequests /\ UNCHANGED <<acAsk, acActs, acStore>> /\ acCalm' \in BOOLEAN
  BY DEF ACFail, ACTyped, ACRequestTyped
<1>2. CASE q.kind = "list"
  <2>1. BodyDrawn(OldList, r) /\ UNCHANGED <<acList, acBalances, acBalLoading>>
    BY <1>2 DEF ACFail, OldList
  <2>2. OldList \in Standing
    BY OldListIs
  <2> HIDE DEF q, r
  <2>3. /\ NetTyped' /\ acLoading' \in BOOLEAN /\ acBoxes' \subseteq BankAccounts
        /\ acLink' \in [Links -> {"off", "asked", "failed", "ready", "working"}]
        /\ acOpen' \subseteq Links
    BY <1>1, <2>1, <2>2, LinksDrawnTyped DEF r
  <2>4. QED
    BY <1>1, <2>1, <2>3 DEF ACTyped, NetTyped
<1>3. CASE q.kind = "balances"
  <2>1. acBalLoading' = FALSE /\ acNet' = r /\ UNCHANGED <<acList, acLoading, acBalances, acBoxes, acLink, acOpen>>
    BY <1>3 DEF ACFail
  <2>2. NetTyped'
    BY <1>1, <2>1, ForgottenTyped
  <2>3. QED
    BY <1>1, <2>1, <2>2 DEF ACTyped, NetTyped
<1>4. CASE q.kind \in LinkKinds
  <2>1. PICK state \in {"ready", "failed"} : LinkBecomes(q, state)
    BY <1>4 DEF ACFail, LinkKinds
  <2>2. acNet' = r /\ UNCHANGED acPage
    BY <1>4 DEF ACFail, LinkKinds
  <2>3. NetTyped'
    BY <1>1, <2>2, ForgottenTyped
  <2> HIDE DEF q, r
  <2>4. /\ acLink' \in [Links -> {"off", "asked", "failed", "ready", "working"}]
        /\ acOpen' \subseteq Links
    BY <1>1, <2>1, LinkBecomesTyped
  <2>5. QED
    BY <1>1, <2>2, <2>3, <2>4 DEF ACTyped, NetTyped, acPage
<1>5. CASE q.kind \notin {"list", "balances"} \cup LinkKinds
  <2>1. acNet' = r /\ UNCHANGED <<acPage, acLink, acOpen>>
    BY <1>5 DEF ACFail, LinkKinds
  <2>2. NetTyped'
    BY <1>1, <2>1, ForgottenTyped
  <2>3. QED
    BY <1>1, <2>1, <2>2 DEF ACTyped, NetTyped, acPage
<1>6. QED
  BY <1>2, <1>3, <1>4, <1>5

-----------------------------------------------------------------------------
(* The links of the page of the accounts: every step keeps LinksHeard. *)

LEMMA LinksHeardInit == ACInit => LinksHeard
<1> SUFFICES ASSUME ACInit PROVE LinksHeard
  OBVIOUS
<1> DEFINE q == Asked("list", NoAccount)
           r == Asked("balances", NoAccount)
<1>1. acNet = <<q, r>> /\ acOpen = {} /\ \A c \in Links : acLink[c] = "off"
  BY DEF ACInit
<1>2. NoAccount \in Links
  BY DEF Links, Connect
<1>3. q.kind = "list" /\ r.kind = "balances" /\ q \in ACRequests /\ r \in ACRequests
  BY <1>2, AskedIs
<1> HIDE DEF q, r
<1>4. \A i \in DOMAIN acNet : acNet[i] \in {q, r}
  BY <1>1, <1>3
<1>5. QED
  BY <1>1, <1>3, <1>4 DEF LinksHeard, LinkKinds

\* A request to be sent that a link may hear of.
Hearable(q) == q.kind \in LinkKinds /\ q.heard => HasButton(q.id)

LEMMA SentLinks ==
  ASSUME ACTyped, LinksHeard, NEW q, Act(q), Hearable(q), UNCHANGED <<acList, acLoading>>,
         \A c \in Links : c \in acOpen' \/ acLink'[c] # "off" => HasButton(c),
         \A c \in Links : acLink'[c] = "asked" => acLink[c] = "asked"
  PROVE  LinksHeard'
<1> DEFINE n == Len(acNet)
<1>1. /\ Queue(acNet') /\ n \in Nat /\ DOMAIN acNet = 1..n /\ DOMAIN acNet' = 1..(n + 1)
      /\ \A j \in 1..n : acNet'[j] = acNet[j]
      /\ acNet'[n + 1] = q
  BY Queued DEF ACTyped, Act
<1> HIDE DEF n
<1>2. \A j \in 1..(n + 1) : j = n + 1 \/ j \in 1..n
  BY <1>1
<1>3. \A j \in 1..n : j \in 1..(n + 1)
  BY <1>1
<1>4. \A c : HasButton(c)' <=> HasButton(c)
  BY DEF HasButton, LinksOf
<1>5. ASSUME NEW j \in DOMAIN acNet', acNet'[j].kind \in LinkKinds, acNet'[j].heard
      PROVE  HasButton(acNet'[j].id)
  BY <1>1, <1>2, <1>5 DEF LinksHeard, Hearable
<1>6. ASSUME NEW c \in Links, acLink'[c] = "asked"
      PROVE  \E j \in DOMAIN acNet' : acNet'[j].kind = "token" /\ acNet'[j].id = c /\ acNet'[j].heard
  <2>1. PICK j \in DOMAIN acNet : acNet[j].kind = "token" /\ acNet[j].id = c /\ acNet[j].heard
    BY <1>6 DEF LinksHeard
  <2>2. j \in DOMAIN acNet' /\ acNet'[j] = acNet[j]
    BY <1>1, <1>3, <2>1
  <2>3. QED
    BY <2>1, <2>2
<1> HIDE DEF HasButton
<1>7. QED
  BY <1>4, <1>5, <1>6 DEF LinksHeard

LEMMA UserLinks ==
  ASSUME ACTyped, LinksHeard,
         \/ ToggleAccess \/ Rename \/ AskArchive \/ CloseAsk \/ Unarchive
         \/ OpenLink \/ ExitLink \/ LinkSucceeds
  PROVE  LinksHeard'
<1>1. CASE \/ ToggleAccess \/ Rename \/ AskArchive \/ CloseAsk \/ Unarchive
  <2>1. UNCHANGED <<acList, acLoading, acLink, acOpen>>
    BY <1>1 DEF ToggleAccess, Rename, AskArchive, CloseAsk, Unarchive, acPage, acDialogs
  <2>2. CASE UNCHANGED acNet
    BY <2>1, <2>2 DEF LinksHeard, HasButton, LinksOf
  <2>3. ASSUME NEW q \in ACRequests, q.kind \notin LinkKinds, Act(q) PROVE LinksHeard'
    <3>1. Hearable(q)
      BY <2>3 DEF Hearable
    <3>2. /\ \A c \in Links : c \in acOpen' \/ acLink'[c] # "off" => HasButton(c)
          /\ \A c \in Links : acLink'[c] = "asked" => acLink[c] = "asked"
      BY <2>1 DEF LinksHeard
    <3>3. QED
      BY <2>1, <2>3, <3>1, <3>2, SentLinks
  <2>4. ASSUME NEW kind \in {"access", "rename", "archive"}, NEW a \in Links, NEW v \in BOOLEAN
        PROVE  /\ [Asked(kind, a) EXCEPT !.value = v] \in ACRequests
               /\ [Asked(kind, a) EXCEPT !.value = v].kind \notin LinkKinds
               /\ Asked(kind, a) \in ACRequests /\ Asked(kind, a).kind \notin LinkKinds
    <3>1. Asked(kind, a) \in ACRequests /\ Asked(kind, a).kind = kind
      BY AskedIs DEF Changers
    <3> HIDE DEF Asked
    <3>2. QED
      BY <3>1 DEF ACRequests, LinkKinds
  <2>5. CASE ToggleAccess
    <3>1. PICK a \in Active(acList) : Act([Asked("access", a) EXCEPT !.value = a \notin acBoxes])
      BY <2>5 DEF ToggleAccess
    <3>2. a \in Links
      BY ActiveLinked
    <3>3. QED
      BY <2>3, <2>4, <3>1, <3>2
  <2>6. CASE Rename
    <3>1. PICK a \in Active(acList) : Act(Asked("rename", a))
      BY <2>6 DEF Rename
    <3>2. a \in Links
      BY ActiveLinked
    <3>3. QED
      BY <2>3, <2>4, <3>1, <3>2
  <2>7. CASE AskArchive
    BY <2>2, <2>7 DEF AskArchive
  <2>8. CASE CloseAsk
    <3>1. acAsk \in Links
      BY <2>8 DEF CloseAsk, ACTyped, Links, Connect
    <3>2. Act([Asked("archive", acAsk) EXCEPT !.value = TRUE]) \/ UNCHANGED acNet
      BY <2>8 DEF CloseAsk
    <3>3. QED
      BY <2>2, <2>3, <2>4, <3>1, <3>2
  <2>9. CASE Unarchive
    <3>1. PICK a \in acList.linked \cap acList.archived : Act(Asked("archive", a))
      BY <2>9 DEF Unarchive
    <3>2. a \in Links
      BY ActiveLinked
    <3>3. QED
      BY <2>3, <2>4, <3>1, <3>2
  <2>10. QED
    BY <1>1, <2>5, <2>6, <2>7, <2>8, <2>9
<1>2. CASE OpenLink \/ ExitLink
  <2>1. UNCHANGED <<acList, acLoading, acLink, acNet>>
    BY <1>2 DEF OpenLink, ExitLink, acPage
  <2>2. \A c \in Links : c \in acOpen' => HasButton(c)
    BY <1>2 DEF OpenLink, ExitLink, LinksHeard
  <2>3. QED
    BY <2>1, <2>2 DEF LinksHeard, HasButton, LinksOf
<1>3. CASE LinkSucceeds
  <2>1. PICK c \in acOpen :
          /\ IF c = Connect
             THEN \E new \in (SUBSET (BankAccounts \ acStore.linked)) \ {{}} :
                    Act([Asked("exchange", c) EXCEPT !.new = new])
             ELSE Act(Asked("reconnect", c))
          /\ acLink' = [acLink EXCEPT ![c] = "working"]
    BY <1>3 DEF LinkSucceeds
  <2>2. c \in Links /\ HasButton(c) /\ acLink \in [Links -> {"off", "asked", "failed", "ready", "working"}]
    BY DEF ACTyped, LinksHeard
  <2>3. UNCHANGED <<acList, acLoading>> /\ acOpen' = {}
    BY <1>3 DEF LinkSucceeds, acPage
  <2>4. /\ \A d \in Links : d \in acOpen' \/ acLink'[d] # "off" => HasButton(d)
        /\ \A d \in Links : acLink'[d] = "asked" => acLink[d] = "asked"
    BY <2>1, <2>2, <2>3 DEF LinksHeard
  <2>5. PICK q : Act(q) /\ q.id = c
    <3>1. Asked("exchange", c) \in ACRequests /\ Asked("exchange", c).id = c /\ Asked("reconnect", c).id = c
      BY <2>2, AskedIs DEF Changers
    <3> HIDE DEF Asked
    <3>2. \A new : [Asked("exchange", c) EXCEPT !.new = new].id = c
      BY <3>1 DEF ACRequests
    <3>3. QED
      BY <2>1, <3>1, <3>2
  <2>6. Hearable(q)
    BY <2>2, <2>5 DEF Hearable
  <2>7. QED
    BY <2>3, <2>4, <2>5, <2>6, SentLinks
<1>4. QED
  BY <1>1, <1>2, <1>3

LEMMA ServeLinks ==
  ASSUME ACTyped, LinksHeard, NEW k \in DOMAIN acNet, ACServe(k)
  PROVE  LinksHeard'
<1> DEFINE n == Len(acNet)
           e == ACServed(acNet[k])
<1>1. /\ DOMAIN acNet = 1..n /\ DOMAIN acNet' = 1..n /\ acStore' \in Standing /\ acNet[k] \in ACRequests
      /\ \A j \in 1..n : acNet'[j] = IF j = k THEN e ELSE acNet[j]
  BY ServeNet DEF ACRequestTyped
<1>2. e.kind = acNet[k].kind /\ e.id = acNet[k].id /\ e.heard = acNet[k].heard
  BY <1>1, ACServedIs
<1> HIDE DEF e
<1>3. \A j \in DOMAIN acNet : acNet'[j].kind = acNet[j].kind /\ acNet'[j].id = acNet[j].id
                              /\ acNet'[j].heard = acNet[j].heard
  BY <1>1, <1>2
<1>4. UNCHANGED <<acList, acLoading, acLink, acOpen>> /\ DOMAIN acNet' = DOMAIN acNet
  BY <1>1 DEF ACServe, acPage, acDialogs
<1>5. QED
  BY <1>3, <1>4 DEF LinksHeard, HasButton, LinksOf

(* An answer, or the failure, of what leaves the list as it is.              *)
LEMMA ForgottenLinks ==
  ASSUME ACTyped, LinksHeard, NEW i \in DOMAIN acNet, acNet' = RemoveAt(acNet, i),
         UNCHANGED <<acList, acLoading, acOpen>>,
         \/ acNet[i].kind \notin LinkKinds /\ UNCHANGED acLink
         \/ acNet[i].kind \in LinkKinds /\ \E state \in {"ready", "failed"} : LinkBecomes(acNet[i], state)
  PROVE  LinksHeard'
<1> DEFINE q == acNet[i]
<1>1. OthersKept(i) /\ \A j \in DOMAIN acNet' : acNet'[j] = acNet[Before(i, j)]
      /\ Len(acNet') = Len(acNet) - 1
  BY Forgotten
<1>2. DOMAIN acNet' = 1..(Len(acNet) - 1) /\ \A j \in DOMAIN acNet' : Before(i, j) \in DOMAIN acNet
      /\ \A k \in DOMAIN acNet : k # i => \E h \in DOMAIN acNet' : Before(i, h) = k
  BY <1>1 DEF OthersKept
<1>3. \A j \in DOMAIN acNet' : acNet'[j].kind \in LinkKinds /\ acNet'[j].heard => HasButton(acNet'[j].id)
  BY <1>1, <1>2 DEF LinksHeard
<1>4. q \in ACRequests /\ acLink \in [Links -> {"off", "asked", "failed", "ready", "working"}] /\ q.id \in Links
  BY DEF ACTyped, ACRequestTyped, ACRequests
<1>5. q.kind \in LinkKinds /\ q.heard => HasButton(q.id)
  BY DEF LinksHeard
<1>6. \A c \in Links : acLink'[c] # "off" => HasButton(c)
  BY <1>4, <1>5 DEF LinkBecomes, LinksHeard
<1>7. ASSUME NEW c \in Links, acLink'[c] = "asked"
      PROVE  acLink[c] = "asked" /\ ~(q.kind = "token" /\ q.id = c /\ q.heard)
  BY <1>4, <1>7 DEF LinkBecomes, LinkKinds
<1>8. ASSUME NEW c \in Links, acLink'[c] = "asked"
      PROVE  \E j \in DOMAIN acNet' : acNet'[j].kind = "token" /\ acNet'[j].id = c /\ acNet'[j].heard
  <2>1. PICK k \in DOMAIN acNet : acNet[k].kind = "token" /\ acNet[k].id = c /\ acNet[k].heard
    BY <1>7, <1>8 DEF LinksHeard
  <2>2. k # i
    BY <1>7, <1>8, <2>1
  <2>3. PICK h \in DOMAIN acNet' : Before(i, h) = k
    BY <1>2, <2>2
  <2>4. QED
    BY <1>1, <2>1, <2>3
<1>9. \A c : HasButton(c)' <=> HasButton(c)
  BY DEF HasButton, LinksOf
<1> HIDE DEF HasButton
<1>10. QED
  BY <1>3, <1>6, <1>8, <1>9 DEF LinksHeard

LEMMA ListAskedLinks ==
  ASSUME ACTyped, NEW i \in DOMAIN acNet, ListLoads(RemoveAt(acNet, i))
  PROVE  LinksHeard'
<1> DEFINE n == Len(acNet)
<1>1. /\ OthersKept(i) /\ Len(acNet') = n /\ acNet'[n] = Asked("list", NoAccount)
      /\ \A j \in 1..(n - 1) : acNet'[j].heard => acNet'[j].kind \notin LinkKinds
  BY ListAsked
<1>2. n \in Nat \ {0} /\ DOMAIN acNet' = 1..n
  BY <1>1 DEF OthersKept
<1>3. Asked("list", NoAccount).kind \notin LinkKinds
  BY DEF Asked, LinkKinds
<1> HIDE DEF n
<1>4. \A j \in DOMAIN acNet' : acNet'[j].heard => acNet'[j].kind \notin LinkKinds
  <2>1. \A j \in 1..n : j = n \/ j \in 1..(n - 1)
    BY <1>2
  <2>2. QED
    BY <1>1, <1>2, <1>3, <2>1
<1>5. acOpen' = {} /\ \A c \in Links : acLink'[c] = "off"
  BY DEF ListLoads
<1>6. QED
  BY <1>4, <1>5 DEF LinksHeard

LEMMA LinksDrawnHeard ==
  ASSUME ACTyped, LinksHeard, NEW i \in DOMAIN acNet, acNet[i].kind = "list",
         NEW list \in Standing, BodyDrawn(list, RemoveAt(acNet, i)),
         LinksOf(acList') = LinksOf(list)
  PROVE  LinksHeard'
<1>1. LinksOf(list) \subseteq Links
  BY DEF Standing, LinksOf, Active, Links
<1>2. /\ OthersKept(i)
      /\ \A j \in Len(acNet)..Len(acNet') : /\ acNet'[j].kind = "token" /\ acNet'[j].id \in LinksOf(list)
      /\ \A j \in 1..(Len(acNet) - 1) :
           acNet'[j].heard <=> /\ acNet[Before(i, j)].heard
                               /\ acNet[Before(i, j)].kind \in LinkKinds => acNet[Before(i, j)].id \in LinksOf(list)
      /\ \A c \in LinksOf(list) : acLoading \/ acLink[c] = "off" =>
           \E j \in DOMAIN acNet' : acNet'[j].kind = "token" /\ acNet'[j].id = c /\ acNet'[j].heard
  BY <1>1, LinksDrawn
<1>3. /\ acLoading' = FALSE /\ acOpen' \subseteq LinksOf(list)
      /\ \A c \in Links : acLink'[c] = IF c \in LinksOf(list) /\ (acLoading \/ acLink[c] = "off") THEN "asked"
                                       ELSE IF c \in LinksOf(list) THEN acLink[c] ELSE "off"
  BY DEF BodyDrawn
<1>4. \A c : HasButton(c)' <=> c \in LinksOf(list)
  BY <1>3 DEF HasButton, LinksOf
<1>5. /\ Len(acNet) \in Nat \ {0} /\ DOMAIN acNet' = 1..Len(acNet') /\ Len(acNet') \in Nat
      /\ \A j \in 1..(Len(acNet) - 1) :
           /\ Before(i, j) \in DOMAIN acNet /\ j \in DOMAIN acNet' /\ Alike(acNet'[j], acNet[Before(i, j)])
           /\ acNet[Before(i, j)] \in ACRequests
      /\ \A k \in DOMAIN acNet : k # i => \E j \in 1..(Len(acNet) - 1) : Before(i, j) = k
  BY <1>2 DEF OthersKept, ACTyped, ACRequestTyped
<1>6. \A j \in 1..(Len(acNet) - 1) :
        acNet'[j].kind = acNet[Before(i, j)].kind /\ acNet'[j].id = acNet[Before(i, j)].id
  BY <1>5, AlikeFields
<1>7. ASSUME NEW j \in DOMAIN acNet', acNet'[j].kind \in LinkKinds, acNet'[j].heard
      PROVE  acNet'[j].id \in LinksOf(list)
  <2>1. j \in Len(acNet)..Len(acNet') \/ j \in 1..(Len(acNet) - 1)
    BY <1>5
  <2>2. QED
    BY <1>2, <1>6, <1>7, <2>1
<1>8. ASSUME NEW c \in Links, acLink'[c] = "asked"
      PROVE  \E j \in DOMAIN acNet' : acNet'[j].kind = "token" /\ acNet'[j].id = c /\ acNet'[j].heard
  <2>1. c \in LinksOf(list)
    BY <1>3, <1>8
  <2>2. CASE acLoading \/ acLink[c] = "off"
    BY <1>2, <2>1, <2>2
  <2>3. CASE ~acLoading /\ acLink[c] # "off"
    <3>1. acLink[c] = "asked"
      BY <1>3, <1>8, <2>3
    <3>2. PICK k \in DOMAIN acNet : acNet[k].kind = "token" /\ acNet[k].id = c /\ acNet[k].heard
      BY <3>1 DEF LinksHeard
    <3>3. k # i
      BY <3>2
    <3>4. PICK j \in 1..(Len(acNet) - 1) : Before(i, j) = k
      BY <1>5, <3>3
    <3>5. j \in DOMAIN acNet' /\ acNet'[j].kind = "token" /\ acNet'[j].id = c /\ acNet'[j].heard
      BY <1>2, <1>5, <1>6, <2>1, <3>2, <3>4
    <3>6. QED
      BY <3>5
  <2>4. QED
    BY <2>2, <2>3
<1> HIDE DEF HasButton
<1>9. QED
  BY <1>3, <1>4, <1>7, <1>8 DEF LinksHeard

LEMMA AnswerLinks ==
  ASSUME ACTyped, LinksHeard, NEW i \in DOMAIN acNet, ACAnswer(i)
  PROVE  LinksHeard'
<1> DEFINE q == acNet[i]
           r == RemoveAt(acNet, i)
<1>1. CASE q.kind = "list"
  <2>1. acList' = q.answer /\ BodyDrawn(q.answer, r)
    BY <1>1 DEF ACAnswer
  <2>2. q.answer \in Standing
    BY DEF ACTyped, ACRequestTyped, ACRequests
  <2>3. QED
    BY <1>1, <2>1, <2>2, LinksDrawnHeard
<1>2. CASE q.kind \in {"balances", "access"}
  <2>1. acNet' = r /\ UNCHANGED <<acList, acLoading, acOpen, acLink>> /\ q.kind \notin LinkKinds
    BY <1>2 DEF ACAnswer, LinkKinds, acPage
  <2>2. QED
    BY <2>1, ForgottenLinks
<1>3. CASE q.kind = "token"
  <2>1. acNet' = r /\ UNCHANGED <<acList, acLoading, acOpen>> /\ LinkBecomes(q, "ready") /\ q.kind \in LinkKinds
    BY <1>3 DEF ACAnswer, LinkKinds, LinkBecomes, acPage
  <2>2. QED
    BY <2>1, ForgottenLinks
<1>4. CASE q.kind \notin {"list", "balances", "token", "access"}
  <2>1. ListLoads(r)
    BY <1>4 DEF ACAnswer
  <2>2. QED
    BY <2>1, ListAskedLinks
<1>5. QED
  BY <1>1, <1>2, <1>3, <1>4

LEMMA FailLinks ==
  ASSUME ACTyped, LinksHeard, NEW i \in DOMAIN acNet, ACFail(i)
  PROVE  LinksHeard'
<1> DEFINE q == acNet[i]
           r == RemoveAt(acNet, i)
<1>1. CASE q.kind = "list"
  <2>1. acList' = acList /\ BodyDrawn(OldList, r)
    BY <1>1 DEF ACFail, OldList
  <2>2. OldList \in Standing /\ LinksOf(OldList) = LinksOf(acList)
    BY OldListIs
  <2>3. QED
    BY <1>1, <2>1, <2>2, LinksDrawnHeard
<1>2. CASE q.kind \in LinkKinds
  <2>1. /\ acNet' = r /\ UNCHANGED <<acList, acLoading, acOpen>>
        /\ \E state \in {"ready", "failed"} : LinkBecomes(q, state)
    BY <1>2 DEF ACFail, LinkKinds, LinkBecomes, acPage
  <2>2. QED
    BY <1>2, <2>1, ForgottenLinks
<1>3. CASE q.kind \notin {"list"} \cup LinkKinds
  <2>1. acNet' = r /\ UNCHANGED <<acList, acLoading, acOpen, acLink>>
    BY <1>3 DEF ACFail, LinkKinds, acPage
  <2>2. QED
    BY <1>3, <2>1, ForgottenLinks
<1>4. QED
  BY <1>1, <1>2, <1>3

-----------------------------------------------------------------------------
(* The page of the accounts at rest: every step keeps CalmAccounts. *)

LEMMA CalmAccountsInit == ACInit => CalmAccounts
<1> SUFFICES ASSUME ACInit PROVE CalmAccounts
  OBVIOUS
<1> DEFINE q == Asked("list", NoAccount)
           r == Asked("balances", NoAccount)
<1>1. acNet = <<q, r>>
  BY DEF ACInit
<1>2. q.kind = "list" /\ r.kind = "balances" /\ ~q.served /\ ~r.served
  BY DEF Asked
<1> HIDE DEF q, r
<1>3. DOMAIN acNet = {1, 2} /\ acNet[1] = q /\ acNet[2] = r
  BY <1>1
<1>4. QED
  BY <1>2, <1>3 DEF CalmAccounts, ListsInTurn, ListsNew, ListComes, BoxesFirst, BoxesFollow, Changers

(* What is sent is not served yet, and a box is clicked while no list loads. *)
LEMMA SentCalm ==
  ASSUME ACTyped, CalmAccounts, NEW q, Act(q), ~q.served, q.kind \in Changers \cup {"access"},
         UNCHANGED <<acList, acStore>>,
         \/ q.kind \in Changers /\ UNCHANGED acBoxes
         \/ /\ q.kind = "access" /\ (\A i \in DOMAIN acNet : acNet[i].kind # "list")
            /\ q.id \in acBoxes' <=> q.value
            /\ \A a \in BankAccounts : a # q.id => (a \in acBoxes' <=> a \in acBoxes)
  PROVE  CalmAccounts'
<1> DEFINE n == Len(acNet)
<1>1. /\ Queue(acNet') /\ n \in Nat /\ DOMAIN acNet = 1..n /\ DOMAIN acNet' = 1..(n + 1)
      /\ \A j \in 1..n : acNet'[j] = acNet[j]
      /\ acNet'[n + 1] = q
  BY Queued DEF ACTyped, Act
<1> HIDE DEF n
<1>2. /\ n + 1 \in 1..(n + 1) /\ \A j \in 1..n : j \in 1..(n + 1) /\ j < n + 1
      /\ \A j \in 1..(n + 1) : j = n + 1 \/ j \in 1..n
      /\ \A j \in 1..(n + 1) : ~(n + 1 < j)
  BY <1>1
<1>3. q.kind # "list" /\ q.kind # "token"
  BY DEF Changers
<1>4. ListsInTurn'
  BY <1>1, <1>2, <1>3 DEF CalmAccounts, ListsInTurn
<1>5. ListsNew'
  <2> SUFFICES ASSUME NEW i \in DOMAIN acNet', acNet'[i].kind = "list", acNet'[i].served
               PROVE  \/ SameAccounts(acNet'[i].answer, acStore')
                      \/ \E j \in DOMAIN acNet' : i < j /\ acNet'[j].kind \in Changers /\ acNet'[j].served
    BY DEF ListsNew, SameAccounts
  <2>1. i \in DOMAIN acNet /\ acNet'[i] = acNet[i]
    BY <1>1, <1>2, <1>3
  <2>2. \/ SameAccounts(acNet[i].answer, acStore)
        \/ \E j \in DOMAIN acNet : i < j /\ acNet[j].kind \in Changers /\ acNet[j].served
    BY <2>1 DEF CalmAccounts, ListsNew
  <2>3. QED
    BY <1>1, <1>2, <2>1, <2>2 DEF SameAccounts
<1>6. ListComes'
  BY <1>1, <1>2 DEF CalmAccounts, ListComes, SameAccounts
<1>7. BoxesFirst'
  BY <1>1, <1>2, <1>3 DEF CalmAccounts, BoxesFirst, Changers
<1>8. BoxesFollow'
  <2> SUFFICES ASSUME \A i \in DOMAIN acNet' : acNet'[i].kind # "list", NEW a \in BankAccounts
               PROVE  BoxFollows(a)'
    BY DEF BoxesFollow
  <2>1. \A i \in DOMAIN acNet : acNet[i].kind # "list"
    BY <1>1, <1>2
  <2>2. BoxFollows(a)
    BY <2>1 DEF CalmAccounts, BoxesFollow
  <2>3. \A i \in 1..n : Clicked(acNet'[i], a) <=> Clicked(acNet[i], a)
    BY <1>1 DEF Clicked
  <2>4. CASE q.kind = "access" /\ q.id = a
    <3>1. Clicked(acNet'[n + 1], a) /\ (acNet'[n + 1].value <=> a \in acBoxes')
      BY <1>1, <2>4 DEF Clicked, Changers
    <3>2. QED
      BY <1>1, <1>2, <3>1 DEF BoxFollows
  <2>5. CASE ~(q.kind = "access" /\ q.id = a)
    <3>1. ~Clicked(acNet'[n + 1], a) /\ (a \in acBoxes' <=> a \in acBoxes)
      BY <1>1, <2>5 DEF Clicked
    <3>2. ASSUME NEW i \in DOMAIN acNet, Clicked(acNet[i], a), acNet[i].value <=> a \in acBoxes,
                 \A j \in DOMAIN acNet : i < j => ~Clicked(acNet[j], a)
          PROVE  BoxFollows(a)'
      <4>1. Clicked(acNet'[i], a) /\ (acNet'[i].value <=> a \in acBoxes') /\ i \in DOMAIN acNet'
        BY <1>1, <1>2, <2>3, <3>1, <3>2
      <4>2. \A j \in DOMAIN acNet' : i < j => ~Clicked(acNet'[j], a)
        BY <1>1, <1>2, <2>3, <3>1, <3>2
      <4>3. QED
        BY <4>1, <4>2 DEF BoxFollows
    <3>3. ASSUME \A i \in DOMAIN acNet : ~Clicked(acNet[i], a), a \in acBoxes <=> a \in acStore.access
          PROVE  BoxFollows(a)'
      <4>1. (\A i \in DOMAIN acNet' : ~Clicked(acNet'[i], a)) /\ (a \in acBoxes' <=> a \in acStore'.access)
        BY <1>1, <1>2, <2>3, <3>1, <3>3
      <4>2. QED
        BY <4>1 DEF BoxFollows
    <3>4. QED
      BY <2>2, <3>2, <3>3 DEF BoxFollows
  <2>6. QED
    BY <2>4, <2>5
<1>9. QED
  BY <1>4, <1>5, <1>6, <1>7, <1>8 DEF CalmAccounts

LEMMA UserCalm ==
  ASSUME ACTyped, acCalm => CalmAccounts, acCalm',
         \/ ToggleAccess \/ Rename \/ AskArchive \/ CloseAsk \/ Unarchive
         \/ OpenLink \/ ExitLink \/ LinkSucceeds
  PROVE  CalmAccounts'
<1>1. CalmAccounts /\ UNCHANGED <<acList, acStore>>
  BY DEF ToggleAccess, Rename, AskArchive, CloseAsk, Unarchive, OpenLink, ExitLink, LinkSucceeds, acPage
<1>2. CASE ToggleAccess
  <2>1. PICK a \in Active(acList) :
          /\ Act([Asked("access", a) EXCEPT !.value = a \notin acBoxes])
          /\ acBoxes' = IF a \in acBoxes THEN acBoxes \ {a} ELSE acBoxes \cup {a}
    BY <1>2 DEF ToggleAccess
  <2> DEFINE q == [Asked("access", a) EXCEPT !.value = a \notin acBoxes]
  <2>2. q.kind = "access" /\ q.id = a /\ q.value = (a \notin acBoxes) /\ ~q.served
    BY DEF Asked
  <2>3. /\ a \in acBoxes' <=> a \notin acBoxes
        /\ \A b \in BankAccounts : b # a => (b \in acBoxes' <=> b \in acBoxes)
    BY <2>1
  <2>4. \A i \in DOMAIN acNet : acNet[i].kind # "list"
    BY <1>2 DEF ToggleAccess
  <2> HIDE DEF q
  <2>5. Act(q)
    BY <2>1 DEF q
  <2>6. QED
    BY <1>1, <2>2, <2>3, <2>4, <2>5, SentCalm
<1>3. CASE Rename \/ CloseAsk \/ Unarchive \/ LinkSucceeds
  <2>1. UNCHANGED acBoxes
    BY <1>3 DEF Rename, CloseAsk, Unarchive, LinkSucceeds, acPage
  <2>2. CASE UNCHANGED acNet
    BY <1>1, <2>1, <2>2 DEF CalmAccounts, ListsInTurn, ListsNew, ListComes, BoxesFirst, BoxesFollow,
                            SameAccounts, BoxFollows, Clicked
  <2>3. ASSUME NEW q, Act(q), q.kind \in Changers, ~q.served PROVE CalmAccounts'
    BY <1>1, <2>1, <2>3, SentCalm
  <2>4. UNCHANGED acNet \/ \E q : Act(q) /\ q.kind \in Changers /\ ~q.served
    <3>1. \A kind \in Changers : \A id, v, new :
            /\ Asked(kind, id).kind \in Changers /\ ~Asked(kind, id).served
            /\ [Asked(kind, id) EXCEPT !.value = v].kind \in Changers /\ ~[Asked(kind, id) EXCEPT !.value = v].served
            /\ [Asked(kind, id) EXCEPT !.new = new].kind \in Changers /\ ~[Asked(kind, id) EXCEPT !.new = new].served
      <4>1. \A kind \in Changers : kind # "token"
        BY DEF Changers
      <4>2. ASSUME NEW kind \in Changers, NEW id
            PROVE  Asked(kind, id).kind = kind /\ ~Asked(kind, id).served
        BY <4>1 DEF Asked
      <4>3. ASSUME NEW kind \in Changers, NEW id, NEW v
            PROVE  /\ [Asked(kind, id) EXCEPT !.value = v].kind = kind
                   /\ ~[Asked(kind, id) EXCEPT !.value = v].served
        BY <4>1 DEF Asked
      <4>4. ASSUME NEW kind \in Changers, NEW id, NEW new
            PROVE  /\ [Asked(kind, id) EXCEPT !.new = new].kind = kind
                   /\ ~[Asked(kind, id) EXCEPT !.new = new].served
        BY <4>1 DEF Asked
      <4> HIDE DEF Asked, Changers
      <4>5. QED
        BY <4>2, <4>3, <4>4
    <3>2. {"rename", "archive", "exchange", "reconnect"} \subseteq Changers
      BY DEF Changers
    <3> HIDE DEF Asked, Changers
    <3>3. CASE Rename
      BY <3>1, <3>2, <3>3 DEF Rename
    <3>4. CASE CloseAsk
      BY <3>1, <3>2, <3>4 DEF CloseAsk
    <3>5. CASE Unarchive
      BY <3>1, <3>2, <3>5 DEF Unarchive
    <3>6. CASE LinkSucceeds
      <4>1. PICK c : \/ \E new : Act([Asked("exchange", c) EXCEPT !.new = new])
                     \/ Act(Asked("reconnect", c))
        BY <3>6 DEF LinkSucceeds
      <4>2. QED
        BY <3>1, <3>2, <4>1
    <3>7. QED
      BY <1>3, <3>3, <3>4, <3>5, <3>6
  <2>5. QED
    BY <2>2, <2>3, <2>4
<1>4. CASE AskArchive \/ OpenLink \/ ExitLink
  <2>1. UNCHANGED <<acBoxes, acNet>>
    BY <1>4 DEF AskArchive, OpenLink, ExitLink, acPage
  <2>2. QED
    BY <1>1, <2>1 DEF CalmAccounts, ListsInTurn, ListsNew, ListComes, BoxesFirst, BoxesFollow,
                      SameAccounts, BoxFollows, Clicked
<1>5. QED
  BY <1>2, <1>3, <1>4

LEMMA ServeCalm ==
  ASSUME ACTyped, acCalm => CalmAccounts, acCalm', NEW k \in DOMAIN acNet, ACServe(k)
  PROVE  CalmAccounts'
<1> DEFINE n == Len(acNet)
           q == acNet[k]
           e == ACServed(q)
<1>1. /\ ~q.served /\ acStore' = ACStored(q) /\ ACRequestTyped(q) /\ acStore' \in Standing
      /\ n \in Nat /\ DOMAIN acNet = 1..n /\ DOMAIN acNet' = 1..n
      /\ \A j \in 1..n : acNet'[j] = IF j = k THEN e ELSE acNet[j]
  BY ServeNet
<1>2. q \in ACRequests
  BY <1>1 DEF ACRequestTyped
<1>3. /\ e.served /\ e.kind = q.kind /\ e.id = q.id
      /\ q.kind = "list" => e.answer = acStore'
  BY <1>1, <1>2, ACServedIs
<1>4. /\ q.kind \notin Changers => SameAccounts(acStore', acStore)
      /\ q.kind = "access" => acStore'.access = ACPut(acStore.access, q.id, q.value)
      /\ q.kind # "access" => acStore'.access = acStore.access
  BY <1>1, ACStoredTyped DEF SameAccounts
<1>5. UNCHANGED <<acList, acBoxes>> /\ CalmAccounts /\ \A j \in 1..(k - 1) : acNet[j].served
  BY DEF ACServe, acPage
<1>6. k \in 1..n
  BY <1>1
<1> HIDE DEF n, e
<1>7. /\ \A j \in 1..n : j < k => acNet[j].served
      /\ \A j \in 1..n : k < j /\ acNet[j].kind # "token" => ~acNet[j].served
      /\ \A j \in 1..n : j < k \/ j = k \/ k < j
  <2>1. \A j \in 1..n : j < k => j \in 1..(k - 1)
    BY <1>1, <1>6
  <2>2. \A j \in 1..n : j < k \/ j = k \/ k < j
    BY <1>1, <1>6
  <2>3. \A j \in 1..n : k < j /\ acNet[j].kind # "token" => ~acNet[j].served
    BY <1>1, <1>5 DEF CalmAccounts, ListsInTurn
  <2>4. QED
    BY <1>5, <2>1, <2>2, <2>3
<1> HIDE DEF q
<1>8. \A j \in 1..n : acNet'[j].kind = acNet[j].kind
  BY <1>1, <1>3 DEF q
<1>9. \A j \in 1..n : acNet'[j].kind # "token" => (acNet'[j].served <=> j < k \/ j = k)
  BY <1>1, <1>3, <1>6, <1>7, <1>8
<1>10. ListsInTurn'
  <2> SUFFICES ASSUME NEW i \in 1..n, NEW j \in 1..n, i < j, acNet'[j].served, acNet'[j].kind # "token"
               PROVE  acNet'[i].served
    BY <1>1 DEF ListsInTurn
  <2>1. i < k \/ i = k
    <3>1. j < k \/ j = k
      BY <1>9
    <3>2. QED
      BY <1>1, <1>6, <3>1
  <2>2. QED
    BY <1>1, <1>3, <1>7, <2>1
<1>11. ListsNew'
  <2> SUFFICES ASSUME NEW i \in 1..n, acNet'[i].kind = "list", acNet'[i].served
               PROVE  \/ SameAccounts(acNet'[i].answer, acStore')
                      \/ \E j \in 1..n : i < j /\ acNet'[j].kind \in Changers /\ acNet'[j].served
    BY <1>1 DEF ListsNew
  <2>1. CASE i = k
    BY <1>1, <1>3, <1>8, <2>1 DEF SameAccounts, q
  <2>2. CASE i # k
    <3>1. i < k /\ acNet'[i] = acNet[i]
      BY <1>1, <1>9, <2>2
    <3>2. CASE q.kind \in Changers
      BY <1>1, <1>3, <1>6, <3>1, <3>2
    <3>3. CASE q.kind \notin Changers
      <4>1. \/ SameAccounts(acNet[i].answer, acStore)
            \/ \E j \in 1..n : i < j /\ acNet[j].kind \in Changers /\ acNet[j].served
        BY <1>1, <1>5, <3>1 DEF CalmAccounts, ListsNew
      <4>2. \A j \in 1..n : acNet[j].kind \in Changers /\ acNet[j].served
                              => acNet'[j].kind \in Changers /\ acNet'[j].served
        BY <1>1, <1>3, <1>8
      <4>3. SameAccounts(acNet[i].answer, acStore) => SameAccounts(acNet'[i].answer, acStore')
        BY <1>4, <3>1, <3>3 DEF SameAccounts
      <4>4. QED
        BY <4>1, <4>2, <4>3
    <3>4. QED
      BY <3>2, <3>3
  <2>3. QED
    BY <2>1, <2>2
<1>12. ListComes'
  <2>1. CASE \E i \in 1..n : acNet[i].kind \in Changers \cup {"list"}
    BY <1>1, <1>8, <2>1 DEF ListComes
  <2>2. CASE SameAccounts(acList, acStore) /\ q.kind \notin Changers
    BY <1>4, <1>5, <2>2 DEF ListComes, SameAccounts
  <2>3. QED
    BY <1>1, <1>5, <1>6, <2>1, <2>2 DEF CalmAccounts, ListComes, q
<1>13. BoxesFirst'
  <2>1. ASSUME NEW i \in 1..n, acNet'[i].kind = "list"
        PROVE  /\ \A j \in 1..n : acNet'[j].kind = "access" => j < i
               /\ acNet'[i].served => acNet'[i].answer.access = acStore'.access
    <3>1. /\ \A j \in 1..n : acNet[j].kind = "access" => j < i
          /\ acNet[i].served => acNet[i].answer.access = acStore.access
      BY <1>1, <1>5, <1>8, <2>1 DEF CalmAccounts, BoxesFirst
    <3>2. ASSUME acNet'[i].served PROVE acNet'[i].answer.access = acStore'.access
      <4>1. CASE i = k
        BY <1>1, <1>3, <1>8, <2>1, <4>1 DEF q
      <4>2. CASE i # k
        <5>1. i < k /\ acNet'[i] = acNet[i]
          BY <1>1, <1>9, <2>1, <3>2, <4>2
        <5>2. q.kind # "access"
          BY <1>1, <1>6, <3>1, <5>1 DEF q
        <5>3. QED
          BY <1>4, <3>1, <3>2, <5>1, <5>2
      <4>3. QED
        BY <4>1, <4>2
    <3>3. QED
      BY <1>8, <3>1, <3>2
  <2>2. QED
    BY <1>1, <2>1 DEF BoxesFirst
<1>14. BoxesFollow'
  <2> SUFFICES ASSUME \A i \in 1..n : acNet'[i].kind # "list", NEW a \in BankAccounts
               PROVE  BoxFollows(a)'
    BY <1>1 DEF BoxesFollow
  <2>1. BoxFollows(a)
    BY <1>1, <1>5, <1>8 DEF CalmAccounts, BoxesFollow
  <2>2. \A j \in 1..n : Clicked(acNet'[j], a) <=> j # k /\ Clicked(acNet[j], a)
    BY <1>1, <1>3 DEF Clicked
  <2>3. CASE \E i \in 1..n : /\ Clicked(acNet[i], a) /\ (acNet[i].value <=> a \in acBoxes)
                             /\ \A j \in 1..n : i < j => ~Clicked(acNet[j], a)
    <3>1. PICK i \in 1..n : /\ Clicked(acNet[i], a) /\ (acNet[i].value <=> a \in acBoxes)
                            /\ \A j \in 1..n : i < j => ~Clicked(acNet[j], a)
      BY <2>3
    <3>2. CASE i # k
      <4>1. Clicked(acNet'[i], a) /\ acNet'[i].value = acNet[i].value
        BY <1>1, <2>2, <3>1, <3>2
      <4>2. \A j \in 1..n : i < j => ~Clicked(acNet'[j], a)
        BY <2>2, <3>1
      <4>3. QED
        BY <1>1, <1>5, <3>1, <4>1, <4>2 DEF BoxFollows
    <3>3. CASE i = k
      <4>1. q.kind = "access" /\ q.id = a /\ (q.value <=> a \in acBoxes)
        BY <3>1, <3>3 DEF Clicked, q
      <4>2. \A j \in 1..n : ~Clicked(acNet'[j], a)
        <5>1. \A j \in 1..n : j < k => ~Clicked(acNet[j], a)
          BY <1>7 DEF Clicked
        <5>2. QED
          BY <1>7, <2>2, <3>1, <3>3, <5>1
      <4>3. a \in acBoxes <=> a \in acStore'.access
        BY <1>4, <4>1 DEF ACPut
      <4>4. QED
        BY <1>1, <1>5, <4>2, <4>3 DEF BoxFollows
    <3>4. QED
      BY <3>2, <3>3
  <2>4. CASE /\ \A i \in 1..n : ~Clicked(acNet[i], a)
             /\ a \in acBoxes <=> a \in acStore.access
    <3>1. q.kind # "access" \/ q.id # a
      BY <1>1, <1>6, <2>4 DEF Clicked, q
    <3>2. a \in acStore'.access <=> a \in acStore.access
      BY <1>4, <3>1 DEF ACPut
    <3>3. \A i \in 1..n : ~Clicked(acNet'[i], a)
      BY <2>2, <2>4
    <3>4. QED
      BY <1>1, <1>5, <2>4, <3>2, <3>3 DEF BoxFollows
  <2>5. QED
    BY <1>1, <2>1, <2>3, <2>4 DEF BoxFollows
<1>15. QED
  BY <1>10, <1>11, <1>12, <1>13, <1>14 DEF CalmAccounts

(* The first request is answered: what is said of the others' order and      *)
(* answers stays.                                                            *)
LEMMA OthersCalm ==
  ASSUME ACTyped, CalmAccounts, OthersKept(1), UNCHANGED acStore, 1 \in DOMAIN acNet,
         \A j \in Len(acNet)..Len(acNet') :
           \/ acNet'[j].kind = "token"
           \/ acNet'[j].kind = "list" /\ ~acNet'[j].served
  PROVE  /\ ListsInTurn' /\ ListsNew' /\ BoxesFirst'
         /\ \A j \in 1..(Len(acNet) - 1) :
              /\ j \in DOMAIN acNet' /\ j + 1 \in DOMAIN acNet
              /\ acNet'[j].kind = acNet[j + 1].kind /\ acNet'[j].id = acNet[j + 1].id
              /\ acNet'[j].value = acNet[j + 1].value /\ acNet'[j].served = acNet[j + 1].served
              /\ acNet'[j].answer = acNet[j + 1].answer
<1> DEFINE n == Len(acNet)
           m == Len(acNet')
<1>1. /\ DOMAIN acNet = 1..n /\ DOMAIN acNet' = 1..m /\ n \in Nat \ {0} /\ m \in Nat /\ n - 1 <= m
      /\ \A j \in 1..(n - 1) : /\ Before(1, j) \in DOMAIN acNet /\ j \in DOMAIN acNet'
                               /\ Alike(acNet'[j], acNet[Before(1, j)])
  BY DEF OthersKept
<1> HIDE DEF n, m
<1>2. \A j \in 1..(n - 1) : Before(1, j) = j + 1
  BY <1>1 DEF Before
<1>3. \A j \in DOMAIN acNet : acNet[j] \in ACRequests
  BY DEF ACTyped, ACRequestTyped
<1>4. ASSUME NEW j \in 1..(n - 1)
      PROVE  /\ j \in 1..m /\ j + 1 \in 1..n
             /\ acNet'[j].kind = acNet[j + 1].kind /\ acNet'[j].id = acNet[j + 1].id
             /\ acNet'[j].value = acNet[j + 1].value /\ acNet'[j].served = acNet[j + 1].served
             /\ acNet'[j].answer = acNet[j + 1].answer
  BY <1>1, <1>2, <1>3, AlikeFields
<1>5. \A j \in 1..m : \/ j \in 1..(n - 1)
                      \/ j >= n /\ (acNet'[j].kind = "token" \/ (acNet'[j].kind = "list" /\ ~acNet'[j].served))
  <2>1. \A j \in 1..m : j \in 1..(n - 1) \/ (j >= n /\ j \in n..m)
    BY <1>1
  <2>2. QED
    BY <2>1 DEF n, m
<1>6. ListsInTurn'
  <2> SUFFICES ASSUME NEW i \in 1..m, NEW j \in 1..m, i < j, acNet'[j].served, acNet'[j].kind # "token"
               PROVE  acNet'[i].served
    BY <1>1 DEF ListsInTurn
  <2>1. j \in 1..(n - 1)
    BY <1>5
  <2>2. i \in 1..(n - 1) /\ i + 1 < j + 1
    BY <1>1, <2>1
  <2>3. acNet[i + 1].served
    <3>1. i + 1 \in DOMAIN acNet /\ j + 1 \in DOMAIN acNet
      BY <1>1, <1>4, <2>1, <2>2
    <3>2. acNet[j + 1].served /\ acNet[j + 1].kind # "token"
      BY <1>4, <2>1
    <3>3. QED
      BY <2>2, <3>1, <3>2 DEF CalmAccounts, ListsInTurn
  <2>4. QED
    BY <1>4, <2>2, <2>3
<1>7. ListsNew'
  <2> SUFFICES ASSUME NEW i \in 1..m, acNet'[i].kind = "list", acNet'[i].served
               PROVE  \/ SameAccounts(acNet'[i].answer, acStore')
                      \/ \E j \in 1..m : i < j /\ acNet'[j].kind \in Changers /\ acNet'[j].served
    BY <1>1 DEF ListsNew
  <2>1. i \in 1..(n - 1)
    BY <1>5
  <2>2. \/ SameAccounts(acNet[i + 1].answer, acStore)
        \/ \E j \in 1..n : i + 1 < j /\ acNet[j].kind \in Changers /\ acNet[j].served
    BY <1>1, <1>4, <2>1 DEF CalmAccounts, ListsNew
  <2>3. ASSUME NEW j \in 1..n, i + 1 < j, acNet[j].kind \in Changers, acNet[j].served
        PROVE  \E h \in 1..m : i < h /\ acNet'[h].kind \in Changers /\ acNet'[h].served
    <3> DEFINE h == j - 1
    <3>1. h \in 1..(n - 1) /\ i < h /\ h + 1 = j
      BY <1>1, <2>1, <2>3
    <3> HIDE DEF h
    <3>2. h \in 1..m /\ acNet'[h].kind = acNet[j].kind /\ acNet'[h].served = acNet[j].served
      BY <1>4, <3>1
    <3>3. QED
      BY <2>3, <3>1, <3>2
  <2>4. QED
    BY <1>4, <2>1, <2>2, <2>3
<1>8. BoxesFirst'
  <2>1. ASSUME NEW i \in 1..m, acNet'[i].kind = "list"
        PROVE  /\ \A j \in 1..m : acNet'[j].kind = "access" => j < i
               /\ acNet'[i].served => acNet'[i].answer.access = acStore'.access
    <3>1. CASE i \in 1..(n - 1)
      <4>1. /\ \A j \in 1..n : acNet[j].kind = "access" => j < i + 1
            /\ acNet[i + 1].served => acNet[i + 1].answer.access = acStore.access
        <5>1. i + 1 \in DOMAIN acNet
          BY <1>1, <1>4, <3>1
        <5>2. acNet[i + 1].kind = "list"
          BY <1>4, <2>1, <3>1
        <5>3. QED
          BY <1>1, <5>1, <5>2 DEF CalmAccounts, BoxesFirst
      <4>2. ASSUME NEW j \in 1..m, acNet'[j].kind = "access" PROVE j < i
        <5>1. j \in 1..(n - 1)
          BY <1>5, <4>2
        <5>2. j + 1 < i + 1
          BY <1>4, <4>1, <4>2, <5>1
        <5>3. QED
          BY <3>1, <5>1, <5>2
      <4>3. QED
        BY <1>4, <3>1, <4>1, <4>2
    <3>2. CASE i \notin 1..(n - 1)
      <4>1. i >= n /\ ~acNet'[i].served
        BY <1>5, <2>1, <3>2
      <4>2. ASSUME NEW j \in 1..m, acNet'[j].kind = "access" PROVE j < i
        <5>1. j \in 1..(n - 1)
          BY <1>5, <4>2
        <5>2. QED
          BY <1>1, <4>1, <5>1
      <4>3. QED
        BY <4>1, <4>2
    <3>3. QED
      BY <3>1, <3>2
  <2>2. QED
    BY <1>1, <2>1 DEF BoxesFirst
<1>9. QED
  BY <1>1, <1>4, <1>6, <1>7, <1>8 DEF n

LEMMA AnswerCalm ==
  ASSUME ACTyped, acCalm => CalmAccounts, acCalm', NEW i \in DOMAIN acNet, ACAnswer(i)
  PROVE  CalmAccounts'
<1> DEFINE q == acNet[1]
           n == Len(acNet)
<1>1. /\ CalmAccounts /\ i = 1 /\ 1 \in DOMAIN acNet /\ q.served /\ UNCHANGED acStore
      /\ q \in ACRequests /\ q.answer \in Standing
  BY DEF ACAnswer, ACTyped, ACRequestTyped, ACRequests
<1>2. CASE q.kind = "list"
  <2>1. acList' = q.answer /\ BodyDrawn(q.answer, RemoveAt(acNet, 1))
    BY <1>1, <1>2 DEF ACAnswer
  <2>2. LinksOf(q.answer) \subseteq Links
    BY <1>1 DEF Standing, LinksOf, Active, Links
  <2>3. OthersKept(1) /\ \A j \in Len(acNet)..Len(acNet') : acNet'[j].kind = "token"
    BY <1>1, <2>1, <2>2, LinksDrawn
  <2>4. /\ ListsInTurn' /\ ListsNew' /\ BoxesFirst'
        /\ \A j \in 1..(n - 1) : j \in DOMAIN acNet' /\ acNet'[j].kind = acNet[j + 1].kind
    BY <1>1, <2>3, OthersCalm
  <2>5. DOMAIN acNet = 1..n /\ DOMAIN acNet' = 1..Len(acNet') /\ n \in Nat \ {0} /\ Len(acNet') \in Nat
    BY <2>3 DEF OthersKept
  <2> HIDE DEF n
  <2>6. ListComes'
    <3>1. \/ SameAccounts(q.answer, acStore)
          \/ \E j \in DOMAIN acNet : 1 < j /\ acNet[j].kind \in Changers /\ acNet[j].served
      BY <1>1, <1>2 DEF CalmAccounts, ListsNew
    <3>2. ASSUME NEW j \in DOMAIN acNet, 1 < j, acNet[j].kind \in Changers
          PROVE  \E h \in DOMAIN acNet' : acNet'[h].kind \in Changers
      <4>1. j - 1 \in 1..(n - 1) /\ (j - 1) + 1 = j
        BY <2>5, <3>2
      <4>2. QED
        BY <2>4, <3>2, <4>1
    <3>3. QED
      BY <1>1, <2>1, <3>1, <3>2 DEF ListComes
  <2>7. \A j \in DOMAIN acNet' : acNet'[j].kind # "access"
    <3>1. \A j \in DOMAIN acNet : acNet[j].kind = "access" => j < 1
      BY <1>1, <1>2 DEF CalmAccounts, BoxesFirst
    <3>2. ASSUME NEW j \in 1..(n - 1) PROVE acNet'[j].kind # "access"
      <4>1. j + 1 \in DOMAIN acNet /\ ~(j + 1 < 1)
        BY <2>5
      <4>2. QED
        BY <2>4, <3>1, <4>1
    <3>3. \A j \in DOMAIN acNet' : j \in 1..(n - 1) \/ j \in Len(acNet)..Len(acNet')
      BY <2>5 DEF n
    <3>4. QED
      BY <2>3, <3>2, <3>3
  <2>8. acBoxes' = acStore'.access
    <3>1. q.answer.access = acStore.access
      BY <1>1, <1>2 DEF CalmAccounts, BoxesFirst
    <3>2. QED
      BY <1>1, <2>1, <3>1 DEF BodyDrawn
  <2>9. BoxesFollow'
    BY <2>7, <2>8 DEF BoxesFollow, BoxFollows, Clicked
  <2>10. QED
    BY <2>4, <2>6, <2>9 DEF CalmAccounts
<1>3. CASE q.kind \in {"balances", "token", "access"}
  <2>1. acNet' = RemoveAt(acNet, 1) /\ UNCHANGED <<acList, acBoxes>>
    BY <1>1, <1>3 DEF ACAnswer, acPage
  <2>2. OthersKept(1) /\ Len(acNet') = n - 1
    BY <1>1, <2>1, Forgotten
  <2>3. n \in Nat \ {0} /\ DOMAIN acNet = 1..n /\ DOMAIN acNet' = 1..(n - 1)
    BY <2>2 DEF OthersKept
  <2>4. \A j \in Len(acNet)..Len(acNet') : FALSE
    <3> HIDE DEF n
    <3>1. \A j \in n..(n - 1) : FALSE
      BY <2>3
    <3>2. QED
      BY <2>2, <3>1 DEF n
  <2>5. /\ ListsInTurn' /\ ListsNew' /\ BoxesFirst'
        /\ \A j \in 1..(n - 1) :
             /\ acNet'[j].kind = acNet[j + 1].kind /\ acNet'[j].id = acNet[j + 1].id
             /\ acNet'[j].value = acNet[j + 1].value /\ acNet'[j].served = acNet[j + 1].served
    BY <1>1, <2>2, <2>4, OthersCalm
  <2> HIDE DEF n
  <2>6. \A k \in 1..n : k = 1 \/ (k - 1 \in 1..(n - 1) /\ (k - 1) + 1 = k)
    BY <2>3
  <2>7. ListComes'
    <3>1. ASSUME NEW k \in DOMAIN acNet, acNet[k].kind \in Changers \cup {"list"}
          PROVE  \E h \in DOMAIN acNet' : acNet'[h].kind \in Changers \cup {"list"}
      <4>1. k - 1 \in 1..(n - 1) /\ (k - 1) + 1 = k
        BY <1>3, <2>3, <2>6, <3>1 DEF Changers
      <4>2. QED
        BY <2>3, <2>5, <3>1, <4>1
    <3>2. QED
      BY <1>1, <2>1, <3>1 DEF CalmAccounts, ListComes
  <2>8. BoxesFollow'
    <3> SUFFICES ASSUME \A h \in DOMAIN acNet' : acNet'[h].kind # "list", NEW a \in BankAccounts
                 PROVE  BoxFollows(a)'
      BY DEF BoxesFollow
    <3>1. \A k \in DOMAIN acNet : acNet[k].kind # "list"
      <4>1. q.kind # "list"
        BY <1>3
      <4>2. ASSUME NEW k \in 1..n, k - 1 \in 1..(n - 1), (k - 1) + 1 = k PROVE acNet[k].kind # "list"
        <5>1. acNet'[k - 1].kind # "list"
          BY <2>3, <4>2
        <5>2. QED
          BY <2>5, <4>2, <5>1
      <4>3. QED
        BY <2>3, <2>6, <4>1, <4>2
    <3>2. BoxFollows(a)
      BY <1>1, <3>1 DEF CalmAccounts, BoxesFollow
    <3>3. /\ ~Clicked(acNet[1], a)
          /\ \A j \in 1..(n - 1) : Clicked(acNet'[j], a) <=> Clicked(acNet[j + 1], a)
      BY <1>1, <2>5 DEF Clicked
    <3>4. \A j \in 1..(n - 1) : j + 1 \in 1..n
      BY <2>3
    <3>5. CASE \E k \in 1..n : /\ Clicked(acNet[k], a) /\ (acNet[k].value <=> a \in acBoxes)
                               /\ \A j \in 1..n : k < j => ~Clicked(acNet[j], a)
      <4>1. PICK k \in 1..n : /\ Clicked(acNet[k], a) /\ (acNet[k].value <=> a \in acBoxes)
                              /\ \A j \in 1..n : k < j => ~Clicked(acNet[j], a)
        BY <3>5
      <4>2. PICK h \in 1..(n - 1) : h + 1 = k
        BY <2>6, <3>3, <4>1
      <4>3. Clicked(acNet'[h], a) /\ acNet'[h].value = acNet[k].value
        BY <2>5, <3>3, <4>1, <4>2
      <4>4. ASSUME NEW j \in 1..(n - 1), h < j PROVE ~Clicked(acNet'[j], a)
        <5>1. k < j + 1
          BY <4>2, <4>4
        <5>2. QED
          BY <3>3, <3>4, <4>1, <4>4, <5>1
      <4>5. QED
        BY <2>1, <2>3, <4>1, <4>3, <4>4 DEF BoxFollows
    <3>6. CASE /\ \A k \in 1..n : ~Clicked(acNet[k], a)
               /\ a \in acBoxes <=> a \in acStore.access
      <4>1. \A j \in 1..(n - 1) : ~Clicked(acNet'[j], a)
        BY <3>3, <3>4, <3>6
      <4>2. QED
        BY <1>1, <2>1, <2>3, <3>6, <4>1 DEF BoxFollows
    <3>7. QED
      BY <2>3, <3>2, <3>5, <3>6 DEF BoxFollows
  <2>9. QED
    BY <2>5, <2>7, <2>8 DEF CalmAccounts
<1>4. CASE q.kind \in Changers
  <2>1. ListLoads(RemoveAt(acNet, 1))
    BY <1>1, <1>4 DEF ACAnswer, Changers
  <2>2. OthersKept(1) /\ Len(acNet') = n /\ acNet'[n] = Asked("list", NoAccount)
    BY <1>1, <2>1, ListAsked
  <2>3. n \in Nat \ {0} /\ DOMAIN acNet' = 1..n
    BY <2>2 DEF OthersKept
  <2>4. Asked("list", NoAccount).kind = "list" /\ ~Asked("list", NoAccount).served
    BY DEF Asked
  <2>5. \A j \in Len(acNet)..Len(acNet') : acNet'[j].kind = "list" /\ ~acNet'[j].served
    <3> HIDE DEF n
    <3>1. \A j \in n..n : j = n
      BY <2>3
    <3>2. QED
      BY <2>2, <2>4, <3>1 DEF n
  <2>6. ListsInTurn' /\ ListsNew' /\ BoxesFirst'
    BY <1>1, <2>2, <2>5, OthersCalm
  <2> HIDE DEF n
  <2>7. \E j \in DOMAIN acNet' : acNet'[j].kind = "list"
    BY <2>2, <2>3, <2>4
  <2>8. QED
    BY <2>6, <2>7 DEF CalmAccounts, ListComes, BoxesFollow
<1>5. QED
  BY <1>1, <1>2, <1>3, <1>4 DEF ACRequests, LinkKinds, Changers

-----------------------------------------------------------------------------
(* Theorems about the page of the accounts. *)

LEMMA ACInvInit == ACInit => ACInv
BY ACTypedInit, LinksHeardInit, CalmAccountsInit DEF ACInv

LEMMA ACInvStep == ACInv /\ [ACNext]_acVars => ACInv'
<1> SUFFICES ASSUME ACInv, [ACNext]_acVars PROVE ACInv'
  OBVIOUS
<1>1. ACTyped /\ LinksHeard /\ (acCalm => CalmAccounts)
  BY DEF ACInv
<1>2. CASE UNCHANGED acVars
  BY <1>1, <1>2 DEF acVars, acPage, acDialogs, ACInv, ACTyped, ACRequestTyped, LinksHeard, HasButton, LinksOf,
                    CalmAccounts, ListsInTurn, ListsNew, ListComes, BoxesFirst, BoxesFollow,
                    BoxFollows, Clicked, SameAccounts
<1>3. CASE \/ ToggleAccess \/ Rename \/ AskArchive \/ CloseAsk \/ Unarchive
           \/ OpenLink \/ ExitLink \/ LinkSucceeds
  BY <1>1, <1>3, ACUserTyped, UserLinks, UserCalm DEF ACInv
<1>4. ASSUME NEW i \in DOMAIN acNet, ACServe(i) PROVE ACInv'
  BY <1>1, <1>4, ACServeTyped, ServeLinks, ServeCalm DEF ACInv
<1>5. ASSUME NEW i \in DOMAIN acNet, ACAnswer(i) PROVE ACInv'
  BY <1>1, <1>5, AnswerTyped, AnswerLinks, AnswerCalm DEF ACInv
<1>6. ASSUME NEW i \in DOMAIN acNet, ACFail(i) PROVE ACInv'
  <2>1. ~acCalm'
    BY <1>6 DEF ACFail
  <2>2. QED
    BY <1>1, <1>6, <2>1, FailTyped, FailLinks DEF ACInv
<1>7. QED
  BY <1>2, <1>3, <1>4, <1>5, <1>6 DEF ACNext

LEMMA ACInvariant == ACSpec => []ACInv
BY ACInvInit, ACInvStep, PTL DEF ACSpec

(* Type correctness of the page. *)
THEOREM AccountsTypeCorrect == ACSpec => []ACTypeOK
<1>1. ACInv => ACTypeOK
  BY DEF ACInv, ACTyped, ACTypeOK, Standing
<1>2. QED
  BY <1>1, ACInvariant, PTL

(* At rest the page lists the server's accounts, adds up the balances of     *)
(* those that are not archived, and shows in its boxes who has access, after *)
(* any changes, connections and repairs that were under way together.        *)
THEOREM AccountsSettle == ACSpec => [](AccountsSettled /\ NetWorthActive /\ BoxesTruthful)
<1>1. ACInv => AccountsSettled /\ NetWorthActive /\ BoxesTruthful
  <2> SUFFICES ASSUME ACInv, ACQuiet, acCalm
               PROVE  /\ acList = [acStore EXCEPT !.access = acList.access]
                      /\ Counted = acBalances \cap Active(acStore)
                      /\ acBoxes \cap acList.linked = acStore.access
    BY DEF AccountsSettled, NetWorthActive, BoxesTruthful
  <2>1. ACTyped /\ CalmAccounts
    BY DEF ACInv
  <2>2. DOMAIN acNet = {}
    BY <2>1, QueueShape DEF ACQuiet, ACTyped
  <2>3. /\ acList.linked = acStore.linked /\ acList.archived = acStore.archived /\ acList.lost = acStore.lost
    BY <2>1, <2>2 DEF CalmAccounts, ListComes, SameAccounts
  <2>4. /\ acList \in Standing /\ acStore \in Standing /\ acStore.access \subseteq acStore.linked
        /\ acBalances \subseteq acStore.linked /\ acBoxes \subseteq BankAccounts
    BY <2>1 DEF ACTyped
  <2>5. acList = [acStore EXCEPT !.access = acList.access]
    BY <2>3, <2>4 DEF Standing
  <2>6. Counted = acBalances \cap Active(acStore)
    BY <2>3, <2>4 DEF Counted, Active
  <2>7. \A a \in BankAccounts : a \in acBoxes <=> a \in acStore.access
    BY <2>1, <2>2 DEF CalmAccounts, BoxesFollow, BoxFollows
  <2>8. acBoxes \cap acList.linked = acStore.access
    BY <2>3, <2>4, <2>7 DEF Standing
  <2>9. QED
    BY <2>5, <2>6, <2>8
<1>2. QED
  BY <1>1, ACInvariant, PTL

(* Whatever fails, and in whatever order the answers come: no Plaid dialog   *)
(* outlives its button, and each link that waits for its token will hear of  *)
(* it, also of one asked for before a list came or another link ended.       *)
THEOREM LinksAreAnswered == ACSpec => []LinksAnswered
<1>1. ACInv => LinksAnswered
  BY DEF ACInv, ACTyped, LinksHeard, HasButton, LinksAnswered
<1>2. QED
  BY <1>1, ACInvariant, PTL

-----------------------------------------------------------------------------
(* All pages together. *)

(* Each page of WebScreens is the page its own module specifies: the others  *)
(* and the choice of the page never touch it.  What is proved of a page      *)
(* holds among them all.                                                     *)
THEOREM ScreensImplementPages == ScreenSpec => MPSpec /\ CSSpec /\ ACSpec /\ TXSpec /\ RCSpec
<1>1. ScreenInit => MPInit /\ CSInit /\ ACInit /\ TXInit /\ RCInit
  BY DEF ScreenInit
<1>2. [ScreenNext]_screenVars => [MPNext]_mpVars /\ [CSNext]_csVars /\ [ACNext]_acVars
                                   /\ [TXNext]_txVars /\ [RCNext]_rcVars
  BY DEF ScreenNext, screenVars
<1>3. QED
  BY <1>1, <1>2, PTL DEF ScreenSpec, MPSpec, CSSpec, ACSpec, TXSpec, RCSpec

LEMMA PageStays == ScreenSpec => [](page \in ScreenPages)
<1>1. ScreenInit => page \in ScreenPages
  BY DEF ScreenInit
<1>2. page \in ScreenPages /\ [ScreenNext]_screenVars => (page \in ScreenPages)'
  BY DEF ScreenNext, screenVars
<1>3. QED
  BY <1>1, <1>2, PTL DEF ScreenSpec

(* Type correctness of all pages, whichever the user is on.                  *)
THEOREM ScreenTypesCorrect == ScreenSpec => []ScreenTypeOK
<1>1. page \in ScreenPages /\ MPTypeOK /\ CSTypeOK /\ ACTypeOK /\ TXTypeOK /\ RCTypeOK => ScreenTypeOK
  BY DEF ScreenTypeOK, ScreenPages
<1>2. QED
  BY <1>1, PageStays, ScreensImplementPages, MerchantTypeCorrect, CategoriesTypeCorrect, AccountsTypeCorrect,
     TransactionTypeCorrect, RecurringTypeCorrect, PTL

(* A page at rest shows what the server has, whichever page it is: so long   *)
(* as all came in order and nothing failed, and, on the page of the          *)
(* accounts, no box was clicked while the list was loaded again.  On that of *)
(* a transaction it is the server's but for the rows and the category that   *)
(* default tags applied to all have given it, and no answer was put into an  *)
(* older transaction than the one held.                                      *)
THEOREM ScreensSettle == ScreenSpec => []ScreensSettled
<1>1. page \in ScreenPages /\ PageSettled /\ CategoriesSettled
        /\ (AccountsSettled /\ NetWorthActive /\ BoxesTruthful) /\ TransactionSettled /\ StreamsSettled
      => ScreensSettled
  BY DEF ScreensSettled, ScreenPages
<1>2. QED
  BY <1>1, PageStays, ScreensImplementPages, PageSettles, CategoriesSettle, AccountsSettle, TransactionSettles,
     StreamsSettle, PTL

(* The defaults of a merchant stay those the user meant: "no" never sends    *)
(* another change than "yes" would have, however late the answers that clear *)
(* the one or the other, and no edit of the whole list of tags undoes        *)
(* another, of the merchant or of a member of its group, when each began     *)
(* with nothing else under way.                                              *)
THEOREM MerchantEditsStay == ScreenSpec => []MerchantEditsKept
<1>1. PageInv => MerchantEditsKept
  BY DEF PageInv, CalmPage, MeantComes, TagsAfter, EditComes, DefaultsAsMeant, Saving, TagEdits, MerchantEditsKept
<1>2. QED
  BY <1>1, ScreensImplementPages, PageInvariant, PTL

(* And no page, whichever the user is on, undoes what the others' theorems   *)
(* say: the streams stay sound and the decisions stand, splits that were let *)
(* through are accepted, and the categories stay a forest.                   *)
THEOREM PagesStaySound ==
  ScreenSpec => []StreamsSound /\ NeverSuggestedAgain /\ SplitsAccepted /\ ChangesAsProved
BY ScreensImplementPages, PageStreamsSound, SplitsAreAccepted, ChangesAreSteps, PTL

(* What a page draws is sound, whichever page it is.                         *)
THEOREM PagesDrawSound == ScreenSpec => []DrawnSound
<1>1. page \in ScreenPages /\ EveryCategoryDrawn /\ BudgetsOnce /\ LinksAnswered /\ RowKeysApart => DrawnSound
  BY DEF DrawnSound, ScreenPages
<1>2. QED
  BY <1>1, PageStays, ScreensImplementPages, EveryCategoryIsDrawn, BudgetsCountOnce, LinksAreAnswered, RowsApart, PTL
=============================================================================
