-------------------------- MODULE RecurringStreams --------------------------
(***************************************************************************)
(* Recurring streams on the server: RecurringDetectionService beside the   *)
(* requests by which a user confirms or dismisses a stream, statement by   *)
(* statement.  A run of the detection follows every sync and every POST    *)
(* detect; runs and requests overlap, and a run may be cut by a crash.     *)
(*                                                                         *)
(* The streams are those of one merchant and frequency.  How amounts and   *)
(* dates form clusters, and which stream lies nearest to one, is left to   *)
(* choice; so is the signature under which a stream is created, for the    *)
(* average of a stream drifts away from the signature it was made with.    *)
(* Of what a run writes into a stream only that it wrote it is kept: a     *)
(* stream without an average is one that was created and not yet filled.   *)
(***************************************************************************)
EXTENDS Naturals, FiniteSets

CONSTANTS
  Streams,         \* the identities of streams: their amount_signature
  NoStream,
  Joinable,        \* the transactions of the merchant
  Workers,         \* what runs the detection: syncs and requests
  Decisions,       \* the requests of users to confirm or to dismiss
  StartRows        \* the statuses of the streams there are to begin with

Statuses == {"none", "suggested", "confirmed", "dismissed"}
Decided  == {"confirmed", "dismissed"}

ASSUME NoStreamAssumption == NoStream \notin Streams
ASSUME StartAssumption == StartRows \subseteq [Streams -> Statuses]

VARIABLES
  rsStatus,    \* the status of each stream; "none" without a row
  rsFilled,    \* the streams whose average_amount is known
  rsLink,      \* recurring_stream_id of each transaction
  rsRecurring, \* the transactions marked recurring
  rsRun,       \* the run of each worker
  rsAsk,       \* the state of each request
  rsAstray,    \* history: transactions whose mark an accident left, or may leave, wrong
  rsCut        \* history: a run was cut between the creation of a stream and its filling

rsRows    == <<rsStatus, rsFilled>>
rsMarks   == <<rsLink, rsRecurring>>
rsHistory == <<rsAstray, rsCut>>
rsVars    == <<rsRows, rsMarks, rsRun, rsAsk, rsHistory>>

Over     == {"done", "failed"}
Rows     == {s \in Streams : rsStatus[s] # "none"}
JoinedTo(s) == {t \in Joinable : rsLink[t] = s}

\* left: candidates in no cluster yet; old: those that had a stream when the
\* run loaded them; seen: the status of the stream when the run read it.
Ended(pc) == [pc |-> pc, left |-> {}, old |-> {}, cluster |-> {}, stream |-> NoStream,
              seen |-> "none"]
NotAsked  == [pc |-> "done", stream |-> NoStream, to |-> "confirmed", seen |-> "none"]

\* The transactions of the streams there are have passed out of sight.  One that
\* is part of a split has the mark of its parent, and no stream.
RSInit ==
  /\ rsStatus \in StartRows /\ rsFilled = Rows
  /\ rsLink = [t \in Joinable |-> NoStream] /\ rsRecurring \in SUBSET Joinable
  /\ rsRun = [w \in Workers |-> Ended("done")]
  /\ rsAsk = [d \in Decisions |-> NotAsked]
  /\ rsAstray = {} /\ rsCut = FALSE

-----------------------------------------------------------------------------
(* The detection. *)

RunStep(w, run) == rsRun' = [rsRun EXCEPT ![w] = run]

(* candidate_transactions: pending ones, split parents and old ones are not. *)
Detect(w) ==
  /\ rsRun[w].pc \in Over
  /\ \E candidates \in SUBSET Joinable :
       RunStep(w, [Ended("next") EXCEPT
                     !.left = candidates,
                     !.old = {t \in candidates : rsLink[t] # NoStream}])
  /\ UNCHANGED <<rsRows, rsMarks, rsAsk, rsHistory>>

Clustered(w, cluster) ==
  [rsRun[w] EXCEPT !.left = @ \ cluster, !.cluster = cluster]

(* matching_stream: the distance to a stream without an average is a         *)
(* NoMethodError, which ends the run.                                        *)
MatchFails(w) ==
  /\ rsRun[w].pc = "next" /\ rsRun[w].left # {}
  /\ ~ Rows \subseteq rsFilled
  /\ RunStep(w, Ended("failed"))
  /\ UNCHANGED <<rsRows, rsMarks, rsAsk, rsHistory>>

(* A stream lies within the tolerance: a dismissed one is passed over.       *)
Match(w) ==
  /\ rsRun[w].pc = "next"
  /\ Rows \subseteq rsFilled
  /\ \E cluster \in SUBSET rsRun[w].left \ {{}}, s \in Rows :
       RunStep(w, IF rsStatus[s] = "dismissed"
                  THEN [rsRun[w] EXCEPT !.left = @ \ cluster]
                  ELSE [Clustered(w, cluster) EXCEPT !.pc = "fill", !.stream = s,
                                                     !.seen = rsStatus[s]])
  /\ UNCHANGED <<rsRows, rsMarks, rsAsk, rsHistory>>

MatchNone(w) ==
  /\ rsRun[w].pc = "next"
  /\ Rows \subseteq rsFilled
  /\ \E cluster \in SUBSET rsRun[w].left \ {{}}, s \in Streams :
       RunStep(w, [Clustered(w, cluster) EXCEPT !.pc = "create", !.stream = s])
  /\ UNCHANGED <<rsRows, rsMarks, rsAsk, rsHistory>>

(* Mutant: an upsert in place of create! and its rescue. *)
CreateOver(w) ==
  LET s == rsRun[w].stream IN
  /\ rsRun[w].pc = "create"
  /\ rsStatus' = [rsStatus EXCEPT ![s] = "suggested"]
  /\ RunStep(w, [rsRun[w] EXCEPT !.pc = "fill", !.seen = rsStatus'[s]])
  /\ UNCHANGED <<rsFilled, rsMarks, rsAsk, rsHistory>>

(* Mutant: a stream that was created is not filled. *)
CreateUnfilled(w) ==
  LET s == rsRun[w].stream IN
  /\ rsRun[w].pc = "create"
  /\ rsStatus' = IF rsStatus[s] = "none" THEN [rsStatus EXCEPT ![s] = "suggested"] ELSE rsStatus
  /\ RunStep(w, [rsRun[w] EXCEPT !.pc = IF rsStatus[s] = "none" THEN "link" ELSE "fill",
                                 !.seen = rsStatus'[s]])
  /\ UNCHANGED <<rsFilled, rsMarks, rsAsk, rsHistory>>

(* create_stream: under a signature that is taken, by another run or by a    *)
(* stream whose average has moved away, the row there is used, whatever its  *)
(* status.                                                                   *)
CreateStream(w) ==
  LET s == rsRun[w].stream IN
  /\ rsRun[w].pc = "create"
  /\ rsStatus' = IF rsStatus[s] = "none" THEN [rsStatus EXCEPT ![s] = "suggested"] ELSE rsStatus
  /\ RunStep(w, [rsRun[w] EXCEPT !.pc = "fill", !.seen = rsStatus'[s]])
  /\ UNCHANGED <<rsFilled, rsMarks, rsAsk, rsHistory>>

(* stream.update!: only the columns given are written, the status is not.    *)
Fill(w) ==
  /\ rsRun[w].pc = "fill"
  /\ rsFilled' = rsFilled \cup {rsRun[w].stream}
  /\ RunStep(w, [rsRun[w] EXCEPT !.pc = "link"])
  /\ UNCHANGED <<rsStatus, rsMarks, rsAsk, rsHistory>>

NewlyLinked(w) == rsRun[w].cluster \ rsRun[w].old

NextCluster(w) == [Ended("next") EXCEPT !.left = rsRun[w].left, !.old = rsRun[w].old]

(* Taken over from another stream, where it keeps its mark or the lack of    *)
(* one; joined with a split's mark to a stream that is dismissed; or linked  *)
(* by a status that has changed since it was read.                           *)
Mislinked(w) ==
  LET run == rsRun[w] IN
  {t \in run.cluster : \/ rsLink[t] \notin {NoStream, run.stream}
                       \/ rsLink[t] = NoStream /\ t \in rsRecurring /\ run.seen = "dismissed"
                       \/ run.seen # rsStatus[run.stream]}

(* Mutant: which are newly linked is looked up after they were linked. *)
LinkFirst(w) ==
  LET run == rsRun[w] IN
  /\ run.pc = "link"
  /\ rsLink' = [t \in Joinable |-> IF t \in run.cluster THEN run.stream ELSE rsLink[t]]
  /\ RunStep(w, NextCluster(w))
  /\ rsAstray' = rsAstray \cup Mislinked(w)
  /\ UNCHANGED <<rsRows, rsRecurring, rsAsk, rsCut>>

(* link_transactions. *)
Link(w) ==
  LET run == rsRun[w] IN
  /\ run.pc = "link"
  /\ rsLink' = [t \in Joinable |-> IF t \in run.cluster THEN run.stream ELSE rsLink[t]]
  /\ RunStep(w, IF run.seen = "confirmed" /\ NewlyLinked(w) # {}
                THEN [run EXCEPT !.pc = "flag"] ELSE NextCluster(w))
  /\ rsAstray' = rsAstray \cup Mislinked(w)
  /\ UNCHANGED <<rsRows, rsRecurring, rsAsk, rsCut>>

(* The stream dismissed, or the transaction linked elsewhere, in between. *)
Misflagged(w) ==
  {t \in NewlyLinked(w) : rsLink[t] # rsRun[w].stream \/ rsStatus[rsRun[w].stream] # "confirmed"}

Flag(w) ==
  /\ rsRun[w].pc = "flag"
  /\ rsRecurring' = rsRecurring \cup NewlyLinked(w)
  /\ rsAstray' = rsAstray \cup Misflagged(w)
  /\ RunStep(w, NextCluster(w))
  /\ UNCHANGED <<rsRows, rsLink, rsAsk, rsCut>>

(* What is left is irregular, or too little.  That streams without a cluster *)
(* have their active flag recomputed last is left out.                       *)
Finish(w) ==
  /\ rsRun[w].pc = "next"
  /\ RunStep(w, Ended("done"))
  /\ UNCHANGED <<rsRows, rsMarks, rsAsk, rsHistory>>

(* The process ends, or the database refuses a statement. *)
Cut(w) ==
  /\ rsRun[w].pc \notin Over
  /\ rsCut' = (rsCut \/ (rsRun[w].pc = "fill" /\ rsRun[w].stream \notin rsFilled))
  /\ rsAstray' = IF rsRun[w].pc = "flag" THEN rsAstray \cup NewlyLinked(w) ELSE rsAstray
  /\ RunStep(w, Ended("failed"))
  /\ UNCHANGED <<rsRows, rsMarks, rsAsk>>

-----------------------------------------------------------------------------
(* The requests of users. *)

AskStep(d, ask) == rsAsk' = [rsAsk EXCEPT ![d] = ask]

AskFor(d, s, to) ==
  /\ rsAsk[d].pc \in Over /\ s \in Rows
  /\ AskStep(d, [pc |-> "find", stream |-> s, to |-> to, seen |-> "none"])
  /\ UNCHANGED <<rsRows, rsMarks, rsRun, rsHistory>>

(* The row is loaded; a stream seen to be dismissed is not confirmed.        *)
Find(d) ==
  LET s == rsAsk[d].stream
      refused == rsAsk[d].to = "confirmed" /\ rsStatus[s] = "dismissed"
  IN
  /\ rsAsk[d].pc = "find"
  /\ AskStep(d, [rsAsk[d] EXCEPT !.pc = IF refused THEN "failed" ELSE "decide",
                                 !.seen = rsStatus[s]])
  /\ UNCHANGED <<rsRows, rsMarks, rsRun, rsHistory>>

(* confirm! and dismiss!, one database transaction.  An update! to the       *)
(* status the row was loaded with writes nothing: when another request has   *)
(* changed it since, only the marks are set, and against it.                 *)
Decide(d) ==
  LET ask    == rsAsk[d]
      joined == JoinedTo(ask.stream)
      lost   == ask.seen = ask.to /\ rsStatus[ask.stream] # ask.to
  IN
  /\ ask.pc = "decide"
  /\ rsStatus' = IF ask.seen = ask.to THEN rsStatus ELSE [rsStatus EXCEPT ![ask.stream] = ask.to]
  /\ rsRecurring' = IF ask.to = "confirmed" THEN rsRecurring \cup joined
                                            ELSE rsRecurring \ joined
  /\ rsAstray' = IF lost THEN rsAstray \cup joined ELSE rsAstray \ joined
  /\ AskStep(d, [ask EXCEPT !.pc = "done"])
  /\ UNCHANGED <<rsFilled, rsLink, rsRun, rsCut>>

(* The answer has been given. *)
Answered(d) ==
  /\ rsAsk[d].pc \in Over
  /\ AskStep(d, NotAsked)
  /\ UNCHANGED <<rsRows, rsMarks, rsRun, rsHistory>>

-----------------------------------------------------------------------------
RunNext(w) ==
  MatchFails(w) \/ Match(w) \/ MatchNone(w) \/ CreateStream(w) \/ Fill(w) \/ Link(w) \/ Flag(w)
    \/ Finish(w) \/ Cut(w)

AskNext(d) == Find(d) \/ Decide(d)

RSNext ==
  \/ \E w \in Workers : Detect(w) \/ RunNext(w)
  \/ \E d \in Decisions : AskNext(d) \/ Answered(d) \/ \E s \in Streams, to \in Decided : AskFor(d, s, to)

RSSpec == RSInit /\ [][RSNext]_rsVars

-----------------------------------------------------------------------------
Runs == [pc : Over \cup {"next", "create", "fill", "link", "flag"},
         left : SUBSET Joinable, old : SUBSET Joinable, cluster : SUBSET Joinable,
         stream : Streams \cup {NoStream}, seen : Statuses]
Asks == [pc : Over \cup {"find", "decide"},
         stream : Streams \cup {NoStream}, to : Decided, seen : Statuses]

RSTypeOK ==
  /\ rsStatus \in [Streams -> Statuses]
  /\ rsFilled \subseteq Streams
  /\ rsLink \in [Joinable -> Streams \cup {NoStream}]
  /\ rsRecurring \subseteq Joinable
  /\ rsRun \in [Workers -> Runs] /\ rsAsk \in [Decisions -> Asks]
  /\ rsAstray \subseteq Joinable /\ rsCut \in BOOLEAN

AboutToFlag(t) == \E w \in Workers : rsRun[w].pc = "flag" /\ t \in NewlyLinked(w)

(* The transactions of a confirmed stream are marked recurring and those of  *)
(* a dismissed one are not, also when they joined after the decision, and    *)
(* whatever runs and requests overlap: but for those an accident befell,     *)
(* which the next decision about their stream puts right.                    *)
MarksFollow ==
  \A t \in Joinable \ rsAstray :
    rsLink[t] # NoStream =>
      /\ rsStatus[rsLink[t]] = "confirmed" => t \in rsRecurring \/ AboutToFlag(t)
      /\ rsStatus[rsLink[t]] = "dismissed" => t \notin rsRecurring

(* A stream without an average, over which every later run for its merchant  *)
(* stumbles, is about to be filled, unless a run was cut right there.        *)
HalfMade ==
  ~rsCut => \A s \in Rows \ rsFilled :
              \E w \in Workers : rsRun[w].pc = "fill" /\ rsRun[w].stream = s

(* What runs of the detection and decisions leave in the database, whatever  *)
(* their order (recurring_detection_service.rb:26-28, recurring_stream.rb).  *)
StreamsSound == MarksFollow /\ HalfMade

(* "Dismiss - never suggest this again" (StreamRow.tsx:106): no decision is  *)
(* ever taken back by the detection, not by a run that read the rows before. *)
NeverSuggestedAgain ==
  [][\A s \in Streams : rsStatus[s] \in Decided => rsStatus'[s] \in Decided]_rsStatus
=============================================================================
