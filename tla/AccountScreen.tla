--------------------------- MODULE AccountScreen ---------------------------
(***************************************************************************)
(* The accounts page of the web UI: the hooks usePlaidAccount and          *)
(* useAccountBalances, a usePlaidLink for the connect button and for each  *)
(* account that needs a reconnect, and the checkbox by which another user  *)
(* of the household is given access to a bank account.                     *)
(*                                                                         *)
(* While the list loads the page draws only a spinner, which unmounts all  *)
(* below it: link dialogs and checkboxes start anew afterwards.  The       *)
(* server and the bank are external.  The other users are known by then.   *)
(***************************************************************************)
EXTENDS Naturals, Sequences, SequencesExt, FiniteSets

CONSTANTS
  BankAccounts,    \* the bank accounts that may come to be linked
  NoAccount,       \* no dialog; also stands for the connect button among the links
  MaxActs          \* bound: what the user does, other than to open and close dialogs

ASSUME AccountsAssumption == IsFiniteSet(BankAccounts) /\ NoAccount \notin BankAccounts
ASSUME MaxActsAssumption == MaxActs \in Nat

VARIABLES
  acList,      \* plaidAccounts, as last loaded
  acLoading,   \* isLoading
  acBalances,  \* the accounts whose balance was loaded
  acBalLoading,
  acLink,      \* the state of each usePlaidLink: of NoAccount and of each account
  acOpen,      \* the link whose Plaid dialog is open: a set of at most one
  acAsk,       \* the account whose archiving is to be confirmed
  acBoxes,     \* the accounts whose checkbox is checked
  acNet,       \* requests under way, in the order sent
  acActs,      \* how often the user acted
  acStore,     \* the server's accounts
  acCalm       \* history: all came in order, nothing failed, and no box was
               \* clicked while the list was loaded again

acPage    == <<acList, acLoading, acBalances, acBalLoading, acBoxes>>
acDialogs == <<acLink, acOpen, acAsk>>
acVars    == <<acPage, acDialogs, acNet, acActs, acStore, acCalm>>

Connect == NoAccount
Links == BankAccounts \cup {Connect}

Active(list) == list.linked \ list.archived

NoAccounts == [linked |-> {}, archived |-> {}, access |-> {}, lost |-> {}]

\* id: the account it is about, or the link that asks.  heard: the link that
\* asked is still there.  A token has nothing to do with the accounts: when it
\* is served makes no difference.
Asked(kind, id) ==
  [kind |-> kind, id |-> id, value |-> FALSE, new |-> {},
   served |-> kind = "token", answer |-> NoAccounts, heard |-> TRUE]

ACInit ==
  /\ acStore \in [linked : SUBSET BankAccounts, archived : {{}}, access : {{}}, lost : SUBSET BankAccounts]
  /\ acStore.linked # BankAccounts /\ acStore.lost \subseteq acStore.linked
  /\ Cardinality(acStore.lost) < 2
  /\ acList = NoAccounts
  /\ acLoading = TRUE
  /\ acBalances = {} /\ acBalLoading = TRUE
  /\ acLink = [c \in Links |-> "off"] /\ acOpen = {} /\ acAsk = NoAccount
  /\ acBoxes = {}
  /\ acNet = <<Asked("list", NoAccount), Asked("balances", NoAccount)>>
  /\ acActs = 0 /\ acCalm = TRUE

-----------------------------------------------------------------------------
(* What is on the page. *)

\* A dialog covers the page.
Body == ~acLoading /\ acOpen = {} /\ acAsk = NoAccount

\* The links of the body: the connect button, and one per account lost.
LinksOf(list) == {Connect} \cup (Active(list) \cap list.lost)

(* Mutant: archived accounts count as the others. *)
CountedAll == acBalances \cap acList.linked

(* The accounts that the net worth and the totals are added up from.  Their  *)
(* balances were loaded as the page was opened, the list is newer.  A balance *)
(* counts unless its account is archived in the list.                        *)
Counted == acBalances \ (acList.linked \cap acList.archived)

-----------------------------------------------------------------------------
(* What the user does. *)

Act(q) ==
  /\ acActs < MaxActs
  /\ acActs' = acActs + 1
  /\ acNet' = Append(acNet, q)

(* Mutant: the checkbox answers only when the server has. *)
ToggleAccessLater ==
  /\ Body
  /\ \E a \in Active(acList) :
       Act([Asked("access", a) EXCEPT !.value = a \notin acBoxes])
  /\ UNCHANGED <<acPage, acDialogs, acStore, acCalm>>

(* AccountAccessCheckbox: the box changes at once; no failure is caught. *)
ToggleAccess ==
  /\ Body
  /\ \E a \in Active(acList) :
       /\ Act([Asked("access", a) EXCEPT !.value = a \notin acBoxes])
       /\ acBoxes' = IF a \in acBoxes THEN acBoxes \ {a} ELSE acBoxes \cup {a}
  /\ acCalm' = (acCalm /\ \A i \in DOMAIN acNet : acNet[i].kind # "list")
  /\ UNCHANGED <<acList, acLoading, acBalances, acBalLoading, acDialogs, acStore>>

Rename ==
  /\ Body
  /\ \E a \in Active(acList) : Act(Asked("rename", a))
  /\ UNCHANGED <<acPage, acDialogs, acStore, acCalm>>

(* Archiving is to be confirmed first, the way back is not. *)
AskArchive ==
  /\ Body
  /\ acAsk' \in Active(acList)
  /\ UNCHANGED <<acPage, acLink, acOpen, acNet, acActs, acStore, acCalm>>

CloseAsk ==
  /\ acAsk # NoAccount
  /\ acAsk' = NoAccount
  /\ \/ Act([Asked("archive", acAsk) EXCEPT !.value = TRUE])
     \/ UNCHANGED <<acNet, acActs>>
  /\ UNCHANGED <<acPage, acLink, acOpen, acStore, acCalm>>

Unarchive ==
  /\ Body
  /\ \E a \in acList.linked \cap acList.archived :
       Act(Asked("archive", a))
  /\ UNCHANGED <<acPage, acDialogs, acStore, acCalm>>

(* The button of a link opens Plaid's dialog once it has its token. *)
OpenLink ==
  /\ Body
  /\ \E c \in Links : acLink[c] = "ready" /\ acOpen' = {c}
  /\ UNCHANGED <<acPage, acLink, acAsk, acNet, acActs, acStore, acCalm>>

ExitLink ==
  /\ acOpen # {}
  /\ acOpen' = {}
  /\ UNCHANGED <<acPage, acLink, acAsk, acNet, acActs, acStore, acCalm>>

(* onSuccessCallback: a new account's token is exchanged; an update needs    *)
(* none, the repaired connection is only told to the server.                 *)
LinkSucceeds ==
  /\ \E c \in acOpen :
       /\ IF c = Connect
          THEN \E new \in (SUBSET (BankAccounts \ acStore.linked)) \ {{}} :
                 Act([Asked("exchange", c) EXCEPT !.new = new])
          ELSE Act(Asked("reconnect", c))
       /\ acLink' = [acLink EXCEPT ![c] = "working"]
  /\ acOpen' = {}
  /\ UNCHANGED <<acPage, acAsk, acStore, acCalm>>

-----------------------------------------------------------------------------
(* Requests. *)

ACPut(set, a, value) == IF value THEN set \cup {a} ELSE set \ {a}

(* What the server makes of a request (external). *)
ACStored(q) ==
  CASE q.kind = "access"    -> [acStore EXCEPT !.access = ACPut(@, q.id, q.value)]
    [] q.kind = "archive"   -> [acStore EXCEPT !.archived = ACPut(@, q.id, q.value)]
    [] q.kind = "exchange"  -> [acStore EXCEPT !.linked = @ \cup q.new]
    [] q.kind = "reconnect" -> [acStore EXCEPT !.lost = @ \ {q.id}]
    [] OTHER                -> acStore

ACServe(i) ==
  LET q == acNet[i] IN
  /\ ~q.served
  /\ acStore' = ACStored(q)
  /\ acNet' = [acNet EXCEPT ![i].served = TRUE, ![i].answer =
                   IF q.kind \in {"list", "balances"} THEN acStore' ELSE @]
  /\ acCalm' = (acCalm /\ \A j \in 1..(i - 1) : acNet[j].served)
  /\ UNCHANGED <<acPage, acDialogs, acActs>>

(* What asked for a link that is gone is not heard of by it. *)
Unheard(net, gone) ==
  [i \in DOMAIN net |-> IF net[i].kind \in {"token", "exchange", "reconnect"} /\ net[i].id \in gone
                        THEN [net[i] EXCEPT !.heard = FALSE] ELSE net[i]]

(* Mutant: the list is not loaded again. *)
ListKept(net) == acNet' = net /\ UNCHANGED <<acLoading, acLink, acOpen>>

(* fetchPlaidAccounts: the spinner takes the place of the body, whose links  *)
(* end, with the dialog that is open.                                        *)
ListLoads(net) ==
  /\ acLoading' = TRUE
  /\ acLink' = [c \in Links |-> "off"] /\ acOpen' = {}
  /\ acNet' = Append(Unheard(net, Links), Asked("list", NoAccount))

(* The body is drawn: each link asks for its token, the boxes show the list. *)
(* A list that comes while the body is there resets the boxes as well; links *)
(* that are there stay, new ones ask.                                        *)
BodyDrawn(list, net) ==
  LET new == {c \in LinksOf(list) : acLoading \/ acLink[c] = "off"} IN
  /\ acLoading' = FALSE
  /\ acLink' = [c \in Links |-> IF c \in new THEN "asked"
                                ELSE IF c \in LinksOf(list) THEN acLink[c] ELSE "off"]
  /\ acOpen' = acOpen \cap LinksOf(list)
  /\ acBoxes' = list.access
  /\ acNet' = Unheard(net, Links \ LinksOf(list))
                \o SetToSeq({Asked("token", c) : c \in new})

(* Mutant: a failed request for a token is not noticed. *)
LinkReady(q, state) ==
  /\ acLink' = IF q.heard /\ state = "ready" THEN [acLink EXCEPT ![q.id] = state] ELSE acLink
  /\ UNCHANGED acOpen

LinkBecomes(q, state) ==
  /\ acLink' = IF q.heard THEN [acLink EXCEPT ![q.id] = state] ELSE acLink
  /\ UNCHANGED acOpen

(* The end of a link's or an account's change is a load of the list, also if *)
(* the body it was begun in is gone.                                         *)
ACAnswer(i) ==
  LET q   == acNet[i]
      net == RemoveAt(acNet, i)
  IN
  /\ q.served
  /\ CASE q.kind = "list" ->
            /\ acList' = q.answer
            /\ BodyDrawn(q.answer, net)
            /\ UNCHANGED <<acBalances, acBalLoading>>
       [] q.kind = "balances" ->
            /\ acBalances' = q.answer.linked /\ acBalLoading' = FALSE
            /\ acNet' = net
            /\ UNCHANGED <<acList, acLoading, acBoxes, acLink, acOpen>>
       [] q.kind = "token" ->
            /\ LinkBecomes(q, "ready")
            /\ acNet' = net
            /\ UNCHANGED acPage
       [] q.kind = "access" ->
            /\ acNet' = net
            /\ UNCHANGED <<acPage, acLink, acOpen>>
       [] OTHER ->
            /\ ListLoads(net)
            /\ UNCHANGED <<acList, acBalances, acBalLoading, acBoxes>>
  /\ acCalm' = (acCalm /\ i = 1)
  /\ UNCHANGED <<acAsk, acActs, acStore>>

(* A failed list leaves the old one, and the boxes of a new body with it. *)
ACFail(i) ==
  LET q   == acNet[i]
      net == RemoveAt(acNet, i)
  IN
  /\ CASE q.kind = "list" ->
            /\ BodyDrawn([acList EXCEPT !.access = IF acLoading THEN @ ELSE acBoxes], net)
            /\ UNCHANGED <<acList, acBalances, acBalLoading>>
       [] q.kind = "balances" ->
            /\ acBalLoading' = FALSE /\ acNet' = net
            /\ UNCHANGED <<acList, acLoading, acBalances, acBoxes, acLink, acOpen>>
       [] q.kind \in {"token", "exchange", "reconnect"} ->
            /\ LinkBecomes(q, IF q.kind = "token" THEN "failed" ELSE "ready")
            /\ acNet' = net
            /\ UNCHANGED acPage
       [] OTHER ->
            /\ acNet' = net
            /\ UNCHANGED <<acPage, acLink, acOpen>>
  /\ acCalm' = FALSE
  /\ UNCHANGED <<acAsk, acActs, acStore>>

ACNext ==
  \/ ToggleAccess \/ Rename \/ AskArchive \/ CloseAsk \/ Unarchive
  \/ OpenLink \/ ExitLink \/ LinkSucceeds
  \/ \E i \in DOMAIN acNet : ACServe(i) \/ ACAnswer(i) \/ ACFail(i)

ACSpec == ACInit /\ [][ACNext]_acVars

-----------------------------------------------------------------------------
ACTypeOK ==
  /\ acList.linked \cup acBalances \cup acBoxes \subseteq BankAccounts
  /\ acLoading \in BOOLEAN /\ acBalLoading \in BOOLEAN /\ acCalm \in BOOLEAN
  /\ acLink \in [Links -> {"off", "asked", "failed", "ready", "working"}]
  /\ acOpen \subseteq Links /\ acAsk \in BankAccounts \cup {NoAccount}
  /\ acActs \in 0..MaxActs

ACQuiet == acNet = << >>

(* Once nothing is under way the list is the server's: after a connection, a *)
(* reconnect, an archiving or a renaming, also when several were under way   *)
(* together.  So long as all came in order and nothing failed.               *)
AccountsSettled == ACQuiet /\ acCalm => acList = [acStore EXCEPT !.access = acList.access]

(* "Archived accounts keep their last-known balance for display in the       *)
(* Archived section but must not count toward net worth or section totals"   *)
(* (AccountPage.tsx:88-91); the others whose balance is known do count.      *)
NetWorthActive ==
  ACQuiet /\ acCalm => Counted = acBalances \cap Active(acStore)

(* The boxes show who has access, though they change before the server has,  *)
(* and though the list they come from may have been loaded before that.      *)
BoxesTruthful == ACQuiet /\ acCalm => acBoxes \cap acList.linked = acStore.access

(* No Plaid dialog is open that belongs to no button of the page, and each   *)
(* link that waits for its token is about to hear of it.                     *)
LinksAnswered ==
  /\ \A c \in acOpen : ~acLoading /\ c \in LinksOf(acList)
  /\ \A c \in Links : acLink[c] = "asked" =>
       \E i \in DOMAIN acNet : acNet[i].kind = "token" /\ acNet[i].id = c /\ acNet[i].heard
=============================================================================
