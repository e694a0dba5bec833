----------------------------- MODULE WebSession -----------------------------
(***************************************************************************)
(* Who is signed in, in one tab of the web UI: the token in localStorage,  *)
(* the user that CurrentUserProvider holds, the login, sign-up and profile *)
(* pages, and the interceptors of base-client that send the token along    *)
(* and leave for the login page when the server refuses it.                *)
(*                                                                         *)
(* Going to a page is either a load, which starts the program anew and     *)
(* drops what was under way, or a navigation inside the program, which     *)
(* keeps it.  The tab's history has entries of both kinds: those that the  *)
(* program made itself belong to one document, and going back or forward   *)
(* among them loads nothing, also after that document was loaded again.    *)
(* The model keeps which paths there are, and an entry also when a new one *)
(* cuts it off; a document gone back to is always loaded (browsers may     *)
(* revive it).  What the forms say of a failure is left out.  The server   *)
(* is external: a token names a user until it expires.                     *)
(***************************************************************************)
EXTENDS Naturals, Sequences, SequencesExt

CONSTANTS
  WebUsers,      \* the users there are
  NoUser,        \* null: no user, no token
  MaxWebSent     \* bound: the requests of a behaviour

ASSUME SessionAssumption == NoUser \notin WebUsers /\ MaxWebSent \in Nat

VARIABLES
  wsPath,      \* "login", "signup", or "main" for every page of MainLayout
  wsHere,      \* the paths the tab's history has for the document in it
  wsLeft,      \* the paths it has for the documents that the tab has left
  wsToken,     \* the token in localStorage
  wsUser,      \* CurrentUserProvider's user
  wsLoading,   \* userLoading: a spinner stands for the whole page
  wsNet,       \* the requests of this load that are under way
  wsSent,      \* the number of requests sent
  wsIssued,    \* the number of tokens issued (external)
  wsExpired,   \* the tokens that have expired (external)
  wsFailed,    \* history: the question for the user failed, in this load
  wsCameBack   \* history: the tab's history led to a page with no user there, in this load

wsHistory == <<wsHere, wsLeft>>
wsAuth == <<wsIssued, wsExpired>>
wsVars == <<wsPath, wsHistory, wsToken, wsUser, wsLoading, wsNet, wsSent, wsAuth, wsFailed,
            wsCameBack>>

Paths == {"login", "signup", "main"}

IsAuthPage(path) == path \in {"login", "signup"}

\* The request interceptor puts the token of the moment into every request.
\* A form waits for what it sent (loading disables its button) while it is drawn.
Request(kind) ==
  [kind |-> kind, token |-> wsToken, user |-> NoUser,
   awaited |-> kind \in {"login", "signup", "profile"}]

Transmit(net, q) == /\ wsSent < MaxWebSent /\ wsSent' = wsSent + 1
                    /\ wsNet' = Append(net, q)

Busy == \E i \in DOMAIN wsNet : wsNet[i].awaited

\* The form is gone; its request is still answered.
Unawaited(net) == [i \in DOMAIN net |-> [net[i] EXCEPT !.awaited = FALSE]]

(* Mutant: the pages are drawn before the user is there. *)
StartedDrawn(path) ==
  /\ wsPath' = path /\ wsUser' = NoUser /\ wsLoading' = FALSE
  /\ wsFailed' = FALSE /\ wsCameBack' = FALSE
  /\ IF IsAuthPage(path) THEN wsNet' = << >> /\ UNCHANGED wsSent
                         ELSE Transmit(<< >>, Request("current"))

(* Mutant: the provider spins on the forms as well. *)
StartedSpinning(path) ==
  /\ wsPath' = path /\ wsUser' = NoUser /\ wsLoading' = TRUE
  /\ wsFailed' = FALSE /\ wsCameBack' = FALSE
  /\ IF IsAuthPage(path) THEN wsNet' = << >> /\ UNCHANGED wsSent
                         ELSE Transmit(<< >>, Request("current"))

\* What a fresh start makes of the provider.
Started(path) ==
  /\ wsPath' = path /\ wsUser' = NoUser /\ wsLoading' = ~IsAuthPage(path)
  /\ wsFailed' = FALSE /\ wsCameBack' = FALSE
  /\ IF IsAuthPage(path) THEN wsNet' = << >> /\ UNCHANGED wsSent
                         ELSE Transmit(<< >>, Request("current"))

WSInit ==
  /\ wsPath = "login" /\ wsHere = {"login"} /\ wsLeft = {}
  /\ wsToken = NoUser /\ wsUser = NoUser /\ wsLoading = FALSE /\ wsNet = << >>
  /\ wsSent = 0 /\ wsIssued = 0 /\ wsExpired = {} /\ wsFailed = FALSE /\ wsCameBack = FALSE

NewDocument(path) == Started(path) /\ wsHere' = {path} /\ wsLeft' = wsLeft \cup wsHere

-----------------------------------------------------------------------------
(* The address bar, or an anchor of the two forms. *)
Load == (\E path \in Paths : NewDocument(path)) /\ UNCHANGED <<wsToken, wsAuth>>

\* The same document again; the entries that the program made stay its own.
Reload == Started(wsPath) /\ UNCHANGED <<wsHistory, wsToken, wsAuth>>

\* Back or forward, to another document, with some of the paths that were left.
LoadFromHistory ==
  /\ \E path \in wsLeft :
       /\ Started(path)
       /\ \E others \in SUBSET wsLeft : wsHere' = others \cup {path}
  /\ wsLeft' = wsLeft \cup wsHere
  /\ UNCHANGED <<wsToken, wsAuth>>

\* Back or forward, inside the program: nothing is loaded, nobody is asked for.
Traverse ==
  /\ wsPath' \in wsHere \ {wsPath}
  /\ wsNet' = Unawaited(wsNet)
  /\ wsCameBack' = (wsCameBack \/ (wsPath' = "main" /\ ~wsLoading /\ wsUser = NoUser))
  /\ UNCHANGED <<wsHistory, wsToken, wsUser, wsLoading, wsSent, wsAuth, wsFailed>>

\* From one page of the layout to another.
HandleNavigation ==
  /\ wsPath = "main" /\ ~wsLoading
  /\ wsNet' = Unawaited(wsNet)
  /\ UNCHANGED <<wsPath, wsHistory, wsToken, wsUser, wsLoading, wsSent, wsAuth, wsFailed,
                 wsCameBack>>

\* A button of a form, or a page that fetches.
WSSend(q) ==
  /\ ~wsLoading /\ Transmit(wsNet, q)
  /\ UNCHANGED <<wsPath, wsHistory, wsToken, wsUser, wsLoading, wsAuth, wsFailed, wsCameBack>>

Login == /\ wsPath = "login" /\ ~Busy
         /\ \E u \in WebUsers : WSSend([Request("login") EXCEPT !.user = u])

\* Passwords that differ or are too short are not sent.
Signup == /\ wsPath = "signup" /\ ~Busy
          /\ \E u \in WebUsers : WSSend([Request("signup") EXCEPT !.user = u])

SaveProfile == wsPath = "main" /\ ~Busy /\ WSSend(Request("profile"))

\* Any other request of a page.
FetchPageData == wsPath = "main" /\ WSSend(Request("data"))

\* The token goes; the user of the provider stays, and so does a request.
HandleLogout ==
  /\ wsPath = "main" /\ ~wsLoading
  /\ wsToken' = NoUser
  /\ wsPath' = "login" /\ wsHere' = wsHere \cup {"login"}
  /\ wsNet' = Unawaited(wsNet)
  /\ UNCHANGED <<wsLeft, wsUser, wsLoading, wsSent, wsAuth, wsFailed, wsCameBack>>

-----------------------------------------------------------------------------
NewToken(u) == [user |-> u, n |-> wsIssued + 1]

(* Mutant: the provider keeps the user it had. *)
SignedInToken(u) == wsToken' = NewToken(u) /\ wsIssued' = wsIssued + 1 /\ UNCHANGED wsUser

SignedIn(u) == wsUser' = u /\ wsToken' = NewToken(u) /\ wsIssued' = wsIssued + 1

Refused(q) == q.kind \notin {"login", "signup"} /\ (q.token = NoUser \/ q.token \in wsExpired)

\* The server's good answer.  A form that has gone still takes its own.
Accept(i) ==
  LET q == wsNet[i]
      rest == RemoveAt(wsNet, i)
  IN
  /\ ~Refused(q)
  /\ CASE q.kind = "current" ->
            /\ wsUser' = q.token.user /\ wsLoading' = FALSE /\ wsNet' = rest
            /\ UNCHANGED <<wsToken, wsIssued, wsPath, wsHere>>
       [] q.kind = "data" ->
            wsNet' = rest /\ UNCHANGED <<wsUser, wsLoading, wsToken, wsIssued, wsPath, wsHere>>
       [] q.kind = "profile" ->
            SignedIn(q.token.user) /\ wsNet' = rest /\ UNCHANGED <<wsLoading, wsPath, wsHere>>
       [] OTHER ->
            /\ SignedIn(q.user)
            /\ wsPath' = "main" /\ wsHere' = wsHere \cup {"main"}
            /\ wsNet' = Unawaited(rest) /\ UNCHANGED wsLoading
  /\ UNCHANGED <<wsLeft, wsSent, wsExpired, wsFailed, wsCameBack>>

(* A token refused, or a password.  The response interceptor loads the login *)
(* page, unless the tab is on a form already; there the provider does not    *)
(* catch the refusal of its request and goes on spinning.  It removes a      *)
(* token under another key: the refused one stays.                           *)
Refuse(i) ==
  LET q == wsNet[i] IN
  /\ q.kind = "login" \/ Refused(q)
  /\ IF IsAuthPage(wsPath)
     THEN /\ wsNet' = RemoveAt(wsNet, i)
          /\ wsFailed' = (wsFailed \/ q.kind = "current")
          /\ UNCHANGED <<wsPath, wsHistory, wsUser, wsLoading, wsSent, wsCameBack>>
     ELSE NewDocument("login")
  /\ UNCHANGED <<wsToken, wsAuth>>

(* A name that is taken, an invalid profile; or no answer at all.            *)
Reject(i) ==
  /\ wsNet' = RemoveAt(wsNet, i)
  /\ wsFailed' = (wsFailed \/ wsNet[i].kind = "current")
  /\ UNCHANGED <<wsPath, wsHistory, wsToken, wsUser, wsLoading, wsSent, wsAuth, wsCameBack>>

Expire ==
  /\ \E t \in {wsToken} \ ({NoUser} \cup wsExpired) : wsExpired' = wsExpired \cup {t}
  /\ UNCHANGED <<wsPath, wsHistory, wsToken, wsUser, wsLoading, wsNet, wsSent, wsIssued,
                 wsFailed, wsCameBack>>

Respond(i) == Accept(i) \/ Refuse(i) \/ Reject(i)

WSNext ==
  \/ Load \/ Reload \/ LoadFromHistory \/ Traverse \/ HandleNavigation
  \/ Login \/ Signup \/ SaveProfile \/ HandleLogout \/ FetchPageData
  \/ (\E i \in DOMAIN wsNet : Respond(i)) \/ Expire

\* A request ends, one way or the other.
WSFairness == WF_wsVars(wsNet # << >> /\ Respond(1))

WSSpec == WSInit /\ [][WSNext]_wsVars /\ WSFairness

-----------------------------------------------------------------------------
(* The types: the path on screen is one of the document's, and a token is    *)
(* one that was issued.                                                      *)
WSTypeOK ==
  /\ wsPath \in wsHere /\ wsHere \subseteq Paths /\ wsLeft \subseteq Paths
  /\ wsUser \in WebUsers \cup {NoUser}
  /\ wsToken = NoUser \/ (wsToken.user \in WebUsers /\ wsToken.n \in 1..wsIssued)
  /\ {wsLoading, wsFailed, wsCameBack} \subseteq BOOLEAN
  /\ wsSent \in 0..MaxWebSent

(* The user on screen is the one the requests are made for, whatever is      *)
(* answered late: a profile saved before a logout, a login after another,    *)
(* the answer to a form that the tab's history has left.                     *)
UserIsTokens ==
  wsUser # NoUser /\ wsToken # NoUser => wsToken.user = wsUser

(* Of the loads, the forms, a logout and the refusal of a token, none gets   *)
(* to a page of the layout without a user.  Only the tab's history does: the *)
(* program was started on a form, nobody signed in, and Back or Forward led  *)
(* to a page.                                                                *)
PagesHaveUser == wsPath = "main" /\ ~wsLoading /\ ~wsCameBack => wsUser # NoUser

(* The spinner in place of the page ends unless the question for the user    *)
(* failed.                                                                   *)
SpinnerEnds == wsLoading ~> (~wsLoading \/ wsFailed)
=============================================================================
