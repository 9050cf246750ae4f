------------------------------ MODULE Dashboard ------------------------------
(***************************************************************************)
(* The page "/" and the menu beside every page, on top of the session:     *)
(* dashboard/systemInfoController.js and the NavigationController of       *)
(* master/MasterController.js.                                             *)
(*                                                                         *)
(* Each time the dashboard is shown it gets a controller of its own, which *)
(* polls the server: the answer to a request arms a timer, and the timer   *)
(* sends the next one.  The menu is asked for when the program starts and  *)
(* whenever a watch sees loggedIn change.  Both requests are on the level  *)
(* LOGIN_WAIT: without a valid token, or when the user of a valid one is   *)
(* not found, they are refused with 412, which does not touch the session. *)
(***************************************************************************)
EXTENDS Session, FiniteSets

CONSTANT MaxAsks  \* bound on the requests for the menu under way

ASSUME DashboardAssumption == MaxAsks \in Nat \ {0}

VARIABLES
  visit,   \* how often the dashboard was shown
  polls,   \* the polls at work: [visit, st, tok]
  menu,    \* provisioners of the menu: "none", "all", or a "message"
  asks,    \* requests for the menu in the order sent: [tok, old]
  \* History, read by no action:
  left,    \* pages left while their poll waited for an answer
  why      \* what the menu shows: the "answer" to the newest request, an
           \* "old" one or a request "lost", or refused with a valid token
           \* for its user was not found; or the stored token changed
           \* "unseen", while loggedIn stayed what it was

pollVars  == <<visit, polls, left>>
menuVars  == <<menu, asks, why>>
dashboard == <<pollVars, menuVars>>

Poll == [visit : Nat, st : {"sent", "armed"}, tok : Token \cup {None}]
Ask  == [tok : Token \cup {None}, old : BOOLEAN]

DashboardTypeOK ==
  /\ TypeOK
  /\ visit \in Nat /\ left \in Nat
  /\ polls \subseteq Poll
  /\ \A p, q \in polls : p.visit = q.visit => p = q
  /\ \A p \in polls : p.visit <= visit
  /\ menu \in {"none", "all", "message"}
  /\ asks \in Seq(Ask)
  /\ why \in {"answer", "old", "lost", "unseen"}

DashboardInit ==
  /\ Init
  /\ visit = 0 /\ polls = {} /\ left = 0
  /\ menu = "none" /\ asks = <<[tok |-> stored, old |-> FALSE]>>
  /\ why = "answer"

-----------------------------------------------------------------------------
\* The poll of the dashboard that is shown.
Current == {p \in polls : view = Index /\ p.visit = visit}

\* Mistake: the page is left and its timer runs on.
DestroyNot == polls

(* $destroy: the timer is cancelled; an answer under way is not.           *)
Destroy == polls \ {p \in Current : p.st = "armed"}

\* The first request of a dashboard, if someone is logged in by then.
Begun == IF loggedIn
         THEN {[visit |-> visit + 1, st |-> "sent", tok |-> stored]}
         ELSE {}

(* What a step of the session does to the polls: another page is shown, or *)
(* the program is loaded anew.                                             *)
PageChange ==
  IF loads' # loads
  THEN polls' = {} /\ left' = 0 /\ UNCHANGED visit
  ELSE IF view' = view
  THEN UNCHANGED pollVars
  ELSE /\ left' = left + Cardinality({p \in Current : p.st = "sent"})
       /\ IF view' = Index
          THEN polls' = Destroy \cup Begun /\ visit' = visit + 1
          ELSE polls' = Destroy /\ UNCHANGED visit

(* loadProv, with the token that is stored after the step.                 *)
LoadProv(seen) ==
  /\ Len(seen) < MaxAsks
  /\ asks' = Append(seen, [tok |-> stored', old |-> FALSE])
  /\ why' = "answer"

\* Mistake: the watch looks out for the end of a session only.
WatchEnd == loggedIn /\ ~loggedIn'

\* The watch of the menu sees the user log in or out.
Watch == loggedIn' # loggedIn

(* What a step of the session does to the menu.                            *)
MenuChange ==
  IF loads' # loads
  THEN menu' = "none" /\ LoadProv(<<>>)
  ELSE IF Watch
  THEN LoadProv(asks) /\ UNCHANGED menu
  ELSE /\ why' = IF stored' = stored \/ loggedIn' # loggedIn THEN why
                                                            ELSE "unseen"
       /\ UNCHANGED <<menu, asks>>

-----------------------------------------------------------------------------
(* The timer of p ends: the next request, with the token stored now.       *)
Tick(p) ==
  /\ p.st = "armed"
  /\ polls' = (polls \ {p}) \cup {[p EXCEPT !.st = "sent", !.tok = stored]}
  /\ UNCHANGED <<vars, visit, left, menuVars>>

\* Mistake: a refusal arms the timer like an answer.
AnsweredAlways(p) == TRUE

\* The server accepts the token of a poll.
Answered(p) == p.tok \in valid

(* The answer arms the timer, whether the page is still shown or not.      *)
Success(p) ==
  /\ p.st = "sent" /\ Answered(p)
  /\ polls' = (polls \ {p}) \cup {[p EXCEPT !.st = "armed"]}
  /\ UNCHANGED <<vars, visit, left, menuVars>>

(* The poll is refused, the token or its user, or gets lost; and ends.     *)
Error(p) ==
  /\ p.st = "sent"
  /\ polls' = polls \ {p}
  /\ UNCHANGED <<vars, visit, left, menuVars>>

\* The request at i is done: those sent before it are overtaken.
Overtakes(i) ==
  asks' = [j \in 1 .. Len(asks) - 1 |->
             IF j < i THEN [asks[j] EXCEPT !.old = TRUE] ELSE asks[j + 1]]

\* Mistake: a refusal has no callback of its own, and leaves no list.
MenuOrNothing(t) == IF t \in valid THEN "all" ELSE "undefined"

\* The provisioners, or the message of a refusal.
MenuOf(t) == IF t \in valid THEN "all" ELSE "message"

(* The answer for the menu.                                                *)
MenuComes(i) ==
  /\ menu' = MenuOf(asks[i].tok)
  /\ why' = IF asks[i].old /\ why # "unseen" THEN "old" ELSE why
  /\ Overtakes(i)
  /\ UNCHANGED <<vars, pollVars>>

(* It gets lost, or is refused though the token is valid.                  *)
MenuLost(i) ==
  /\ menu' = "message"
  /\ why' = IF why # "unseen" THEN "lost" ELSE why
  /\ Overtakes(i)
  /\ UNCHANGED <<vars, pollVars>>

-----------------------------------------------------------------------------
DashboardNext ==
  \/ Next /\ PageChange /\ MenuChange
  \/ \E p \in polls : Tick(p) \/ Success(p) \/ Error(p)
  \/ \E i \in 1 .. Len(asks) : MenuComes(i) \/ MenuLost(i)

DashboardSpec == DashboardInit /\ [][DashboardNext]_<<vars, dashboard>>

(* Timers fire, and the requests of the polls end.                         *)
FairDashboardSpec ==
  /\ DashboardSpec
  /\ WF_<<vars, dashboard>>(\E p \in polls : Tick(p))
  /\ WF_<<vars, dashboard>>(\E p \in polls : Success(p) \/ Error(p))

-----------------------------------------------------------------------------
(* However often the dashboard is left and shown again, there is at most   *)
(* one poll more than pages left while a request was under way, which no   *)
(* $destroy cancels.                                                       *)
PollsDoNotPile == Cardinality(polls) <= left + 1

(* When no request for the menu is under way it follows the session: with  *)
(* a valid token the user who is logged in sees the provisioners, and no   *)
(* one sees them without a token.  The exceptions: the newest answer was   *)
(* overtaken or lost, or refused for the user was not found; or the watch  *)
(* could not see that the token changed.                                   *)
MenuFollowsSession ==
  asks = <<>> /\ why = "answer" =>
    /\ loggedIn /\ stored \in valid => menu = "all"
    /\ stored = None => menu # "all"

(* What a comment says of the polls: each "cancels itself when the user    *)
(* logs out".  Once no valid token is stored for good, every poll ends,    *)
(* that of a page left long ago included.                                  *)
PollsEnd == <>[](stored \notin valid) => <>[](polls = {})
=============================================================================
