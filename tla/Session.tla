------------------------------- MODULE Session -------------------------------
(***************************************************************************)
(* The user's session in the browser: core/CoreServices.js (Session),      *)
(* core/CoreFactory.js (the interceptors), login/LoginController.js,       *)
(* master/MasterController.js (the two links) and the routes.              *)
(*                                                                         *)
(* What the program believes (loggedIn), the token in the local storage    *)
(* and what the server makes of a token are three things, which requests   *)
(* under way can bring out of step.  A page is shown after its template    *)
(* was loaded: a change of the URL starts a transition at once, and        *)
(* $state.go changes the URL only when the transition ends.                *)
(***************************************************************************)
EXTENDS Naturals, Sequences, SequencesExt

CONSTANTS
  Guarded,      \* pages that ask for data on the level AUTH_LEVEL_LOGIN
  Open,         \* pages that ask for none, besides those below
  None,         \* null: no token, no URL, no transition
  MaxTokens,    \* bound on the logins the server grants
  MaxRequests,  \* bound on the requests under way
  MaxClicks,    \* bound on the links a user follows
  MaxLoads      \* bound on the times the program is loaded

Index == "/"
Login == "/login"
Page  == {Index, Login} \cup Guarded \cup Open
Token == 1 .. MaxTokens
Id    == 1 .. MaxRequests

ASSUME SessionAssumption ==
  /\ MaxTokens \in Nat \ {0} /\ MaxRequests \in Nat \ {0}
  /\ MaxClicks \in Nat /\ MaxLoads \in Nat
  /\ Index \notin Guarded /\ Login \notin Guarded
  /\ None \notin Page /\ None \notin Token

VARIABLES
  path,         \* $location.path()
  trail,        \* the history of the browser before path
  view,         \* $state.current, the page shown
  going,        \* $state.transition: the page whose template is loaded
  loggedIn,     \* Session.loggedIn
  lastLoginUrl, \* Session.lastLoginUrl
  stored,       \* the token in the local storage
  valid,        \* the tokens the server accepts
  issued,       \* how many it granted
  reqs,         \* requests under way: [id, kind, tok, st, grant]; one that
                \* is "missed" has a valid token whose user was not found
  clicks, loads \* links followed, times the program was loaded

place   == <<path, trail, view, going>>
session == <<loggedIn, lastLoginUrl, stored>>
server  == <<valid, issued>>
bounds  == <<clicks, loads>>
vars    == <<place, session, server, reqs, bounds>>

Request == [id : Id, kind : {"sync", "login", "logout", "data"},
            tok : Token \cup {None}, st : {"sent", "yes", "no", "missed"},
            grant : Token \cup {None}]

TypeOK ==
  /\ path \in Page /\ trail \in Seq(Page)
  /\ view \in Page \cup {None} /\ going \in Page \cup {None}
  /\ loggedIn \in BOOLEAN /\ lastLoginUrl \in Page \cup {None}
  /\ stored \in Token \cup {None}
  /\ valid \subseteq Token /\ issued \in 0 .. MaxTokens
  /\ \A t \in valid : t <= issued
  /\ reqs \subseteq Request
  /\ \A r, s \in reqs : r.id = s.id => r = s
  /\ clicks \in 0 .. MaxClicks /\ loads \in 0 .. MaxLoads

-----------------------------------------------------------------------------
(* A request carries the token that is stored when it is sent.             *)
Sent(kind, i) == [id |-> i, kind |-> kind, tok |-> stored, st |-> "sent",
                  grant |-> None]

\* The request takes the first number that is free.
Send(kind) == \E i \in Id :
                /\ \A r \in reqs : r.id # i
                /\ \A j \in 1 .. i - 1 : \E r \in reqs : r.id = j
                /\ reqs' = reqs \cup {Sent(kind, i)}

(* The program is loaded at the URL of the browser: Session.init asks the  *)
(* server whose token it is.                                               *)
Init ==
  /\ path \in Page /\ trail = <<>>
  /\ view = None /\ going = path
  /\ loggedIn = FALSE /\ lastLoginUrl = None
  /\ issued \in {0, 1} /\ valid \in SUBSET (1 .. issued)
  /\ stored = IF issued = 0 THEN None ELSE issued
  /\ reqs = {Sent("sync", 1)}
  /\ clicks = 0 /\ loads = 0

(* The program is loaded anew and forgets all but the stored token.        *)
Reload ==
  /\ loads < MaxLoads
  /\ loads' = loads + 1
  /\ view' = None /\ going' = path
  /\ loggedIn' = FALSE /\ lastLoginUrl' = None
  /\ reqs' = {Sent("sync", 1)}
  /\ UNCHANGED <<path, trail, stored, server, clicks>>

-----------------------------------------------------------------------------
(* The URL changes to u: the transition to its page begins.  One to the    *)
(* page that is shown ends at once, and any other is superseded.           *)
Transition(u) == going' = IF u = view THEN None ELSE u

GoToUrl(u) ==
  IF u = path
  THEN UNCHANGED <<path, trail, going>>
  ELSE path' = u /\ trail' = Append(trail, path) /\ Transition(u)

GoBack ==
  IF trail = <<>>
  THEN UNCHANGED <<path, trail, going>>
  ELSE path' = Last(trail) /\ trail' = Front(trail) /\ Transition(Last(trail))

(* $state.go: the URL follows when the page is shown.                      *)
StateGo(u) == Transition(u) /\ UNCHANGED <<path, trail>>

(* The user follows a link of the menu, or goes back.                      *)
Go(u) ==
  /\ clicks < MaxClicks /\ clicks' = clicks + 1
  /\ u # path
  /\ GoToUrl(u)
  /\ UNCHANGED <<view, session, server, reqs, loads>>

Back ==
  /\ clicks < MaxClicks /\ clicks' = clicks + 1
  /\ trail # <<>>
  /\ GoBack
  /\ UNCHANGED <<view, session, server, reqs, loads>>

(* The template has come and the page is shown; a guarded one asks for its *)
(* data.                                                                   *)
Render ==
  /\ going # None
  /\ view' = going /\ going' = None
  /\ path' = going
  /\ trail' = IF going = path THEN trail ELSE Append(trail, path)
  /\ IF going \in Guarded THEN Send("data") ELSE UNCHANGED reqs
  /\ UNCHANGED <<session, server, bounds>>

(* The link to the login form, which is there while no one is logged in.   *)
ClickLogin ==
  /\ ~loggedIn /\ view # None
  /\ clicks < MaxClicks /\ clicks' = clicks + 1
  /\ lastLoginUrl' = path
  /\ StateGo(Login)
  /\ UNCHANGED <<view, loggedIn, stored, server, reqs, loads>>

(* The button of the form; nothing keeps the user from pressing it twice.  *)
SubmitLogin ==
  /\ view = Login /\ issued < MaxTokens
  /\ Send("login")
  /\ UNCHANGED <<place, session, server, bounds>>

ClickLogout ==
  /\ loggedIn
  /\ Send("logout")
  /\ UNCHANGED <<place, session, server, bounds>>

-----------------------------------------------------------------------------
\* The server answers r with st, and with the token g.
Answer(r, st, g) == reqs' = (reqs \ {r}) \cup {[r EXCEPT !.st = st, !.grant = g]}

(* A login is granted with a new token, or refused.  The other requests    *)
(* are granted if the token is valid: the level is CHECK for the sync,     *)
(* which is answered either way, and LOGIN for data and the logout.  These *)
(* are refused like the others when FindMe fails for a valid token, for    *)
(* the store is closed or the user cannot be decoded; the sync then ends   *)
(* in a panic of its handler, and gets lost.                               *)
Serve(r) ==
  /\ r.st = "sent"
  /\ IF r.kind = "login"
     THEN \/ /\ issued < MaxTokens
             /\ issued' = issued + 1 /\ valid' = valid \cup {issued + 1}
             /\ Answer(r, "yes", issued + 1)
          \/ Answer(r, "no", None) /\ UNCHANGED server
     ELSE /\ \/ Answer(r, IF r.tok \in valid THEN "yes" ELSE "no", None)
             \/ /\ r.tok \in valid /\ r.kind # "sync"
                /\ Answer(r, "missed", None)
          /\ UNCHANGED server
  /\ UNCHANGED <<place, session, bounds>>

(* The lifetime of a token ends.                                           *)
Expire(t) ==
  /\ t \in valid
  /\ valid' = valid \ {t}
  /\ UNCHANGED <<place, session, issued, reqs, bounds>>

Done(r) == reqs' = reqs \ {r}

(* Session.sync: what the server answered is believed.                     *)
Synced(r) ==
  /\ r.kind = "sync" /\ r.st # "sent"
  /\ Done(r)
  /\ loggedIn' = (r.st = "yes")
  /\ UNCHANGED <<place, lastLoginUrl, stored, server, bounds>>

\* Mistake: the token of the answer is not stored.
KeepNot(t) == loggedIn' = TRUE /\ stored' = stored

(* Session.login: the token is stored.                                     *)
Keep(t) == loggedIn' = TRUE /\ stored' = t

\* The pages to which a login does not lead back.
NoRedirect == {Login}

\* Mistake: the form is not among them.
RemembersAny == lastLoginUrl # None

\* Mistake: that nothing may be remembered is not considered.
RemembersNull == lastLoginUrl \notin NoRedirect

\* getLastLoginUrl has a URL.
Remembers == lastLoginUrl \notin NoRedirect \cup {None}

(* A login is granted: on to the URL remembered, or back in the history.   *)
LoggedIn(r) ==
  /\ r.kind = "login" /\ r.st = "yes"
  /\ Done(r)
  /\ Keep(r.grant)
  /\ lastLoginUrl' = None
  /\ IF Remembers THEN GoToUrl(lastLoginUrl) ELSE GoBack
  /\ UNCHANGED <<view, server, bounds>>

(* Session.logout, and on to the dashboard.                                *)
LoggedOut(r) ==
  /\ r.kind = "logout" /\ r.st = "yes"
  /\ Done(r)
  /\ loggedIn' = FALSE /\ stored' = None
  /\ StateGo(Index)
  /\ UNCHANGED <<view, lastLoginUrl, server, bounds>>

\* Mistake: the refusal of a password, status 400, ends the session too.
UnauthorizedAll(r) == /\ r.kind \in {"data", "logout", "login"}
                      /\ r.st \in {"no", "missed"}

\* The refusals with status 401, which end the session.
Unauthorized(r) == r.kind \in {"data", "logout"} /\ r.st \in {"no", "missed"}

(* ErrorInterceptor and redirectToLogin: the token stays where it is.      *)
Redirected(r) ==
  /\ Unauthorized(r)
  /\ Done(r)
  /\ loggedIn' = FALSE /\ lastLoginUrl' = path
  /\ GoToUrl(Login)
  /\ UNCHANGED <<view, stored, server, bounds>>

(* Data that comes is shown; a login refused leaves a message, and so does *)
(* a request that gets lost.  One whose answer gets lost does no more, the *)
(* login apart, which leaves a token behind that no one knows.             *)
Shown(r) ==
  /\ \/ r.kind = "data" /\ r.st = "yes"
     \/ r.kind = "login" /\ r.st = "no"
  /\ Done(r)
  /\ UNCHANGED <<place, session, server, bounds>>

Lost(r) ==
  /\ r.st = "sent"
  /\ Done(r)
  /\ UNCHANGED <<place, session, server, bounds>>

-----------------------------------------------------------------------------
Deliver(r) ==
  Synced(r) \/ LoggedIn(r) \/ LoggedOut(r) \/ Redirected(r) \/ Shown(r)

Next ==
  \/ Reload
  \/ \E u \in Page \ {Login} : Go(u)
  \/ Back \/ Render
  \/ ClickLogin \/ SubmitLogin \/ ClickLogout
  \/ \E r \in reqs : Serve(r) \/ Deliver(r) \/ Lost(r)
  \/ \E t \in Token : Expire(t)

Spec == Init /\ [][Next]_vars

(* Templates come, and requests are served and answered.                   *)
Fairness ==
  /\ WF_vars(Render)
  /\ WF_vars(\E r \in reqs : Serve(r))
  /\ WF_vars(\E r \in reqs : Deliver(r))

-----------------------------------------------------------------------------
\* The answers that take effect in a step, by the requests they end.
Ended == {r \in reqs : r.st # "sent" /\ \A s \in reqs' : s.id # r.id}

(* Whoever is logged in has a token in the storage, whatever logins,       *)
(* logouts, redirects and reloads cross.  The exception: the answer to the *)
(* sync of the start comes after a login and a logout, and finds another   *)
(* token in the storage than it was sent with.                             *)
SessionHasToken ==
  [][ loggedIn' /\ stored' = None =>
        \/ loggedIn /\ stored = None
        \/ \E r \in Ended : r.kind = "sync" /\ r.tok # stored ]_vars

(* A session ends when the program is loaded anew, when the user logs out, *)
(* or when the server no longer accepts the stored token; or by the late   *)
(* answer to a request that was sent with another token, or to one whose   *)
(* user the server could not find in its store.                            *)
SessionEnds ==
  [][ loggedIn /\ ~loggedIn' =>
        \/ loads' # loads
        \/ stored \notin valid
        \/ \E r \in Ended :
             r.kind = "logout" \/ r.tok # stored \/ r.st = "missed" ]_vars

(* A login answered while the form is at hand never leaves the user there: *)
(* it leads back to the page from which he came, or on which he asked for  *)
(* the form last, whether by the URL that was remembered or by the         *)
(* history, and however many refusals sent him to the form.                *)
LoginLeadsBack ==
  [][ path = Login /\ trail # <<>> /\ (\E r \in reqs : LoggedIn(r)) =>
        path' \in {Last(trail), lastLoginUrl} \ {Login} ]_vars
=============================================================================
