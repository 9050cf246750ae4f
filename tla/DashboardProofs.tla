--------------------------- MODULE DashboardProofs ---------------------------
(***************************************************************************)
(* Proofs about Session and Dashboard, for any pages and any number of     *)
(* logins, requests, clicks, reloads and visits.  First the session on its *)
(* own: who is logged in, and where a login leads.  Then what is built on  *)
(* it: the session below is the one of Session, so that its theorems hold  *)
(* of the dashboard; the polls do not pile up; the menu follows.           *)
(***************************************************************************)
EXTENDS Dashboard, TLAPS, SequenceTheorems, FiniteSetTheorems

-----------------------------------------------------------------------------
(* The session.                                                            *)

\* What a request carries was granted; a login that was granted has a token;
\* the server never accepts again a token it refused.
Sound(r) ==
  /\ r.tok # None => r.tok <= issued
  /\ r.grant # None => r.grant <= issued
  /\ r.kind = "login" /\ r.st = "yes" => r.grant # None
  /\ r.kind # "login" /\ r.st = "no" => r.tok \notin valid
  /\ r.kind # "login" /\ r.st = "yes" => r.tok # None

Sane == /\ stored # None => stored <= issued
        /\ \A r \in reqs : Sound(r)

\* The history never has a page twice in a row, with the present page p last.
Winding(t, p) ==
  /\ t # <<>> => t[Len(t)] # p
  /\ \A i \in 1 .. Len(t) - 1 : t[i] # t[i + 1]

IInv == TypeOK /\ Sane /\ Winding(trail, path)

-----------------------------------------------------------------------------
\* One page further.
LEMMA Further ==
  ASSUME NEW t \in Seq(Page), NEW p \in Page, NEW u \in Page, u # p,
         Winding(t, p)
  PROVE  Append(t, p) \in Seq(Page) /\ Winding(Append(t, p), u)
<1> DEFINE a == Append(t, p)
<1>1. /\ a \in Seq(Page) /\ Len(a) = Len(t) + 1 /\ a[Len(t) + 1] = p
      /\ \A i \in 1 .. Len(t) : a[i] = t[i]
  OBVIOUS
<1>2. Len(t) \in Nat /\ (t = <<>> <=> Len(t) = 0)
  OBVIOUS
<1>3. a[Len(a)] # u
  BY <1>1
<1>4. ASSUME NEW i \in 1 .. Len(a) - 1 PROVE a[i] # a[i + 1]
  <2>1. CASE i = Len(t)
    BY <1>1, <1>2, <2>1 DEF Winding
  <2>2. CASE i < Len(t)
    <3>1. i \in 1 .. Len(t) - 1 /\ i \in 1 .. Len(t) /\ i + 1 \in 1 .. Len(t)
      BY <1>1, <1>2, <2>2
    <3> QED BY <1>1, <3>1 DEF Winding
  <2> QED BY <1>1, <1>2, <2>1, <2>2
<1> QED BY <1>1, <1>3, <1>4 DEF Winding

\* One page back.
LEMMA Backward ==
  ASSUME NEW t \in Seq(Page), NEW p, t # <<>>, Winding(t, p)
  PROVE  /\ Front(t) \in Seq(Page) /\ Last(t) \in Page /\ Last(t) # p
         /\ Winding(Front(t), Last(t))
<1> DEFINE f == SubSeq(t, 1, Len(t) - 1)
<1>1. Len(t) \in Nat \ {0}
  OBVIOUS
<1>2. /\ f \in Seq(Page) /\ Len(f) = Len(t) - 1
      /\ \A i \in 1 .. Len(t) - 1 : f[i] = t[i]
  <2>1. \A i \in 1 .. Len(t) - 1 : t[i] \in Page
    BY <1>1, ElementOfSeq
  <2>2. /\ f \in Seq(Page)
        /\ Len(f) = IF 1 <= Len(t) - 1 THEN (Len(t) - 1) - 1 + 1 ELSE 0
        /\ \A i \in 1 .. (Len(t) - 1) - 1 + 1 : f[i] = t[1 + i - 1]
    BY <1>1, <2>1, SubSeqProperties
  <2>3. /\ (Len(t) - 1) - 1 + 1 = Len(t) - 1
        /\ \A i \in 1 .. Len(t) - 1 : 1 + i - 1 = i
    BY <1>1
  <2>4. Len(f) = Len(t) - 1
    <3> DEFINE n == Len(t)
    <3>1. n \in Nat \ {0} /\ Len(f) = IF 1 <= n - 1 THEN (n - 1) - 1 + 1 ELSE 0
      BY <1>1, <2>2
    <3> HIDE DEF f, n
    <3>2. Len(f) = n - 1
      BY <3>1
    <3> QED BY <3>2 DEF n
  <2>5. \A i \in 1 .. Len(t) - 1 : f[i] = t[i]
    BY <2>2, <2>3
  <2> QED BY <2>2, <2>4, <2>5
<1> HIDE DEF f
<1>3. f # <<>> => f[Len(f)] # t[Len(t)]
  <2> SUFFICES ASSUME f # <<>> PROVE f[Len(f)] # t[Len(t)]
    OBVIOUS
  <2>1. Len(f) # 0
    BY <1>2, EmptySeq
  <2>2. Len(t) - 1 \in 1 .. Len(t) - 1 /\ Len(t) - 1 + 1 = Len(t)
    BY <1>1, <1>2, <2>1
  <2>3. t[Len(t) - 1] # t[Len(t) - 1 + 1]
    BY <2>2 DEF Winding
  <2> QED BY <1>2, <2>2, <2>3
<1>4. \A i \in 1 .. Len(f) - 1 : f[i] # f[i + 1]
  BY <1>1, <1>2 DEF Winding
<1>5. t[Len(t)] \in Page /\ t[Len(t)] # p
  BY <1>1, ElementOfSeq DEF Winding
<1> QED BY <1>2, <1>3, <1>4, <1>5 DEF f, Front, Last, Winding

\* What a change of the URL does to the place the user is at.
Placed == /\ path' \in Page /\ trail' \in Seq(Page)
          /\ going' \in Page \cup {None}
          /\ Winding(trail', path')

LEMMA UrlPlaced ==
  ASSUME IInv, NEW u \in Page, GoToUrl(u)
  PROVE  Placed /\ path' = u
<1>1. CASE u = path
  BY <1>1 DEF GoToUrl, Placed, IInv, TypeOK
<1>2. CASE u # path
  BY <1>2, Further DEF GoToUrl, Transition, Placed, IInv, TypeOK
<1> QED BY <1>1, <1>2

LEMMA BackPlaced ==
  ASSUME IInv, GoBack
  PROVE  Placed /\ (trail # <<>> => path' = Last(trail) /\ path' # path)
<1>1. CASE trail = <<>>
  BY <1>1 DEF GoBack, Placed, IInv, TypeOK
<1>2. CASE trail # <<>>
  BY <1>2, Backward DEF GoBack, Transition, Placed, IInv, TypeOK
<1> QED BY <1>1, <1>2

LEMMA StayPlaced ==
  ASSUME IInv, UNCHANGED <<path, trail>>, going' \in Page \cup {None}
  PROVE  Placed
BY DEF Placed, IInv, TypeOK

-----------------------------------------------------------------------------
\* What remains true of the requests under way.
Waiting == /\ reqs' \subseteq Request
           /\ \A r, s \in reqs' : r.id = s.id => r = s
           /\ \A r \in reqs' : Sound(r)'

LEMMA SentSound ==
  ASSUME IInv, NEW kind \in {"sync", "login", "logout", "data"}, NEW i \in Id
  PROVE  Sent(kind, i) \in Request /\ Sound(Sent(kind, i))
BY SessionAssumption DEF IInv, TypeOK, Sane, Sound, Sent, Request

LEMMA SendWaits ==
  ASSUME IInv, NEW kind \in {"sync", "login", "logout", "data"}, Send(kind),
         UNCHANGED server
  PROVE  Waiting
<1>1. PICK i \in Id : (\A r \in reqs : r.id # i) /\ reqs' = reqs \cup {Sent(kind, i)}
  BY DEF Send
<1>2. Sent(kind, i) \in Request /\ Sound(Sent(kind, i)) /\ Sent(kind, i).id = i
  BY SentSound DEF Sent
<1>3. \A r \in reqs' : Sound(r)
  BY <1>1, <1>2 DEF IInv, Sane
<1>4. \A r \in reqs' : Sound(r)'
  BY <1>3 DEF Sound, server
<1> QED BY <1>1, <1>2, <1>4 DEF Waiting, IInv, TypeOK

LEMMA FewerWait ==
  ASSUME IInv, reqs' \subseteq reqs, UNCHANGED issued, valid' \subseteq valid
  PROVE  Waiting
<1>1. \A r \in reqs' : Sound(r)'
  BY DEF Sound, IInv, Sane
<1> QED BY <1>1 DEF Waiting, IInv, TypeOK

LEMMA AnswerWaits ==
  ASSUME IInv, NEW r \in reqs, NEW st \in {"yes", "no", "missed"},
         NEW g \in Token \cup {None}, Answer(r, st, g),
         [r EXCEPT !.st = st, !.grant = g] \in Request,
         \A s \in reqs : Sound(s)',
         Sound([r EXCEPT !.st = st, !.grant = g])'
  PROVE  Waiting
<1> DEFINE a == [r EXCEPT !.st = st, !.grant = g]
<1>1. a \in Request /\ a.id = r.id
  BY DEF IInv, TypeOK, Request
<1>2. reqs' = (reqs \ {r}) \cup {a}
  BY DEF Answer
<1>3. \A s \in reqs' : Sound(s)'
  BY <1>2
<1> HIDE DEF a
<1> QED BY <1>1, <1>2, <1>3 DEF Waiting, IInv, TypeOK

-----------------------------------------------------------------------------
LEMMA InitInvariant == Init => IInv
<1> SUFFICES ASSUME Init PROVE IInv
  OBVIOUS
<1> USE SessionAssumption
<1>1. issued \in 0 .. MaxTokens /\ valid \subseteq 1 .. issued
  BY DEF Init
<1>2. stored \in Token \cup {None} /\ (stored # None => stored <= issued)
  BY <1>1 DEF Init, Token
<1>3. 1 \in Id
  BY DEF Id
<1>4. Sent("sync", 1) \in Request /\ Sound(Sent("sync", 1))
  BY <1>2, <1>3 DEF Sent, Request, Sound
<1>5. TypeOK
  <2>1. trail \in Seq(Page)
    BY EmptySeq DEF Init
  <2>2. /\ path \in Page /\ going \in Page /\ view = None
        /\ loggedIn = FALSE /\ lastLoginUrl = None
        /\ reqs = {Sent("sync", 1)} /\ clicks = 0 /\ loads = 0
    BY DEF Init
  <2>3. valid \subseteq Token /\ \A t \in valid : t <= issued
    BY <1>1 DEF Token
  <2>4. /\ reqs \subseteq Request
        /\ \A r, s \in reqs : r.id = s.id => r = s
    BY <1>4, <2>2
  <2>5. clicks \in 0 .. MaxClicks /\ loads \in 0 .. MaxLoads
    BY <2>2
  <2> HIDE SessionAssumption
  <2> QED BY <1>1, <1>2, <2>1, <2>2, <2>3, <2>4, <2>5 DEF TypeOK
<1>6. Sane
  BY <1>2, <1>4 DEF Init, Sane
<1>7. Winding(trail, path)
  BY DEF Init, Winding
<1> QED BY <1>5, <1>6, <1>7 DEF IInv

\* The parts of the invariant put together.
LEMMA Together ==
  ASSUME Placed, Waiting,
         view' \in Page \cup {None}, loggedIn' \in BOOLEAN,
         lastLoginUrl' \in Page \cup {None}, stored' \in Token \cup {None},
         stored' # None => stored' <= issued',
         valid' \subseteq Token, issued' \in 0 .. MaxTokens,
         \A t \in valid' : t <= issued',
         clicks' \in 0 .. MaxClicks, loads' \in 0 .. MaxLoads
  PROVE  IInv'
BY DEF IInv, TypeOK, Sane, Placed, Waiting

\* A request is served.
LEMMA ServeKeeps ==
  ASSUME IInv, NEW r \in reqs, Serve(r)
  PROVE  IInv'
<1> USE SessionAssumption DEF IInv, TypeOK, Sane, Token
<1>1. r \in Request /\ Sound(r)
  OBVIOUS
<1>2. Placed
  BY StayPlaced DEF Serve, place
<1>3. CASE /\ r.kind = "login" /\ issued < MaxTokens
           /\ issued' = issued + 1 /\ valid' = valid \cup {issued + 1}
           /\ Answer(r, "yes", issued + 1)
  <2>1. \A s \in reqs : Sound(s)'
    <3> SUFFICES ASSUME NEW s \in reqs PROVE Sound(s)'
      OBVIOUS
    <3>1. Sound(s) /\ s \in Request
      OBVIOUS
    <3>2. s.tok # None => s.tok \in Nat /\ s.tok <= issued
      BY <3>1 DEF Sound, Request
    <3>3. s.grant # None => s.grant \in Nat /\ s.grant <= issued
      BY <3>1 DEF Sound, Request
    <3>4. issued \in Nat /\ None # issued + 1
      BY <1>3
    <3>5. s.tok # issued + 1
      BY <3>2, <3>4
    <3> QED BY <1>3, <3>1, <3>2, <3>3, <3>4, <3>5 DEF Sound
  <2>2. PICK n \in Token : n = issued + 1
    BY <1>3
  <2> DEFINE a == [r EXCEPT !.st = "yes", !.grant = n]
  <2>3. /\ a \in Request /\ a.kind = "login" /\ a.st = "yes"
        /\ a.grant = n /\ a.tok = r.tok
    BY <1>1, <1>3, <2>2 DEF Request
  <2>4. r.tok # None => r.tok <= issued'
    BY <1>1, <1>3, <2>1 DEF Sound
  <2>5. Sound(a)'
    BY <1>3, <2>2, <2>3, <2>4 DEF Sound
  <2>6. Waiting
    BY <1>3, <2>1, <2>2, <2>3, <2>5, AnswerWaits
  <2>7. /\ issued' \in 0 .. MaxTokens /\ valid' \subseteq Token
        /\ \A t \in valid' : t <= issued'
        /\ stored # None => stored <= issued'
    BY <1>3
  <2> QED BY <1>2, <2>6, <2>7, Together DEF Serve, place, session, bounds
<1>4. CASE r.kind = "login" /\ Answer(r, "no", None) /\ UNCHANGED server
  <2>1. \A s \in reqs : Sound(s)'
    BY <1>4 DEF Sound, server
  <2> DEFINE a == [r EXCEPT !.st = "no", !.grant = None]
  <2>2. /\ a \in Request /\ a.kind = "login" /\ a.st = "no"
        /\ a.grant = None /\ a.tok = r.tok
    BY <1>1, <1>4 DEF Request
  <2>3. Sound(a)'
    BY <1>1, <1>4, <2>2 DEF Sound, server
  <2>4. Waiting
    BY <1>4, <2>1, <2>2, <2>3, AnswerWaits
  <2> QED BY <1>2, <1>4, <2>4, Together DEF Serve, place, session, bounds, server
<1>5. ASSUME r.kind # "login", UNCHANGED server,
             NEW st \in {"yes", "no", "missed"},
             st = "yes" => r.tok \in valid, st = "no" => r.tok \notin valid,
             Answer(r, st, None)
      PROVE  IInv'
  <2>1. \A s \in reqs : Sound(s)'
    BY <1>5 DEF Sound, server
  <2> DEFINE a == [r EXCEPT !.st = st, !.grant = None]
  <2>2. /\ a \in Request /\ a.kind # "login" /\ a.st = st
        /\ a.grant = None /\ a.tok = r.tok
    BY <1>1, <1>5 DEF Request
  <2>3. Sound(a)'
    BY <1>1, <1>5, <2>2 DEF Sound, server
  <2>4. Waiting
    BY <1>5, <2>1, <2>2, <2>3, AnswerWaits
  <2> QED BY <1>2, <1>5, <2>4, Together DEF Serve, place, session, bounds, server
<1>6. CASE r.kind = "login"
  BY <1>3, <1>4, <1>6 DEF Serve
<1>7. CASE r.kind # "login"
  BY <1>5, <1>7 DEF Serve
<1> QED BY <1>6, <1>7

\* Every other step.
LEMMA StepInvariant == IInv /\ [Next]_vars => IInv'
<1> SUFFICES ASSUME IInv, [Next]_vars PROVE IInv'
  OBVIOUS
<1> USE SessionAssumption
<1>1. ASSUME Placed, Waiting,
             UNCHANGED <<loggedIn, lastLoginUrl, stored, server>>,
             view' \in Page \cup {None},
             clicks' \in 0 .. MaxClicks, loads' \in 0 .. MaxLoads
      PROVE  IInv'
  BY <1>1, Together DEF IInv, TypeOK, Sane, server
<1>2. UNCHANGED reqs /\ UNCHANGED server => Waiting
  BY FewerWait DEF server
<1>3. ASSUME Reload PROVE IInv'
  <2>1. 1 \in Id
    BY DEF Id
  <2>2. Sent("sync", 1) \in Request /\ Sound(Sent("sync", 1))
    BY <2>1, SentSound
  <2>4. Waiting
    BY <1>3, <2>2 DEF Reload, Waiting, Sound, server
  <2>5. Placed
    BY <1>3, StayPlaced DEF Reload, IInv, TypeOK
  <2>6. loads' \in 0 .. MaxLoads /\ clicks' \in 0 .. MaxClicks
    BY <1>3 DEF Reload, IInv, TypeOK
  <2> QED BY <1>3, <2>4, <2>5, <2>6, Together
          DEF Reload, IInv, TypeOK, Sane, server
<1>4. ASSUME NEW u \in Page, Go(u) PROVE IInv'
  BY <1>1, <1>2, <1>4, UrlPlaced DEF Go, session, server, IInv, TypeOK
<1>5. ASSUME Back PROVE IInv'
  BY <1>1, <1>2, <1>5, BackPlaced DEF Back, session, server, IInv, TypeOK
<1>6. ASSUME Render PROVE IInv'
  <2>1. Placed
    <3>1. CASE going = path
      BY <1>6, <3>1, StayPlaced DEF Render
    <3>2. CASE going # path
      BY <1>6, <3>2, Further DEF Render, Placed, IInv, TypeOK
    <3> QED BY <3>1, <3>2
  <2>2. Waiting
    BY <1>2, <1>6, SendWaits DEF Render
  <2> QED BY <1>1, <1>6, <2>1, <2>2
          DEF Render, session, server, bounds, IInv, TypeOK
<1>7. ASSUME ClickLogin PROVE IInv'
  <2>1. Placed
    BY <1>7, StayPlaced DEF ClickLogin, StateGo, Transition, IInv, TypeOK, Page
  <2> QED BY <1>2, <1>7, <2>1, Together
          DEF ClickLogin, server, IInv, TypeOK, Sane
<1>8. ASSUME SubmitLogin \/ ClickLogout PROVE IInv'
  <2>1. Waiting
    BY <1>8, SendWaits DEF SubmitLogin, ClickLogout
  <2>2. Placed
    BY <1>8, StayPlaced DEF SubmitLogin, ClickLogout, place, IInv, TypeOK
  <2> QED BY <1>1, <1>8, <2>1, <2>2
          DEF SubmitLogin, ClickLogout, place, session, server, bounds, IInv, TypeOK
<1>9. ASSUME NEW r \in reqs, Done(r), Placed,
             UNCHANGED <<view, server, bounds>>,
             loggedIn' \in BOOLEAN, lastLoginUrl' \in Page \cup {None},
             stored' \in {stored, r.grant, None}
      PROVE  IInv'
  <2>1. Waiting
    BY <1>9, FewerWait DEF Done, server
  <2>2. r.grant \in Token \cup {None} /\ (r.grant # None => r.grant <= issued)
    BY DEF IInv, TypeOK, Sane, Sound, Request
  <2> QED BY <1>9, <2>1, <2>2, Together DEF server, bounds, IInv, TypeOK, Sane
<1>10. ASSUME NEW r \in reqs, Deliver(r) \/ Lost(r) PROVE IInv'
  <2>1. UNCHANGED place => Placed
    BY StayPlaced DEF place, IInv, TypeOK
  <2>2. CASE Synced(r)
    <3>1. loggedIn' \in BOOLEAN
      BY <2>2 DEF Synced
    <3> QED BY <1>9, <2>1, <2>2, <3>1 DEF Synced, place, IInv, TypeOK
  <2>3. CASE LoggedIn(r)
    <3>1. Placed
      <4>1. CASE Remembers
        <5>1. lastLoginUrl \in Page
          BY <4>1 DEF Remembers, IInv, TypeOK
        <5> QED BY <2>3, <4>1, <5>1, UrlPlaced DEF LoggedIn
      <4>2. CASE ~Remembers
        BY <2>3, <4>2, BackPlaced DEF LoggedIn
      <4> QED BY <4>1, <4>2
    <3> QED BY <1>9, <2>3, <3>1 DEF LoggedIn, Keep
  <2>4. CASE LoggedOut(r)
    <3>1. Placed
      BY <2>4, StayPlaced DEF LoggedOut, StateGo, Transition, Page
    <3> QED BY <1>9, <2>4, <3>1 DEF LoggedOut, IInv, TypeOK
  <2>5. CASE Redirected(r)
    <3>1. Placed
      BY <2>5, UrlPlaced DEF Redirected, Page
    <3> QED BY <1>9, <2>5, <3>1 DEF Redirected, IInv, TypeOK
  <2>6. CASE Shown(r) \/ Lost(r)
    BY <1>9, <2>1, <2>6 DEF Shown, Lost, place, session, IInv, TypeOK
  <2> QED BY <1>10, <2>2, <2>3, <2>4, <2>5, <2>6 DEF Deliver
<1>11. ASSUME NEW t \in Token, Expire(t) PROVE IInv'
  <2>1. Waiting
    BY <1>11, FewerWait DEF Expire
  <2>2. Placed
    BY <1>11, StayPlaced DEF Expire, place, IInv, TypeOK
  <2> QED BY <1>11, <2>1, <2>2, Together
          DEF Expire, place, session, bounds, IInv, TypeOK, Sane
<1>12. ASSUME UNCHANGED vars PROVE IInv'
  <2>1. Placed
    BY <1>12, StayPlaced DEF vars, place, IInv, TypeOK
  <2> QED BY <1>1, <1>2, <1>12, <2>1
          DEF vars, place, session, server, bounds, IInv, TypeOK
<1> QED BY <1>3, <1>4, <1>5, <1>6, <1>7, <1>8, <1>10, <1>11, <1>12, ServeKeeps
        DEF Next

-----------------------------------------------------------------------------
(* The state is typed: a login leads to a page and never to the nothing    *)
(* that is remembered (getLastLoginUrl), and no two requests have one      *)
(* number.                                                                 *)
THEOREM SessionTypeCorrect == Spec => []TypeOK
<1>1. Init => IInv
  BY InitInvariant
<1>2. IInv /\ [Next]_vars => IInv'
  BY StepInvariant
<1>3. IInv => TypeOK
  BY DEF IInv
<1> QED BY <1>1, <1>2, <1>3, PTL DEF Spec

\* A request that is done has no successor of its number.
LEMMA DoneEnds ==
  ASSUME IInv, NEW r \in reqs, Done(r), r.st # "sent"
  PROVE  r \in Ended
<1>1. \A s \in reqs' : s \in reqs /\ s # r
  BY DEF Done
<1>2. \A s \in reqs' : s.id # r.id
  BY <1>1 DEF IInv, TypeOK
<1> QED BY <1>2 DEF Ended

(* Whoever is logged in has a token in the storage (Session.login stores   *)
(* one, Session.logout removes it), whatever requests cross; only the late *)
(* answer to Session.sync can break it.                                    *)
THEOREM LoggedInHasToken == Spec => SessionHasToken
<1> DEFINE Keeps == loggedIn' /\ stored' = None =>
                      \/ loggedIn /\ stored = None
                      \/ \E r \in Ended : r.kind = "sync" /\ r.tok # stored
<1>1. ASSUME IInv, [Next]_vars PROVE [Keeps]_vars
  <2>1. ASSUME NEW r \in reqs, Synced(r) PROVE Keeps
    <3>1. r.st = "yes" => r.tok # None
      BY <1>1, <2>1 DEF Synced, IInv, TypeOK, Request, Sane, Sound
    <3>2. r \in Ended
      BY <1>1, <2>1, DoneEnds DEF Synced
    <3> QED BY <2>1, <3>1, <3>2 DEF Synced
  <2>2. ASSUME NEW r \in reqs, LoggedIn(r) PROVE Keeps
    BY <1>1, <2>2 DEF LoggedIn, Keep, IInv, Sane, Sound
  <2>3. UNCHANGED <<loggedIn, stored>> => Keeps
    OBVIOUS
  <2>4. loggedIn' = FALSE => Keeps
    OBVIOUS
  <2> HIDE DEF Keeps
  <2>5. ASSUME NEW r \in reqs, Serve(r) \/ Deliver(r) \/ Lost(r) PROVE Keeps
    BY <2>1, <2>2, <2>3, <2>4, <2>5
       DEF Serve, Deliver, Lost, LoggedOut, Redirected, Shown, session
  <2>6. ASSUME NEW u \in Page, Go(u) PROVE Keeps
    BY <2>3, <2>6 DEF Go, session
  <2>7. Reload \/ Back \/ Render \/ ClickLogin \/ SubmitLogin \/ ClickLogout
        => Keeps
    BY <2>3, <2>4
       DEF Reload, Back, Render, ClickLogin, SubmitLogin, ClickLogout, session
  <2>8. ASSUME NEW t \in Token, Expire(t) PROVE Keeps
    BY <2>3, <2>8 DEF Expire, session
  <2> QED BY <1>1, <2>5, <2>6, <2>7, <2>8 DEF Next
<1>2. Init => IInv
  BY InitInvariant
<1>3. IInv /\ [Next]_vars => IInv'
  BY StepInvariant
<1> QED BY <1>1, <1>2, <1>3, PTL DEF Spec, SessionHasToken

(* A session ends by a reload, by the user's own logout, with the server's *)
(* consent, by the late answer to a request sent with another token        *)
(* (ErrorInterceptor, Session.sync), or by a refusal of authenticate whose *)
(* FindMe failed for a valid token: no refusal of a password, no lost      *)
(* request and no crossing of answers ends it otherwise.                   *)
THEOREM SessionEndsRightly == Spec => SessionEnds
<1> DEFINE Ends == loggedIn /\ ~loggedIn' =>
                     \/ loads' # loads
                     \/ stored \notin valid
                     \/ \E r \in Ended :
                          r.kind = "logout" \/ r.tok # stored \/ r.st = "missed"
<1>1. ASSUME IInv, [Next]_vars PROVE [Ends]_vars
  <2>1. ASSUME NEW r \in reqs, Done(r), r.st \in {"no", "missed"},
               r.kind # "login"
        PROVE  Ends
    <3>1. r.tok \notin valid \/ r.st = "missed"
      BY <1>1, <2>1 DEF IInv, Sane, Sound
    <3>2. r \in Ended
      BY <1>1, <2>1, DoneEnds
    <3> QED BY <3>1, <3>2
  <2>2. ASSUME NEW r \in reqs, LoggedOut(r) PROVE Ends
    <3>1. r \in Ended /\ r.kind = "logout"
      BY <1>1, <2>2, DoneEnds DEF LoggedOut
    <3> QED BY <3>1
  <2>3. (loggedIn => loggedIn') => Ends
    OBVIOUS
  <2>4. Reload => Ends
    BY <1>1 DEF Reload, IInv, TypeOK
  <2> HIDE DEF Ends
  <2>5. ASSUME NEW r \in reqs, Synced(r) PROVE Ends
    <3>1. r.st \in {"yes", "no", "missed"}
      BY <1>1, <2>5 DEF Synced, IInv, TypeOK, Request
    <3> QED BY <2>1, <2>3, <2>5, <3>1 DEF Synced
  <2>6. ASSUME NEW r \in reqs, Redirected(r) PROVE Ends
    BY <2>1, <2>6 DEF Redirected, Unauthorized
  <2>7. ASSUME NEW r \in reqs, Serve(r) \/ Deliver(r) \/ Lost(r) PROVE Ends
    BY <2>2, <2>3, <2>5, <2>6, <2>7
       DEF Serve, Deliver, Lost, LoggedIn, Keep, Shown, session
  <2>8. ASSUME NEW u \in Page, Go(u) PROVE Ends
    BY <2>3, <2>8 DEF Go, session
  <2>9. Back \/ Render \/ ClickLogin \/ SubmitLogin \/ ClickLogout => Ends
    BY <2>3 DEF Back, Render, ClickLogin, SubmitLogin, ClickLogout, session
  <2>10. ASSUME NEW t \in Token, Expire(t) PROVE Ends
    BY <2>3, <2>10 DEF Expire, session
  <2> QED BY <1>1, <2>4, <2>7, <2>8, <2>9, <2>10 DEF Next
<1>2. Init => IInv
  BY InitInvariant
<1>3. IInv /\ [Next]_vars => IInv'
  BY StepInvariant
<1> QED BY <1>1, <1>2, <1>3, PTL DEF Spec, SessionEnds

(* A login answered while the form is at hand leads back to where the user *)
(* came from or asked for the form last (LoginController.login): as the    *)
(* history never has a page twice in a row, it never leads to the form.    *)
THEOREM LoginLeadsBackRightly == Spec => LoginLeadsBack
<1> DEFINE Leads == path = Login /\ trail # <<>> /\ (\E r \in reqs : LoggedIn(r))
                      => path' \in {Last(trail), lastLoginUrl} \ {Login}
<1>1. ASSUME IInv PROVE Leads
  <2> SUFFICES ASSUME path = Login, trail # <<>>, NEW r \in reqs, LoggedIn(r)
               PROVE  path' \in {Last(trail), lastLoginUrl} \ {Login}
    OBVIOUS
  <2>1. CASE Remembers
    <3>1. lastLoginUrl \in Page \ {Login}
      BY <1>1, <2>1 DEF Remembers, NoRedirect, IInv, TypeOK
    <3> QED BY <1>1, <2>1, <3>1, UrlPlaced DEF LoggedIn
  <2>2. CASE ~Remembers
    BY <1>1, <2>2, BackPlaced DEF LoggedIn
  <2> QED BY <2>1, <2>2
<1>2. Init => IInv
  BY InitInvariant
<1>3. IInv /\ [Next]_vars => IInv'
  BY StepInvariant
<1> QED BY <1>1, <1>2, <1>3, PTL DEF Spec, LoginLeadsBack

-----------------------------------------------------------------------------
(* Polls and menu.                                                         *)

\* The polls that the page shown does not know of.
Behind == polls \ Current

PollInv ==
  /\ visit \in Nat /\ left \in Nat
  /\ polls \subseteq Poll
  /\ \A p, q \in polls : p.visit = q.visit => p = q
  /\ \A p \in polls : p.visit <= visit
  /\ IsFiniteSet(polls)
  /\ Cardinality(Behind) <= left

\* The newest request carries the stored token.
Asked == /\ asks # <<>>
         /\ asks[Len(asks)].tok = stored /\ ~asks[Len(asks)].old

\* The newest request is answered, and what the menu shows is right.
Told == /\ \A i \in 1 .. Len(asks) : asks[i].old
        /\ stored \in valid => menu = "all"
        /\ stored = None => menu # "all"

MenuInv ==
  /\ menu \in {"none", "all", "message"}
  /\ asks \in Seq(Ask)
  /\ why \in {"answer", "old", "lost", "unseen"}
  /\ why = "answer" => Asked \/ Told

DInv == IInv /\ PollInv /\ MenuInv

-----------------------------------------------------------------------------
\* A page has at most one poll.
LEMMA OneCurrent ==
  ASSUME PollInv, NEW p \in Current
  PROVE  Current = {p}
BY DEF PollInv, Current

\* What a page leaves behind when it is destroyed.
LEMMA DestroyedFew ==
  ASSUME PollInv
  PROVE  /\ IsFiniteSet(Destroy) /\ Destroy \subseteq polls
         /\ Cardinality({p \in Current : p.st = "sent"}) \in Nat
         /\ Cardinality(Destroy) <=
              left + Cardinality({p \in Current : p.st = "sent"})
<1> DEFINE S == {p \in Current : p.st = "sent"}
<1>1. Destroy \subseteq polls /\ Behind \subseteq polls /\ Current \subseteq polls
  BY DEF Destroy, Behind, Current
<1>2. IsFiniteSet(Destroy) /\ IsFiniteSet(Behind)
  BY <1>1, FS_Subset DEF PollInv
<1>3. /\ Cardinality(Destroy) \in Nat /\ Cardinality(Behind) \in Nat
      /\ Cardinality(Behind) <= left /\ left \in Nat
  BY <1>2, FS_CardinalityType DEF PollInv
<1>4. Destroy \subseteq Behind \cup S
  BY <1>1 DEF Destroy, Behind, PollInv, Poll
<1>5. CASE S = {}
  <2>1. Cardinality(Destroy) <= Cardinality(Behind)
    BY <1>2, <1>4, <1>5, FS_Subset
  <2>2. Cardinality(S) = 0
    BY <1>5, FS_EmptySet
  <2> QED BY <1>1, <1>2, <1>3, <2>1, <2>2
<1>6. CASE S # {}
  <2>1. PICK s : S = {s}
    BY <1>6, OneCurrent
  <2>2. Cardinality(S) = 1
    BY <2>1, FS_Singleton
  <2>3. /\ IsFiniteSet(Behind \cup {s})
        /\ Cardinality(Behind \cup {s}) <= Cardinality(Behind) + 1
        /\ Cardinality(Behind \cup {s}) \in Nat
    BY <1>2, <1>3, FS_AddElement
  <2>4. Cardinality(Destroy) <= Cardinality(Behind \cup {s})
    BY <1>4, <2>1, <2>3, FS_Subset
  <2> QED BY <1>1, <1>2, <1>3, <2>2, <2>3, <2>4
<1> QED BY <1>5, <1>6

\* Every poll that is left belongs to a page left.
LEMMA PageChangeKeeps ==
  ASSUME IInv, PollInv, PageChange
  PROVE  PollInv'
<1>1. CASE loads' # loads
  <2>1. polls' = {} /\ left' = 0 /\ visit' = visit
    BY <1>1 DEF PageChange
  <2>2. Behind' = {}
    BY <2>1 DEF Behind
  <2> QED BY <2>1, <2>2, FS_EmptySet DEF PollInv
<1>2. CASE loads' = loads /\ view' = view
  BY <1>2 DEF PageChange, pollVars, PollInv, Behind, Current
<1>3. CASE loads' = loads /\ view' # view
  <2> DEFINE n == Cardinality({p \in Current : p.st = "sent"})
             new == [visit |-> visit + 1, st |-> "sent", tok |-> stored]
  <2>1. left' = left + n /\ n \in Nat /\ Cardinality(Destroy) <= left'
    BY <1>3, DestroyedFew DEF PageChange
  <2>2. IsFiniteSet(Destroy) /\ Destroy \subseteq polls
    BY DestroyedFew
  <2>3. \A p \in Destroy : p \in Poll /\ p.visit \in Nat /\ p.visit < visit + 1
    BY <2>2 DEF PollInv, Poll
  <2> HIDE DEF n
  <2>4. CASE view' # Index
    <3>1. polls' = Destroy /\ visit' = visit
      BY <1>3, <2>4 DEF PageChange
    <3>2. Behind' = Destroy
      BY <2>4, <3>1 DEF Behind, Current
    <3> QED BY <2>1, <2>2, <3>1, <3>2 DEF PollInv
  <2>5. CASE view' = Index
    <3>1. polls' = Destroy \cup Begun /\ visit' = visit + 1
      BY <1>3, <2>5 DEF PageChange
    <3>2. Begun \subseteq {new}
      BY DEF Begun
    <3>3. new \in Poll /\ new.visit = visit + 1
      BY DEF Poll, PollInv, IInv, TypeOK
    <3>4. Behind' = Destroy
      BY <2>3, <2>5, <3>1, <3>2, <3>3 DEF Behind, Current
    <3>5. IsFiniteSet(Destroy \cup {new})
      BY <2>2, FS_AddElement
    <3>6. IsFiniteSet(polls')
      BY <3>1, <3>2, <3>5, FS_Subset
    <3>7. \A p, q \in polls' : p.visit = q.visit => p = q
      BY <2>2, <2>3, <3>1, <3>2, <3>3 DEF PollInv
    <3>8. /\ \A p \in polls' : p \in Poll /\ p.visit <= visit + 1
          /\ visit + 1 \in Nat
      BY <2>2, <2>3, <3>1, <3>2, <3>3 DEF PollInv
    <3> QED BY <2>1, <3>1, <3>4, <3>6, <3>7, <3>8 DEF PollInv
  <2> QED BY <2>4, <2>5
<1> QED BY <1>1, <1>2, <1>3

\* A poll that goes on belongs to the same page as before.
LEMMA PollKeeps ==
  ASSUME PollInv, NEW p \in polls, NEW q \in Poll, q.visit = p.visit,
         \/ polls' = (polls \ {p}) \cup {q}
         \/ polls' = polls \ {p},
         UNCHANGED <<visit, left, view>>
  PROVE  PollInv'
<1>1. IsFiniteSet(polls \ {p})
  BY FS_RemoveElement DEF PollInv
<1>2. IsFiniteSet(polls')
  BY <1>1, FS_AddElement
<1>3. p \in Poll /\ p.visit <= visit
  BY DEF PollInv
<1>4. /\ polls' \subseteq Poll
      /\ \A x, y \in polls' : x.visit = y.visit => x = y
      /\ \A x \in polls' : x.visit <= visit
  BY <1>3 DEF PollInv
<1>5. IsFiniteSet(Behind)
  BY FS_Subset DEF PollInv, Behind
<1>6. Cardinality(Behind) \in Nat /\ Cardinality(Behind) <= left
  BY <1>5, FS_CardinalityType DEF PollInv
<1>7. CASE p \in Current
  <2>1. Behind' \subseteq Behind
    BY <1>7 DEF Behind, Current
  <2>2. Cardinality(Behind') <= Cardinality(Behind) /\ IsFiniteSet(Behind')
    BY <1>5, <2>1, FS_Subset
  <2>3. Cardinality(Behind') \in Nat
    BY <2>2, FS_CardinalityType
  <2> QED BY <1>2, <1>4, <1>6, <2>2, <2>3 DEF PollInv
<1>8. CASE p \notin Current
  <2>1. Behind' \subseteq (Behind \ {p}) \cup {q}
    BY <1>8 DEF Behind, Current
  <2>2. p \in Behind
    BY <1>8 DEF Behind
  <2>3. /\ IsFiniteSet(Behind \ {p})
        /\ Cardinality(Behind \ {p}) = Cardinality(Behind) - 1
    BY <1>5, <2>2, FS_RemoveElement
  <2>4. /\ IsFiniteSet((Behind \ {p}) \cup {q})
        /\ Cardinality((Behind \ {p}) \cup {q}) <= Cardinality(Behind)
    <3> DEFINE D == Behind \ {p}
    <3>1. Cardinality(D) = Cardinality(Behind) - 1 /\ IsFiniteSet(D)
      BY <2>3
    <3> HIDE DEF D
    <3>2. /\ IsFiniteSet(D \cup {q})
          /\ Cardinality(D \cup {q}) \in {Cardinality(D), Cardinality(D) + 1}
      BY <3>1, FS_AddElement
    <3>3. Cardinality(D \cup {q}) <= Cardinality(Behind)
      BY <1>6, <3>1, <3>2
    <3> QED BY <3>2, <3>3 DEF D
  <2>5. /\ IsFiniteSet(Behind')
        /\ Cardinality(Behind') <= Cardinality((Behind \ {p}) \cup {q})
    BY <2>1, <2>4, FS_Subset
  <2>6. Cardinality(Behind') \in Nat /\ Cardinality((Behind \ {p}) \cup {q}) \in Nat
    BY <2>4, <2>5, FS_CardinalityType
  <2> QED BY <1>2, <1>4, <1>6, <2>4, <2>5, <2>6 DEF PollInv
<1> QED BY <1>7, <1>8

-----------------------------------------------------------------------------
\* The server never accepts an old token again.
LEMMA ValidShrinks ==
  ASSUME IInv, [Next]_vars, stored' = stored, stored \in valid'
  PROVE  stored \in valid
<1>1. stored \in Nat /\ stored <= issued /\ issued \in Nat
  BY SessionAssumption, StepInvariant DEF IInv, Sane, TypeOK, Token
<1>2. valid' \subseteq valid \cup {issued + 1}
  BY DEF Next, vars, Reload, Go, Back, Render, ClickLogin, SubmitLogin,
         ClickLogout, Serve, Expire, Deliver, Synced, LoggedIn, LoggedOut,
         Redirected, Shown, Lost, server
<1> QED BY <1>1, <1>2

\* A new request for the menu.
LEMMA LoadKeeps ==
  ASSUME IInv', NEW seen \in Seq(Ask), LoadProv(seen),
         menu' \in {"none", "all", "message"}
  PROVE  MenuInv'
<1> DEFINE a == [tok |-> stored', old |-> FALSE]
<1>1. a \in Ask /\ a.tok = stored' /\ ~a.old
  BY DEF Ask, IInv, TypeOK
<1> HIDE DEF a
<1>2. asks' = Append(seen, a) /\ why' = "answer"
  BY DEF LoadProv, a
<1>3. /\ asks' \in Seq(Ask) /\ asks' # <<>>
      /\ Len(asks') = Len(seen) + 1 /\ asks'[Len(seen) + 1] = a
  BY <1>1, <1>2, AppendProperties
<1> QED BY <1>1, <1>2, <1>3 DEF MenuInv, Asked

LEMMA MenuChangeKeeps ==
  ASSUME IInv, MenuInv, Next, IInv', MenuChange
  PROVE  MenuInv'
<1>1. CASE loads' # loads
  BY <1>1, LoadKeeps, EmptySeq DEF MenuChange
<1>2. CASE loads' = loads /\ Watch
  BY <1>2, LoadKeeps DEF MenuChange, MenuInv
<1>3. CASE loads' = loads /\ ~Watch /\ stored' = stored
  <2>1. UNCHANGED <<menu, asks, why>>
    BY <1>3 DEF MenuChange
  <2>2. stored' \in valid' => stored \in valid
    BY <1>3, ValidShrinks
  <2>3. Asked => Asked'
    BY <1>3, <2>1 DEF Asked
  <2>4. Told => Told'
    BY <1>3, <2>1, <2>2 DEF Told
  <2> QED BY <2>1, <2>3, <2>4 DEF MenuInv
<1>4. CASE loads' = loads /\ ~Watch /\ stored' # stored
  BY <1>4 DEF MenuChange, Watch, MenuInv
<1> QED BY <1>1, <1>2, <1>3, <1>4

\* What is left of the requests when the one at i is done.
LEMMA OvertakenAsks ==
  ASSUME MenuInv, NEW i \in 1 .. Len(asks), Overtakes(i)
  PROVE  /\ asks' \in Seq(Ask) /\ Len(asks') = Len(asks) - 1
         /\ \A j \in 1 .. i - 1 : asks'[j].old
         /\ \A j \in i .. Len(asks) - 1 : asks'[j] = asks[j + 1]
<1> DEFINE n == Len(asks) - 1
           e(j) == IF j < i THEN [asks[j] EXCEPT !.old = TRUE] ELSE asks[j + 1]
<1>1. asks \in Seq(Ask) /\ n \in Nat /\ Len(asks) = n + 1
  BY DEF MenuInv
<1>2. \A j \in 1 .. Len(asks) : asks[j] \in Ask
  BY <1>1, ElementOfSeq
<1>3. \A j \in 1 .. n : e(j) \in Ask /\ (j < i => e(j).old)
  <2> TAKE j \in 1 .. n
  <2>1. j \in 1 .. Len(asks) /\ j + 1 \in 1 .. Len(asks)
    BY <1>1
  <2>2. CASE j < i
    <3>1. asks[j] \in Ask /\ e(j) = [asks[j] EXCEPT !.old = TRUE]
      BY <1>2, <2>1, <2>2
    <3> QED BY <3>1 DEF Ask
  <2>3. CASE ~(j < i)
    BY <1>2, <2>1, <2>3
  <2> QED BY <2>2, <2>3
<1>4. asks' = [j \in 1 .. n |-> e(j)]
  BY DEF Overtakes
<1>5. i <= n + 1
  BY <1>1
<1>6. \A j \in i .. n : e(j) = asks[j + 1]
  OBVIOUS
<1> HIDE DEF n, e
<1>7. asks' \in Seq(Ask)
  BY <1>1, <1>3, <1>4
<1>8. Len(asks') = n
  BY <1>1, <1>4
<1>9. \A j \in 1 .. i - 1 : asks'[j].old
  BY <1>1, <1>3, <1>4, <1>5
<1>10. \A j \in i .. n : asks'[j] = e(j)
  BY <1>1, <1>4
<1> QED BY <1>6, <1>7, <1>8, <1>9, <1>10 DEF n

LEMMA MenuComesKeeps ==
  ASSUME IInv, MenuInv, NEW i \in 1 .. Len(asks), MenuComes(i) \/ MenuLost(i)
  PROVE  MenuInv'
<1>1. Overtakes(i) /\ UNCHANGED <<stored, valid>>
  BY DEF MenuComes, MenuLost, vars, session, server
<1>2. /\ asks' \in Seq(Ask) /\ Len(asks') = Len(asks) - 1
      /\ \A j \in 1 .. i - 1 : asks'[j].old
      /\ \A j \in i .. Len(asks) - 1 : asks'[j] = asks[j + 1]
  BY <1>1, OvertakenAsks
<1>3. menu' \in {"none", "all", "message"}
      /\ why' \in {"answer", "old", "lost", "unseen"}
  BY DEF MenuComes, MenuLost, MenuOf, MenuInv
<1>4. ASSUME why' = "answer" PROVE Asked' \/ Told'
  <2>1. why = "answer" /\ ~asks[i].old /\ menu' = MenuOf(asks[i].tok)
    BY <1>4 DEF MenuComes, MenuLost
  <2>2. Asked
    BY <2>1 DEF MenuInv, Told
  <2>3. Len(asks) \in Nat /\ i <= Len(asks)
    BY DEF MenuInv
  <2>4. CASE i = Len(asks)
    <3>1. \A j \in 1 .. Len(asks') : asks'[j].old
      BY <1>2, <2>3, <2>4
    <3>2. asks[i].tok = stored
      BY <2>2, <2>4 DEF Asked
    <3>3. stored = None => stored \notin valid
      BY SessionAssumption DEF IInv, TypeOK
    <3> QED BY <1>1, <2>1, <3>1, <3>2, <3>3 DEF Told, MenuOf
  <2>5. CASE i < Len(asks)
    <3>1. /\ Len(asks) - 1 \in i .. Len(asks) - 1
          /\ Len(asks) - 1 + 1 = Len(asks) /\ Len(asks) - 1 # 0
      BY <2>3, <2>5
    <3>2. asks'[Len(asks')] = asks[Len(asks)]
      BY <1>2, <3>1
    <3>3. asks' # <<>>
      BY <1>2, <3>1, EmptySeq
    <3> QED BY <1>1, <2>2, <3>2, <3>3 DEF Asked
  <2> QED BY <2>3, <2>4, <2>5
<1> QED BY <1>2, <1>3, <1>4 DEF MenuInv

-----------------------------------------------------------------------------
LEMMA DashboardInitInvariant == DashboardInit => DInv
<1> SUFFICES ASSUME DashboardInit PROVE DInv
  OBVIOUS
<1>1. IInv
  BY InitInvariant DEF DashboardInit
<1>2. PollInv
  <2>1. Behind = {} /\ polls = {} /\ visit = 0 /\ left = 0
    BY DEF DashboardInit, Behind
  <2> QED BY <2>1, FS_EmptySet DEF PollInv
<1>3. MenuInv
  <2> DEFINE a == [tok |-> stored, old |-> FALSE]
  <2>1. a \in Ask /\ a.tok = stored /\ ~a.old
    BY <1>1 DEF Ask, IInv, TypeOK
  <2>2. asks = <<a>> /\ menu = "none" /\ why = "answer"
    BY DEF DashboardInit
  <2> HIDE DEF a
  <2>3. asks \in Seq(Ask) /\ Len(asks) = 1 /\ asks[1] = a /\ asks # <<>>
    BY <2>1, <2>2
  <2> QED BY <2>1, <2>2, <2>3 DEF MenuInv, Asked
<1> QED BY <1>1, <1>2, <1>3 DEF DInv

LEMMA DashboardStepInvariant ==
  DInv /\ [DashboardNext]_<<vars, dashboard>> => DInv'
<1> SUFFICES ASSUME DInv, [DashboardNext]_<<vars, dashboard>> PROVE DInv'
  OBVIOUS
<1>1. IInv /\ PollInv /\ MenuInv
  BY DEF DInv
<1>2. UNCHANGED vars => IInv'
  BY <1>1, StepInvariant
<1>3. UNCHANGED <<stored, valid, menuVars>> => MenuInv'
  BY <1>1 DEF menuVars, MenuInv, Asked, Told
<1>4. UNCHANGED <<view, pollVars>> => PollInv'
  BY <1>1 DEF pollVars, PollInv, Behind, Current
<1>5. CASE Next /\ PageChange /\ MenuChange
  <2>1. IInv'
    BY <1>1, <1>5, StepInvariant
  <2> QED BY <1>1, <1>5, <2>1, PageChangeKeeps, MenuChangeKeeps DEF DInv
<1>6. ASSUME NEW p \in polls, Tick(p) \/ Success(p) \/ Error(p) PROVE DInv'
  <2>1. UNCHANGED <<vars, visit, left, menuVars>>
    BY <1>6 DEF Tick, Success, Error
  <2>2. p \in Poll /\ stored \in Token \cup {None}
    BY <1>1 DEF PollInv, IInv, TypeOK
  <2>3. PollInv'
    <3>1. view' = view
      BY <2>1 DEF vars, place
    <3>2. CASE Tick(p)
      <4> DEFINE q == [p EXCEPT !.st = "sent", !.tok = stored]
      <4>1. q \in Poll /\ q.visit = p.visit
        BY <2>2 DEF Poll
      <4>2. polls' = (polls \ {p}) \cup {q}
        BY <3>2 DEF Tick
      <4>3. PICK r \in Poll : r = q
        BY <4>1
      <4> HIDE DEF q
      <4> QED BY <1>1, <2>1, <3>1, <4>1, <4>2, <4>3, PollKeeps
    <3>3. CASE Success(p)
      <4> DEFINE q == [p EXCEPT !.st = "armed"]
      <4>1. q \in Poll /\ q.visit = p.visit
        BY <2>2 DEF Poll
      <4>2. polls' = (polls \ {p}) \cup {q}
        BY <3>3 DEF Success
      <4> QED BY <1>1, <2>1, <3>1, <4>1, <4>2, PollKeeps
    <3>4. CASE Error(p)
      BY <1>1, <2>1, <2>2, <3>1, <3>4, PollKeeps DEF Error
    <3> QED BY <1>6, <3>2, <3>3, <3>4
  <2>4. UNCHANGED <<stored, valid>>
    BY <2>1 DEF vars, session, server
  <2> QED BY <1>2, <1>3, <2>1, <2>3, <2>4 DEF DInv
<1>7. ASSUME NEW i \in 1 .. Len(asks), MenuComes(i) \/ MenuLost(i) PROVE DInv'
  <2>1. UNCHANGED <<vars, pollVars>>
    BY <1>7 DEF MenuComes, MenuLost
  <2>2. MenuInv'
    BY <1>1, <1>7, MenuComesKeeps
  <2> QED BY <1>2, <1>4, <2>1, <2>2 DEF DInv, vars, place
<1>8. CASE UNCHANGED <<vars, dashboard>>
  BY <1>2, <1>3, <1>4, <1>8 DEF DInv, vars, place, session, server, dashboard
<1> QED BY <1>5, <1>6, <1>7, <1>8 DEF DashboardNext

-----------------------------------------------------------------------------
(* The dashboard types: no list of the menu is ever missing, and no two    *)
(* polls belong to one visit of the page.                                  *)
THEOREM DashboardTypeCorrect == DashboardSpec => []DashboardTypeOK
<1>1. DInv => DashboardTypeOK
  BY DEF DInv, IInv, PollInv, MenuInv, DashboardTypeOK
<1> QED BY <1>1, DashboardInitInvariant, DashboardStepInvariant, PTL
        DEF DashboardSpec

(* tick and $destroy of SystemInfoController: at most one poll more than   *)
(* pages that were left while their request was under way.                 *)
THEOREM PollsBounded == DashboardSpec => []PollsDoNotPile
<1>1. ASSUME DInv PROVE PollsDoNotPile
  <2>1. IsFiniteSet(Behind) /\ IsFiniteSet(polls)
    BY <1>1, FS_Subset DEF DInv, PollInv, Behind
  <2>2. /\ Cardinality(Behind) \in Nat /\ Cardinality(polls) \in Nat
        /\ Cardinality(Behind) <= left /\ left \in Nat
    BY <1>1, <2>1, FS_CardinalityType DEF DInv, PollInv
  <2>3. CASE Current = {}
    <3>1. Behind = polls
      BY <2>3 DEF Behind
    <3> QED BY <2>2, <3>1 DEF PollsDoNotPile
  <2>4. CASE Current # {}
    <3>1. PICK p \in Current : Current = {p}
      BY <1>1, <2>4, OneCurrent DEF DInv
    <3>2. polls \subseteq Behind \cup {p}
      BY <3>1 DEF Behind, Current
    <3>3. /\ IsFiniteSet(Behind \cup {p})
          /\ Cardinality(Behind \cup {p}) \in
               {Cardinality(Behind), Cardinality(Behind) + 1}
      BY <2>1, FS_AddElement
    <3>4. /\ IsFiniteSet(Behind \cup {p})
          /\ Cardinality(Behind \cup {p}) <= Cardinality(Behind) + 1
          /\ Cardinality(Behind \cup {p}) \in Nat
      BY <2>2, <3>3
    <3>5. Cardinality(polls) <= Cardinality(Behind \cup {p})
      BY <3>2, <3>4, FS_Subset
    <3> QED BY <2>2, <3>4, <3>5 DEF PollsDoNotPile
  <2> QED BY <2>3, <2>4
<1> QED BY <1>1, DashboardInitInvariant, DashboardStepInvariant, PTL
        DEF DashboardSpec

(* The watch and loadProv of NavigationController: once the newest request *)
(* is answered the menu agrees with the stored token, unless an older      *)
(* answer came later, one was lost, or the token changed unseen.           *)
THEOREM MenuIsRight == DashboardSpec => []MenuFollowsSession
<1>1. ASSUME DInv PROVE MenuFollowsSession
  BY <1>1 DEF DInv, MenuInv, Asked, Told, MenuFollowsSession
<1> QED BY <1>1, DashboardInitInvariant, DashboardStepInvariant, PTL
        DEF DashboardSpec

(* The dashboard and the menu do to the session nothing but what Session   *)
(* describes: what holds there holds here.                                 *)
THEOREM SessionBelow == DashboardSpec => Spec
<1>1. DashboardInit => Init
  BY DEF DashboardInit
<1>2. [DashboardNext]_<<vars, dashboard>> => [Next]_vars
  BY DEF DashboardNext, Tick, Success, Error, MenuComes, MenuLost, vars
<1> QED BY <1>1, <1>2, PTL DEF DashboardSpec, Spec

-----------------------------------------------------------------------------
(* Why polls end.                                                          *)

\* What is left for a poll to do once the stored token is refused: the
\* answer to its request, the timer, a request that is refused.
Rest(p) == IF p.st = "armed" THEN 2 ELSE IF p.tok \in valid THEN 3 ELSE 1

\* A poll carries a token that was granted.
TokensGranted == \A p \in polls : p.tok # None => p.tok <= issued

(* While no valid token is stored, no step gives a poll more to do than it *)
(* had, a poll begun meanwhile has one refusal before it, and every step   *)
(* of a poll leaves it with less.                                          *)
Wanes ==
  stored \notin valid /\ stored' \notin valid' =>
    /\ \A q \in polls' :
         \/ \E p \in polls : p.visit = q.visit /\ Rest(q)' <= Rest(p)
         \/ q.visit > visit /\ Rest(q)' = 1
    /\ UNCHANGED vars /\ polls' # polls =>
         \E p \in polls : \A q \in polls' :
           q.visit = p.visit => Rest(q)' < Rest(p)

\* The server grants one token at a time, with a new number.
LEMMA GrantsAreNew ==
  ASSUME IInv, [Next]_vars
  PROVE  valid' \subseteq valid \cup {issued + 1} /\ issued' >= issued
<1>1. issued \in Nat
  BY DEF IInv, TypeOK
<1>2. valid' \subseteq valid \cup {issued + 1}
  BY DEF Next, vars, Reload, Go, Back, Render, ClickLogin, SubmitLogin,
         ClickLogout, Serve, Expire, Deliver, Synced, LoggedIn, LoggedOut,
         Redirected, Shown, Lost, server
<1>3. issued' = issued \/ issued' = issued + 1
  BY DEF Next, vars, Reload, Go, Back, Render, ClickLogin, SubmitLogin,
         ClickLogout, Serve, Expire, Deliver, Synced, LoggedIn, LoggedOut,
         Redirected, Shown, Lost, server
<1> QED BY <1>1, <1>2, <1>3

\* A step of the session leaves the polls that stay as they are, and one
\* that begins carries the stored token.
LEMMA PollsStay ==
  ASSUME IInv, PollInv, PageChange, NEW q \in polls'
  PROVE  q \in polls \/ (q.visit = visit + 1 /\ q.st = "sent" /\ q.tok = stored)
BY DEF PageChange, pollVars, Destroy, Begun

LEMMA TokensGrantedInvariant ==
  DInv /\ TokensGranted /\ [DashboardNext]_<<vars, dashboard>> => TokensGranted'
<1> SUFFICES ASSUME DInv, TokensGranted, [DashboardNext]_<<vars, dashboard>>,
                    NEW q \in polls', q.tok # None
             PROVE  q.tok <= issued'
  BY DEF TokensGranted
<1>1. IInv /\ PollInv
  BY DEF DInv
<1>2. DInv' /\ IInv'
  BY DashboardStepInvariant DEF DInv
<1>3. /\ stored # None => stored \in Nat /\ stored <= issued
      /\ issued \in Nat /\ issued' \in Nat
  BY <1>1, <1>2 DEF IInv, Sane, TypeOK, Token
<1>4. q \in Poll /\ q.tok \in Nat
  BY <1>2 DEF DInv, PollInv, Poll, Token
<1>5. CASE Next /\ PageChange
  <2>1. issued' >= issued
    BY <1>1, <1>5, GrantsAreNew
  <2>2. q \in polls \/ q.tok = stored
    BY <1>1, <1>5, PollsStay
  <2> QED BY <1>3, <1>4, <2>1, <2>2 DEF TokensGranted
<1>6. CASE UNCHANGED vars /\ ~UNCHANGED polls
  <2>1. issued' = issued
    BY <1>6 DEF vars, server
  <2>2. PICK p \in polls : Tick(p) \/ Success(p) \/ Error(p)
    BY <1>6 DEF DashboardNext, PageChange, MenuComes, MenuLost, dashboard,
                pollVars, vars, place, bounds
  <2>3. p \in Poll
    BY <1>1 DEF PollInv
  <2>4. q \in polls \/ q.tok = stored \/ q.tok = p.tok
    BY <2>2, <2>3 DEF Tick, Success, Error, Poll
  <2> QED BY <1>3, <1>4, <2>1, <2>4 DEF TokensGranted
<1>7. CASE UNCHANGED vars /\ UNCHANGED polls
  BY <1>7 DEF vars, server, TokensGranted
<1>8. (Next /\ PageChange) \/ UNCHANGED vars
  BY DEF DashboardNext, Tick, Success, Error, MenuComes, MenuLost
<1> QED BY <1>5, <1>6, <1>7, <1>8

(* tick of SystemInfoController, on which PollsEnd rests: the poll of a    *)
(* page left long ago, which no $destroy cancels, is worn out by its       *)
(* timer and a refusal as soon as the session is over.                     *)
THEOREM PollsWane == DashboardSpec => [][Wanes]_<<vars, dashboard>>
<1>1. ASSUME DInv, TokensGranted, [DashboardNext]_<<vars, dashboard>>,
             stored \notin valid, stored' \notin valid'
      PROVE  /\ \A q \in polls' :
                  \/ \E p \in polls : p.visit = q.visit /\ Rest(q)' <= Rest(p)
                  \/ q.visit > visit /\ Rest(q)' = 1
             /\ UNCHANGED vars /\ polls' # polls =>
                  \E p \in polls : \A q \in polls' :
                    q.visit = p.visit => Rest(q)' < Rest(p)
  <2>1. IInv /\ PollInv /\ issued \in Nat
    BY <1>1 DEF DInv, IInv, TypeOK
  <2>2. CASE Next /\ PageChange /\ MenuChange
    <3>1. valid' \subseteq valid \cup {issued + 1}
      BY <2>1, <2>2, GrantsAreNew
    <3>2. \A p \in polls : p.tok \in valid' => p.tok \in valid
      <4>1. \A p \in polls : p.tok = None \/ p.tok \in 0 .. issued
        BY <1>1, <2>1 DEF TokensGranted, PollInv, Poll, Token
      <4>2. None \notin valid'
        BY <1>1, DashboardStepInvariant, SessionAssumption
           DEF DInv, IInv, TypeOK
      <4> QED BY <2>1, <3>1, <4>1, <4>2
    <3>3. \A p \in polls : Rest(p)' <= Rest(p)
      BY <3>2 DEF Rest
    <3>4. stored \notin valid'
      BY <1>1, <2>1, <3>1, <2>2, DashboardStepInvariant, SessionAssumption
         DEF DInv, IInv, Sane, TypeOK, Token
    <3>5. ASSUME NEW q \in polls', q \notin polls
          PROVE  q.visit = visit + 1 /\ Rest(q)' = 1
      <4>1. q.visit = visit + 1 /\ q.st = "sent" /\ q.tok = stored
        BY <2>1, <2>2, <3>5, PollsStay
      <4> QED BY <3>4, <4>1 DEF Rest
    <3>6. UNCHANGED vars => polls' = polls
      BY <2>2 DEF vars, place, bounds, PageChange, pollVars
    <3> QED BY <2>1, <3>3, <3>5, <3>6 DEF PollInv
  <2>3. ASSUME NEW p \in polls, Tick(p) \/ Success(p) \/ Error(p)
        PROVE  /\ \A q \in polls' :
                    \E r \in polls : r.visit = q.visit /\ Rest(q)' <= Rest(r)
               /\ \A q \in polls' : q.visit = p.visit => Rest(q)' < Rest(p)
    <3>1. p \in Poll /\ valid' = valid
      BY <2>1, <2>3 DEF PollInv, Tick, Success, Error, vars, server
    <3>2. \A r \in polls : Rest(r)' <= Rest(r)
      BY <3>1 DEF Rest
    <3>3. \A q \in polls' : q.visit = p.visit /\ q \in polls => q = p
      BY <2>1 DEF PollInv
    <3>4. p \notin polls'
      BY <2>3, <3>1 DEF Tick, Success, Error, Poll
    <3>5. ASSUME NEW q \in polls', q \notin polls
          PROVE  q.visit = p.visit /\ Rest(q)' < Rest(p)
      <4>1. CASE Tick(p)
        <5>1. q = [p EXCEPT !.st = "sent", !.tok = stored] /\ p.st = "armed"
          BY <3>5, <4>1 DEF Tick
        <5>2. q.visit = p.visit /\ q.st = "sent" /\ q.tok = stored
          BY <3>1, <5>1 DEF Poll
        <5> QED BY <1>1, <3>1, <5>1, <5>2 DEF Rest
      <4>2. CASE Success(p)
        <5>1. /\ q = [p EXCEPT !.st = "armed"]
              /\ p.st = "sent" /\ p.tok \in valid
          BY <3>5, <4>2 DEF Success, Answered
        <5>2. q.visit = p.visit /\ q.st = "armed"
          BY <3>1, <5>1 DEF Poll
        <5> QED BY <5>1, <5>2 DEF Rest
      <4> QED BY <2>3, <3>5, <4>1, <4>2 DEF Error
    <3>6. Rest(p) \in Nat /\ \A q : Rest(q)' \in Nat
      BY DEF Rest
    <3> QED BY <3>2, <3>3, <3>4, <3>5, <3>6
  <2>4. CASE UNCHANGED <<vars, polls>>
    <3>1. \A p \in polls : Rest(p)' <= Rest(p)
      BY <2>4 DEF Rest, vars, server
    <3> QED BY <2>4, <3>1
  <2>5. ASSUME NEW i \in 1 .. Len(asks), MenuComes(i) \/ MenuLost(i)
        PROVE  UNCHANGED <<vars, polls>>
    BY <2>5 DEF MenuComes, MenuLost, pollVars
  <2> QED BY <1>1, <2>2, <2>3, <2>4, <2>5 DEF DashboardNext, dashboard, pollVars
<1>2. DInv /\ TokensGranted /\ [DashboardNext]_<<vars, dashboard>>
        => [Wanes]_<<vars, dashboard>>
  BY <1>1 DEF Wanes
<1>3. DashboardInit => TokensGranted
  BY DEF DashboardInit, TokensGranted
<1> QED BY <1>2, <1>3, DashboardInitInvariant, DashboardStepInvariant,
           TokensGrantedInvariant, PTL DEF DashboardSpec

(* What the interceptors and the login of Session guarantee they guarantee *)
(* in the whole dashboard, polls and menu included.                        *)
THEOREM SessionKept ==
  DashboardSpec => SessionHasToken /\ SessionEnds /\ LoginLeadsBack
BY SessionBelow, LoggedInHasToken, SessionEndsRightly, LoginLeadsBackRightly
=============================================================================
