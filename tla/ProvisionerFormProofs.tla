------------------------ MODULE ProvisionerFormProofs ------------------------
(***************************************************************************)
(* Proofs about ProvisionerForm for any provisioners, fields and texts,    *)
(* and any number of visits and changes.                                   *)
(***************************************************************************)
EXTENDS ProvisionerForm, TLAPS, SequenceTheorems

\* A save sent to the form of its field.
AtHome(p) == p.prov = TypeOf[p.key]

\* Saves are numbered in the order they are sent; the newest save of a field
\* that is accepted is no longer under way.
Numbered ==
  /\ \A p \in posts : 1 <= p.id /\ p.id <= sends
  /\ \A p, q \in posts : p.id = q.id => p = q
  /\ \A f \in Field : lastServed[f] <= lastSent[f] /\ lastSent[f] <= sends
  /\ \A p \in posts : AtHome(p) =>
       p.id <= lastSent[p.key] /\ p.id # lastServed[p.key]

\* Only a page that is shown has changes, noticed where the field has a
\* listener; a field that was changed has a value, or an input that breaks its
\* pattern.
Shaped ==
  /\ open => type \in FormType
  /\ ~open => edited = {}
  /\ edited \ excused \subseteq watched
  /\ \A f \in edited : text[f] = None => f \in invalid
  /\ \A f \in invalid : text[f] = None

\* The timer of an edit is that of a field of the page.
Own == open /\ timer # None /\ by = "edit" =>
         timer \in edited /\ TypeOf[timer] = type

\* The store has what the server makes of f, or will have.
Held(f) == WillHold(<<type, f>>, Meant(f))

\* f will be saved, its save is on the way, or the store has what it makes of
\* f, or will have, and nothing newer is on the way.
Kept(f) ==
  \/ OnItsWay(f)
  \/ Held(f) /\ lastServed[f] = lastSent[f]

\* A process that is not there has no queue.
DownIsEmpty == server = "down" => queue = <<>>

AllKept == \A f \in Field : Edited(f) => Kept(f)

IInv == TypeOK /\ Numbered /\ Shaped /\ Own /\ SavesOwnField /\ AllKept

-----------------------------------------------------------------------------
(* What the store will hold.                                               *)

LEMMA QueueIndices ==
  ASSUME TypeOK
  PROVE  /\ Len(queue) \in Nat /\ DOMAIN queue = 1 .. Len(queue)
         /\ \A e : Queued(e) \in SUBSET (1 .. Len(queue))
BY LenProperties DEF TypeOK, Queued

\* A write that is accepted will be held, and disturbs no other place.
LEMMA AcceptHolds ==
  ASSUME TypeOK, NEW w \in Bp!Write, queue' = Append(queue, w), db' = db,
         NEW e, NEW v
  PROVE  /\ queue' \in Seq(Bp!Write)
         /\ w.at = e /\ w.data = v => WillHold(e, v)'
         /\ w.at # e /\ WillHold(e, v) => WillHold(e, v)'
<1> DEFINE n == Len(queue)
<1>1. n \in Nat /\ DOMAIN queue = 1 .. n /\ Queued(e) \in SUBSET (1 .. n)
  BY QueueIndices
<1>2. /\ queue' \in Seq(Bp!Write) /\ DOMAIN queue' = 1 .. (n + 1)
      /\ \A k \in 1 .. n : queue'[k] = queue[k]
      /\ queue'[n + 1] = w
  BY AppendProperties, LenProperties DEF TypeOK
<1> HIDE DEF n
<1>3. Queued(e)' = Queued(e) \cup (IF w.at = e THEN {n + 1} ELSE {})
  BY <1>1, <1>2 DEF Queued
<1>4. ASSUME w.at = e, w.data = v PROVE WillHold(e, v)'
  <2>1. n + 1 \in Queued(e)' /\ \A j \in Queued(e)' : j <= n + 1
    BY <1>1, <1>3, <1>4
  <2> QED BY <1>2, <1>4, <2>1 DEF WillHold
<1>5. ASSUME w.at # e, WillHold(e, v) PROVE WillHold(e, v)'
  <2>1. Queued(e)' = Queued(e)
    BY <1>3, <1>5
  <2>2. \A k \in Queued(e) : queue'[k] = queue[k]
    BY <1>1, <1>2
  <2> QED BY <1>5, <2>1, <2>2 DEF WillHold
<1> QED BY <1>2, <1>4, <1>5

\* The oldest write leaves the queue: what is queued after it stays.
LEMMA TailQueued ==
  ASSUME TypeOK, queue # <<>>, queue' = Tail(queue), NEW e
  PROVE  /\ queue' \in Seq(Bp!Write)
         /\ Head(queue) \in Bp!Write
         /\ 1 \in Queued(e) <=> Head(queue).at = e
         /\ \A k \in Queued(e) : k # 1 => /\ k - 1 \in Queued(e)'
                                         /\ queue'[k - 1] = queue[k]
         /\ \A k \in Queued(e)' : k + 1 \in Queued(e)
<1> DEFINE n == Len(queue)
<1>1. n \in Nat /\ n >= 1 /\ DOMAIN queue = 1 .. n /\ Queued(e) \in SUBSET (1 .. n)
  BY QueueIndices, EmptySeq DEF TypeOK
<1>2. /\ queue' \in Seq(Bp!Write) /\ DOMAIN queue' = 1 .. (n - 1)
      /\ \A k \in 1 .. (n - 1) : queue'[k] = queue[k + 1]
      /\ Head(queue) = queue[1] /\ queue[1] \in Bp!Write
  BY <1>1, HeadTailProperties, LenProperties, ElementOfSeq DEF TypeOK
<1> HIDE DEF n
<1>3. ASSUME NEW k \in Queued(e), k # 1
      PROVE  k - 1 \in Queued(e)' /\ queue'[k - 1] = queue[k]
  <2>1. k - 1 \in 1 .. (n - 1) /\ (k - 1) + 1 = k
    BY <1>1, <1>3
  <2> QED BY <1>2, <2>1 DEF Queued
<1>4. \A k \in Queued(e)' : k + 1 \in Queued(e)
  BY <1>1, <1>2 DEF Queued
<1>5. 1 \in Queued(e) <=> Head(queue).at = e
  BY <1>1, <1>2 DEF Queued
<1> QED BY <1>2, <1>3, <1>4, <1>5

\* A place holds on to its value when the oldest write is settled, and when it
\* is dropped unless it is the only one for the place.
LEMMA TailHolds ==
  ASSUME TypeOK, queue # <<>>, queue' = Tail(queue),
         NEW e \in Place, NEW v, WillHold(e, v),
         \/ db' = Bp!Settled(db, Head(queue))
         \/ db' = db /\ Queued(e) # {1}
  PROVE  WillHold(e, v)'
<1>1. Head(queue) \in Bp!Write /\ (1 \in Queued(e) <=> Head(queue).at = e)
  BY TailQueued
<1>2. \A k \in Queued(e) : k # 1 => k - 1 \in Queued(e)' /\ queue'[k - 1] = queue[k]
  BY TailQueued
<1>3. \A k \in Queued(e)' : k + 1 \in Queued(e)
  BY TailQueued
<1>4. Queued(e) \in SUBSET Nat /\ Queued(e)' \in SUBSET Nat /\ 0 \notin Queued(e)'
  <2>1. queue' \in Seq(Bp!Write)
    BY TailQueued
  <2>2. DOMAIN queue' = 1 .. Len(queue') /\ Len(queue') \in Nat
    BY <2>1, LenProperties
  <2> QED BY <2>2, QueueIndices DEF Queued
<1>5. CASE Queued(e) = {}
  <2>1. Queued(e)' = {} /\ db[e] = v
    BY <1>3, <1>5 DEF WillHold
  <2>2. db'[e] = db[e]
    BY <1>1, <1>5 DEF Bp!Settled, Bp!Write, TypeOK
  <2> QED BY <2>1, <2>2 DEF WillHold
<1>6. CASE Queued(e) # {}
  <2>1. PICK k \in Queued(e) : queue[k].data = v /\ \A j \in Queued(e) : j <= k
    BY <1>6 DEF WillHold
  <2>2. CASE k # 1
    <3>1. k - 1 \in Queued(e)' /\ queue'[k - 1].data = v
      BY <1>2, <2>1, <2>2
    <3>2. \A j \in Queued(e)' : j <= k - 1
      BY <1>3, <1>4, <2>1
    <3> QED BY <3>1, <3>2 DEF WillHold
  <2>3. CASE k = 1
    <3>1. Queued(e) = {1}
      <4>1. \A j \in Queued(e) : j >= 1
        BY QueueIndices
      <4> QED BY <1>4, <2>1, <2>3, <4>1
    <3>2. Queued(e)' = {}
      <4>1. \A j \in Queued(e)' : j + 1 = 1 /\ j \in Nat
        BY <1>3, <1>4, <3>1
      <4> QED BY <1>4, <4>1
    <3>3. Head(queue) = queue[1] /\ Head(queue).at = e
      BY <1>1, <3>1
    <3>4. db'[e] = v
      BY <1>1, <2>1, <2>3, <3>1, <3>3 DEF Bp!Settled, Bp!Write, TypeOK
    <3> QED BY <3>2, <3>4 DEF WillHold
  <2> QED BY <2>2, <2>3
<1> QED BY <1>5, <1>6

\* A store that is settled once has the type it had.
LEMMA SettledType ==
  ASSUME TypeOK, queue # <<>>
  PROVE  /\ Bp!Settled(db, Head(queue)) \in [Place -> Text]
         /\ \A e \in Place : Queued(e) = {} => Bp!Settled(db, Head(queue))[e] = db[e]
<1>1. /\ Len(queue) \in Nat /\ 1 \in DOMAIN queue
      /\ Head(queue) = queue[1] /\ Head(queue) \in Bp!Write
  BY HeadTailProperties, EmptySeq, LenProperties, ElementOfSeq DEF TypeOK
<1>2. \A e : Queued(e) = {} => Head(queue).at # e
  BY <1>1 DEF Queued
<1> QED BY <1>1, <1>2 DEF Bp!Settled, Bp!Write, TypeOK

LEMMA HoldsSame ==
  ASSUME UNCHANGED <<db, queue>>
  PROVE  \A e, v : WillHold(e, v)' <=> WillHold(e, v)
BY DEF WillHold, Queued

\* What f means depends on its text and the page.
LEMMA MeantSame ==
  ASSUME NEW f, text'[f] = text[f], type' = type
  PROVE  Meant(f)' = Meant(f)
BY DEF Meant

\* A field whose text and store stay is held as before.
LEMMA HeldSame ==
  ASSUME NEW f, text'[f] = text[f], UNCHANGED <<type, db, queue>>, Held(f)
  PROVE  Held(f)'
BY DEF Held, WillHold, Queued, Meant

\* What will hold for a place and a value will do so for those of f.
LEMMA HeldNow ==
  ASSUME NEW f, text'[f] = text[f], type' = type,
         NEW e, NEW v, e = <<type, f>>, v = Meant(f), WillHold(e, v)'
  PROVE  Held(f)'
BY DEF Held, WillHold, Queued, Meant

-----------------------------------------------------------------------------
LEMMA InitInvariant == Init => IInv
<1> SUFFICES ASSUME Init PROVE IInv
  OBVIOUS
<1> USE FormAssumption DEF Init
<1>1. TypeOK
  <2>1. queue \in Seq(Bp!Write)
    OBVIOUS
  <2>2. db \in [Place -> Text]
    BY DEF Place
  <2> QED BY <2>1, <2>2 DEF TypeOK
<1>2. Numbered
  BY DEF Numbered
<1>3. Shaped /\ Own /\ SavesOwnField /\ AllKept
  BY DEF Shaped, Own, SavesOwnField, AllKept, Edited
<1> QED BY <1>1, <1>2, <1>3 DEF IInv

LEMMA EnterKeeps ==
  ASSUME IInv, NEW t \in FormType, Enter(t)
  PROVE  IInv'
<1> USE FormAssumption DEF IInv, Enter, bpVars
<1> DEFINE g == [id |-> visits + 1, type |-> t, st |-> "sent",
                 data |-> [f \in Field |-> Empty]]
<1>1. g \in Gets
  BY DEF Gets, TypeOK
<1> HIDE DEF g
<1>2. gets' = gets \cup {g}
  BY DEF g
<1>3. TypeOK'
  <2>1. text' \in [Field -> Text \cup {None}] /\ gets' \subseteq Gets
    BY <1>1, <1>2 DEF TypeOK
  <2>2. visits' \in Nat /\ type' \in FormType \cup {None}
    BY DEF TypeOK
  <2> QED BY <2>1, <2>2 DEF TypeOK
<1>4. Numbered'
  BY DEF Numbered, AtHome
<1>5. Shaped' /\ Own' /\ SavesOwnField' /\ AllKept'
  BY DEF Shaped, Own, SavesOwnField, AllKept, Edited
<1> QED BY <1>3, <1>4, <1>5

LEMMA LeaveKeeps ==
  ASSUME IInv, Leave
  PROVE  IInv'
<1> USE FormAssumption DEF IInv, Leave, counts, bpVars
<1>1. TypeOK'
  BY DEF TypeOK
<1>2. Numbered'
  BY DEF Numbered, AtHome
<1>3. Shaped' /\ Own' /\ SavesOwnField' /\ AllKept'
  BY DEF Shaped, Own, SavesOwnField, AllKept, Edited
<1> QED BY <1>1, <1>2, <1>3

\* The user changes a field, to a text or to what is no text.
LEMMA EditKeeps ==
  ASSUME IInv, NEW f \in Field, NEW v \in Text \cup {None},
         open, TypeOf[f] = type,
         text' = [text EXCEPT ![f] = v],
         \/ v # None /\ invalid' = invalid \ {f} /\ Changed(f)
         \/ v = None /\ invalid' = invalid \cup {f} /\ Changed(f)
         \/ /\ v = None /\ invalid' = invalid \cup {f} /\ text[f] = None
            /\ UNCHANGED <<timer, by, edited, excused>>,
         edits' = edits + 1,
         UNCHANGED <<type, open, watched, gets, posts, bpVars, visits,
                     sends, faults, lastSent, lastServed>>
  PROVE  IInv'
<1> USE FormAssumption DEF IInv
<1>1. \/ f \in watched /\ timer' = f /\ by' = "edit" /\ edited' = edited \cup {f}
         /\ excused' = (excused \cup Displaced(f)) \ {f}
      \/ /\ UNCHANGED <<timer, by>>
         /\ edited' = edited \cup {f} /\ excused' = excused \cup {f}
      \/ /\ v = None /\ f \in invalid'
         /\ UNCHANGED <<timer, by, edited, excused>>
  BY DEF Changed, DebounceUpdate
<1>2. Displaced(f) \subseteq Field
  BY DEF Displaced, TypeOK
<1>3. TypeOK'
  BY <1>1, <1>2 DEF TypeOK, bpVars
<1>4. Numbered'
  BY DEF Numbered, AtHome
<1>5. Shaped'
  BY <1>1 DEF Shaped, TypeOK
<1>6. Own' /\ SavesOwnField'
  BY <1>1 DEF Own, SavesOwnField
<1>7. ASSUME NEW h \in Field, Edited(h)' PROVE Kept(h)'
  <2>1. CASE h = f
    BY <1>1, <1>7, <2>1 DEF Edited, Kept, OnItsWay, Shaped
  <2>2. CASE h # f
    <3>1. h \in invalid' <=> h \in invalid
      BY <2>2
    <3>2. Edited(h) /\ (timer' = timer \/ timer # h)
      <4>1. CASE timer' = f
        BY <1>1, <1>7, <2>2, <3>1, <4>1 DEF Edited, Displaced
      <4>2. CASE timer' = timer
        BY <1>1, <1>7, <2>2, <3>1, <4>2 DEF Edited
      <4> QED BY <1>1, <4>1, <4>2
    <3>3. text'[h] = text[h]
      BY <2>2 DEF TypeOK
    <3>4. Held(h) => Held(h)'
      BY <3>3, HeldSame DEF bpVars
    <3> QED BY <3>2, <3>3, <3>4 DEF AllKept, Kept, OnItsWay
  <2> QED BY <2>1, <2>2
<1> QED BY <1>3, <1>4, <1>5, <1>6, <1>7 DEF AllKept

LEMMA TypesKeep ==
  ASSUME IInv, NEW f \in Field,
         TypeInvalid(f) \/ \E v \in Text : TypeText(f, v)
  PROVE  IInv'
<1>1. CASE TypeInvalid(f)
  BY <1>1, EditKeeps DEF TypeInvalid
<1>2. ASSUME NEW v \in Text, TypeText(f, v) PROVE IInv'
  BY <1>2, FormAssumption, EditKeeps DEF TypeText
<1> QED BY <1>1, <1>2

\* The timer fires.
LEMMA SaveUpdatesKeeps ==
  ASSUME IInv, SaveUpdates
  PROVE  IInv'
<1> USE FormAssumption DEF IInv
<1>1. /\ timer \in Field /\ timer' = None
      /\ UNCHANGED <<type, open, text, watched, invalid, gets, bpVars,
                     visits, edits, faults, by, edited, lastServed>>
  BY DEF SaveUpdates, TypeOK
<1>0. \A f \in Field : Held(f) => Held(f)'
  BY <1>1, HeldSame DEF bpVars
<1>2. CASE ~FormValid
  <2>1. /\ excused' = excused \cup {timer}
        /\ UNCHANGED <<sends, posts, lastSent>>
    BY <1>2 DEF SaveUpdates
  <2>2. TypeOK'
    BY <1>1, <2>1 DEF TypeOK, bpVars
  <2>3. Numbered' /\ Shaped' /\ Own' /\ SavesOwnField'
    BY <1>1, <2>1 DEF Numbered, AtHome, Shaped, Own, SavesOwnField
  <2>4. AllKept'
    BY <1>0, <1>1, <2>1 DEF AllKept, Edited, Kept, OnItsWay
  <2> QED BY <2>2, <2>3, <2>4
<1>3. CASE FormValid
  <2> DEFINE n == sends + 1
             p == [id |-> n, prov |-> type, key |-> timer,
                   value |-> text[timer], by |-> by]
  <2>1. /\ sends' = n /\ posts' = posts \cup {p} /\ UNCHANGED excused
        /\ lastSent' = IF TypeOf[timer] = type
                       THEN [lastSent EXCEPT ![timer] = n] ELSE lastSent
    BY <1>3 DEF SaveUpdates
  <2>2. /\ n \in Nat /\ n > sends /\ n >= 1
        /\ \A f \in Field : lastSent[f] < n /\ lastServed[f] < n
        /\ \A q \in posts : q.id < n
    BY DEF TypeOK, Numbered, Posts
  <2>3. /\ p \in Posts /\ p.id = n /\ p.prov = type /\ p.key = timer
        /\ p.value = text[timer] /\ p.by = by
    BY <1>1, <1>3, <2>2 DEF Posts, TypeOK, FormValid, Shaped
  <2> HIDE DEF n, p
  <2>4. TypeOK'
    BY <1>1, <2>1, <2>2, <2>3 DEF TypeOK, bpVars
  <2>5. Shaped' /\ Own'
    BY <1>1, <2>1 DEF Shaped, Own
  <2>6. SavesOwnField'
    <3>1. p.by = "edit" => TypeOf[p.key] = p.prov /\ p.value # None
      BY <1>1, <1>3, <2>3 DEF FormValid, Own, Shaped
    <3> QED BY <2>1, <3>1 DEF SavesOwnField
  <2>7. \A f \in Field : /\ lastSent'[f] \in {lastSent[f], n}
                         /\ f # timer => lastSent'[f] = lastSent[f]
    BY <2>1 DEF TypeOK
  <2>8. TypeOf[timer] = type => lastSent'[timer] = n
    BY <1>1, <2>1 DEF TypeOK
  <2>9. Numbered'
    <3>1. \A q \in posts' : 1 <= q.id /\ q.id <= sends'
      BY <2>1, <2>2, <2>3 DEF Numbered, TypeOK, Posts
    <3>2. \A q, r \in posts' : q.id = r.id => q = r
      BY <2>1, <2>2, <2>3 DEF Numbered, TypeOK, Posts
    <3>3. \A f \in Field : /\ lastServed'[f] <= lastSent'[f]
                           /\ lastSent'[f] <= sends'
      BY <1>1, <2>1, <2>2, <2>7 DEF Numbered, TypeOK
    <3>4. ASSUME NEW q \in posts', AtHome(q)
          PROVE  /\ q.id <= lastSent'[q.key]
                 /\ q.id # lastServed'[q.key]
      <4>1. CASE q = p
        BY <1>1, <2>2, <2>3, <2>8, <3>4, <4>1 DEF AtHome
      <4>2. CASE q \in posts
        <5>1. q.key \in Field /\ q.id \in Nat /\ q.id < n
          BY <2>2, <4>2 DEF TypeOK, Posts
        <5>2. q.id <= lastSent[q.key] /\ q.id # lastServed[q.key]
          BY <3>4, <4>2 DEF Numbered
        <5> QED BY <1>1, <2>2, <2>7, <5>1, <5>2
      <4> QED BY <2>1, <4>1, <4>2
    <3> QED BY <3>1, <3>2, <3>3, <3>4 DEF Numbered, AtHome
  <2>10. ASSUME NEW f \in Field, Edited(f)' PROVE Kept(f)'
    <3>1. Edited(f) /\ Kept(f)
      BY <1>1, <2>1, <2>10 DEF Edited, AllKept
    <3>2. CASE f = timer
      <4>1. TypeOf[timer] = type
        BY <3>1, <3>2 DEF Edited
      <4>2. p \in posts' /\ p.id = lastSent'[f]
        BY <2>1, <2>3, <2>8, <3>2, <4>1
      <4> QED BY <1>1, <2>3, <3>2, <4>2 DEF Kept, OnItsWay
    <3>3. CASE f # timer
      BY <1>0, <1>1, <2>1, <2>7, <3>1, <3>3 DEF Kept, OnItsWay
    <3> QED BY <3>2, <3>3
  <2> QED BY <2>4, <2>5, <2>6, <2>9, <2>10 DEF AllKept
<1> QED BY <1>2, <1>3

-----------------------------------------------------------------------------
\* A save that ends leaves the others as they were.
LEMMA PostEnds ==
  ASSUME IInv, NEW p \in posts, posts' = posts \ {p},
         UNCHANGED <<form, sends, by, edited, lastSent>>, excused \subseteq excused',
         \A f \in Field : \/ lastServed'[f] = lastServed[f]
                          \/ AtHome(p) /\ f = p.key /\ lastServed'[f] = p.id
  PROVE  Numbered' /\ Shaped' /\ Own' /\ SavesOwnField'
<1>1. \A f \in Field : lastServed'[f] <= lastSent[f] /\ lastSent[f] <= sends
  BY DEF IInv, Numbered
<1>2. \A r \in posts' : AtHome(r) => r.id <= lastSent[r.key] /\ r.id # lastServed'[r.key]
  BY DEF IInv, Numbered, TypeOK, Posts
<1>3. Numbered'
  BY <1>1, <1>2 DEF IInv, Numbered, AtHome
<1>4. Shaped' /\ Own' /\ SavesOwnField'
  BY DEF IInv, Shaped, Own, SavesOwnField, form
<1> QED BY <1>3, <1>4

\* A save reaches the store.
LEMMA StoresKeeps ==
  ASSUME IInv, NEW p \in posts, Stores(p)
  PROVE  IInv'
<1> USE FormAssumption DEF IInv
<1> DEFINE w == [at |-> <<p.prov, p.key>>, data |-> Prepared(p)]
<1>1. p \in Posts /\ p.key \in Field /\ p.prov \in FormType /\ p.id \in Nat
  BY DEF TypeOK, Posts
<1>2. Received(p) \in Text /\ (p.value # None => Received(p) = p.value)
  BY <1>1 DEF Received, Posts
<1>3. w \in Bp!Write /\ w.at = <<p.prov, p.key>> /\ w.data = Prepared(p)
  BY <1>1, <1>2 DEF Prepared, Bp!Write, Place
<1>4. /\ posts' = posts \ {p}
      /\ queue' = Append(queue, w) /\ UNCHANGED <<db, jammed, server>>
      /\ UNCHANGED <<form, gets, counts, by, edited, lastSent>>
  BY DEF Stores, Bp!Accept
<1> HIDE DEF w
<1>5. \/ ~AtHome(p) /\ UNCHANGED <<excused, lastServed>>
      \/ /\ AtHome(p) /\ p.id < lastServed[p.key]
         /\ excused' = excused \cup {p.key} /\ UNCHANGED lastServed
      \/ /\ AtHome(p) /\ p.id >= lastServed[p.key]
         /\ lastServed' = [lastServed EXCEPT ![p.key] = p.id]
         /\ UNCHANGED excused
  BY <1>1 DEF Stores, AtHome, TypeOK
<1>6. TypeOK'
  <2>1. queue' \in Seq(Bp!Write)
    BY <1>3, <1>4, AcceptHolds
  <2> QED BY <1>1, <1>4, <1>5, <2>1 DEF TypeOK, form, counts
<1>7. Numbered' /\ Shaped' /\ Own' /\ SavesOwnField'
  <2>1. \A f \in Field : \/ lastServed'[f] = lastServed[f]
                         \/ AtHome(p) /\ f = p.key /\ lastServed'[f] = p.id
    BY <1>1, <1>5 DEF TypeOK
  <2> QED BY <1>4, <1>5, <2>1, PostEnds DEF counts
<1>8. ASSUME NEW f \in Field, Edited(f)' PROVE Kept(f)'
  <2>1. Edited(f) /\ Kept(f) /\ text[f] # None /\ type \in FormType
    BY <1>4, <1>5, <1>8 DEF Edited, AllKept, Shaped, form
  <2>2. UNCHANGED <<type, text, timer, lastSent>> /\ Meant(f)' = Meant(f)
    BY <1>4, MeantSame DEF form
  <2>3. CASE p.key = f /\ p.prov = type
    <3>1. AtHome(p) /\ p.key \notin excused'
      BY <1>8, <2>1, <2>3 DEF AtHome, Edited
    <3>2. p.id >= lastServed[f] /\ lastServed'[f] = p.id
      BY <1>1, <1>5, <2>3, <3>1 DEF TypeOK
    <3>3. p.id <= lastSent[f] /\ p.id # lastServed[f]
      BY <1>1, <2>3, <3>1 DEF Numbered
    <3>4. CASE lastSent[f] = p.id
      <4>1. CASE \E r \in posts : /\ r.id = lastSent[f]
                                 /\ r.prov = type /\ r.key = f /\ r.value = text[f]
        <5>1. p.value = text[f]
          BY <3>4, <4>1 DEF Numbered
        <5>2. Prepared(p) = Meant(f)
          BY <1>2, <2>1, <2>3, <5>1 DEF Prepared, Meant
        <5>3. Held(f)'
          <6>1. w.at = <<type, f>> /\ w.data = Meant(f)
            BY <1>3, <2>3, <5>2
          <6>2. \A e, v : w.at = e /\ w.data = v => WillHold(e, v)'
            BY <1>3, <1>4, AcceptHolds
          <6> QED BY <2>2, <6>1, <6>2, HeldNow
        <5> QED BY <2>2, <3>2, <3>4, <5>3 DEF Kept
      <4>2. CASE timer = f
        BY <2>2, <4>2 DEF Kept, OnItsWay
      <4>3. CASE lastServed[f] = lastSent[f]
        BY <3>3, <3>4, <4>3
      <4> QED BY <2>1, <4>1, <4>2, <4>3 DEF Kept, OnItsWay
    <3>5. CASE lastSent[f] # p.id
      <4>1. lastServed[f] # lastSent[f]
        BY <1>1, <3>2, <3>3, <3>5 DEF TypeOK
      <4>2. OnItsWay(f)
        BY <2>1, <4>1 DEF Kept
      <4> QED BY <1>4, <2>2, <3>5, <4>2 DEF Kept, OnItsWay
    <3> QED BY <3>4, <3>5
  <2>4. CASE ~(p.key = f /\ p.prov = type)
    <3>1. w.at # <<type, f>>
      BY <1>3, <2>4
    <3>2. Held(f) => Held(f)'
      <4>1. \A e, v : w.at # e /\ WillHold(e, v) => WillHold(e, v)'
        BY <1>3, <1>4, AcceptHolds
      <4>2. Held(f) => WillHold(<<type, f>>, Meant(f))
        BY DEF Held
      <4> QED BY <2>2, <3>1, <4>1, <4>2, HeldNow
    <3>3. lastServed'[f] = lastServed[f]
      BY <1>1, <1>5, <2>1, <2>4 DEF TypeOK, AtHome, Edited
    <3>4. OnItsWay(f) => OnItsWay(f)'
      BY <1>4, <2>2, <2>4 DEF OnItsWay
    <3> QED BY <2>1, <2>2, <3>2, <3>3, <3>4 DEF Kept
  <2> QED BY <2>3, <2>4
<1> QED BY <1>6, <1>7, <1>8 DEF AllKept

\* A save that fails at the server.
LEMMA RefusesKeeps ==
  ASSUME IInv, NEW p \in posts, Refuses(p)
  PROVE  IInv'
<1> USE FormAssumption DEF IInv
<1>1. p \in Posts /\ p.key \in Field
  BY DEF TypeOK, Posts
<1>2. /\ posts' = posts \ {p}
      /\ excused' = IF p.id = lastSent[p.key] THEN excused \cup {p.key}
                                              ELSE excused
      /\ UNCHANGED <<form, gets, bpVars, counts, by, edited, lastSent, lastServed>>
  BY DEF Refuses
<1>3. TypeOK'
  BY <1>1, <1>2 DEF TypeOK, form, counts, bpVars
<1>4. Numbered' /\ Shaped' /\ Own' /\ SavesOwnField'
  BY <1>2, PostEnds DEF counts
<1>5. ASSUME NEW f \in Field, Edited(f)' PROVE Kept(f)'
  <2>1. Edited(f) /\ Kept(f)
    BY <1>2, <1>5 DEF Edited, AllKept, form
  <2>2. UNCHANGED <<type, text, timer, lastSent, lastServed>>
        /\ (Held(f) => Held(f)')
    BY <1>2, HeldSame DEF form, bpVars
  <2>3. p.key = f => p.id # lastSent[f]
    BY <1>2, <1>5 DEF Edited
  <2> QED BY <1>2, <2>1, <2>2, <2>3 DEF Kept, OnItsWay
<1> QED BY <1>3, <1>4, <1>5 DEF AllKept

\* Steps behind the page: what is held stays, but for fields that lose their
\* newest save and are excused.
LEMMA BehindKeeps ==
  ASSUME IInv, Behind, faults' \in Nat, excused \subseteq excused', excused' \subseteq Field,
         db' \in [Place -> Text], queue' \in Seq(Bp!Write), jammed' \in BOOLEAN,
         server' \in {"up", "closing", "down"},
         \A f \in Field, v \in Text :
           timer # f /\ lastServed[f] = lastSent[f] /\ f \notin excused'
             /\ WillHold(<<TypeOf[f], f>>, v) => WillHold(<<TypeOf[f], f>>, v)'
  PROVE  IInv'
<1> USE FormAssumption DEF IInv, Behind, form
<1>1. TypeOK'
  BY DEF TypeOK
<1>2. Numbered' /\ Shaped' /\ Own' /\ SavesOwnField'
  BY DEF Numbered, AtHome, Shaped, Own, SavesOwnField
<1>3. ASSUME NEW f \in Field, Edited(f)' PROVE Kept(f)'
  <2>1. Edited(f) /\ Kept(f) /\ type = TypeOf[f] /\ type \in FormType
    BY <1>3 DEF Edited, AllKept, Shaped
  <2>2. CASE OnItsWay(f)
    BY <2>2 DEF Kept, OnItsWay
  <2>3. CASE ~OnItsWay(f)
    <3>1. /\ WillHold(<<type, f>>, Meant(f)) /\ lastServed[f] = lastSent[f]
          /\ timer # f /\ f \notin excused'
      BY <1>3, <2>1, <2>3 DEF Kept, Held, OnItsWay, Edited
    <3>2. Meant(f) \in Text
      BY <2>1 DEF Meant, TypeOK
    <3>3. Held(f)'
      BY <2>1, <3>1, <3>2, HeldNow
    <3> QED BY <3>1, <3>3 DEF Kept
  <2> QED BY <2>2, <2>3
<1> QED BY <1>1, <1>2, <1>3 DEF AllKept

LEMMA WriterKeeps ==
  ASSUME IInv, Writer
  PROVE  IInv'
<1> USE FormAssumption DEF IInv
<1>1. /\ queue # <<>> /\ queue' = Tail(queue) /\ jammed' = jammed
      /\ server' = server /\ Behind
  BY DEF Writer, Bp!Settle, Bp!Drop
<1>2. faults' \in Nat
  BY DEF Writer, Faulty, TypeOK
<1>3. queue' \in Seq(Bp!Write)
  BY <1>1, TailQueued
<1>4. \A f \in Field : <<TypeOf[f], f>> \in Place
  BY DEF Place
<1>5. CASE db' = Bp!Settled(db, Head(queue)) /\ excused' = excused
  <2>1. db' \in [Place -> Text]
    BY <1>1, <1>5, SettledType
  <2>2. \A f \in Field, v \in Text :
          WillHold(<<TypeOf[f], f>>, v) => WillHold(<<TypeOf[f], f>>, v)'
    BY <1>1, <1>4, <1>5, TailHolds
  <2> QED BY <1>1, <1>2, <1>3, <1>5, <2>1, <2>2, BehindKeeps DEF TypeOK
<1>6. CASE /\ db' = db
           /\ Loses({f \in Field : Queued(<<TypeOf[f], f>>) = {1}})
  <2>1. excused \subseteq excused' /\ excused' \subseteq Field
    BY <1>6 DEF Loses, TypeOK
  <2>2. ASSUME NEW f \in Field, NEW v \in Text, timer # f,
               lastServed[f] = lastSent[f], f \notin excused',
               WillHold(<<TypeOf[f], f>>, v)
        PROVE  WillHold(<<TypeOf[f], f>>, v)'
    <3>1. Queued(<<TypeOf[f], f>>) # {1}
      BY <1>6, <2>2 DEF Loses
    <3> QED BY <1>1, <1>4, <1>6, <2>2, <3>1, TailHolds
  <2> QED BY <1>1, <1>2, <1>3, <1>6, <2>1, <2>2, BehindKeeps DEF TypeOK
<1> QED BY <1>5, <1>6 DEF Writer, Bp!Settle, Bp!Drop

\* The server: it jams, is closed, ends and starts again.
LEMMA ServerKeeps ==
  ASSUME IInv, DownIsEmpty, Jam \/ CloseDb \/ Halt \/ Start
  PROVE  IInv'
<1> USE FormAssumption DEF IInv
<1>1. CASE Jam \/ CloseDb
  <2>1. /\ UNCHANGED <<db, queue, excused>> /\ jammed' \in BOOLEAN
        /\ server' \in {server, "closing"} /\ Behind /\ faults' = faults + 1
    BY <1>1 DEF Jam, CloseDb, Bp!Jam, Bp!Shut, Faulty, TypeOK
  <2> QED BY <2>1, HoldsSame, BehindKeeps DEF TypeOK
<1>2. CASE Halt
  <2>1. /\ queue' = <<>> /\ jammed' = FALSE /\ server' = "down"
        /\ Behind /\ faults' \in Nat
        /\ Loses({f \in Field : Queued(<<TypeOf[f], f>>) # {}})
        /\ db' = db \/ (queue # <<>> /\ db' = Bp!Settled(db, Head(queue)))
    BY <1>2 DEF Halt, Bp!Die, Faulty, TypeOK
  <2>2. /\ db' \in [Place -> Text]
        /\ \A e \in Place : Queued(e) = {} => db'[e] = db[e]
    BY <2>1, SettledType DEF TypeOK
  <2>3. excused \subseteq excused' /\ excused' \subseteq Field
    BY <2>1 DEF Loses, TypeOK
  <2>4. ASSUME NEW f \in Field, NEW v \in Text, timer # f,
               lastServed[f] = lastSent[f], f \notin excused',
               WillHold(<<TypeOf[f], f>>, v)
        PROVE  WillHold(<<TypeOf[f], f>>, v)'
    <3>1. Queued(<<TypeOf[f], f>>) = {}
      BY <2>1, <2>4 DEF Loses
    <3>2. db'[<<TypeOf[f], f>>] = v
      BY <2>2, <2>4, <3>1 DEF WillHold, Place
    <3>3. Queued(<<TypeOf[f], f>>)' = {}
      BY <2>1 DEF Queued
    <3> QED BY <3>2, <3>3 DEF WillHold
  <2>5. queue' \in Seq(Bp!Write)
    BY <2>1
  <2> QED BY <2>1, <2>2, <2>3, <2>4, <2>5, BehindKeeps
<1>3. CASE Start
  <2>1. /\ queue' = <<>> /\ UNCHANGED <<db, excused, faults>>
        /\ jammed' = FALSE /\ server' = "up" /\ Behind
    BY <1>3 DEF Start, Bp!Reopen
  <2>2. queue = <<>>
    BY <1>3 DEF Start, DownIsEmpty
  <2> QED BY <2>1, <2>2, HoldsSame, BehindKeeps DEF TypeOK
<1> QED BY <1>1, <1>2, <1>3

\* Requests for a form that do not fill it yet.
LEMMA OtherStepsKeep ==
  ASSUME IInv, gets' \subseteq Gets, faults' \in Nat,
         UNCHANGED <<form, posts, bpVars, visits, edits, sends, hist>>
  PROVE  IInv'
<1> USE DEF form, hist, bpVars
<1>1. TypeOK'
  BY DEF IInv, TypeOK
<1>2. Numbered' /\ Shaped' /\ Own' /\ SavesOwnField'
  BY DEF IInv, Numbered, AtHome, Shaped, Own, SavesOwnField
<1>3. \A f \in Field : Kept(f) => Kept(f)'
  BY HeldSame DEF Kept, OnItsWay
<1>4. AllKept'
  BY <1>3 DEF IInv, AllKept, Edited
<1> QED BY <1>1, <1>2, <1>4 DEF IInv

\* The answer fills the form.
LEMMA FillsKeeps ==
  ASSUME IInv, NEW g \in gets, Fills(g)
  PROVE  IInv'
<1> USE FormAssumption DEF IInv
<1> DEFINE fill    == Filled(g)
           changed == {f \in fill \cap watched : g.data[f] # text[f]}
<1>1. g \in Gets /\ g.data \in [Field -> Text]
  BY DEF TypeOK, Gets
<1>2. /\ fill \subseteq Field /\ changed \subseteq fill \cap watched
      /\ \A f \in fill : text[f] \in {None, Empty}
  BY DEF Filled, FieldsOf
<1>3. /\ gets' = gets \ {g}
      /\ text' = [f \in Field |-> IF f \in fill THEN g.data[f] ELSE text[f]]
      /\ watched' = IF open THEN watched \cup fill ELSE watched
      /\ invalid' = invalid \ fill
      /\ UNCHANGED <<type, open, posts, bpVars, counts, edited, lastSent,
                     lastServed>>
  BY DEF Fills
<1>4. \/ changed = {} /\ UNCHANGED <<timer, by, excused>>
      \/ \E f \in changed :
           /\ timer' = f /\ by' = "answer"
           /\ excused' = (excused \cup changed \cup Displaced(f)) \ {f}
  BY DEF Fills, DebounceUpdate
<1>5. \A f \in fill \cap watched : f \notin changed => text'[f] = text[f]
  BY <1>2, <1>3
<1>6. \A f \in Field : /\ f \notin fill => text'[f] = text[f]
                       /\ f \in fill => text'[f] \in Text
  BY <1>1, <1>3
<1> HIDE DEF fill, changed
<1>7. /\ timer' \in Field \cup {None} /\ by' \in {"edit", "answer", "before"}
      /\ excused' \subseteq Field
  BY <1>2, <1>4 DEF Displaced, TypeOK
<1>8. TypeOK'
  <2>1. text' \in [Field -> Text \cup {None}]
    BY <1>1, <1>3 DEF TypeOK
  <2>2. /\ watched' \subseteq Field
        /\ invalid' \subseteq Field /\ gets' \subseteq Gets
    BY <1>2, <1>3 DEF TypeOK
  <2> QED BY <1>3, <1>7, <2>1, <2>2 DEF TypeOK, counts, bpVars
<1>9. Numbered' /\ SavesOwnField'
  BY <1>3 DEF Numbered, AtHome, SavesOwnField, counts
<1>10. Shaped'
  <2>1. \A f \in edited : text'[f] = None => f \notin fill /\ f \in invalid
    BY <1>6 DEF Shaped, TypeOK
  <2>2. \A f \in invalid' : text'[f] = None
    BY <1>3, <1>6 DEF Shaped, TypeOK
  <2>3. edited \ excused' \subseteq watched
    BY <1>2, <1>4 DEF Shaped
  <2> QED BY <1>3, <2>1, <2>2, <2>3 DEF Shaped
<1>11. Own'
  BY <1>3, <1>4 DEF Own
<1>12. ASSUME NEW f \in Field, Edited(f)' PROVE Kept(f)'
  <2>1. /\ open /\ TypeOf[f] = type /\ f \in edited
        /\ f \notin excused' /\ f \notin invalid'
    BY <1>3, <1>12 DEF Edited
  <2>2. CASE timer' = f
    BY <2>2 DEF Kept, OnItsWay
  <2>3. CASE timer' # f
    <3>1. f \notin changed /\ f \notin excused /\ (timer = f => timer' = timer)
      BY <1>4, <2>1, <2>3 DEF Displaced
    <3>2. text'[f] = text[f]
      BY <1>5, <1>6, <2>1, <3>1 DEF Shaped
    <3>3. f \notin invalid
      BY <1>3, <1>6, <2>1, <3>2, FormAssumption DEF Shaped
    <3>4. Kept(f)
      BY <2>1, <3>1, <3>3 DEF AllKept, Edited
    <3>5. Held(f) => Held(f)'
      BY <1>3, <3>2, HeldSame DEF bpVars
    <3> QED BY <1>3, <3>1, <3>2, <3>4, <3>5 DEF Kept, OnItsWay
  <2> QED BY <2>2, <2>3
<1> QED BY <1>8, <1>9, <1>10, <1>11, <1>12 DEF AllKept

LEMMA DownStaysEmpty == DownIsEmpty /\ [Next]_vars => DownIsEmpty'
<1> USE DEF DownIsEmpty
<1>1. DownIsEmpty /\ UNCHANGED bpVars => DownIsEmpty'
  BY DEF bpVars
<1>2. \A p \in posts : Stores(p) => DownIsEmpty'
  BY DEF Stores
<1>3. DownIsEmpty /\ (Writer \/ Jam \/ CloseDb \/ Halt \/ Start) => DownIsEmpty'
  BY DEF Writer, Jam, CloseDb, Halt, Start, Bp!Settle, Bp!Drop, Bp!Jam, Bp!Shut,
         Bp!Die, Bp!Reopen
<1>4. Next => \/ UNCHANGED bpVars
              \/ \E p \in posts : Stores(p)
              \/ Writer \/ Jam \/ CloseDb \/ Halt \/ Start
  BY DEF Next, Enter, Leave, TypeText, TypeInvalid, SaveUpdates, Refuses, Generates,
         Fills, FormMissing
<1> QED BY <1>1, <1>2, <1>3, <1>4 DEF vars

LEMMA StepInvariant == IInv /\ DownIsEmpty /\ [Next]_vars => IInv'
<1> SUFFICES ASSUME IInv, DownIsEmpty, [Next]_vars PROVE IInv'
  OBVIOUS
<1>1. ASSUME NEW g \in gets, Generates(g) PROVE IInv'
  <2>1. PICK d \in [Field -> Text] :
          gets' = (gets \ {g}) \cup {[g EXCEPT !.st = "ok", !.data = d]}
    BY <1>1 DEF Generates
  <2>2. gets \subseteq Gets /\ g \in Gets
    BY DEF IInv, TypeOK
  <2>3. [g EXCEPT !.st = "ok", !.data = d] \in Gets
    BY <2>2 DEF Gets
  <2>4. faults' \in Nat
    BY <1>1 DEF Generates, Faulty, IInv, TypeOK
  <2> QED BY <1>1, <2>1, <2>2, <2>3, <2>4, OtherStepsKeep DEF Generates
<1>2. ASSUME NEW g \in gets, FormMissing(g) PROVE IInv'
  BY <1>2, OtherStepsKeep DEF FormMissing, counts, IInv, TypeOK
<1>3. CASE UNCHANGED vars
  BY <1>3, OtherStepsKeep DEF vars, counts, IInv, TypeOK
<1> QED BY <1>1, <1>2, <1>3, EnterKeeps, LeaveKeeps, TypesKeep, SaveUpdatesKeeps,
           StoresKeeps, RefusesKeeps, WriterKeeps, ServerKeeps, FillsKeeps
        DEF Next

LEMMA Invariant == Spec => []IInv
<1>1. Init => DownIsEmpty
  BY DEF Init, DownIsEmpty
<1> QED BY <1>1, InitInvariant, DownStaysEmpty, StepInvariant, PTL DEF Spec

-----------------------------------------------------------------------------
(* The forms keep their types: a missing value never gets into the store   *)
(* as such (FormSave reads it as empty).                                   *)
THEOREM TypeCorrect == Spec => []TypeOK
<1>1. IInv => TypeOK
  BY DEF IInv
<1> QED BY <1>1, Invariant, PTL

(* The one debounce timer of ProvisionerForm: a save that follows from an  *)
(* edit on the page shown goes to the form of its field, with a value.     *)
THEOREM EditsSaveTheirField == Spec => []SavesOwnField
<1>1. IInv => SavesOwnField
  BY DEF IInv
<1> QED BY <1>1, Invariant, PTL

(* _debounceUpdate, _saveUpdates, FormSave and the store behind it: of a   *)
(* change on the page shown the store has what PrepareSave makes of it, or *)
(* has accepted it, or it is on its way.  The exceptions are a field that  *)
(* has no listener, a timer displaced or a form invalid, a save that       *)
(* failed, an older one that came later, and an accepted one that the      *)
(* store lost.                                                             *)
THEOREM EditsAreKept == Spec => []EditsReachStore
<1>1. ASSUME IInv PROVE EditsReachStore
  BY <1>1 DEF IInv, AllKept, Kept, Held, Unsaved, EditsReachStore
<1> QED BY <1>1, Invariant, PTL
=============================================================================
