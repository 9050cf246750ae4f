------------------------- MODULE BrotzeitPageProofs -------------------------
(***************************************************************************)
(* Proofs about BrotzeitPage for any provisioners and schedules and any    *)
(* number of visits, changes and saves.                                    *)
(***************************************************************************)
EXTENDS BrotzeitPage, TLAPS, SequenceTheorems, WellFoundedInduction

\* The saves of r that the page shown has sent, and not seen answered.
Mine(r) == {s \in saves : s.route = r /\ s.page = page}

\* A row that nothing has muddled has at most one save under way, and that of
\* what the row contains; when it is stored the answer will colour the row
\* rightly, and until then the row has its right colour.
RowRight(r) ==
  /\ \A s \in saves : s.route = r /\ s.st = "sent" => s.page = page /\ Queued(r) = {}
  /\ \A s, t \in Mine(r) : s = t
  /\ \A s \in Mine(r) : text[r] = s.schedule
  /\ IF \E s \in Mine(r) : s.st = "saved"
     THEN text[r] # Empty <=> Owed(r) # Empty
     ELSE r \in ScheduleIsValid <=> Owed(r) # Empty

RowsRight == \A r \in rows \ muddled : RowRight(r)

\* The rows of a page come with its list, and its saves after them.
Entered ==
  /\ page = 0 => rows = {} /\ list = "none"
  /\ list # "none" => rows = {}
  /\ \A s \in saves : s.page <= page
  /\ rows = {} => \A s \in saves : s.page # page

\* What was read is still right, for the rows that nothing has muddled.
Fresh ==
  list = "served" =>
    \A r \in Route \ muddled : ~Unsettled(r) /\ read[r] = store[r]

DownIsEmpty == server = "down" => pending = <<>> /\ ~open

IInv == TypeOK /\ Entered /\ Fresh /\ RowsRight /\ DownIsEmpty

-----------------------------------------------------------------------------
(* What the queue q and the map m together have for a route.               *)

At(q, r) == {k \in DOMAIN q : q[k].at = r}
Outcome(q, m, r) == IF At(q, r) = {} THEN m[r] ELSE q[Max(At(q, r))].data

\* The last of some numbers up to n is one of them, and no other is later.
LEMMA LastIsIn ==
  ASSUME NEW n \in Nat, NEW S \in SUBSET (1 .. n), S # {}
  PROVE  Max(S) \in S /\ \A x \in S : x <= Max(S)
<1> DEFINE D == {n - x : x \in S}
<1>1. D \subseteq Nat /\ D # {}
  OBVIOUS
<1>2. IsWellFoundedOn(OpToRel(<, Nat), Nat)
  BY NatLessThanWellFounded
<1>3. PICK d \in D : \A e \in D : ~(<<e, d>> \in OpToRel(<, Nat))
  <2> HIDE DEF D
  <2> QED BY <1>1, <1>2, WFMin, Zenon
<1>4. \A e \in Nat : <<e, d>> \in OpToRel(<, Nat) <=> e < d
  BY <1>1, <1>3 DEF OpToRel
<1>5. PICK x \in S : d = n - x
  BY <1>3
<1>6. \A y \in S : y <= x
  <2> TAKE y \in S
  <2>1. n - y \in D /\ n - y \in Nat
    OBVIOUS
  <2>2. ~(n - y < n - x)
    BY <1>3, <1>4, <1>5, <2>1
  <2> QED BY <2>2
<1>7. \E m \in S : \A y \in S : m >= y
  BY <1>6
<1> QED BY <1>7 DEF Max

\* The same number is the last of S when it is in S and none is later.
LEMMA LastIsThis ==
  ASSUME NEW n \in Nat, NEW S \in SUBSET (1 .. n), NEW x \in S, \A y \in S : y <= x
  PROVE  Max(S) = x
<1> DEFINE m == Max(S)
<1>1. S # {}
  OBVIOUS
<1>2. m \in S /\ \A y \in S : y <= m
  BY <1>1, LastIsIn
<1> HIDE DEF m
<1>3. m <= x /\ x <= m /\ m \in Nat /\ x \in Nat
  BY <1>2
<1>4. m = x
  BY <1>3
<1> QED BY <1>4 DEF m

LEMMA AtIndices ==
  ASSUME NEW q \in Seq(Bp!Write), NEW r
  PROVE  /\ Len(q) \in Nat /\ DOMAIN q = 1 .. Len(q)
         /\ At(q, r) \in SUBSET (1 .. Len(q))
BY LenProperties DEF At

\* A write that is accepted decides its own route, and no other.
LEMMA AcceptDecides ==
  ASSUME NEW q \in Seq(Bp!Write), NEW m, NEW w \in Bp!Write, NEW r
  PROVE  /\ Append(q, w) \in Seq(Bp!Write)
         /\ w.at = r => Outcome(Append(q, w), m, r) = w.data
         /\ w.at # r => /\ At(Append(q, w), r) = At(q, r)
                        /\ Outcome(Append(q, w), m, r) = Outcome(q, m, r)
<1> DEFINE p == Append(q, w)
           n == Len(q)
<1>1. n \in Nat /\ DOMAIN q = 1 .. n /\ At(q, r) \in SUBSET (1 .. n)
  BY AtIndices
<1>2. /\ p \in Seq(Bp!Write) /\ Len(p) = n + 1 /\ DOMAIN p = 1 .. (n + 1)
      /\ \A k \in 1 .. n : p[k] = q[k]
      /\ p[n + 1] = w
  BY AppendProperties, LenProperties
<1> HIDE DEF p, n
<1>3. At(p, r) = At(q, r) \cup (IF w.at = r THEN {n + 1} ELSE {})
  BY <1>1, <1>2 DEF At
<1>4. CASE w.at = r
  <2>1. n + 1 \in At(p, r) /\ \A y \in At(p, r) : y <= n + 1
    BY <1>1, <1>3, <1>4
  <2>2. At(p, r) \in SUBSET (1 .. (n + 1)) /\ n + 1 \in Nat
    BY <1>1, <1>3
  <2>3. Max(At(p, r)) = n + 1
    BY <2>1, <2>2, LastIsThis
  <2> QED BY <1>2, <1>3, <1>4, <2>1, <2>3 DEF Outcome, p, n
<1>5. CASE w.at # r
  <2>1. At(p, r) = At(q, r)
    BY <1>3, <1>5
  <2>2. At(q, r) # {} => p[Max(At(q, r))] = q[Max(At(q, r))]
    <3>1. At(q, r) # {} => Max(At(q, r)) \in 1 .. n
      BY <1>1, LastIsIn
    <3> QED BY <1>2, <3>1
  <2> QED BY <1>2, <1>3, <1>5, <2>1, <2>2 DEF Outcome, p, n
<1> QED BY <1>4, <1>5

\* Writing the oldest one to the map decides nothing anew.
LEMMA SettlingDecides ==
  ASSUME NEW q \in Seq(Bp!Write), q # <<>>,
         NEW m \in [Route -> Schedule \cup {Empty}], NEW r \in Route
  PROVE  /\ At(Tail(q), r) # {} => At(q, r) # {}
         /\ Outcome(Tail(q), Bp!Settled(m, Head(q)), r) = Outcome(q, m, r)
<1> DEFINE p == Tail(q)
           n == Len(q)
           A == At(q, r)
           B == At(p, r)
<1>1. n \in Nat /\ n >= 1 /\ DOMAIN q = 1 .. n /\ A \in SUBSET (1 .. n)
  BY AtIndices, EmptySeq
<1>2. /\ p \in Seq(Bp!Write) /\ Len(p) = n - 1 /\ DOMAIN p = 1 .. (n - 1)
      /\ \A k \in 1 .. (n - 1) : p[k] = q[k + 1]
      /\ Head(q) = q[1] /\ q[1] \in Bp!Write
  BY HeadTailProperties, LenProperties, ElementOfSeq
<1> HIDE DEF p, n
<1>3. B \in SUBSET (1 .. (n - 1)) /\ n - 1 \in Nat
  BY <1>1, <1>2 DEF At
<1>4. \A k \in 1 .. (n - 1) : k \in B <=> k + 1 \in A
  BY <1>1, <1>2 DEF At
<1>5. 1 \in A <=> Head(q).at = r
  BY <1>1, <1>2 DEF At
<1>6. Bp!Settled(m, Head(q))[r] = IF Head(q).at = r THEN Head(q).data ELSE m[r]
  BY <1>2 DEF Bp!Settled, Bp!Write
<1> HIDE DEF A, B
<1>7. CASE B # {}
  <2>1. Max(B) \in B /\ Max(B) \in 1 .. (n - 1) /\ \A x \in B : x <= Max(B)
    BY <1>3, <1>7, LastIsIn
  <2>2. Max(B) + 1 \in A
    BY <1>3, <1>4, <2>1
  <2>3. ASSUME NEW y \in A PROVE y <= Max(B) + 1
    <3>1. CASE y = 1
      BY <2>1, <3>1
    <3>2. CASE y # 1
      <4>1. y - 1 \in 1 .. (n - 1) /\ (y - 1) + 1 = y /\ y \in Nat
        BY <1>1, <3>2
      <4>2. y - 1 \in B
        BY <1>4, <4>1
      <4>3. y - 1 <= Max(B)
        BY <2>1, <4>2
      <4> QED BY <2>1, <4>1, <4>3
    <3> QED BY <3>1, <3>2
  <2>4. Max(A) = Max(B) + 1
    BY <1>1, <2>2, <2>3, LastIsThis
  <2>5. p[Max(B)] = q[Max(B) + 1]
    BY <1>2, <1>3, <2>1
  <2> QED BY <1>7, <2>2, <2>4, <2>5 DEF Outcome, A, B, p
<1>8. CASE B = {}
  <2>1. A \subseteq {1}
    <3> SUFFICES ASSUME NEW y \in A, y # 1 PROVE FALSE
      OBVIOUS
    <3>1. y - 1 \in 1 .. (n - 1) /\ (y - 1) + 1 = y
      BY <1>1
    <3> QED BY <1>4, <1>8, <3>1
  <2>2. CASE Head(q).at = r
    <3>1. A = {1}
      BY <1>5, <2>1, <2>2
    <3>2. 1 \in A /\ \A y \in A : y <= 1
      BY <3>1
    <3>3. Max(A) = 1
      BY <1>1, <3>2, LastIsThis
    <3> QED BY <1>2, <1>6, <1>8, <2>2, <3>1, <3>3 DEF Outcome, A, B, p
  <2>3. CASE Head(q).at # r
    <3>1. A = {}
      BY <1>5, <2>1, <2>3
    <3> QED BY <1>6, <1>8, <2>3, <3>1 DEF Outcome, A, B, p
  <2> QED BY <2>2, <2>3
<1> QED BY <1>7, <1>8

\* Dropping the oldest one decides nothing anew for a route that has a later
\* one, or none at all.
LEMMA DroppingDecides ==
  ASSUME NEW q \in Seq(Bp!Write), q # <<>>,
         NEW m \in [Route -> Schedule \cup {Empty}], NEW r \in Route,
         At(q, r) # {1}
  PROVE  /\ At(Tail(q), r) # {} => At(q, r) # {}
         /\ Outcome(Tail(q), m, r) = Outcome(q, m, r)
<1>1. /\ At(Tail(q), r) # {} => At(q, r) # {}
      /\ Outcome(Tail(q), Bp!Settled(m, Head(q)), r) = Outcome(q, m, r)
  BY SettlingDecides
<1>2. /\ Len(q) \in Nat /\ Len(q) >= 1 /\ DOMAIN q = 1 .. Len(q)
      /\ At(q, r) \in SUBSET (1 .. Len(q))
  BY AtIndices, EmptySeq
<1>3. /\ Head(q) = q[1] /\ q[1] \in Bp!Write /\ Tail(q) \in Seq(Bp!Write)
      /\ DOMAIN Tail(q) = 1 .. (Len(q) - 1)
      /\ \A k \in 1 .. (Len(q) - 1) : Tail(q)[k] = q[k + 1]
  BY <1>2, HeadTailProperties, LenProperties, ElementOfSeq
<1>4. CASE Head(q).at # r
  <2>1. Bp!Settled(m, Head(q))[r] = m[r]
    BY <1>3, <1>4 DEF Bp!Settled, Bp!Write
  <2> QED BY <1>1, <2>1 DEF Outcome
<1>5. CASE Head(q).at = r
  <2>1. 1 \in At(q, r)
    BY <1>2, <1>3, <1>5 DEF At
  <2>2. PICK k \in At(q, r) : k # 1
    BY <2>1
  <2>3. k - 1 \in 1 .. (Len(q) - 1) /\ (k - 1) + 1 = k
    BY <1>2, <2>2
  <2>4. k - 1 \in At(Tail(q), r)
    BY <1>3, <2>2, <2>3 DEF At
  <2> QED BY <1>1, <2>4 DEF Outcome
<1> QED BY <1>4, <1>5, <1>1

LEMMA OwedIsOutcome ==
  \A r : Queued(r) = At(pending, r) /\ Owed(r) = Outcome(pending, store, r)
BY DEF Queued, At, Owed, Outcome

\* The saves of r, of whatever page.
Of(r) == {s \in saves : s.route = r}

LEMMA MineOf == \A r : Mine(r) = {s \in Of(r) : s.page = page}
BY DEF Mine, Of

\* A row is as right as it was when a step leaves alone what it rests on.
LEMMA RowKept ==
  ASSUME NEW r, RowRight(r), page' = page, Of(r)' = Of(r),
         Queued(r) = {} => Queued(r)' = {}, Owed(r)' = Owed(r),
         text'[r] = text[r], r \in ScheduleIsValid' <=> r \in ScheduleIsValid
  PROVE  RowRight(r)'
<1>1. Mine(r)' = Mine(r)
  BY MineOf DEF Mine, Of
<1>2. \A s \in saves' : s.route = r => s \in saves
  BY DEF Of
<1> QED BY <1>1, <1>2 DEF RowRight

\* What a step does to rows that it knows nothing of.
LEMMA OwedKept ==
  ASSUME UNCHANGED <<store, pending>>
  PROVE  \A r : Queued(r)' = Queued(r) /\ Owed(r)' = Owed(r)
BY DEF Queued, Owed

\* An answer changes the state of one save, and of no other route.
LEMMA AnswerChanges ==
  ASSUME NEW s \in saves, saves \subseteq Save, NEW st \in {"sent", "saved", "refused"},
         Answer(s, st)
  PROVE  /\ saves' \subseteq Save
         /\ saves' = (saves \ {s}) \cup {[s EXCEPT !.st = st]}
         /\ [s EXCEPT !.st = st].route = s.route /\ [s EXCEPT !.st = st].page = s.page
         /\ [s EXCEPT !.st = st].schedule = s.schedule
         /\ [s EXCEPT !.st = st].st = st
         /\ \A r : r # s.route => Of(r)' = Of(r)
<1> DEFINE t == [s EXCEPT !.st = st]
<1>1. /\ t \in Save /\ t.route = s.route /\ t.page = s.page
      /\ t.schedule = s.schedule /\ t.st = st
  BY DEF Save
<1> HIDE DEF t
<1>2. saves' = (saves \ {s}) \cup {t}
  BY DEF Answer, t
<1>3. saves' \subseteq Save
  BY <1>1, <1>2
<1>4. \A r : r # s.route => Of(r)' = Of(r)
  BY <1>1, <1>2 DEF Of
<1> QED BY <1>1, <1>2, <1>3, <1>4 DEF t

\* What SaveConfig does to the store: nothing, a deletion or a write accepted.
LEMMA SaveConfigStores ==
  ASSUME TypeOK, NEW s \in saves, SaveConfig(s)
  PROVE  /\ s.st = "sent" /\ s \in Save
         /\ UNCHANGED <<page, rowVars, list, read, bucket, server, edits, sent>>
         /\ muddled' \in {muddled, muddled \cup {s.route}}
         /\ store' \in [Route -> Schedule \cup {Empty}]
         /\ pending' \in Seq(Bp!Write) /\ UNCHANGED <<open, jammed>>
         /\ \A r \in Route \ {s.route} :
              store'[r] = store[r] /\ Queued(r)' = Queued(r) /\ Owed(r)' = Owed(r)
         /\ \/ Answer(s, "refused") /\ Owed(s.route)' = Owed(s.route)
                 /\ Queued(s.route)' = Queued(s.route)
            \/ /\ Answer(s, "saved")
               /\ s.route \notin muddled' /\ Queued(s.route) = {} =>
                    (s.schedule = Empty <=> Owed(s.route)' = Empty)
<1> USE PageAssumption DEF TypeOK
<1>1. s.st = "sent" /\ s \in Save /\ s.route \in Route
      /\ UNCHANGED <<page, rowVars, list, read, bucket, server, edits, sent>>
  BY DEF SaveConfig, Save
<1>2. CASE /\ UNCHANGED backpack
           /\ \/ Answer(s, "refused") /\ muddled' = muddled
              \/ Answer(s, "saved") /\ muddled' = muddled \cup {s.route}
  BY <1>1, <1>2, OwedKept DEF backpack
<1>3. CASE /\ Bp!Remove(s.route) /\ Answer(s, "saved") /\ s.schedule = Empty
           /\ muddled' = muddled
  <2>1. /\ store' = [store EXCEPT ![s.route] = Empty] /\ UNCHANGED <<open, jammed>>
        /\ pending' = pending
    BY <1>3 DEF Bp!Remove
  <2>2. store' \in [Route -> Schedule \cup {Empty}] /\ store'[s.route] = Empty
        /\ \A r \in Route \ {s.route} : store'[r] = store[r]
    BY <1>1, <2>1
  <2>3. \A r : Queued(r)' = Queued(r)
    BY <2>1 DEF Queued
  <2>4. \A r \in Route \ {s.route} : Owed(r)' = Owed(r)
    BY <2>1, <2>2, <2>3 DEF Owed
  <2>5. Queued(s.route) = {} => Owed(s.route)' = Empty
    BY <2>2, <2>3 DEF Owed
  <2> QED BY <1>1, <1>3, <2>1, <2>2, <2>3, <2>4, <2>5
<1>4. CASE /\ s.schedule \in Schedule /\ Answer(s, "saved") /\ muddled' = muddled
           /\ Bp!Accept([at |-> s.route, data |-> s.schedule])
  <2> DEFINE w == [at |-> s.route, data |-> s.schedule]
  <2>1. w \in Bp!Write /\ w.at = s.route /\ w.data = s.schedule
    BY <1>1, <1>4 DEF Bp!Write
  <2>2. pending' = Append(pending, w) /\ UNCHANGED <<store, open, jammed>>
    BY <1>4 DEF Bp!Accept
  <2> HIDE DEF w
  <2>3. pending' \in Seq(Bp!Write)
    BY <2>1, <2>2, AcceptDecides
  <2>4. ASSUME NEW r PROVE /\ Owed(r)' = IF r = s.route THEN s.schedule ELSE Owed(r)
                           /\ r # s.route => Queued(r)' = Queued(r)
    <3>1. Owed(r)' = Outcome(pending', store', r) /\ Queued(r)' = At(pending', r)
      BY DEF Owed, Outcome, Queued, At
    <3>2. Owed(r) = Outcome(pending, store, r) /\ Queued(r) = At(pending, r)
      BY OwedIsOutcome
    <3>3. pending \in Seq(Bp!Write)
      OBVIOUS
    <3>4. w \in Bp!Write
      BY <2>1
    <3>5. /\ w.at = r => Outcome(Append(pending, w), store, r) = w.data
          /\ w.at # r => /\ At(Append(pending, w), r) = At(pending, r)
                         /\ Outcome(Append(pending, w), store, r) = Outcome(pending, store, r)
      BY ONLY <3>3, <3>4, AcceptDecides
    <3>6. pending' = Append(pending, w) /\ store' = store
      BY <2>2
    <3> QED BY ONLY <2>1, <3>1, <3>2, <3>5, <3>6
  <2>5. s.schedule # Empty
    BY <1>4
  <2>6. \A r \in Route \ {s.route} :
          store'[r] = store[r] /\ Queued(r)' = Queued(r) /\ Owed(r)' = Owed(r)
    BY <2>2, <2>4
  <2>7. s.schedule = Empty <=> Owed(s.route)' = Empty
    BY <2>4, <2>5
  <2>8. store' \in [Route -> Schedule \cup {Empty}] /\ UNCHANGED <<open, jammed>>
    BY <2>2
  <2> QED BY <1>1, <1>4, <2>3, <2>6, <2>7, <2>8
<1> QED BY <1>2, <1>3, <1>4, <1>1 DEF SaveConfig, Deletes, Declines, Parses, Save, Text

\* The map that a write is settled in, and what is left of the queue.
LEMMA HeadSettled ==
  ASSUME TypeOK, pending # <<>>
  PROVE  /\ Bp!Settled(store, Head(pending)) \in [Route -> Schedule \cup {Empty}]
         /\ Head(pending) \in Bp!Write /\ Tail(pending) \in Seq(Bp!Write)
         /\ \A r \in Route : Queued(r) = {} =>
              Bp!Settled(store, Head(pending))[r] = store[r]
<1> USE DEF TypeOK
<1>1. Head(pending) \in Bp!Write /\ Tail(pending) \in Seq(Bp!Write)
      /\ Head(pending) = pending[1] /\ 1 \in DOMAIN pending
  BY HeadTailProperties, EmptySeq, LenProperties
<1>2. \A r \in Route : Queued(r) = {} => Head(pending).at # r
  BY <1>1 DEF Queued
<1> QED BY <1>1, <1>2 DEF Bp!Settled, Bp!Write

\* What the Writer does to it.
LEMMA WriterStores ==
  ASSUME TypeOK, Writer
  PROVE  /\ store' \in [Route -> Schedule \cup {Empty}]
         /\ pending' \in Seq(Bp!Write) /\ UNCHANGED <<open, jammed>>
         /\ muddled \subseteq muddled' /\ muddled' \subseteq Route
         /\ \A r \in Route :
              /\ Queued(r) = {} => Queued(r)' = {} /\ store'[r] = store[r]
              /\ r \notin muddled' => Owed(r)' = Owed(r)
<1> USE DEF TypeOK
<1>1. pending # <<>> /\ pending' = Tail(pending) /\ UNCHANGED <<open, jammed>>
  BY DEF Writer, Bp!Settle, Bp!Drop
<1>2. Head(pending) \in Bp!Write /\ Tail(pending) \in Seq(Bp!Write)
  BY <1>1, HeadSettled
<1>3. \A r : /\ Owed(r)' = Outcome(pending', store', r) /\ Queued(r)' = At(pending', r)
             /\ Owed(r) = Outcome(pending, store, r) /\ Queued(r) = At(pending, r)
  BY OwedIsOutcome DEF Owed, Outcome, Queued, At
<1>4. CASE store' = Bp!Settled(store, Head(pending)) /\ muddled' = muddled
  <2>1. ASSUME NEW r \in Route
        PROVE  /\ Queued(r) = {} => Queued(r)' = {} /\ store'[r] = store[r]
               /\ Owed(r)' = Owed(r)
    <3>1. Queued(r) = {} => store'[r] = store[r]
      BY <1>1, <1>4, HeadSettled
    <3> QED BY <1>1, <1>3, <1>4, <3>1, SettlingDecides
  <2> QED BY <1>1, <1>2, <1>4, <2>1, HeadSettled
<1>5. CASE store' = store /\ muddled' = muddled \cup {r \in Route : Queued(r) = {1}}
  <2>1. ASSUME NEW r \in Route
        PROVE  /\ Queued(r) = {} => Queued(r)' = {}
               /\ r \notin muddled' => Owed(r)' = Owed(r)
    BY <1>1, <1>3, <1>5, DroppingDecides
  <2> QED BY <1>1, <1>2, <1>5, <2>1
<1> QED BY <1>4, <1>5 DEF Writer, Bp!Settle, Bp!Drop

-----------------------------------------------------------------------------
LEMMA InitInvariant == Init => IInv
<1> SUFFICES ASSUME Init PROVE IInv
  OBVIOUS
<1> USE PageAssumption DEF Init
<1>1. store = NoText /\ pending = <<>> /\ open = TRUE /\ jammed = FALSE
  BY DEF Bp!Init, NoText
<1>2. pending \in Seq(Bp!Write)
  BY <1>1
<1>3. NoText \in [Route -> Schedule \cup {Empty}] /\ NoText \in [Route -> Text]
  BY DEF NoText, Text
<1>5. DownIsEmpty
  BY DEF DownIsEmpty
<1>4. TypeOK
  <2>1. text = NoText /\ read = NoText /\ store = NoText
    BY <1>1
  <2>2. page \in 0 .. MaxVisits /\ edits \in 0 .. MaxEdits /\ sent \in 0 .. MaxSaves
    OBVIOUS
  <2> QED BY <1>1, <1>2, <1>3, <2>1, <2>2 DEF TypeOK
<1> QED BY <1>4, <1>5 DEF IInv, Entered, Fresh, RowsRight

\* The page: it is entered, and its list comes or not.
LEMMA EnterKeeps == IInv /\ Enter => IInv'
<1> SUFFICES ASSUME IInv, Enter PROVE IInv'
  OBVIOUS
<1> USE PageAssumption DEF IInv, Enter
<1>1. TypeOK'
  BY DEF TypeOK, NoText, Text, rowVars, bpVars, backpack
<1>2. Entered'
  <2>1. \A s \in saves : s.page \in Nat /\ page \in Nat
    BY DEF TypeOK, Save
  <2> QED BY <2>1 DEF Entered, TypeOK
<1>9. DownIsEmpty'
  BY DEF DownIsEmpty, bpVars, backpack
<1> QED BY <1>9, <1>1, <1>2 DEF Fresh, RowsRight

LEMMA GetCollectionKeeps == IInv /\ GetCollection => IInv'
<1> SUFFICES ASSUME IInv, GetCollection PROVE IInv'
  OBVIOUS
<1> USE DEF IInv, GetCollection
<1>1. TypeOK'
  <2>1. read' \in [Route -> Text] /\ muddled' \subseteq Route
    BY DEF NoText, Text, Green
  <2>2. list' \in {"none", "sent", "served"}
    OBVIOUS
  <2> QED BY <2>1, <2>2 DEF TypeOK, rowVars, bpVars, backpack
<1>2. Entered'
  BY DEF Entered, rowVars
<1>3. Fresh'
  <2> SUFFICES ASSUME NEW r \in Route \ muddled'
               PROVE  ~Unsettled(r)' /\ read'[r] = store'[r]
    BY DEF Fresh
  <2>1. ~Unsettled(r) /\ read'[r] = store[r]
    OBVIOUS
  <2> QED BY <2>1 DEF Unsettled, Queued, bpVars, backpack
<1>4. rows' = {}
  BY DEF Entered, rowVars
<1>9. DownIsEmpty'
  BY DEF DownIsEmpty, bpVars, backpack
<1> QED BY <1>9, <1>1, <1>2, <1>3, <1>4 DEF RowsRight

LEMMA ListShownKeeps == IInv /\ ListShown => IInv'
<1> SUFFICES ASSUME IInv, ListShown PROVE IInv'
  OBVIOUS
<1> USE DEF IInv, ListShown
<1>1. TypeOK'
  BY DEF TypeOK, bpVars, backpack, Green, Text
<1>2. Entered' /\ Fresh'
  BY DEF Entered, Fresh
<1>3. RowsRight'
  <2> SUFFICES ASSUME NEW r \in Route \ muddled PROVE RowRight(r)'
    BY DEF RowsRight
  <2>1. ~Unsettled(r) /\ read[r] = store[r]
    BY DEF Fresh
  <2>2. Mine(r)' = {} /\ \A s \in saves : ~(s.route = r /\ s.st = "sent")
    BY <2>1 DEF Unsettled, Mine, Entered
  <2>3. Owed(r)' = read[r]
    BY <2>1 DEF Unsettled, Owed, Queued, bpVars, backpack
  <2> QED BY <2>2, <2>3 DEF RowRight, Green
<1>9. DownIsEmpty'
  BY DEF DownIsEmpty, bpVars, backpack
<1> QED BY <1>9, <1>1, <1>2, <1>3

LEMMA ListFailsKeeps == IInv /\ ListFails => IInv'
<1> SUFFICES ASSUME IInv, ListFails PROVE IInv'
  OBVIOUS
<1> USE DEF IInv, ListFails
<1>1. TypeOK' /\ Entered' /\ Fresh'
  BY DEF TypeOK, Entered, Fresh, rowVars, bpVars, backpack
<1>2. rows' = {}
  BY DEF Entered, rowVars
<1>9. DownIsEmpty'
  BY DEF DownIsEmpty, bpVars, backpack
<1> QED BY <1>9, <1>1, <1>2 DEF RowsRight

-----------------------------------------------------------------------------
\* The user.
LEMMA ToggleKeeps ==
  ASSUME IInv, NEW r \in Route, Toggle(r)
  PROVE  IInv'
<1> USE DEF IInv, Toggle
<1>1. TypeOK' /\ Entered'
  BY DEF TypeOK, Entered, bpVars, backpack
<1>2. Fresh'
  BY DEF Fresh, Unsettled, Queued, bpVars, backpack
<1>3. RowsRight'
  <2> SUFFICES ASSUME NEW q \in (rows \ muddled)' PROVE RowRight(q)'
    BY DEF RowsRight
  <2>1. RowRight(q)
    BY DEF RowsRight
  <2> QED BY <2>1, OwedKept, RowKept DEF Of, bpVars, backpack
<1>9. DownIsEmpty'
  BY DEF DownIsEmpty, bpVars, backpack
<1> QED BY <1>9, <1>1, <1>2, <1>3

LEMMA EditKeeps ==
  ASSUME IInv, NEW r \in Route, NEW v \in Text, Edit(r, v)
  PROVE  IInv'
<1> USE DEF IInv, Edit
<1>1. TypeOK' /\ Entered'
  BY PageAssumption DEF TypeOK, Entered, bpVars, backpack
<1>2. Fresh'
  BY DEF Fresh, Entered
<1>3. RowsRight'
  <2> SUFFICES ASSUME NEW q \in (rows \ muddled)' PROVE RowRight(q)'
    BY DEF RowsRight
  <2>1. RowRight(q)
    BY DEF RowsRight
  <2>2. Queued(q)' = Queued(q) /\ Owed(q)' = Owed(q) /\ Mine(q)' = Mine(q)
    BY OwedKept DEF bpVars, backpack, Mine
  <2>3. CASE q = r
    <3>1. Mine(q) = {}
      BY <2>3 DEF Mine, Saving
    <3> QED BY <2>1, <2>2, <3>1 DEF RowRight
  <2>4. CASE q # r
    <3>1. text'[q] = text[q]
      BY <2>4 DEF TypeOK
    <3> QED BY <2>1, <2>2, <3>1 DEF RowRight
  <2> QED BY <2>3, <2>4
<1>9. DownIsEmpty'
  BY DEF DownIsEmpty, bpVars, backpack
<1> QED BY <1>9, <1>1, <1>2, <1>3

LEMMA saveCronExpressionKeeps ==
  ASSUME IInv, NEW r \in Route, saveCronExpression(r)
  PROVE  IInv'
<1> USE DEF IInv
<1> DEFINE s == [id |-> sent + 1, page |-> page, route |-> r,
                 schedule |-> text[r], st |-> "sent"]
<1>1. /\ r \in rows /\ saves' = saves \cup {s} /\ sent < MaxSaves /\ sent' = sent + 1
      /\ muddled' = IF Unsettled(r) \/ Saving(r) THEN muddled \cup {r} ELSE muddled
      /\ UNCHANGED <<page, rowVars, list, read, bpVars, edits>>
  BY DEF saveCronExpression
<1>2. s \in Save
  <2>1. page \in 1 .. MaxVisits
    BY <1>1, PageAssumption DEF Entered, TypeOK
  <2>2. sent + 1 \in 1 .. MaxSaves /\ text[r] \in Text
    BY <1>1, PageAssumption DEF TypeOK
  <2> QED BY <2>1, <2>2 DEF Save
<1>3. s.page = page /\ s.route = r /\ s.schedule = text[r] /\ s.st = "sent"
  OBVIOUS
<1> HIDE DEF s
<1>4. TypeOK'
  BY <1>1, <1>2, PageAssumption DEF TypeOK, rowVars, bpVars, backpack
<1>5. Entered' /\ Fresh'
  <2>1. page \in Nat
    BY PageAssumption DEF TypeOK
  <2> QED BY <1>1, <1>3, <2>1 DEF Entered, Fresh, rowVars
<1>6. RowsRight'
  <2> SUFFICES ASSUME NEW q \in (rows \ muddled)' PROVE RowRight(q)'
    BY DEF RowsRight
  <2>1. RowRight(q)
    BY <1>1 DEF RowsRight, rowVars
  <2>2. Queued(q)' = Queued(q) /\ Owed(q)' = Owed(q)
    BY <1>1, OwedKept DEF bpVars, backpack
  <2>3. CASE q = r
    <3>1. ~Unsettled(q) /\ Mine(q) = {}
      BY <1>1, <2>3 DEF Mine, Saving
    <3>2. Mine(q)' = {s}
      BY <1>1, <1>3, <2>3, <3>1 DEF Mine
    <3> QED BY <1>1, <1>3, <2>1, <2>2, <2>3, <3>1, <3>2
            DEF RowRight, Unsettled, rowVars
  <2>4. CASE q # r
    <3>1. Of(q)' = Of(q)
      BY <1>1, <1>3, <2>4 DEF Of
    <3> QED BY <1>1, <2>1, <2>2, <3>1, RowKept DEF rowVars
  <2> QED BY <2>3, <2>4
<1>9. DownIsEmpty'
  BY <1>1 DEF DownIsEmpty, bpVars, backpack
<1> QED BY <1>9, <1>4, <1>5, <1>6

-----------------------------------------------------------------------------
\* The handlers and the Writer.
LEMMA SaveConfigKeeps ==
  ASSUME IInv, NEW s \in saves, SaveConfig(s)
  PROVE  IInv'
<1> USE DEF IInv
<1>1. /\ s.st = "sent" /\ s \in Save
      /\ UNCHANGED <<page, rowVars, list, read, bucket, server, edits, sent>>
      /\ muddled' \in {muddled, muddled \cup {s.route}}
      /\ store' \in [Route -> Schedule \cup {Empty}]
      /\ pending' \in Seq(Bp!Write) /\ UNCHANGED <<open, jammed>>
      /\ \A r \in Route \ {s.route} :
           store'[r] = store[r] /\ Queued(r)' = Queued(r) /\ Owed(r)' = Owed(r)
  BY SaveConfigStores
<1>2. PICK st \in {"saved", "refused"} :
        /\ Answer(s, st)
        /\ st = "refused" => Owed(s.route)' = Owed(s.route)
                               /\ Queued(s.route)' = Queued(s.route)
        /\ st = "saved" => (s.route \notin muddled' /\ Queued(s.route) = {} =>
                              (s.schedule = Empty <=> Owed(s.route)' = Empty))
  BY SaveConfigStores
<1> DEFINE t == [s EXCEPT !.st = st]
<1>3. /\ saves' \subseteq Save /\ saves' = (saves \ {s}) \cup {t}
      /\ t.route = s.route /\ t.page = s.page /\ t.schedule = s.schedule /\ t.st = st
      /\ \A r : r # s.route => Of(r)' = Of(r)
  BY <1>2, AnswerChanges DEF TypeOK
<1> HIDE DEF t
<1>4. TypeOK'
  BY <1>1, <1>3 DEF TypeOK, rowVars, Save
<1>5. Entered'
  BY <1>1, <1>3 DEF Entered, rowVars
<1>6. Fresh'
  <2> SUFFICES ASSUME list = "served", NEW r \in Route \ muddled'
               PROVE  ~Unsettled(r)' /\ read[r] = store'[r]
    BY <1>1 DEF Fresh
  <2>1. r \notin muddled
    BY <1>1
  <2>2. ~Unsettled(r) /\ read[r] = store[r] /\ r # s.route
    BY <1>1, <2>1 DEF Fresh, Unsettled
  <2>3. Of(r)' = Of(r) /\ Queued(r)' = Queued(r) /\ store'[r] = store[r]
    BY <1>1, <1>3, <2>2
  <2> QED BY <2>2, <2>3 DEF Unsettled, Of
<1>7. RowsRight'
  <2> SUFFICES ASSUME NEW q \in (rows \ muddled)' PROVE RowRight(q)'
    BY DEF RowsRight
  <2>1. RowRight(q) /\ q \in Route
    BY <1>1 DEF RowsRight, TypeOK, rowVars
  <2>2. CASE q # s.route
    <3>1. Of(q)' = Of(q) /\ Queued(q)' = Queued(q) /\ Owed(q)' = Owed(q)
      BY <1>1, <1>3, <2>1, <2>2
    <3> QED BY <1>1, <2>1, <3>1, RowKept DEF rowVars
  <2>3. CASE q = s.route
    <3>1. s \in Mine(q) /\ Queued(q) = {} /\ s.schedule = text[q] /\ Mine(q) = {s}
      BY <1>1, <2>1, <2>3 DEF RowRight, Mine
    <3>2. Mine(q)' = {t}
      BY <1>1, <1>3, <2>3, <3>1 DEF Mine
    <3>3. \A u \in saves' : ~(u.route = q /\ u.st = "sent")
      <4> SUFFICES ASSUME NEW u \in saves \ {s}, u.route = q, u.st = "sent"
                   PROVE  FALSE
        BY <1>2, <1>3
      <4>1. u \in Mine(q)
        BY <2>1 DEF RowRight, Mine
      <4> QED BY <3>1, <4>1
    <3>4. CASE st = "saved"
      BY <1>1, <1>2, <1>3, <2>3, <3>1, <3>2, <3>3, <3>4 DEF RowRight, rowVars
    <3>5. CASE st = "refused"
      BY <1>1, <1>2, <1>3, <2>1, <2>3, <3>1, <3>2, <3>3, <3>5 DEF RowRight, rowVars
    <3> QED BY <3>4, <3>5
  <2> QED BY <2>2, <2>3
<1>9. DownIsEmpty'
  BY <1>1 DEF DownIsEmpty, SaveConfig
<1> QED BY <1>9, <1>4, <1>5, <1>6, <1>7

\* A step of the server that leaves the page and its saves alone keeps the
\* invariant when no row but a muddled one is owed something else.
LEMMA ElsewhereKeeps ==
  ASSUME IInv, Elsewhere, bucket' \in BOOLEAN, server' \in {"up", "closing", "down"},
         open' \in BOOLEAN, jammed' \in BOOLEAN,
         store' \in [Route -> Schedule \cup {Empty}], pending' \in Seq(Bp!Write),
         muddled \subseteq muddled', muddled' \subseteq Route,
         \A r \in Route \ muddled' :
           /\ Queued(r) = {} => Queued(r)' = {} /\ store'[r] = store[r]
           /\ Owed(r)' = Owed(r),
         DownIsEmpty'
  PROVE  IInv'
<1> USE DEF IInv, Elsewhere
<1>1. TypeOK' /\ Entered'
  BY DEF TypeOK, Entered, rowVars
<1>2. Fresh'
  BY DEF Fresh, Unsettled
<1>3. RowsRight'
  <2> SUFFICES ASSUME NEW q \in (rows \ muddled)' PROVE RowRight(q)'
    BY DEF RowsRight
  <2>1. RowRight(q) /\ q \in Route
    BY DEF RowsRight, TypeOK, rowVars
  <2> QED BY <2>1, RowKept DEF rowVars, Of
<1> QED BY <1>1, <1>2, <1>3

LEMMA WriterKeeps == IInv /\ Writer => IInv'
<1> SUFFICES ASSUME IInv, Writer PROVE IInv'
  OBVIOUS
<1> USE DEF IInv
<1>1. /\ store' \in [Route -> Schedule \cup {Empty}]
      /\ pending' \in Seq(Bp!Write) /\ UNCHANGED <<open, jammed>>
      /\ muddled \subseteq muddled' /\ muddled' \subseteq Route
      /\ \A r \in Route :
           /\ Queued(r) = {} => Queued(r)' = {} /\ store'[r] = store[r]
           /\ r \notin muddled' => Owed(r)' = Owed(r)
  BY WriterStores
<1>2. Elsewhere /\ server' = server /\ bucket' \in {TRUE, bucket}
  BY DEF Writer
<1>3. DownIsEmpty'
  BY <1>2 DEF Writer, DownIsEmpty
<1> QED BY <1>1, <1>2, <1>3, ElsewhereKeeps DEF TypeOK

\* The server: it jams, stops, dies and starts again.
LEMMA ServerKeeps == IInv /\ (Jam \/ Signal \/ CloseDb) => IInv'
<1> SUFFICES ASSUME IInv, Jam \/ Signal \/ CloseDb PROVE IInv'
  OBVIOUS
<1>1. /\ Elsewhere /\ UNCHANGED <<store, pending, bucket, muddled>>
      /\ server' \in {server, "closing"}
      /\ open' \in {open, FALSE} /\ jammed' \in {jammed, TRUE}
  BY DEF Jam, Signal, CloseDb, Bp!Jam, Bp!Shut, backpack
<1>2. \A r : Queued(r)' = Queued(r) /\ Owed(r)' = Owed(r)
  BY <1>1, OwedKept
<1>3. TypeOK
  BY DEF IInv
<1>4. DownIsEmpty'
  BY DEF IInv, DownIsEmpty, Jam, Signal, CloseDb, Bp!Shut, Bp!Jam, backpack
<1> QED BY <1>1, <1>2, <1>3, <1>4, ElsewhereKeeps DEF TypeOK

\* Whatever was queued is gone, and its rows are muddled.
LEMMA HaltKeeps == IInv /\ Halt => IInv'
<1> SUFFICES ASSUME IInv, Halt PROVE IInv'
  OBVIOUS
<1>1. TypeOK
  BY DEF IInv
<1>2. /\ Elsewhere /\ server' = "down" /\ bucket' \in {bucket, TRUE}
      /\ pending' = <<>> /\ open' = FALSE /\ jammed' = FALSE
      /\ muddled' = muddled \cup {r \in Route : Queued(r) # {}}
      /\ \/ store' = store
         \/ pending # <<>> /\ store' = Bp!Settled(store, Head(pending))
  BY DEF Halt, Bp!Die
<1>3. store' \in [Route -> Schedule \cup {Empty}]
      /\ \A r \in Route : Queued(r) = {} => store'[r] = store[r]
  BY <1>1, <1>2, HeadSettled DEF TypeOK
<1>4. \A r : Queued(r)' = {}
  BY <1>2 DEF Queued
<1>5. \A r \in Route : Queued(r) = {} => Owed(r)' = Owed(r)
  BY <1>3, <1>4 DEF Owed
<1>6. pending' \in Seq(Bp!Write) /\ muddled' \subseteq Route
  BY <1>1, <1>2 DEF TypeOK
<1>7. bucket' \in BOOLEAN /\ server' \in {"up", "closing", "down"}
      /\ open' \in BOOLEAN /\ jammed' \in BOOLEAN /\ muddled \subseteq muddled'
  BY <1>1, <1>2 DEF TypeOK
<1>8. \A r \in Route \ muddled' : Queued(r) = {}
  BY <1>2
<1>9. DownIsEmpty'
  BY <1>2 DEF DownIsEmpty
<1> QED BY <1>2, <1>3, <1>4, <1>5, <1>6, <1>7, <1>8, <1>9, ElsewhereKeeps

\* A server that is down has nothing queued.
LEMMA StartKeeps == IInv /\ Start => IInv'
<1> SUFFICES ASSUME IInv, Start PROVE IInv'
  OBVIOUS
<1>1. /\ TypeOK /\ pending = <<>>
  BY DEF IInv, Start, DownIsEmpty
<1>2. /\ Elsewhere /\ UNCHANGED <<store, pending, bucket, muddled>>
      /\ server' = "up" /\ open' = TRUE /\ jammed' = FALSE
  BY <1>1 DEF Start, Bp!Reopen
<1>3. \A r : Queued(r)' = Queued(r) /\ Owed(r)' = Owed(r)
  BY <1>2, OwedKept
<1>4. DownIsEmpty'
  BY <1>2 DEF DownIsEmpty
<1> QED BY <1>1, <1>2, <1>3, <1>4, ElsewhereKeeps DEF TypeOK

-----------------------------------------------------------------------------
\* The answers.
LEMMA SavedKeeps ==
  ASSUME IInv, NEW s \in saves, Saved(s)
  PROVE  IInv'
<1> USE DEF IInv
<1>1. /\ s.st = "saved" /\ saves' = saves \ {s} /\ s \in Save
      /\ UNCHANGED <<page, rows, text, list, read, bpVars, edits, sent, muddled>>
      /\ IF s.page = page
         THEN /\ isCollapsed' = isCollapsed \cup {s.route}
              /\ ScheduleIsValid' = GreenNow(s.route)
         ELSE UNCHANGED <<isCollapsed, ScheduleIsValid>>
  BY DEF Saved, TypeOK
<1>2. s.page = page => s.route \in rows
  BY <1>1 DEF Entered, TypeOK, Save
<1>3. TypeOK'
  BY <1>1, <1>2 DEF TypeOK, bpVars, backpack, GreenNow
<1>4. Entered'
  BY <1>1 DEF Entered
<1>5. Fresh'
  BY <1>1 DEF Fresh, Unsettled, Queued, bpVars, backpack
<1>6. RowsRight'
  <2> SUFFICES ASSUME NEW q \in (rows \ muddled)' PROVE RowRight(q)'
    BY DEF RowsRight
  <2>1. RowRight(q)
    BY <1>1 DEF RowsRight
  <2>2. Queued(q)' = Queued(q) /\ Owed(q)' = Owed(q)
    BY <1>1, OwedKept DEF bpVars, backpack
  <2>3. CASE q # s.route
    <3>1. Of(q)' = Of(q)
      BY <1>1, <2>3 DEF Of
    <3>2. q \in ScheduleIsValid' <=> q \in ScheduleIsValid
      BY <1>1, <2>3 DEF GreenNow
    <3> QED BY <1>1, <2>1, <2>2, <3>1, <3>2, RowKept
  <2>4. CASE q = s.route /\ s.page = page
    <3>1. s \in Mine(q) /\ Mine(q) = {s}
      BY <2>1, <2>4 DEF RowRight, Mine
    <3>2. Mine(q)' = {}
      BY <1>1, <3>1 DEF Mine
    <3>3. text[q] # Empty <=> Owed(q) # Empty
      BY <1>1, <2>1, <3>1 DEF RowRight
    <3>4. q \in ScheduleIsValid' <=> text[q] # Empty
      BY <1>1, <2>4 DEF GreenNow
    <3> QED BY <1>1, <2>1, <2>2, <3>2, <3>3, <3>4 DEF RowRight
  <2>5. CASE q = s.route /\ s.page # page
    <3>1. Mine(q)' = Mine(q)
      BY <1>1, <2>5 DEF Mine
    <3> QED BY <1>1, <2>1, <2>2, <2>5, <3>1 DEF RowRight
  <2> QED BY <2>3, <2>4, <2>5
<1>9. DownIsEmpty'
  BY <1>1 DEF DownIsEmpty, bpVars, backpack
<1> QED BY <1>9, <1>3, <1>4, <1>5, <1>6

LEMMA SaveFailsKeeps ==
  ASSUME IInv, NEW s \in saves, SaveFails(s)
  PROVE  IInv'
<1> USE DEF IInv
<1>1. /\ saves' = saves \ {s} /\ s \in Save
      /\ muddled' = IF s.st = "saved" THEN muddled \cup {s.route} ELSE muddled
      /\ UNCHANGED <<page, rowVars, list, read, bpVars, edits, sent>>
  BY DEF SaveFails, TypeOK
<1>2. TypeOK'
  BY <1>1 DEF TypeOK, rowVars, bpVars, backpack, Save
<1>3. Entered'
  BY <1>1 DEF Entered, rowVars
<1>4. Fresh'
  BY <1>1 DEF Fresh, Unsettled, Queued, bpVars, backpack
<1>5. RowsRight'
  <2> SUFFICES ASSUME NEW q \in (rows \ muddled)' PROVE RowRight(q)'
    BY DEF RowsRight
  <2>1. RowRight(q)
    BY <1>1 DEF RowsRight, rowVars
  <2>2. Queued(q)' = Queued(q) /\ Owed(q)' = Owed(q)
    BY <1>1, OwedKept DEF bpVars, backpack
  <2>3. CASE q # s.route
    <3>1. Of(q)' = Of(q)
      BY <1>1, <2>3 DEF Of
    <3> QED BY <1>1, <2>1, <2>2, <3>1, RowKept DEF rowVars
  <2>4. CASE q = s.route /\ s \in Mine(q)
    <3>1. s.st # "saved" /\ Mine(q) = {s}
      BY <1>1, <2>1, <2>4 DEF RowRight
    <3>2. Mine(q)' = {}
      BY <1>1, <3>1 DEF Mine, rowVars
    <3> QED BY <1>1, <2>1, <2>2, <3>1, <3>2 DEF RowRight, rowVars
  <2>5. CASE q = s.route /\ s \notin Mine(q)
    <3>1. Mine(q)' = Mine(q)
      BY <1>1, <2>5 DEF Mine, rowVars
    <3> QED BY <1>1, <2>1, <2>2, <3>1 DEF RowRight, rowVars
  <2> QED BY <2>3, <2>4, <2>5
<1>9. DownIsEmpty'
  BY <1>1 DEF DownIsEmpty, bpVars, backpack
<1> QED BY <1>9, <1>2, <1>3, <1>4, <1>5

LEMMA StepInvariant == IInv /\ [Next]_vars => IInv'
<1> SUFFICES ASSUME IInv, [Next]_vars PROVE IInv'
  OBVIOUS
<1>1. CASE UNCHANGED vars
  <2> USE <1>1 DEF IInv, vars, rowVars, bpVars, backpack
  <2>1. TypeOK' /\ Entered' /\ Fresh' /\ DownIsEmpty'
    BY DEF TypeOK, Entered, Fresh, Unsettled, Queued, DownIsEmpty
  <2>2. RowsRight'
    <3> SUFFICES ASSUME NEW q \in (rows \ muddled)' PROVE RowRight(q)'
      BY DEF RowsRight
    <3>1. RowRight(q)
      BY DEF RowsRight
    <3> QED BY <3>1, OwedKept, RowKept DEF Of
  <2> QED BY <2>1, <2>2
<1>2. ASSUME NEW r \in Route,
             Toggle(r) \/ saveCronExpression(r) \/ \E v \in Text : Edit(r, v)
      PROVE  IInv'
  BY <1>2, ToggleKeeps, saveCronExpressionKeeps, EditKeeps
<1>3. ASSUME NEW s \in saves, SaveConfig(s) \/ Saved(s) \/ SaveFails(s)
      PROVE  IInv'
  BY <1>3, SaveConfigKeeps, SavedKeeps, SaveFailsKeeps
<1> QED BY <1>1, <1>2, <1>3, EnterKeeps, GetCollectionKeeps, ListShownKeeps,
           ListFailsKeeps, WriterKeeps, ServerKeeps, HaltKeeps, StartKeeps DEF Next

LEMMA Invariant == Spec => []IInv
BY InitInvariant, StepInvariant, PTL DEF Spec

-----------------------------------------------------------------------------
\* The models of brotzeitController.js and the store behind SaveConfig keep
\* their types: what the Writer gets are schedules, for routes there are.
THEOREM TypeCorrect == Spec => []TypeOK
<1>1. IInv => TypeOK
  BY DEF IInv
<1> QED BY <1>1, Invariant, PTL

\* With no save of a row under way, the row is green exactly when the store has
\* a schedule for it or will have (brotzeitController.js, lines 25-40, over
\* SaveConfig), but for what muddled tells of.
THEOREM ColoursAreRight == Spec => []GreenMeansSet
<1>1. IInv => GreenMeansSet
  BY DEF IInv, RowsRight, RowRight, Mine, GreenMeansSet
<1> QED BY <1>1, Invariant, PTL

\* SaveConfig and GetCollection, behind a page of any number of rows and
\* requests that cross, use the Backpacker as WriteBehind allows: what
\* Rucksack was shown to keep is all that the colours rest on.
THEOREM StoreUsedRightly == Spec => Bp!Safety
<1>1. Init => Bp!Init
  BY DEF Init
<1>2. ASSUME IInv, [Next]_vars PROVE Bp!Next \/ UNCHANGED Bp!wbvars
  <2> USE <1>2 DEF Bp!Next, Bp!wbvars
  <2>1. ASSUME NEW s \in saves, SaveConfig(s)
        PROVE  Bp!Next \/ UNCHANGED Bp!wbvars
    <3>1. s.route \in Route
      BY DEF IInv, TypeOK, Save
    <3>2. s.schedule \in Schedule =>
            [at |-> s.route, data |-> s.schedule] \in Bp!Write
      BY <3>1 DEF Bp!Write
    <3> QED BY <2>1, <3>1, <3>2 DEF SaveConfig, Parses, Deletes, Declines, backpack
  <2>2. CASE Writer \/ Jam \/ Signal \/ CloseDb \/ Halt \/ Start
    BY <2>2 DEF Writer, Jam, Signal, CloseDb, Halt, Start, backpack
  <2>3. CASE Enter \/ GetCollection \/ ListShown \/ ListFails
    BY <2>3 DEF Enter, GetCollection, ListShown, ListFails, bpVars, backpack
  <2>4. ASSUME NEW r \in Route,
               Toggle(r) \/ saveCronExpression(r) \/ \E v \in Text : Edit(r, v)
        PROVE  UNCHANGED Bp!wbvars
    BY <2>4 DEF Toggle, saveCronExpression, Edit, bpVars, backpack
  <2>5. ASSUME NEW s \in saves, Saved(s) \/ SaveFails(s)
        PROVE  UNCHANGED Bp!wbvars
    BY <2>5 DEF Saved, SaveFails, bpVars, backpack
  <2>6. CASE UNCHANGED vars
    BY <2>6 DEF vars, bpVars, backpack
  <2> QED BY <2>1, <2>2, <2>3, <2>4, <2>5, <2>6 DEF Next
<1>3. IInv /\ [Next]_vars => [Bp!Next]_(Bp!wbvars)
  BY <1>2
<1> QED BY <1>1, <1>3, Invariant, PTL DEF Spec, Bp!Safety
=============================================================================
