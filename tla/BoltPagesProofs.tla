--------------------------- MODULE BoltPagesProofs ---------------------------
(***************************************************************************)
(* Proofs about BoltPages for any readers, buckets and number of           *)
(* transactions: no page is lost or used twice, what a reader needs stays, *)
(* and bolt keeps the promise of Snapshots.                                *)
(***************************************************************************)
EXTENDS BoltPages, TLAPS, WellFoundedInduction

\* The pages as the update under way will leave them.
Image == Written(DOMAIN dirty)

\* The operators of BoltPages over the pages pg instead of the file.
LeafIn(pg, m, b) == IF pg[m.root].kind = "root" THEN pg[m.root].leaf[b] ELSE 0

Pages(pg, m) ==
  ({m.root, m.freelist} \cup {LeafIn(pg, m, b) : b \in Buckets}) \ {0}

FoundIn(pg, m, b) == LET p == LeafIn(pg, m, b)
                     IN  IF p = 0 \/ pg[p].kind # "leaf" THEN 0 ELSE pg[p].value

UpTo(m) == 2..(m.pgid - 1)

\* From m lead a root, a list of free pages and the buckets, a page each.
Tree(pg, m) ==
  /\ pg[m.root].kind = "root"
  /\ pg[m.root].leaf \in [Buckets -> Pgids \cup {0}]
  /\ m.root # m.freelist
  /\ \A b \in Buckets : LeafIn(pg, m, b) \notin {m.root, m.freelist}
  /\ \A b, c \in Buckets : LeafIn(pg, m, b) = LeafIn(pg, m, c)
                             => b = c \/ LeafIn(pg, m, b) = 0
  /\ Pages(pg, m) \subseteq UpTo(m)

\* The list saved at m has all pages that m does not reach.
Listed(pg, m) == /\ pg[m.freelist].kind = "freelist"
                 /\ pg[m.freelist].ids = UpTo(m) \ Pages(pg, m)

PageOK(x) == \/ x.kind = "leaf" /\ x.value \in Txids
             \/ x.kind = "root" /\ x.leaf \in [Buckets -> Pgids \cup {0}]
             \/ x.kind = "freelist" /\ x.ids \subseteq Pgids

Typed ==
  /\ \A p \in Pgids : PageOK(page[p])
  /\ DOMAIN dirty \subseteq Pgids
  /\ \A p \in DOMAIN dirty : PageOK(dirty[p])
  /\ meta \in [0..1 -> Metas]
  /\ ids \subseteq Pgids /\ pending \in [Txids -> SUBSET Pgids]
  /\ rtx \in [Readers -> Metas \cup {NoTx}]
  /\ slice \in [Readers -> [at : Pgids, value : Txids] \cup {NoTx}]
  /\ wtx \in Metas \cup {NoTx}
  /\ wpc \in {"none", "begun", "spilled", "written"}
  /\ exposed \subseteq Readers
  /\ \A r \in exposed : rtx[r] # NoTx

\* Transactions are numbered in turn, and each takes three pages at most.
Numbered ==
  /\ meta[0].txid % 2 = 0 /\ meta[1].txid % 2 = 1
  /\ Current.txid >= 1 /\ Current.pgid <= 1 + 3 * Current.txid
  /\ \A r \in Readers : rtx[r] # NoTx => rtx[r].txid <= Current.txid
  /\ wpc # "none" => wtx \in Metas /\ wtx.txid = Current.txid + 1
  /\ wpc = "begun" => wtx = [Current EXCEPT !.txid = @ + 1]
  /\ wpc # "spilled" => DOMAIN dirty = {}

\* What counts is whole, whatever the update under way has written.
Whole == Tree(page, Current) /\ Listed(page, Current)

\* The free pages are told apart.
Apart ==
  /\ ids \cap AllPending = {}
  /\ \A t, u \in Txids : t # u => pending[t] \cap pending[u] = {}

Quiet ==
  wpc \in {"none", "begun"} =>
    /\ ids \cup AllPending = UpTo(Current) \ Pages(page, Current)
    /\ \A t \in Txids : t > Current.txid => pending[t] = {}

\* An update that has its pages: it will leave a whole tree, and what the
\* current one reaches is untouched until then.
Busy ==
  wpc \in {"spilled", "written"} =>
    /\ Tree(Image, wtx) /\ Listed(Image, wtx)
    /\ wtx.pgid <= 1 + 3 * wtx.txid
    /\ ids \cup AllPending = UpTo(wtx) \ Pages(Image, wtx)
    /\ DOMAIN dirty \subseteq Pages(Image, wtx)
    /\ (ids \cup DOMAIN dirty) \cap Pages(page, Current) = {}
    /\ pending[wtx.txid] \subseteq Pages(page, Current)
    /\ Pages(page, Current) \subseteq Pages(Image, wtx) \cup pending[wtx.txid]
    /\ \A t \in Txids : t < wtx.txid =>
         pending[t] \subseteq UpTo(Current) \ Pages(page, Current)
    /\ \A t \in Txids : t > wtx.txid => pending[t] = {}

\* It changes one bucket.
OneBucket ==
  wpc \in {"spilled", "written"} =>
    \E b \in Buckets : \A c \in Buckets \ {b} :
      FoundIn(Image, wtx, c) = FoundIn(page, Current, c)

\* The pages that transactions after t replaced.
After(t) == UNION {pending[u] : u \in {v \in Txids : v > t}}

\* What a reader needs is current or was replaced after it began.
Needed ==
  \A r \in Readers \ exposed : rtx[r] # NoTx =>
    Pages(page, rtx[r]) \subseteq Pages(page, Current) \cup After(rtx[r].txid)

IInv == Typed /\ Numbered /\ Whole /\ Apart /\ Quiet /\ Busy /\ OneBucket /\ Needed

-----------------------------------------------------------------------------
(* Lemmas about the pages.                                                 *)

LEMMA FirstIsIn ==
  ASSUME NEW S, S \subseteq Nat, S # {}
  PROVE  Min(S) \in S
<1>1. IsWellFoundedOn(OpToRel(<, Nat), Nat)
  BY NatLessThanWellFounded
<1>2. PICK x \in S : \A y \in S : ~(<<y, x>> \in OpToRel(<, Nat))
  BY <1>1, WFMin, Zenon
<1>3. \A y \in Nat : <<y, x>> \in OpToRel(<, Nat) <=> y < x
  BY <1>2 DEF OpToRel
<1>4. \A y \in S : x <= y
  <2> TAKE y \in S
  <2>1. x \in Nat /\ y \in Nat /\ ~(y < x)
    BY <1>2, <1>3
  <2> QED BY <2>1
<1> QED BY <1>2, <1>4 DEF Min

\* One page is taken from the free ones or from the end of the file.
LEMMA AllocateOne ==
  ASSUME NEW a, a.pgid \in Nat, a.pgid >= 2, a.ids \subseteq 2..(a.pgid - 1)
  PROVE  /\ Allocate(a).got \in a.ids \cup {a.pgid}
         /\ Allocate(a).ids = a.ids \ {Allocate(a).got}
         /\ Allocate(a).pgid \in {a.pgid, a.pgid + 1}
         /\ 2..(Allocate(a).pgid - 1) = 2..(a.pgid - 1) \cup {Allocate(a).got}
         /\ Allocate(a).ids \subseteq 2..(Allocate(a).pgid - 1)
<1> DEFINE p == IF a.ids = {} THEN a.pgid ELSE Min(a.ids)
<1>1. p \in a.ids \cup {a.pgid}
  <2>1. a.ids # {} => Min(a.ids) \in a.ids
    BY FirstIsIn
  <2> QED BY <2>1
<1>2. Allocate(a) = [got |-> p, ids |-> a.ids \ {p},
                     pgid |-> IF p = a.pgid THEN p + 1 ELSE a.pgid]
  BY DEF Allocate
<1> HIDE DEF p
<1>3. a.pgid \notin a.ids
  OBVIOUS
<1>4. 2..(Allocate(a).pgid - 1) = 2..(a.pgid - 1) \cup {p}
  BY <1>1, <1>2
<1> QED BY <1>1, <1>2, <1>3, <1>4

\* What the three allocations of Spill take, from the free pages I of a file
\* of n pages.
LEMMA AllocateThree ==
  ASSUME NEW I, NEW n \in Nat, n >= 2, I \subseteq 2..(n - 1),
         NEW leaf, leaf = Allocate([ids |-> I, pgid |-> n]),
         NEW root, root = Allocate(leaf), NEW list, list = Allocate(root)
  PROVE  /\ leaf.got # root.got /\ leaf.got # list.got /\ root.got # list.got
         /\ list.ids = I \ {leaf.got, root.got, list.got}
         /\ list.pgid \in n..(n + 3)
         /\ 2..(list.pgid - 1) = 2..(n - 1) \cup {leaf.got, root.got, list.got}
         /\ {leaf.got, root.got, list.got} \cap (2..(n - 1)) \subseteq I
<1> DEFINE a == [ids |-> I, pgid |-> n]
<1>1. /\ leaf.got \in I \cup {n} /\ leaf.ids = I \ {leaf.got}
      /\ leaf.pgid \in {n, n + 1}
      /\ 2..(leaf.pgid - 1) = 2..(n - 1) \cup {leaf.got}
      /\ leaf.ids \subseteq 2..(leaf.pgid - 1)
  <2>1. a.ids = I /\ a.pgid = n
    OBVIOUS
  <2> HIDE DEF a
  <2>2. leaf = Allocate(a)
    BY DEF a
  <2> QED BY <2>1, <2>2, AllocateOne
<1>2. /\ root.got \in leaf.ids \cup {leaf.pgid}
      /\ root.ids = leaf.ids \ {root.got}
      /\ root.pgid \in {leaf.pgid, leaf.pgid + 1}
      /\ 2..(root.pgid - 1) = 2..(leaf.pgid - 1) \cup {root.got}
      /\ root.ids \subseteq 2..(root.pgid - 1)
  <2>1. leaf.pgid \in Nat /\ leaf.pgid >= 2
    BY <1>1
  <2> QED BY <1>1, <2>1, AllocateOne
<1>3. /\ list.got \in root.ids \cup {root.pgid}
      /\ list.ids = root.ids \ {list.got}
      /\ list.pgid \in {root.pgid, root.pgid + 1}
      /\ 2..(list.pgid - 1) = 2..(root.pgid - 1) \cup {list.got}
  <2>1. root.pgid \in Nat /\ root.pgid >= 2
    BY <1>1, <1>2
  <2> QED BY <1>2, <2>1, AllocateOne
<1>4. leaf.pgid \in n..(n + 1) /\ root.pgid \in n..(n + 2) /\ list.pgid \in n..(n + 3)
  BY <1>1, <1>2, <1>3
<1>5. leaf.got # root.got
  BY <1>1, <1>2, <1>4
<1>6. leaf.got # list.got
  BY <1>1, <1>2, <1>3, <1>4
<1>7. root.got # list.got
  BY <1>1, <1>2, <1>3, <1>4
<1>8. 2..(list.pgid - 1) = 2..(n - 1) \cup {leaf.got, root.got, list.got}
  BY <1>1, <1>2, <1>3
<1>9. {leaf.got, root.got, list.got} \cap (2..(n - 1)) \subseteq I
  BY <1>1, <1>2, <1>3, <1>4
<1> QED BY <1>1, <1>2, <1>3, <1>4, <1>5, <1>6, <1>7, <1>8, <1>9

\* In the file they are the operators of BoltPages.
LEMMA InTheFile ==
  ASSUME NEW m
  PROVE  /\ Reachable(m) = Pages(page, m)
         /\ \A b \in Buckets : /\ LeafOf(m, b) = LeafIn(page, m, b)
                               /\ Find(m, b) = FoundIn(page, m, b)
BY DEF Reachable, Pages, LeafOf, LeafIn, Find, FoundIn

\* What m reaches stands when its pages are left alone.
LEMMA PagesKept ==
  ASSUME NEW pg, NEW qg, NEW m \in Metas,
         \A p \in Pages(pg, m) : qg[p] = pg[p]
  PROVE  /\ Pages(qg, m) = Pages(pg, m)
         /\ Tree(pg, m) => Tree(qg, m)
         /\ Listed(pg, m) => Listed(qg, m)
         /\ \A b \in Buckets : FoundIn(qg, m, b) = FoundIn(pg, m, b)
<1>1. m.root \in Pages(pg, m) /\ m.freelist \in Pages(pg, m)
  BY DEF Pages, Metas, Pgids
<1>2. qg[m.root] = pg[m.root] /\ qg[m.freelist] = pg[m.freelist]
  BY <1>1
<1>3. \A b \in Buckets : LeafIn(qg, m, b) = LeafIn(pg, m, b)
  BY <1>2 DEF LeafIn
<1>4. Pages(qg, m) = Pages(pg, m)
  BY <1>3 DEF Pages
<1>5. /\ Tree(pg, m) => Tree(qg, m)
      /\ Listed(pg, m) => Listed(qg, m)
  BY <1>2, <1>3, <1>4 DEF Tree, Listed
<1>6. ASSUME NEW b \in Buckets PROVE FoundIn(qg, m, b) = FoundIn(pg, m, b)
  <2>1. LeafIn(pg, m, b) # 0 => LeafIn(pg, m, b) \in Pages(pg, m)
    BY DEF Pages
  <2> QED BY <1>3, <2>1 DEF FoundIn
<1> QED BY <1>4, <1>5, <1>6

\* What is reached from a typed file are pages of it.
LEMMA PagesTyped ==
  ASSUME NEW pg, NEW m \in Metas, \A p \in Pgids : PageOK(pg[p])
  PROVE  /\ Pages(pg, m) \subseteq Pgids
         /\ \A b \in Buckets : LeafIn(pg, m, b) \in Pgids \cup {0}
<1>1. m.root \in Pgids /\ m.freelist \in Pgids /\ PageOK(pg[m.root])
  BY DEF Metas
<1>2. \A b \in Buckets : LeafIn(pg, m, b) \in Pgids \cup {0}
  BY <1>1 DEF LeafIn, PageOK
<1> QED BY <1>1, <1>2 DEF Pages

LEMMA CurrentTyped ==
  ASSUME Typed
  PROVE  Current \in Metas
BY DEF Typed, Current

\* A file without a write under way.
LEMMA ImageIsPage ==
  ASSUME DOMAIN dirty = {}
  PROVE  \A p \in Pgids : Image[p] = page[p]
BY DEF Image, Written

-----------------------------------------------------------------------------
LEMMA InitInvariant == Init => IInv
<1> SUFFICES ASSUME Init PROVE IInv
  OBVIOUS
<1> USE MaxTxAssumption DEF Init
<1>1. /\ 2 \in Pgids /\ 3 \in Pgids /\ 4 \in Pgids /\ 0 \in Txids /\ 1 \in Txids
      /\ Pgids \subseteq Nat
  BY DEF Pgids, Txids
<1>2. /\ page[3] = Root([b \in Buckets |-> 0]) /\ page[2] = List({})
      /\ \A p \in Pgids : PageOK(page[p])
  BY <1>1 DEF PageOK, Root, List
<1>3. /\ meta[0] = [txid |-> 0, root |-> 3, freelist |-> 2, pgid |-> 4]
      /\ meta[1] = [txid |-> 1, root |-> 3, freelist |-> 2, pgid |-> 4]
      /\ meta \in [0..1 -> Metas]
  BY <1>1 DEF Metas
<1>4. Current = [txid |-> 1, root |-> 3, freelist |-> 2, pgid |-> 4]
  BY <1>3 DEF Current
<1>5. DOMAIN dirty = {}
  OBVIOUS
<1>6. Typed
  <2>1. \A p \in DOMAIN dirty : PageOK(dirty[p])
    BY <1>5
  <2> QED BY <1>2, <1>3, <1>5, <2>1 DEF Typed
<1>7. Numbered
  BY <1>3, <1>4, <1>5 DEF Numbered
<1>8. /\ Pages(page, Current) = {2, 3} /\ UpTo(Current) = {2, 3}
      /\ \A b \in Buckets : LeafIn(page, Current, b) = 0
  BY <1>2, <1>4 DEF Pages, UpTo, Root, LeafIn
<1>9. Whole
  <2>1. Current.root = 3 /\ Current.freelist = 2
    BY <1>4
  <2>2. /\ page[3].kind = "root" /\ page[3].leaf = [b \in Buckets |-> 0]
        /\ page[2].kind = "freelist" /\ page[2].ids = {}
    <3>1. /\ page[3] = [kind |-> "root", leaf |-> [b \in Buckets |-> 0]]
          /\ page[2] = [kind |-> "freelist", ids |-> {}]
      BY <1>2 DEF Root, List
    <3> QED BY ONLY <3>1
  <2>3. Tree(page, Current)
    <3>1. page[3].leaf \in [Buckets -> Pgids \cup {0}]
          /\ \A b \in Buckets : page[3].leaf[b] = 0
      BY ONLY <2>2
    <3> QED BY ONLY <1>8, <2>1, <2>2, <3>1 DEF Tree
  <2> QED BY <1>8, <2>1, <2>2, <2>3 DEF Whole, Listed
<1>10. AllPending = {}
  BY DEF AllPending
<1>11. Apart /\ Quiet /\ Busy /\ OneBucket /\ Needed
  BY <1>8, <1>10 DEF Apart, Quiet, Busy, OneBucket, Needed
<1> QED BY <1>6, <1>7, <1>9, <1>11 DEF IInv

-----------------------------------------------------------------------------
\* The steps of readers leave the file and the update alone.
LEMMA FileKept ==
  ASSUME Whole, Apart, Quiet, Busy, OneBucket,
         UNCHANGED <<page, meta, ids, pending, wtx, wpc, dirty>>
  PROVE  Whole' /\ Apart' /\ Quiet' /\ Busy' /\ OneBucket'
<1>1. Current' = Current /\ AllPending' = AllPending
  BY DEF Current, AllPending
<1>2. Image' = Image
  BY DEF Image, Written
<1>3. Whole' /\ Apart' /\ Quiet'
  BY <1>1 DEF Whole, Apart, Quiet
<1>6. Busy'
  BY <1>1, <1>2 DEF Busy
<1>7. OneBucket'
  BY <1>1, <1>2 DEF OneBucket
<1> QED BY <1>3, <1>6, <1>7

LEMMA ReadBeginsKeeps ==
  ASSUME IInv, NEW r \in Readers, ReadBegins(r)
  PROVE  IInv'
<1> USE DEF IInv, ReadBegins
<1>1. Current' = Current /\ Current \in Metas /\ AllPending' = AllPending
  BY CurrentTyped DEF Current, AllPending
<1>2. Current # NoTx
  BY <1>1, NoTxAssumption
<1>3. Typed'
  <2>1. rtx' \in [Readers -> Metas \cup {NoTx}]
    BY <1>1 DEF Typed
  <2>2. slice' \in [Readers -> [at : Pgids, value : Txids] \cup {NoTx}]
    BY DEF Typed
  <2>3. \A q \in exposed : rtx'[q] # NoTx
    BY <1>2 DEF Typed
  <2> QED BY <2>1, <2>2, <2>3 DEF Typed
<1>10. Numbered'
  <2>1. \A q \in Readers : rtx'[q] \in {rtx[q], Current}
    BY DEF Typed
  <2>2. Current.txid \in Nat
    BY <1>1, MaxTxAssumption DEF Metas, Txids
  <2>3. \A q \in Readers : rtx'[q] # NoTx => rtx'[q].txid <= Current.txid
    BY <2>1, <2>2 DEF Numbered
  <2> QED BY <1>1, <2>3 DEF Numbered
<1>4. Whole' /\ Apart' /\ Quiet' /\ Busy' /\ OneBucket'
  BY FileKept
<1>6. Needed'
  <2> SUFFICES ASSUME NEW q \in Readers \ exposed, rtx'[q] # NoTx
               PROVE  Pages(page, rtx'[q]) \subseteq
                        Pages(page, Current) \cup After(rtx'[q].txid)
    BY <1>1 DEF Needed, After
  <2>1. CASE q = r
    BY <2>1 DEF Typed
  <2>2. CASE q # r
    <3>1. rtx'[q] = rtx[q]
      BY <2>2 DEF Typed
    <3> QED BY <3>1 DEF Needed
  <2> QED BY <2>1, <2>2
<1> QED BY <1>3, <1>4, <1>6, <1>10

LEMMA FindOneEndsKeeps ==
  ASSUME IInv, NEW r \in Readers, NEW b \in Buckets, FindOneEnds(r, b)
  PROVE  IInv'
<1> USE DEF IInv, FindOneEnds
<1>1. Current' = Current /\ AllPending' = AllPending
  BY DEF Current, AllPending
<1>2. Typed'
  <2> DEFINE m == rtx[r]
             s == IF Find(m, b) = 0 THEN NoTx
                  ELSE [at |-> LeafOf(m, b), value |-> Find(m, b)]
  <2>1. m \in Metas
    BY DEF Typed
  <2>2. PageOK(page[m.root])
    BY <2>1 DEF Typed, Metas
  <2>3. LeafOf(m, b) \in Pgids \cup {0}
    BY <2>2 DEF LeafOf, PageOK
  <2>4. Find(m, b) # 0 => LeafOf(m, b) \in Pgids /\ Find(m, b) \in Txids
    <3>1. LeafOf(m, b) \in Pgids => PageOK(page[LeafOf(m, b)])
      BY DEF Typed
    <3> QED BY <2>3, <3>1 DEF Find, PageOK
  <2>5. s \in [at : Pgids, value : Txids] \cup {NoTx}
    BY <2>4
  <2>6. slice' = [slice EXCEPT ![r] = s]
    OBVIOUS
  <2> HIDE DEF s, m
  <2>7. slice' \in [Readers -> [at : Pgids, value : Txids] \cup {NoTx}]
    BY <2>5, <2>6 DEF Typed
  <2>8. /\ rtx' \in [Readers -> Metas \cup {NoTx}]
        /\ \A q \in exposed' : rtx'[q] # NoTx
    BY DEF Typed
  <2> QED BY <2>7, <2>8 DEF Typed
<1>3. \A q \in Readers : rtx'[q] \in {rtx[q], NoTx}
  BY DEF Typed
<1>4. Numbered'
  BY <1>1, <1>3 DEF Numbered
<1>5. Whole' /\ Apart' /\ Quiet' /\ Busy' /\ OneBucket'
  BY FileKept
<1>6. Needed'
  <2> SUFFICES ASSUME NEW q \in Readers \ exposed', rtx'[q] # NoTx
               PROVE  Pages(page, rtx'[q]) \subseteq
                        Pages(page, Current) \cup After(rtx'[q].txid)
    BY <1>1 DEF Needed, After
  <2>1. rtx'[q] = rtx[q] /\ q # r
    BY <1>3 DEF Typed
  <2> QED BY <2>1 DEF Needed
<1> QED BY <1>2, <1>4, <1>5, <1>6

-----------------------------------------------------------------------------
LEMMA UpdateBeginsKeeps ==
  ASSUME IInv, UpdateBegins
  PROVE  IInv'
<1> USE DEF IInv, UpdateBegins
<1>1. Current' = Current /\ Current \in Metas
  BY CurrentTyped DEF Current
<1>2. /\ wtx' \in Metas /\ wtx'.txid = Current.txid + 1
      /\ wtx' = [Current EXCEPT !.txid = @ + 1]
  BY <1>1, MaxTxAssumption DEF Metas, Txids
<1>3. Released \subseteq Txids
  BY DEF Released
<1>4. \A t \in Txids : pending'[t] = IF t \in Released THEN {} ELSE pending[t]
  OBVIOUS
<1>5. ids' \cup AllPending' = ids \cup AllPending
  BY <1>3, <1>4 DEF AllPending
<1>6. Typed'
  <2>1. ids' \subseteq Pgids
    BY <1>3 DEF Typed
  <2>2. pending' \in [Txids -> SUBSET Pgids]
    BY DEF Typed
  <2> QED BY <1>2, <2>1, <2>2 DEF Typed
<1>7. Numbered'
  BY <1>1, <1>2 DEF Numbered
<1>8. Whole'
  BY <1>1 DEF Whole
<1>9. Apart'
  <2>1. \A t, u \in Txids : t # u => pending'[t] \cap pending'[u] = {}
    BY <1>4 DEF Apart
  <2>2. ASSUME NEW p \in ids', NEW t \in Txids, p \in pending'[t] PROVE FALSE
    <3>1. t \notin Released /\ p \in pending[t]
      BY <1>4, <2>2
    <3>2. p \notin ids
      BY <3>1 DEF Apart, AllPending
    <3>3. PICK u \in Released : p \in pending[u]
      BY <2>2, <3>2
    <3> QED BY <1>3, <3>1, <3>3 DEF Apart
  <2> QED BY <2>1, <2>2 DEF Apart, AllPending
<1>10. Quiet'
  <2> QED BY <1>1, <1>4, <1>5 DEF Quiet
<1>11. Busy' /\ OneBucket'
  BY DEF Busy, OneBucket
<1>12. Needed'
  <2> SUFFICES ASSUME NEW q \in Readers \ exposed, rtx[q] # NoTx
               PROVE  Pages(page, rtx[q]) \subseteq
                        Pages(page, Current) \cup After(rtx[q].txid)'
    BY <1>1 DEF Needed
  <2>3. After(rtx[q].txid)' = After(rtx[q].txid)
    <3>1. rtx[q].txid \in Nat
      BY MaxTxAssumption DEF Typed, Metas, Txids
    <3>2. \A u \in Txids : u > rtx[q].txid => u \notin Released
      BY <3>1 DEF Released, Txids
    <3>3. \A u \in Txids : u > rtx[q].txid => pending'[u] = pending[u]
      BY <1>4, <3>2
    <3> QED BY <3>3 DEF After
  <2> QED BY <2>3 DEF Needed
<1> QED BY <1>6, <1>7, <1>8, <1>9, <1>10, <1>11, <1>12

\* The pages that an update of bucket b replaces.
Freed(b) == {LeafIn(page, Current, b), Current.root, Current.freelist} \ {0}

\* Spill takes l for the bucket, k for the root and f for the list.
Takes(b, l, k, f) ==
  LET N == {l, k, f}
  IN  /\ l # k /\ l # f /\ k # f
      /\ N \cap UpTo(Current) \subseteq ids
      /\ UpTo(wtx') = UpTo(Current) \cup N
      /\ wtx' \in Metas /\ wtx'.txid = wtx.txid
      /\ wtx'.pgid <= 1 + 3 * wtx.txid
      /\ wtx'.root = k /\ wtx'.freelist = f
      /\ ids' = ids \ N
      /\ pending' = [pending EXCEPT ![wtx.txid] = @ \cup Freed(b)]
      /\ DOMAIN dirty' = N
      /\ dirty'[l] = Leaf(wtx.txid)
      /\ dirty'[k] = Root([c \in Buckets |->
                            IF c = b THEN l ELSE LeafIn(page, Current, c)])
      /\ dirty'[f] = List((ids \ N) \cup Freed(b) \cup AllPending)

LEMMA SpillTakes ==
  ASSUME IInv, NEW b \in Buckets, Spill(b)
  PROVE  \E l, k, f \in Pgids : Takes(b, l, k, f)
<1> USE DEF IInv
<1> DEFINE leaf == Allocate([ids |-> ids, pgid |-> wtx.pgid])
           root == Allocate(leaf)
           list == Allocate(root)
           N == {leaf.got, root.got, list.got}
           freed == Replaced(wtx, b)
<1>1. /\ Current \in Metas /\ wtx \in Metas /\ wpc = "begun"
      /\ wtx = [Current EXCEPT !.txid = @ + 1]
  BY CurrentTyped DEF Spill, Numbered
<1>2. /\ wtx.root = Current.root /\ wtx.freelist = Current.freelist
      /\ wtx.pgid = Current.pgid /\ wtx.txid = Current.txid + 1
  BY <1>1 DEF Metas
<1>3. wtx.pgid \in Nat /\ wtx.pgid >= 2 /\ wtx.txid \in Nat /\ wtx.txid <= MaxTx
  BY <1>1, MaxTxAssumption DEF Metas, Pgids, Txids
<1>4. ids \subseteq 2..(wtx.pgid - 1)
  BY <1>1, <1>2 DEF Quiet, UpTo
<1>5. \A c \in Buckets : LeafOf(wtx, c) = LeafIn(page, Current, c)
  BY <1>2 DEF LeafOf, LeafIn
<1>6. freed = Freed(b)
  BY <1>2, <1>5 DEF Replaced, Freed
<1>7. /\ leaf.got # root.got /\ leaf.got # list.got /\ root.got # list.got
      /\ list.ids = ids \ N
      /\ list.pgid \in wtx.pgid..(wtx.pgid + 3)
      /\ 2..(list.pgid - 1) = 2..(wtx.pgid - 1) \cup N
      /\ N \cap (2..(wtx.pgid - 1)) \subseteq ids
  <2> HIDE DEF leaf, root, list
  <2>1. leaf = Allocate([ids |-> ids, pgid |-> wtx.pgid])
        /\ root = Allocate(leaf) /\ list = Allocate(root)
    BY DEF leaf, root, list
  <2> QED BY <1>3, <1>4, <2>1, AllocateThree
<1>8. /\ pending' = [pending EXCEPT ![wtx.txid] = @ \cup freed]
      /\ ids' = list.ids
      /\ wtx' = [wtx EXCEPT !.root = root.got, !.freelist = list.got,
                            !.pgid = list.pgid]
      /\ dirty' = [p \in N |->
           CASE p = leaf.got -> Leaf(wtx.txid)
             [] p = root.got -> Root([c \in Buckets |->
                                  IF c = b THEN leaf.got ELSE LeafOf(wtx, c)])
             [] p = list.got -> List(OnList(list.ids, freed))]
  BY DEF Spill
<1> HIDE DEF leaf, root, list, freed
<1>9. Current.pgid <= 1 + 3 * Current.txid
  BY DEF Numbered
<1>10. list.pgid \in Nat /\ list.pgid <= 1 + 3 * wtx.txid /\ list.pgid \in Pgids
  BY <1>1, <1>2, <1>3, <1>7, <1>9, MaxTxAssumption DEF Pgids, Metas, Txids
<1>11. N \subseteq Pgids
  <2>1. N \subseteq 2..(list.pgid - 1)
    BY <1>7
  <2> QED BY <1>3, <1>10, <2>1, MaxTxAssumption DEF Pgids
<1>12. /\ wtx' \in Metas /\ wtx'.txid = wtx.txid /\ wtx'.pgid = list.pgid
       /\ wtx'.root = root.got /\ wtx'.freelist = list.got
  BY <1>1, <1>8, <1>10, <1>11 DEF Metas
<1>13. UpTo(wtx') = UpTo(Current) \cup N /\ N \cap UpTo(Current) \subseteq ids
  BY <1>2, <1>7, <1>12 DEF UpTo
<1>14. /\ DOMAIN dirty' = N
       /\ dirty'[leaf.got] = Leaf(wtx.txid)
       /\ dirty'[root.got] = Root([c \in Buckets |->
                               IF c = b THEN leaf.got ELSE LeafOf(wtx, c)])
       /\ dirty'[list.got] = List(OnList(list.ids, freed))
  BY <1>7, <1>8
<1>15. [c \in Buckets |-> IF c = b THEN leaf.got ELSE LeafOf(wtx, c)]
         = [c \in Buckets |-> IF c = b THEN leaf.got ELSE LeafIn(page, Current, c)]
  BY <1>5
<1>16. OnList(list.ids, freed) = (ids \ N) \cup freed \cup AllPending
  BY <1>7 DEF OnList
<1>17. Takes(b, leaf.got, root.got, list.got)
  BY <1>6, <1>7, <1>8, <1>10, <1>12, <1>13, <1>14, <1>15, <1>16 DEF Takes
<1> QED BY <1>11, <1>17

LEMMA SpillKeeps ==
  ASSUME IInv, NEW b \in Buckets, Spill(b)
  PROVE  IInv'
<1> USE DEF IInv
<1>1. PICK l \in Pgids, k \in Pgids, f \in Pgids : Takes(b, l, k, f)
  BY SpillTakes
<1> DEFINE N == {l, k, f}
           K == {LeafIn(page, Current, c) : c \in Buckets \ {b}} \ {0}
           C == Pages(page, Current)
<1>2. /\ wpc = "begun" /\ wpc' = "spilled"
      /\ UNCHANGED <<page, meta, rtx, slice, exposed>>
  BY DEF Spill
<1>3. Current' = Current /\ Current \in Metas
  BY <1>2, CurrentTyped DEF Current
<1>4. /\ wtx.txid = Current.txid + 1 /\ wtx.txid \in Txids
      /\ Current.txid \in Nat
  BY <1>2, <1>3, MaxTxAssumption DEF Numbered, Metas, Txids
<1>5. /\ l # k /\ l # f /\ k # f /\ N \cap UpTo(Current) \subseteq ids
      /\ UpTo(wtx') = UpTo(Current) \cup N
      /\ wtx' \in Metas /\ wtx'.txid = wtx.txid /\ wtx'.pgid <= 1 + 3 * wtx.txid
      /\ wtx'.root = k /\ wtx'.freelist = f /\ ids' = ids \ N
      /\ pending' = [pending EXCEPT ![wtx.txid] = @ \cup Freed(b)]
      /\ DOMAIN dirty' = N
  BY <1>1 DEF Takes
<1>6. /\ dirty'[l] = Leaf(wtx.txid)
      /\ dirty'[k] = Root([c \in Buckets |->
                            IF c = b THEN l ELSE LeafIn(page, Current, c)])
      /\ dirty'[f] = List((ids \ N) \cup Freed(b) \cup AllPending)
  BY <1>1 DEF Takes
<1>7. /\ ids \cup AllPending = UpTo(Current) \ C
      /\ \A t \in Txids : t > Current.txid => pending[t] = {}
  BY <1>2 DEF Quiet
<1>8. ids \cap AllPending = {}
  BY DEF Apart
<1>9. C \subseteq UpTo(Current)
  BY DEF Whole, Tree
<1>10. N \cap C = {} /\ N \cap AllPending = {}
  BY <1>5, <1>7, <1>8, <1>9
\* The pages of buckets other than b stay, and no page of theirs is b's.
<1>11. C = K \cup Freed(b) /\ K \cap Freed(b) = {}
  <2>1. C = K \cup Freed(b)
    BY DEF Pages, Freed
  <2>2. ASSUME NEW c \in Buckets \ {b}, LeafIn(page, Current, c) # 0,
               LeafIn(page, Current, c) \in Freed(b)
        PROVE  FALSE
    BY <2>2 DEF Freed, Whole, Tree
  <2> QED BY <2>1, <2>2
<1>12. AllPending' = AllPending \cup Freed(b)
  <2>1. \A t \in Txids : pending'[t] = IF t = wtx.txid THEN pending[t] \cup Freed(b)
                                                    ELSE pending[t]
    BY <1>5 DEF Typed
  <2>2. ASSUME NEW p \in AllPending' PROVE p \in AllPending \cup Freed(b)
    <3>1. PICK t \in Txids : p \in pending'[t]
      BY DEF AllPending
    <3>2. p \in pending[t] \cup Freed(b)
      BY <2>1, <3>1
    <3> QED BY <3>2 DEF AllPending
  <2>3. ASSUME NEW p \in AllPending PROVE p \in AllPending'
    <3>1. PICK t \in Txids : p \in pending[t]
      BY DEF AllPending
    <3>2. p \in pending'[t]
      BY <2>1, <3>1
    <3> QED BY <3>2 DEF AllPending
  <2>4. Freed(b) \subseteq AllPending'
    BY <1>4, <2>1 DEF AllPending
  <2> QED BY <2>2, <2>3, <2>4
<1>13. C \subseteq Pgids /\ Freed(b) \subseteq Pgids
       /\ \A c \in Buckets : LeafIn(page, Current, c) \in Pgids \cup {0}
  BY <1>3, <1>11, PagesTyped DEF Typed
<1>14. AllPending \subseteq Pgids /\ ids \subseteq Pgids
  BY DEF Typed, AllPending
\* The image.
<1>15. \A p \in Pgids : Image'[p] = IF p \in N THEN dirty'[p] ELSE page[p]
  BY <1>2, <1>5 DEF Image, Written
<1>16. /\ Image'[k].kind = "root"
       /\ Image'[k].leaf = [c \in Buckets |->
                             IF c = b THEN l ELSE LeafIn(page, Current, c)]
       /\ Image'[f].kind = "freelist"
       /\ Image'[f].ids = (ids \ N) \cup Freed(b) \cup AllPending
  BY <1>6, <1>15 DEF Root, List
<1>17. \A c \in Buckets : LeafIn(Image', wtx', c) =
                              IF c = b THEN l ELSE LeafIn(page, Current, c)
  BY <1>5, <1>16 DEF LeafIn
<1>18. Pages(Image', wtx') = N \cup K
  <2>1. {LeafIn(Image', wtx', c) : c \in Buckets} \ {0} = ({l} \cup K) \ {0}
    BY <1>17
  <2>2. 0 \notin N
    BY DEF Pgids
  <2> QED BY <1>5, <2>1, <2>2 DEF Pages
<1>19. ids' \cup AllPending' = UpTo(wtx') \ Pages(Image', wtx')
  BY <1>5, <1>7, <1>9, <1>10, <1>11, <1>12, <1>18
<1>20. Tree(Image', wtx')
  <2>1. \A c \in Buckets : LeafIn(Image', wtx', c) \notin {k, f}
    <3> SUFFICES ASSUME NEW c \in Buckets, c # b
                 PROVE  LeafIn(page, Current, c) \notin {k, f}
      BY <1>5, <1>17
    <3>1. LeafIn(page, Current, c) \in C \cup {0}
      BY DEF Pages
    <3> QED BY <1>10, <3>1 DEF Pgids
  <2>2. ASSUME NEW c \in Buckets, NEW d \in Buckets, c # d,
               LeafIn(Image', wtx', c) = LeafIn(Image', wtx', d)
        PROVE  LeafIn(Image', wtx', c) = 0
    <3>1. \A e \in Buckets : LeafIn(page, Current, e) # l
      <4> TAKE e \in Buckets
      <4>1. LeafIn(page, Current, e) \in C \cup {0}
        BY DEF Pages
      <4> QED BY <1>10, <4>1 DEF Pgids
    <3>2. c # b /\ d # b
      BY <1>17, <2>2, <3>1
    <3> QED BY <1>17, <2>2, <3>2 DEF Whole, Tree
  <2>3. Pages(Image', wtx') \subseteq UpTo(wtx')
    BY <1>5, <1>9, <1>11, <1>18
  <2>4. Image'[k].leaf \in [Buckets -> Pgids \cup {0}]
    BY <1>13, <1>16
  <2> QED BY <1>5, <1>16, <2>1, <2>2, <2>3, <2>4 DEF Tree
<1>21. Listed(Image', wtx')
  BY <1>5, <1>12, <1>16, <1>19 DEF Listed
<1>22. Typed'
  <2>1. PageOK(dirty'[l])
    BY <1>4, <1>6 DEF PageOK, Leaf
  <2>2. PageOK(dirty'[k])
    <3>1. [c \in Buckets |-> IF c = b THEN l ELSE LeafIn(page, Current, c)]
            \in [Buckets -> Pgids \cup {0}]
      BY <1>13
    <3> QED BY <1>6, <3>1 DEF PageOK, Root
  <2>3. PageOK(dirty'[f])
    BY <1>6, <1>13, <1>14 DEF PageOK, List
  <2>4. \A p \in DOMAIN dirty' : PageOK(dirty'[p])
    BY <1>5, <2>1, <2>2, <2>3
  <2>5. pending' \in [Txids -> SUBSET Pgids]
    BY <1>5, <1>13 DEF Typed
  <2> QED BY <1>2, <1>5, <1>14, <2>4, <2>5 DEF Typed
<1>23. Numbered'
  BY <1>2, <1>3, <1>4, <1>5 DEF Numbered
<1>24. Whole'
  BY <1>2, <1>3 DEF Whole
<1>25. Apart'
  <2>1. ids' \cap AllPending' = {}
    BY <1>5, <1>7, <1>8, <1>11, <1>12
  <2>2. Freed(b) \cap AllPending = {}
    BY <1>7, <1>11
  <2>3. \A t \in Txids : /\ t # wtx.txid => pending'[t] = pending[t]
                         /\ pending[t] \subseteq AllPending
    BY <1>5 DEF Typed, AllPending
  <2>4. pending'[wtx.txid] = Freed(b)
    BY <1>4, <1>5, <1>7 DEF Typed
  <2> QED BY <2>1, <2>2, <2>3, <2>4 DEF Apart
<1>26. Quiet'
  BY <1>2 DEF Quiet
<1>27. Busy'
  <2>1. /\ pending'[wtx.txid] = Freed(b)
        /\ \A t \in Txids : /\ t # wtx.txid => pending'[t] = pending[t]
                            /\ pending[t] \subseteq AllPending
    BY <1>4, <1>5, <1>7 DEF Typed, AllPending
  <2>2. /\ pending'[wtx'.txid] \subseteq C
        /\ C \subseteq Pages(Image', wtx') \cup pending'[wtx'.txid]
    BY <1>5, <1>11, <1>18, <2>1
  <2>3. \A t \in Txids : t < wtx'.txid => pending'[t] \subseteq UpTo(Current) \ C
    BY <1>5, <1>7, <2>1, <1>4 DEF Txids
  <2>4. \A t \in Txids : t > wtx'.txid => pending'[t] = {}
    BY <1>4, <1>5, <1>7, <2>1 DEF Txids
  <2>5. /\ (ids' \cup DOMAIN dirty') \cap C = {}
        /\ DOMAIN dirty' \subseteq Pages(Image', wtx')
    BY <1>5, <1>7, <1>10, <1>18
  <2> QED BY <1>2, <1>3, <1>5, <1>19, <1>20, <1>21, <2>2, <2>3, <2>4, <2>5 DEF Busy
<1>28. OneBucket'
  <2> SUFFICES ASSUME NEW c \in Buckets \ {b}
               PROVE  FoundIn(Image', wtx', c) = FoundIn(page, Current, c)
    BY <1>2, <1>3 DEF OneBucket
  <2>1. LeafIn(Image', wtx', c) = LeafIn(page, Current, c)
    BY <1>17
  <2>2. LeafIn(page, Current, c) # 0 =>
          Image'[LeafIn(page, Current, c)] = page[LeafIn(page, Current, c)]
    <3>1. LeafIn(page, Current, c) # 0 => LeafIn(page, Current, c) \in C
      BY DEF Pages
    <3> QED BY <1>10, <1>13, <1>15, <3>1
  <2> QED BY <2>1, <2>2 DEF FoundIn
<1>29. Needed'
  <2> SUFFICES ASSUME NEW q \in Readers \ exposed, rtx[q] # NoTx
               PROVE  Pages(page, rtx[q]) \subseteq
                        Pages(page, Current) \cup After(rtx[q].txid)'
    BY <1>2, <1>3 DEF Needed
  <2>1. \A t \in Txids : pending[t] \subseteq pending'[t]
    BY <1>5 DEF Typed
  <2>2. After(rtx[q].txid) \subseteq After(rtx[q].txid)'
    BY <1>2, <2>1 DEF After
  <2> QED BY <2>2 DEF Needed
<1> QED BY <1>22, <1>23, <1>24, <1>25, <1>26, <1>27, <1>28, <1>29

-----------------------------------------------------------------------------
\* Whatever part of an update gets into the file, it touches nothing that is
\* current or that a reader needs.
LEMMA Untouched ==
  ASSUME IInv, NEW s \in SUBSET DOMAIN dirty
  PROVE  /\ \A p \in Pgids : PageOK(Written(s)[p])
         /\ \A p \in Pages(page, Current) : Written(s)[p] = page[p]
         /\ \A r \in Readers \ exposed : rtx[r] # NoTx =>
              \A p \in Pages(page, rtx[r]) : Written(s)[p] = page[p]
<1> USE DEF IInv
<1>1. \A p \in Pgids : Written(s)[p] = IF p \in s THEN dirty[p] ELSE page[p]
  BY DEF Written
<1>2. \A p \in Pgids : PageOK(Written(s)[p])
  BY <1>1 DEF Typed
<1>3. Current \in Metas /\ Pages(page, Current) \subseteq Pgids
  BY CurrentTyped, PagesTyped DEF Typed
<1>4. DOMAIN dirty \cap Pages(page, Current) = {}
  BY DEF Numbered, Busy
<1>5. DOMAIN dirty \cap AllPending = {}
  BY DEF Numbered, Busy
<1>6. ASSUME NEW r \in Readers \ exposed, rtx[r] # NoTx,
             NEW p \in Pages(page, rtx[r])
      PROVE  Written(s)[p] = page[p]
  <2>1. rtx[r] \in Metas
    BY <1>6 DEF Typed
  <2>2. p \in Pgids
    BY <1>6, <2>1, PagesTyped DEF Typed
  <2>3. After(rtx[r].txid) \subseteq AllPending
    BY DEF After, AllPending
  <2>4. p \in Pages(page, Current) \cup AllPending
    BY <1>6, <2>3 DEF Needed
  <2> QED BY <1>1, <1>4, <1>5, <2>2, <2>4
<1> QED BY <1>1, <1>2, <1>3, <1>4, <1>6

LEMMA WriteKeeps ==
  ASSUME IInv, Write
  PROVE  IInv'
<1> USE DEF IInv
<1>1. /\ wpc = "spilled" /\ wpc' = "written" /\ page' = Image
      /\ DOMAIN dirty' = {} /\ dirty' = << >>
      /\ UNCHANGED <<meta, ids, pending, rtx, slice, wtx, exposed>>
  BY DEF Write, Image
<1>2. /\ Current' = Current /\ Current \in Metas /\ AllPending' = AllPending
      /\ wtx \in Metas
  BY <1>1, CurrentTyped DEF Current, AllPending, Numbered
<1>3. /\ \A p \in Pgids : PageOK(page'[p])
      /\ \A p \in Pages(page, Current) : page'[p] = page[p]
      /\ \A r \in Readers \ exposed : rtx[r] # NoTx =>
           \A p \in Pages(page, rtx[r]) : page'[p] = page[p]
  BY <1>1, Untouched DEF Image
<1>4. /\ Pages(page', Current) = Pages(page, Current)
      /\ Tree(page', Current) /\ Listed(page', Current)
      /\ \A b \in Buckets : FoundIn(page', Current, b) = FoundIn(page, Current, b)
  BY <1>2, <1>3, PagesKept DEF Whole
<1>5. /\ Pages(Image', wtx) = Pages(Image, wtx)
      /\ Tree(Image, wtx) => Tree(Image', wtx)
      /\ Listed(Image, wtx) => Listed(Image', wtx)
      /\ \A b \in Buckets : FoundIn(Image', wtx, b) = FoundIn(Image, wtx, b)
  <2>1. \A p \in Pgids : Image'[p] = Image[p]
    BY <1>1 DEF Image, Written
  <2>2. \A p \in Pgids : PageOK(Image[p])
    BY <1>1, <1>3
  <2>3. Pages(Image, wtx) \subseteq Pgids
    BY <1>2, <2>2, PagesTyped
  <2>4. \A p \in Pages(Image, wtx) : Image'[p] = Image[p]
    BY <2>1, <2>3
  <2> HIDE DEF IInv
  <2> QED BY <1>2, <2>4, PagesKept
<1>6. Typed'
  BY <1>1, <1>3 DEF Typed
<1>7. Numbered'
  BY <1>1, <1>2 DEF Numbered
<1>8. Whole' /\ Apart' /\ Quiet'
  BY <1>1, <1>2, <1>4 DEF Whole, Apart, Quiet
<1>9. Busy'
  BY <1>1, <1>2, <1>4, <1>5 DEF Busy
<1>10. OneBucket'
  BY <1>1, <1>2, <1>4, <1>5 DEF OneBucket
<1>11. Needed'
  <2> SUFFICES ASSUME NEW q \in Readers \ exposed, rtx[q] # NoTx
               PROVE  Pages(page', rtx[q]) \subseteq
                        Pages(page', Current) \cup After(rtx[q].txid)
    BY <1>1, <1>2 DEF Needed, After
  <2>1. rtx[q] \in Metas
    BY DEF Typed
  <2>2. Pages(page', rtx[q]) = Pages(page, rtx[q])
    BY <1>3, <2>1, PagesKept
  <2> QED BY <1>4, <2>2 DEF Needed
<1> QED BY <1>6, <1>7, <1>8, <1>9, <1>10, <1>11

\* A meta page that is written takes the place of the older one.
LEMMA MetaWritten ==
  ASSUME IInv, wpc = "written", meta' = [meta EXCEPT ![wtx.txid % 2] = wtx]
  PROVE  /\ Current' = wtx /\ meta' \in [0..1 -> Metas]
         /\ meta'[0].txid % 2 = 0 /\ meta'[1].txid % 2 = 1
<1> USE DEF IInv
<1>1. /\ wtx \in Metas /\ wtx.txid = Current.txid + 1
      /\ meta[0] \in Metas /\ meta[1] \in Metas
      /\ meta[0].txid % 2 = 0 /\ meta[1].txid % 2 = 1
  BY DEF Numbered, Typed
<1>2. /\ wtx.txid \in Nat /\ meta[0].txid \in Nat /\ meta[1].txid \in Nat
  BY <1>1, MaxTxAssumption DEF Metas, Txids
<1>3. Current = IF meta[0].txid > meta[1].txid THEN meta[0] ELSE meta[1]
  BY DEF Current
<1>4. wtx.txid % 2 \in 0..1
  BY <1>2
<1>5. meta' \in [0..1 -> Metas]
  BY <1>1, <1>4 DEF Typed
<1>6. CASE wtx.txid % 2 = 0
  <2>1. meta'[0] = wtx /\ meta'[1] = meta[1]
    BY <1>6 DEF Typed
  <2>2. Current = meta[1]
    BY <1>1, <1>2, <1>3, <1>6
  <2>3. wtx.txid > meta[1].txid
    BY <1>1, <1>2, <2>2
  <2> QED BY <1>1, <1>5, <1>6, <2>1, <2>3 DEF Current
<1>7. CASE wtx.txid % 2 = 1
  <2>1. meta'[1] = wtx /\ meta'[0] = meta[0]
    BY <1>7 DEF Typed
  <2>2. Current = meta[0]
    BY <1>1, <1>2, <1>3, <1>7
  <2>3. ~(meta[0].txid > wtx.txid)
    BY <1>1, <1>2, <2>2
  <2> QED BY <1>1, <1>5, <1>7, <2>1, <2>3 DEF Current
<1> QED BY <1>4, <1>6, <1>7

\* Its tree is in the file.
LEMMA WrittenTree ==
  ASSUME IInv, wpc = "written"
  PROVE  /\ Pages(page, wtx) = Pages(Image, wtx)
         /\ Tree(page, wtx) /\ Listed(page, wtx)
         /\ \A b \in Buckets : FoundIn(page, wtx, b) = FoundIn(Image, wtx, b)
<1> USE DEF IInv
<1>1. wtx \in Metas /\ DOMAIN dirty = {}
  BY DEF Numbered
<1>2. \A p \in Pgids : Image[p] = page[p]
  BY <1>1, ImageIsPage
<1>3. Pages(page, wtx) \subseteq Pgids
  BY <1>1, PagesTyped DEF Typed
<1>4. Pages(Image, wtx) = Pages(page, wtx)
  BY <1>1, <1>2, <1>3, PagesKept
<1>5. \A p \in Pages(Image, wtx) : page[p] = Image[p]
  BY <1>2, <1>3, <1>4
<1> QED BY <1>1, <1>4, <1>5, PagesKept DEF Busy

LEMMA WriteMetaKeeps ==
  ASSUME IInv, WriteMeta
  PROVE  IInv'
<1> USE DEF IInv
<1>1. /\ wpc = "written" /\ wpc' = "none"
      /\ meta' = [meta EXCEPT ![wtx.txid % 2] = wtx] /\ wtx' = NoTx
      /\ UNCHANGED <<page, ids, pending, rtx, slice, dirty, exposed>>
  BY DEF WriteMeta
<1>2. /\ Current' = wtx /\ meta' \in [0..1 -> Metas]
      /\ meta'[0].txid % 2 = 0 /\ meta'[1].txid % 2 = 1
  BY <1>1, MetaWritten
<1>3. /\ wtx \in Metas /\ wtx.txid = Current.txid + 1 /\ DOMAIN dirty = {}
      /\ Current \in Metas /\ AllPending' = AllPending
      /\ Current.txid \in Nat /\ wtx.txid \in Txids
  BY <1>1, CurrentTyped, MaxTxAssumption DEF Numbered, AllPending, Metas, Txids
<1>4. /\ Pages(page, wtx) = Pages(Image, wtx) /\ Tree(page, wtx) /\ Listed(page, wtx)
  BY <1>1, WrittenTree
<1>5. Typed'
  BY <1>1, <1>2 DEF Typed
<1>6. Numbered'
  <2>1. wtx.pgid <= 1 + 3 * wtx.txid
    BY <1>1 DEF Busy
  <2>2. \A r \in Readers : rtx[r] # NoTx => rtx[r].txid <= wtx.txid
    <3>1. \A r \in Readers : rtx[r] # NoTx => rtx[r].txid \in Nat
      BY MaxTxAssumption DEF Typed, Metas, Txids
    <3> QED BY <1>3, <3>1 DEF Numbered
  <2> QED BY <1>1, <1>2, <1>3, <2>1, <2>2 DEF Numbered
<1>7. Whole' /\ Apart'
  BY <1>1, <1>2, <1>3, <1>4 DEF Whole, Apart
<1>8. Quiet'
  BY <1>1, <1>2, <1>3, <1>4 DEF Quiet, Busy
<1>9. Busy' /\ OneBucket'
  BY <1>1 DEF Busy, OneBucket
<1>10. Needed'
  <2> SUFFICES ASSUME NEW q \in Readers \ exposed, rtx[q] # NoTx
               PROVE  Pages(page, rtx[q]) \subseteq
                        Pages(page, wtx) \cup After(rtx[q].txid)
    BY <1>1, <1>2 DEF Needed, After
  <2>1. rtx[q].txid \in Nat /\ rtx[q].txid < wtx.txid
    BY <1>3, MaxTxAssumption DEF Numbered, Typed, Metas, Txids
  <2>2. pending[wtx.txid] \subseteq After(rtx[q].txid)
    BY <1>3, <2>1 DEF After
  <2>3. Pages(page, Current) \subseteq Pages(page, wtx) \cup pending[wtx.txid]
    BY <1>1, <1>4 DEF Busy
  <2> QED BY <2>2, <2>3 DEF Needed
<1> QED BY <1>5, <1>6, <1>7, <1>8, <1>9, <1>10

-----------------------------------------------------------------------------
\* The pages that updates before the one under way replaced.
Others == UNION {pending[t] : t \in Txids \ {wtx.txid}}

\* A rollback gives back what the update freed, and nothing else.
LEMMA RollbackPending ==
  ASSUME IInv, wpc # "none"
  PROVE  /\ wtx \in Metas /\ wtx.txid \in Txids /\ wtx.txid = Current.txid + 1
         /\ Others \subseteq UpTo(Current) \ Pages(page, Current)
         /\ pending[wtx.txid] \subseteq Pages(page, Current)
         /\ \A t \in Txids : t > wtx.txid => pending[t] = {}
<1> USE DEF IInv
<1>1. /\ wtx \in Metas /\ wtx.txid \in Txids /\ wtx.txid = Current.txid + 1
      /\ Current \in Metas /\ Current.txid \in Nat
  BY CurrentTyped, MaxTxAssumption DEF Numbered, Metas, Txids
<1>2. CASE wpc = "begun"
  <2>1. /\ AllPending \subseteq UpTo(Current) \ Pages(page, Current)
        /\ \A t \in Txids : t >= wtx.txid => pending[t] = {}
    BY <1>1, <1>2 DEF Quiet, Txids
  <2>2. Others \subseteq AllPending
    BY DEF Others, AllPending
  <2> QED BY <1>1, <2>1, <2>2 DEF Txids
<1>3. CASE wpc \in {"spilled", "written"}
  <2>1. ASSUME NEW t \in Txids, t # wtx.txid
        PROVE  pending[t] \subseteq UpTo(Current) \ Pages(page, Current)
    <3>1. t < wtx.txid \/ t > wtx.txid
      BY <1>1, <2>1 DEF Txids
    <3> QED BY <1>3, <3>1 DEF Busy
  <2>2. Others \subseteq UpTo(Current) \ Pages(page, Current)
    BY <2>1 DEF Others
  <2> QED BY <1>1, <1>3, <2>2 DEF Busy
<1> QED BY <1>2, <1>3 DEF Typed

\* Reload leaves the free pages told apart, and none forgotten.
LEMMA Reloaded ==
  ASSUME IInv, wpc # "none", NEW pg, NEW m, Reload(pg, m),
         pg[m.freelist].ids \subseteq Pgids, Others \subseteq pg[m.freelist].ids
  PROVE  /\ Apart' /\ ids' \subseteq Pgids /\ pending' \in [Txids -> SUBSET Pgids]
         /\ ids' \cup AllPending' = pg[m.freelist].ids
         /\ \A t \in Txids :
              pending'[t] = IF t = wtx.txid THEN {} ELSE pending[t]
<1> USE DEF IInv
<1>1. pending' = [pending EXCEPT ![wtx.txid] = {}]
      /\ ids' = pg[m.freelist].ids \ Others
  BY DEF Reload, Others
<1>2. \A t \in Txids : pending'[t] = IF t = wtx.txid THEN {} ELSE pending[t]
  BY <1>1 DEF Typed
<1>3. pending' \in [Txids -> SUBSET Pgids]
  BY <1>1 DEF Typed
<1>4. AllPending' = Others
  <2>1. ASSUME NEW p \in AllPending' PROVE p \in Others
    <3>1. PICK t \in Txids : p \in pending'[t]
      BY DEF AllPending
    <3>2. t # wtx.txid /\ p \in pending[t]
      BY <1>2, <3>1
    <3> QED BY <3>2 DEF Others
  <2>2. ASSUME NEW p \in Others PROVE p \in AllPending'
    <3>1. PICK t \in Txids \ {wtx.txid} : p \in pending[t]
      BY DEF Others
    <3>2. p \in pending'[t]
      BY <1>2, <3>1
    <3> QED BY <3>2 DEF AllPending
  <2> QED BY <2>1, <2>2
<1>5. Apart'
  <2>1. \A t, u \in Txids : t # u => pending'[t] \cap pending'[u] = {}
    BY <1>2 DEF Apart
  <2> QED BY <1>1, <1>4, <2>1 DEF Apart
<1> QED BY <1>1, <1>2, <1>3, <1>4, <1>5

LEMMA RollsBackKeeps ==
  ASSUME IInv, RollsBack
  PROVE  IInv'
<1> USE DEF IInv
<1>1. PICK s \in SUBSET DOMAIN dirty : page' = Written(s)
  BY DEF RollsBack
<1>2. /\ wpc # "none" /\ wpc' = "none" /\ wtx' = NoTx
      /\ DOMAIN dirty' = {} /\ Reload(page', Current)
      /\ UNCHANGED <<meta, rtx, slice, exposed>>
  BY DEF RollsBack
<1>3. Current' = Current /\ Current \in Metas
  BY <1>2, CurrentTyped DEF Current
<1>4. /\ \A p \in Pgids : PageOK(page'[p])
      /\ \A p \in Pages(page, Current) : page'[p] = page[p]
      /\ \A r \in Readers \ exposed : rtx[r] # NoTx =>
           \A p \in Pages(page, rtx[r]) : page'[p] = page[p]
  BY <1>1, Untouched
<1>5. /\ Pages(page', Current) = Pages(page, Current)
      /\ Tree(page', Current) /\ Listed(page', Current)
  BY <1>3, <1>4, PagesKept DEF Whole
<1>6. /\ wtx \in Metas /\ wtx.txid \in Txids /\ wtx.txid = Current.txid + 1
      /\ Others \subseteq UpTo(Current) \ Pages(page, Current)
      /\ pending[wtx.txid] \subseteq Pages(page, Current)
      /\ \A t \in Txids : t > wtx.txid => pending[t] = {}
  BY <1>2, RollbackPending
<1>7. page'[Current.freelist].ids = UpTo(Current) \ Pages(page, Current)
  BY <1>5 DEF Listed
<1>8. UpTo(Current) \subseteq Pgids
  BY <1>3, MaxTxAssumption DEF UpTo, Metas, Pgids
<1>9. /\ Apart' /\ ids' \subseteq Pgids /\ pending' \in [Txids -> SUBSET Pgids]
      /\ ids' \cup AllPending' = UpTo(Current) \ Pages(page, Current)
      /\ \A t \in Txids : pending'[t] = IF t = wtx.txid THEN {} ELSE pending[t]
  BY <1>2, <1>6, <1>7, <1>8, Reloaded
<1>10. Typed'
  BY <1>2, <1>4, <1>9 DEF Typed
<1>11. Numbered'
  BY <1>2, <1>3 DEF Numbered
<1>12. Whole'
  BY <1>3, <1>5 DEF Whole
<1>13. Quiet'
  <2>1. \A t \in Txids : t > Current.txid => pending'[t] = {}
    BY <1>3, <1>6, <1>9, MaxTxAssumption DEF Metas, Txids
  <2> QED BY <1>3, <1>5, <1>9, <2>1 DEF Quiet
<1>14. Busy' /\ OneBucket'
  BY <1>2 DEF Busy, OneBucket
<1>15. Needed'
  <2> SUFFICES ASSUME NEW q \in Readers \ exposed, rtx[q] # NoTx
               PROVE  Pages(page', rtx[q]) \subseteq
                        Pages(page', Current) \cup After(rtx[q].txid)'
    BY <1>2, <1>3 DEF Needed
  <2>1. rtx[q] \in Metas
    BY DEF Typed
  <2>2. Pages(page', rtx[q]) = Pages(page, rtx[q])
    BY <1>4, <2>1, PagesKept
  <2>3. ASSUME NEW p \in After(rtx[q].txid)
        PROVE  p \in Pages(page, Current) \cup After(rtx[q].txid)'
    <3>1. PICK t \in Txids : t > rtx[q].txid /\ p \in pending[t]
      BY DEF After
    <3>2. CASE t = wtx.txid
      BY <1>6, <3>1, <3>2
    <3>3. CASE t # wtx.txid
      <4>1. p \in pending'[t]
        BY <1>9, <3>1, <3>3
      <4> QED BY <1>2, <3>1, <4>1 DEF After
    <3> QED BY <3>2, <3>3
  <2>4. Pages(page, rtx[q]) \subseteq Pages(page, Current) \cup After(rtx[q].txid)
    BY DEF Needed
  <2> QED BY <1>5, <2>2, <2>3, <2>4
<1> QED BY <1>9, <1>10, <1>11, <1>12, <1>13, <1>14, <1>15

LEMMA MetaSyncFailsKeeps ==
  ASSUME IInv, MetaSyncFails
  PROVE  IInv'
<1> USE DEF IInv
<1>1. /\ wpc = "written" /\ wpc' = "none" /\ wtx' = NoTx
      /\ meta' = [meta EXCEPT ![wtx.txid % 2] = wtx] /\ Reload(page, wtx)
      /\ exposed' = {r \in Readers : rtx[r] # NoTx}
      /\ UNCHANGED <<page, rtx, slice, dirty>>
  BY DEF MetaSyncFails
<1>2. /\ Current' = wtx /\ meta' \in [0..1 -> Metas]
      /\ meta'[0].txid % 2 = 0 /\ meta'[1].txid % 2 = 1
  BY <1>1, MetaWritten
<1>3. /\ wtx \in Metas /\ wtx.txid \in Txids /\ wtx.txid = Current.txid + 1
      /\ \A t \in Txids : t > wtx.txid => pending[t] = {}
  BY <1>1, RollbackPending
<1>4. /\ Pages(page, wtx) = Pages(Image, wtx) /\ Tree(page, wtx) /\ Listed(page, wtx)
  BY <1>1, WrittenTree
<1>5. page[wtx.freelist].ids = UpTo(wtx) \ Pages(page, wtx)
  BY <1>4 DEF Listed
<1>6. Others \subseteq UpTo(wtx) \ Pages(page, wtx)
  <2>1. Others \subseteq AllPending
    BY DEF Others, AllPending
  <2> QED BY <1>1, <1>4, <2>1 DEF Busy
<1>7. UpTo(wtx) \subseteq Pgids
  BY <1>3, MaxTxAssumption DEF UpTo, Metas, Pgids
<1>8. /\ Apart' /\ ids' \subseteq Pgids /\ pending' \in [Txids -> SUBSET Pgids]
      /\ ids' \cup AllPending' = UpTo(wtx) \ Pages(page, wtx)
      /\ \A t \in Txids : pending'[t] = IF t = wtx.txid THEN {} ELSE pending[t]
  BY <1>1, <1>5, <1>6, <1>7, Reloaded
<1>9. Typed'
  BY <1>1, <1>2, <1>8 DEF Typed
<1>10. Numbered'
  <2>1. wtx.pgid <= 1 + 3 * wtx.txid /\ DOMAIN dirty = {} /\ wtx.txid >= 1
    BY <1>1, <1>3, CurrentTyped, MaxTxAssumption DEF Busy, Numbered, Metas, Txids
  <2>2. \A r \in Readers : rtx[r] # NoTx => rtx[r].txid <= wtx.txid
    <3>1. \A r \in Readers : rtx[r] # NoTx => rtx[r].txid \in Nat
      BY MaxTxAssumption DEF Typed, Metas, Txids
    <3>2. Current.txid \in Nat
      BY CurrentTyped, MaxTxAssumption DEF Metas, Txids
    <3> QED BY <1>3, <3>1, <3>2 DEF Numbered
  <2> QED BY <1>1, <1>2, <2>1, <2>2 DEF Numbered
<1>11. Whole'
  BY <1>1, <1>2, <1>4 DEF Whole
<1>12. Quiet'
  BY <1>1, <1>2, <1>3, <1>8 DEF Quiet
<1>13. Busy' /\ OneBucket'
  BY <1>1 DEF Busy, OneBucket
<1>14. Needed'
  BY <1>1 DEF Needed
<1> QED BY <1>8, <1>9, <1>10, <1>11, <1>12, <1>13, <1>14

LEMMA CrashKeeps ==
  ASSUME IInv, Crash
  PROVE  IInv'
<1> USE DEF IInv
<1>1. PICK s \in SUBSET DOMAIN dirty : page' = Written(s)
  BY DEF Crash
<1>2. /\ wpc' = "none" /\ wtx' = NoTx /\ DOMAIN dirty' = {} /\ exposed' = {}
      /\ ids' = page'[Current.freelist].ids /\ pending' = [t \in Txids |-> {}]
      /\ rtx' = [r \in Readers |-> NoTx] /\ slice' = [r \in Readers |-> NoTx]
      /\ UNCHANGED meta
  BY DEF Crash
<1>3. Current' = Current /\ Current \in Metas
  BY <1>2, CurrentTyped DEF Current
<1>4. /\ \A p \in Pgids : PageOK(page'[p])
      /\ \A p \in Pages(page, Current) : page'[p] = page[p]
  BY <1>1, Untouched
<1>5. /\ Pages(page', Current) = Pages(page, Current)
      /\ Tree(page', Current) /\ Listed(page', Current)
  BY <1>3, <1>4, PagesKept DEF Whole
<1>6. ids' = UpTo(Current) \ Pages(page, Current) /\ AllPending' = {}
  BY <1>2, <1>5 DEF Listed, AllPending
<1>7. UpTo(Current) \subseteq Pgids
  BY <1>3, MaxTxAssumption DEF UpTo, Metas, Pgids
<1>8. Typed'
  BY <1>2, <1>4, <1>6, <1>7 DEF Typed
<1>9. Numbered'
  BY <1>2, <1>3 DEF Numbered
<1>10. Whole' /\ Apart'
  BY <1>2, <1>3, <1>5, <1>6 DEF Whole, Apart
<1>11. Quiet'
  BY <1>2, <1>3, <1>5, <1>6 DEF Quiet
<1>12. Busy' /\ OneBucket' /\ Needed'
  BY <1>2 DEF Busy, OneBucket, Needed
<1> QED BY <1>8, <1>9, <1>10, <1>11, <1>12

LEMMA StepInvariant == IInv /\ [Next]_vars => IInv'
<1> SUFFICES ASSUME IInv, [Next]_vars PROVE IInv'
  OBVIOUS
<1>1. CASE UNCHANGED vars
  <2> USE <1>1 DEF IInv, vars
  <2>1. Current' = Current
    BY DEF Current
  <2>2. Typed' /\ Numbered'
    BY <2>1 DEF Typed, Numbered
  <2>3. Whole' /\ Apart' /\ Quiet' /\ Busy' /\ OneBucket'
    BY FileKept
  <2>4. Needed'
    BY <2>1 DEF Needed, After
  <2> QED BY <2>2, <2>3, <2>4
<1>2. ASSUME NEW r \in Readers, ReadBegins(r) \/ \E b \in Buckets : FindOneEnds(r, b)
      PROVE  IInv'
  BY <1>2, ReadBeginsKeeps, FindOneEndsKeeps
<1>3. ASSUME NEW b \in Buckets, Spill(b) PROVE IInv'
  BY <1>3, SpillKeeps
<1> QED BY <1>1, <1>2, <1>3, UpdateBeginsKeeps, WriteKeeps, WriteMetaKeeps,
           RollsBackKeeps, MetaSyncFailsKeeps, CrashKeeps DEF Next

LEMMA Invariant == Spec => []IInv
<1> QED BY InitInvariant, StepInvariant, PTL DEF Spec

-----------------------------------------------------------------------------
(* What they say of bolt.                                                  *)

\* Every page, list and number of bolt's file and of its transactions stays in
\* range: page, meta, freelist and tx of page.go, db.go, freelist.go and tx.go.
THEOREM TypeCorrect == Spec => []TypeOK
<1>1. IInv => TypeOK
  BY DEF IInv, Typed, PageOK, TypeOK
<1> QED BY <1>1, Invariant, PTL

\* Whenever no update is under way what tx.check looks for holds: commits,
\* rollbacks, failed syncs and crashes lose no page and use none twice.
THEOREM PagesAccountedFor == Spec => []CheckPasses
<1>1. IInv => CheckPasses
  <2> SUFFICES ASSUME IInv, wpc = "none" PROVE CheckPasses
    BY DEF CheckPasses
  <2>1. Reachable(Current) = Pages(page, Current)
    BY InTheFile
  <2>2. Pages(page, Current) \subseteq UpTo(Current)
    BY DEF IInv, Whole, Tree
  <2>3. Free = UpTo(Current) \ Pages(page, Current)
    BY DEF IInv, Quiet, Free
  <2> QED BY <2>1, <2>2, <2>3 DEF IInv, Apart, CheckPasses, UpTo
<1> QED BY <1>1, Invariant, PTL

\* freelist.release and freelist.free keep what an open read-only transaction
\* can reach from being allocated or written, until a sync of a meta page fails.
THEOREM ReadersPagesStay == Spec => []ReadersKeepTheirPages
<1>1. IInv => ReadersKeepTheirPages
  <2> SUFFICES ASSUME IInv, NEW r \in Readers \ exposed, rtx[r] # NoTx
               PROVE  Reachable(rtx[r]) \cap (ids \cup DOMAIN dirty) = {}
    BY DEF ReadersKeepTheirPages
  <2> USE DEF IInv
  <2>1. Reachable(rtx[r]) = Pages(page, rtx[r])
    BY InTheFile
  <2>2. After(rtx[r].txid) \subseteq AllPending
    BY DEF After, AllPending
  <2>3. Reachable(rtx[r]) \subseteq Pages(page, Current) \cup AllPending
    BY <2>1, <2>2 DEF Needed
  <2>4. (Pages(page, Current) \cup AllPending) \cap (ids \cup DOMAIN dirty) = {}
    <3>1. wpc \in {"none", "begun"} \/ wpc \in {"spilled", "written"}
      BY DEF Typed
    <3>2. CASE wpc \in {"none", "begun"}
      BY <3>2 DEF Numbered, Apart, Quiet
    <3>3. CASE wpc \in {"spilled", "written"}
      BY <3>3 DEF Apart, Busy
    <3> QED BY <3>1, <3>2, <3>3
  <2> QED BY <2>3, <2>4
<1> QED BY <1>1, Invariant, PTL

-----------------------------------------------------------------------------
(* The refinement of Snapshots.                                            *)

Committed == Contents(Current)

View == [r \in Readers |-> IF rtx[r] = NoTx \/ r \in exposed THEN NoTx
                           ELSE Contents(rtx[r])]

LEMMA ContentsTyped ==
  ASSUME Typed, NEW m \in Metas
  PROVE  Contents(m) \in [Buckets -> Txids] /\ Contents(m) # NoTx
<1>1. 0 \in Txids
  BY MaxTxAssumption DEF Txids
<1>2. ASSUME NEW b \in Buckets PROVE Find(m, b) \in Txids
  <2>1. LeafOf(m, b) \in Pgids \cup {0}
    BY PagesTyped, InTheFile DEF Typed
  <2>2. LeafOf(m, b) # 0 => PageOK(page[LeafOf(m, b)])
    BY <2>1 DEF Typed
  <2> QED BY <1>1, <2>2 DEF Find, PageOK
<1> QED BY <1>2, NoTxAssumption DEF Contents

\* A step that leaves the pages of m alone leaves its contents.
LEMMA ContentsKept ==
  ASSUME NEW m \in Metas, \A p \in Pages(page, m) : page'[p] = page[p]
  PROVE  Contents(m)' = Contents(m)
<1>1. \A b \in Buckets : FoundIn(page', m, b) = FoundIn(page, m, b)
  BY PagesKept
<1>2. \A b \in Buckets : Find(m, b)' = FoundIn(page', m, b)
  BY DEF Find, LeafOf, FoundIn, LeafIn
<1>3. \A b \in Buckets : Find(m, b) = FoundIn(page, m, b)
  BY InTheFile
<1> QED BY <1>1, <1>2, <1>3 DEF Contents

\* A step that leaves transactions and meta pages alone, and the pages they
\* need, cannot be seen.
LEMMA Unseen ==
  ASSUME IInv, UNCHANGED <<meta, rtx, exposed>>,
         \A p \in Pages(page, Current) : page'[p] = page[p],
         \A r \in Readers \ exposed : rtx[r] # NoTx =>
           \A p \in Pages(page, rtx[r]) : page'[p] = page[p]
  PROVE  Committed' = Committed /\ View' = View
<1>1. Current' = Current /\ Current \in Metas
  BY CurrentTyped DEF IInv, Current
<1>2. Committed' = Committed
  <2>1. Committed' = Contents(Current)'
    BY DEF Committed
  <2>2. Contents(Current)' = [b \in Buckets |-> FoundIn(page', Current, b)]
    BY <1>1 DEF Contents, Find, LeafOf, FoundIn, LeafIn
  <2>3. \A b \in Buckets : FoundIn(page', Current, b) = FoundIn(page, Current, b)
    BY <1>1, PagesKept
  <2> QED BY <2>1, <2>2, <2>3, InTheFile DEF Committed, Contents
<1>3. ASSUME NEW r \in Readers, rtx[r] # NoTx, r \notin exposed
      PROVE  Contents(rtx[r])' = Contents(rtx[r])
  <2>1. rtx[r] \in Metas
    BY <1>3 DEF IInv, Typed
  <2>2. Contents(rtx[r])' = [b \in Buckets |-> FoundIn(page', rtx[r], b)]
    BY DEF Contents, Find, LeafOf, FoundIn, LeafIn
  <2>3. \A b \in Buckets : FoundIn(page', rtx[r], b) = FoundIn(page, rtx[r], b)
    BY <1>3, <2>1, PagesKept
  <2> QED BY <2>2, <2>3, InTheFile DEF Contents
<1>4. View' = View
  BY <1>3 DEF View
<1> QED BY <1>2, <1>4

\* What a commit changes is one bucket.
LEMMA OneChanged ==
  ASSUME IInv, wpc = "written", meta' = [meta EXCEPT ![wtx.txid % 2] = wtx],
         UNCHANGED page
  PROVE  \E b \in Buckets : \E v \in {Committed'[b]} :
           Committed' = [Committed EXCEPT ![b] = v]
<1>1. Current' = wtx
  BY MetaWritten
<1>2. Committed' = [c \in Buckets |-> FoundIn(page, wtx, c)]
  BY <1>1 DEF Committed, Contents, Find, LeafOf, FoundIn, LeafIn
<1>3. Committed = [c \in Buckets |-> FoundIn(page, Current, c)]
  BY InTheFile DEF Committed, Contents
<1>4. PICK b \in Buckets : \A c \in Buckets \ {b} :
         FoundIn(Image, wtx, c) = FoundIn(page, Current, c)
  BY DEF IInv, OneBucket
<1>5. \A c \in Buckets \ {b} : FoundIn(page, wtx, c) = FoundIn(page, Current, c)
  BY <1>4, WrittenTree
<1>6. Committed' = [Committed EXCEPT ![b] = Committed'[b]]
  BY <1>2, <1>3, <1>5
<1> QED BY <1>6

LEMMA InitSnapshots == Init => Snap!Init
<1> SUFFICES ASSUME Init PROVE Snap!Init
  OBVIOUS
<1>1. /\ 3 \in Pgids /\ page[3] = Root([b \in Buckets |-> 0])
      /\ rtx = [r \in Readers |-> NoTx]
  BY MaxTxAssumption DEF Init, Pgids
<1>2. Current.root = 3
  BY DEF Init, Current
<1>3. \A b \in Buckets : Find(Current, b) = 0
  BY <1>1, <1>2 DEF Find, LeafOf, Root
<1>4. Committed = [b \in Buckets |-> 0] /\ View = [r \in Readers |-> NoTx]
  BY <1>1, <1>3 DEF Committed, Contents, View
<1> QED BY <1>4 DEF Snap!Init, Committed, View

LEMMA ReadBeginsSnapshots ==
  ASSUME IInv, NEW r \in Readers, ReadBegins(r)
  PROVE  Snap!Begin(r)
<1> USE DEF IInv, ReadBegins
<1>1. Current' = Current /\ Current \in Metas /\ Current # NoTx
  BY CurrentTyped, NoTxAssumption DEF Current
<1>2. r \notin exposed /\ exposed' = exposed
  BY DEF Typed
<1>3. \A q \in Readers : rtx'[q] = IF q = r THEN Current ELSE rtx[q]
  BY DEF Typed
<1>4. Committed' = Committed
  BY <1>1 DEF Committed, Contents, Find, LeafOf
<1>5. ASSUME NEW q \in Readers
      PROVE  View'[q] = IF q = r THEN Committed ELSE View[q]
  <2>1. CASE q = r
    <3>1. View'[q] = Contents(rtx[q])'
      BY <1>1, <1>2, <1>3, <2>1 DEF View
    <3>2. Contents(rtx[q])' = Contents(Current)
      BY <1>3, <2>1 DEF Contents, Find, LeafOf
    <3> QED BY <2>1, <3>1, <3>2 DEF Committed
  <2>2. CASE q # r
    <3>1. rtx'[q] = rtx[q]
      BY <1>3, <2>2
    <3>2. Contents(rtx[q])' = Contents(rtx[q])
      BY <3>1 DEF Contents, Find, LeafOf
    <3> QED BY <1>2, <2>2, <3>1, <3>2 DEF View
  <2> QED BY <2>1, <2>2
<1>6. View' = [View EXCEPT ![r] = Committed]
  BY <1>5 DEF View
<1>7. View[r] = NoTx
  BY DEF View
<1> QED BY <1>4, <1>6, <1>7 DEF Snap!Begin, Committed, View

LEMMA FindOneEndsSnapshots ==
  ASSUME IInv, NEW r \in Readers, NEW b \in Buckets, FindOneEnds(r, b)
  PROVE  Snap!End(r) \/ (Committed' = Committed /\ View' = View)
<1> USE DEF IInv, FindOneEnds
<1>1. Current' = Current /\ page' = page
  BY DEF Current
<1>2. Committed' = Committed
  BY <1>1 DEF Committed, Contents, Find, LeafOf
<1>3. \A q \in Readers : rtx'[q] = IF q = r THEN NoTx ELSE rtx[q]
  BY DEF Typed
<1>4. ASSUME NEW q \in Readers
      PROVE  View'[q] = IF q = r THEN NoTx ELSE View[q]
  <2>1. CASE q = r
    BY <1>3, <2>1 DEF View
  <2>2. CASE q # r
    <3>1. rtx'[q] = rtx[q]
      BY <1>3, <2>2
    <3>2. Contents(rtx[q])' = Contents(rtx[q])
      <4> HIDE DEF IInv, FindOneEnds
      <4> QED BY <1>1, <3>1 DEF Contents, Find, LeafOf
    <3> QED BY <2>2, <3>1, <3>2 DEF View
  <2> QED BY <2>1, <2>2
<1>5. View' = [View EXCEPT ![r] = NoTx]
  BY <1>4 DEF View
<1>6. CASE r \in exposed
  <2>1. View[r] = NoTx
    BY <1>6 DEF View
  <2>2. View' = View
    BY <1>5, <2>1 DEF View
  <2> QED BY <1>2, <2>2
<1>7. CASE r \notin exposed
  <2>1. rtx[r] \in Metas
    BY DEF Typed
  <2>2. View[r] # NoTx
    BY <1>7, <2>1, ContentsTyped DEF View
  <2> QED BY <1>2, <1>5, <2>2 DEF Snap!End, Committed, View
<1> QED BY <1>6, <1>7

LEMMA UpdateSnapshots ==
  ASSUME IInv, UpdateBegins \/ (\E b \in Buckets : Spill(b)) \/ Write \/ RollsBack
  PROVE  Committed' = Committed /\ View' = View
<1>1. UNCHANGED <<meta, rtx, exposed>>
  BY DEF UpdateBegins, Spill, Write, RollsBack
<1>2. page' = page \/ \E s \in SUBSET DOMAIN dirty : page' = Written(s)
  BY DEF UpdateBegins, Spill, Write, RollsBack
<1> QED BY <1>1, <1>2, Untouched, Unseen

LEMMA WriteMetaSnapshots ==
  ASSUME IInv, WriteMeta
  PROVE  Snap!Commit
<1>1. \E b \in Buckets : \E v \in {Committed'[b]} :
        Committed' = [Committed EXCEPT ![b] = v]
  BY OneChanged DEF WriteMeta
<1>2. View' = View
  BY DEF WriteMeta, View, Contents, Find, LeafOf
<1> QED BY <1>1, <1>2 DEF Snap!Commit, Committed, View

LEMMA MetaSyncFailsSnapshots ==
  ASSUME IInv, MetaSyncFails
  PROVE  Snap!FailedCommit
<1>1. \E b \in Buckets : \E v \in {Committed'[b]} :
        Committed' = [Committed EXCEPT ![b] = v]
  BY OneChanged DEF MetaSyncFails
<1>2. View' = [r \in Readers |-> NoTx]
  BY DEF MetaSyncFails, View
<1> QED BY <1>1, <1>2 DEF Snap!FailedCommit, Committed, View

LEMMA CrashSnapshots ==
  ASSUME IInv, Crash
  PROVE  Snap!Crash
<1>1. PICK s \in SUBSET DOMAIN dirty : page' = Written(s)
  BY DEF Crash
<1>2. Current' = Current /\ Current \in Metas
  BY CurrentTyped DEF IInv, Crash, Current
<1>3. \A b \in Buckets : FoundIn(page', Current, b) = FoundIn(page, Current, b)
  BY <1>1, <1>2, Untouched, PagesKept
<1>4. Committed' = Committed
  <2>1. Committed' = [b \in Buckets |-> FoundIn(page', Current, b)]
    BY <1>2 DEF Committed, Contents, Find, LeafOf, FoundIn, LeafIn
  <2> QED BY <1>3, <2>1, InTheFile DEF Committed, Contents
<1>5. View' = [r \in Readers |-> NoTx]
  BY DEF Crash, View
<1> QED BY <1>4, <1>5 DEF Snap!Crash, Committed, View

\* Every step of bolt is one of Snapshots or cannot be seen: a transaction reads
\* what was committed when it began (db.go, tx.go and freelist.go under View and
\* Update), whatever updates, rollbacks and crashes come between.
THEOREM BoltKeepsItsPromise == Spec => ConsistentView
<1>1. ASSUME IInv, [Next]_vars
      PROVE  Snap!Next \/ (Committed' = Committed /\ View' = View)
  <2>1. CASE UNCHANGED vars
    BY <2>1 DEF vars, Committed, View, Contents, Find, LeafOf, Current
  <2>2. ASSUME NEW r \in Readers,
               ReadBegins(r) \/ \E b \in Buckets : FindOneEnds(r, b)
        PROVE  Snap!Next \/ (Committed' = Committed /\ View' = View)
    BY <1>1, <2>2, ReadBeginsSnapshots, FindOneEndsSnapshots DEF Snap!Next
  <2>3. CASE UpdateBegins \/ (\E b \in Buckets : Spill(b)) \/ Write \/ RollsBack
    BY <1>1, <2>3, UpdateSnapshots
  <2>4. CASE WriteMeta \/ MetaSyncFails \/ Crash
    BY <1>1, <2>4, WriteMetaSnapshots, MetaSyncFailsSnapshots, CrashSnapshots
       DEF Snap!Next
  <2> QED BY <1>1, <2>1, <2>2, <2>3, <2>4 DEF Next
<1>2. IInv /\ [Next]_vars => [Snap!Next]_<<Committed, View>>
  BY <1>1
<1>3. [][Snap!Next]_<<Committed, View>> /\ Snap!Init => ConsistentView
  BY PTL DEF ConsistentView, Snap!Spec, Committed, View
<1> QED BY <1>2, <1>3, InitSnapshots, Invariant, PTL DEF Spec
=============================================================================
