------------------------------ MODULE BoltPages ------------------------------
(***************************************************************************)
(* The pages behind the store.  bolt never changes a page that somebody    *)
(* may read: a read-write transaction writes the bucket it changes, the    *)
(* root that points to the buckets and the list of free pages to pages     *)
(* that are free, and publishes them by writing one of the two meta pages. *)
(* The pages it replaced are "pending" under its number until no read-only *)
(* transaction that is old enough to need them is open.                    *)
(*                                                                         *)
(* Every bucket, root and free list takes one page here, and the writing   *)
(* of a meta page is atomic.  FindOne, FindAll and Count of rucksack/db.go *)
(* are the readers: FindOne keeps a slice of the mapped file after its     *)
(* transaction has ended, FindAll keeps its transaction.                   *)
(***************************************************************************)
EXTENDS Integers, FiniteSets, FiniteSetsExt

CONSTANTS Readers,     \* read-only transactions that may be open together
          Buckets,     \* buckets that are written
          NoTx,        \* no transaction
          MaxTx        \* bound on the numbers of transactions

ASSUME MaxTxAssumption == MaxTx \in Nat /\ MaxTx >= 1

VARIABLES
  page,      \* the file after the meta pages: what each page holds
  meta,      \* the two meta pages
  ids,       \* freelist.ids: the pages that can be allocated
  pending,   \* freelist.pending: the pages each transaction replaced
  rtx,       \* the meta page each open read-only transaction copied
  slice,     \* what FindOne returned to a caller: where it points, what it was
  wtx,       \* the meta page of the read-write transaction
  wpc,       \* how far it is
  dirty,     \* tx.pages: the pages it will write
  exposed    \* history: the readers that were open when a sync failed

vars == <<page, meta, ids, pending, rtx, slice, wtx, wpc, dirty, exposed>>

Txids == 0..MaxTx

\* A transaction takes at most three pages from the end of the file.
Pgids == 2..(4 + 3 * MaxTx)

Leaf(v) == [kind |-> "leaf", value |-> v]
Root(f) == [kind |-> "root", leaf |-> f]
List(s) == [kind |-> "freelist", ids |-> s]

Metas == [txid : Txids, root : Pgids, freelist : Pgids, pgid : Pgids]

ASSUME NoTxAssumption == NoTx \notin Metas /\ NoTx \notin [Buckets -> Txids]

\* The meta page with the higher number counts.
Current == IF meta[0].txid > meta[1].txid THEN meta[0] ELSE meta[1]

\* The page of a bucket, from a meta page on.  0 when the bucket is missing, or
\* when the root was overwritten by something else.
LeafOf(m, b) == IF page[m.root].kind = "root" THEN page[m.root].leaf[b] ELSE 0

\* What a reader finds in a bucket; 0 for nothing, or nothing of sense.
Find(m, b) == LET p == LeafOf(m, b)
              IN  IF p = 0 \/ page[p].kind # "leaf" THEN 0 ELSE page[p].value

Contents(m) == [b \in Buckets |-> Find(m, b)]

Reachable(m) == ({m.root, m.freelist} \cup {LeafOf(m, b) : b \in Buckets}) \ {0}

AllPending == UNION {pending[t] : t \in Txids}
Free == ids \cup AllPending

Init ==
  /\ page = [p \in Pgids |-> IF p = 3 THEN Root([b \in Buckets |-> 0])
                                      ELSE List({})]
  /\ meta = [i \in 0..1 |->
               [txid |-> i, root |-> 3, freelist |-> 2, pgid |-> 4]]
  /\ ids = {} /\ pending = [t \in Txids |-> {}]
  /\ rtx = [r \in Readers |-> NoTx] /\ slice = [r \in Readers |-> NoTx]
  /\ wtx = NoTx /\ wpc = "none" /\ dirty = << >> /\ exposed = {}

-----------------------------------------------------------------------------
(* Read-only transactions.                                                 *)

ReadBegins(r) ==
  /\ rtx[r] = NoTx
  /\ rtx' = [rtx EXCEPT ![r] = Current]
  /\ slice' = [slice EXCEPT ![r] = NoTx]
  /\ UNCHANGED <<page, meta, ids, pending, wtx, wpc, dirty, exposed>>

\* View closes its transaction; FindOne hands out what b.Get returned in it.
FindOneEnds(r, b) ==
  /\ rtx[r] # NoTx
  /\ rtx' = [rtx EXCEPT ![r] = NoTx]
  /\ slice' = [slice EXCEPT ![r] =
       IF Find(rtx[r], b) = 0 THEN NoTx
       ELSE [at |-> LeafOf(rtx[r], b), value |-> Find(rtx[r], b)]]
  /\ exposed' = exposed \ {r}
  /\ UNCHANGED <<page, meta, ids, pending, wtx, wpc, dirty>>

-----------------------------------------------------------------------------
(* The read-write transaction.                                             *)

\* Mistake: the number of the new transaction is taken, not that of the oldest.
ReleasedAll == {t \in Txids : t <= Current.txid}

\* Mistake: the transaction after the oldest reader is released as well.
ReleasedTooEarly == {t \in Txids : \A r \in Readers :
                                     rtx[r] # NoTx => t <= rtx[r].txid + 1}

\* The transactions whose pages no open reader needs any more.
Released == {t \in Txids : \A r \in Readers :
                             rtx[r] # NoTx => t < rtx[r].txid}

UpdateBegins ==
  /\ wpc = "none" /\ Current.txid < MaxTx
  /\ wpc' = "begun"
  /\ wtx' = [Current EXCEPT !.txid = @ + 1]
  /\ ids' = ids \cup UNION {pending[t] : t \in Released}
  /\ pending' = [t \in Txids |-> IF t \in Released THEN {} ELSE pending[t]]
  /\ UNCHANGED <<page, meta, rtx, slice, dirty, exposed>>

\* freelist.allocate takes the first free page, else the file grows.
Allocate(a) ==
  LET p == IF a.ids = {} THEN a.pgid ELSE Min(a.ids)
  IN  [got |-> p, ids |-> a.ids \ {p},
       pgid |-> IF p = a.pgid THEN p + 1 ELSE a.pgid]

\* Mistake: a bucket that has no page yet gives its page 0 back.
ReplacedZero(m, b) == {LeafOf(m, b), m.root, m.freelist}

\* The pages an update of bucket b replaces.
Replaced(m, b) == {LeafOf(m, b), m.root, m.freelist} \ {0}

\* freelist.all: what is saved, the pages that open transactions need included.
OnList(free, freed) == free \cup freed \cup AllPending

\* The bucket's page, the root and the list of free pages are written anew, in
\* this order, and what they replace becomes pending.
Spill(b) ==
  /\ wpc = "begun"
  /\ LET leaf  == Allocate([ids |-> ids, pgid |-> wtx.pgid])
         root  == Allocate(leaf)
         list  == Allocate(root)
         freed == Replaced(wtx, b)
     IN  /\ pending' = [pending EXCEPT ![wtx.txid] = @ \cup freed]
         /\ ids' = list.ids
         /\ wtx' = [wtx EXCEPT !.root = root.got, !.freelist = list.got,
                               !.pgid = list.pgid]
         /\ dirty' = [p \in {leaf.got, root.got, list.got} |->
              CASE p = leaf.got -> Leaf(wtx.txid)
                [] p = root.got -> Root([c \in Buckets |->
                                     IF c = b THEN leaf.got ELSE LeafOf(wtx, c)])
                [] p = list.got -> List(OnList(list.ids, freed))]
  /\ wpc' = "spilled"
  /\ UNCHANGED <<page, meta, rtx, slice, exposed>>

Written(s) == [p \in Pgids |-> IF p \in s THEN dirty[p] ELSE page[p]]

Write ==
  /\ wpc = "spilled" /\ wpc' = "written"
  /\ page' = Written(DOMAIN dirty)
  /\ dirty' = << >>
  /\ UNCHANGED <<meta, ids, pending, rtx, slice, wtx, exposed>>

WriteMeta ==
  /\ wpc = "written" /\ wpc' = "none"
  /\ meta' = [meta EXCEPT ![wtx.txid % 2] = wtx]
  /\ wtx' = NoTx
  /\ UNCHANGED <<page, ids, pending, rtx, slice, dirty, exposed>>

\* Mistake: the list is taken as it was written, pending pages included.
ReloadAll(pg, m) ==
  /\ ids' = pg[m.freelist].ids
  /\ pending' = [pending EXCEPT ![wtx.txid] = {}]

\* tx.rollback: the list is read again from the meta page that counts.
Reload(pg, m) ==
  /\ pending' = [pending EXCEPT ![wtx.txid] = {}]
  /\ ids' = pg[m.freelist].ids
              \ UNION {pending[t] : t \in Txids \ {wtx.txid}}

\* The function returned an error, a page could not be allocated, or the file
\* could not be written; then some of the pages may have been.
RollsBack ==
  /\ wpc \in {"begun", "spilled", "written"}
  /\ \E s \in SUBSET DOMAIN dirty : page' = Written(s)
  /\ Reload(page', Current)
  /\ wpc' = "none" /\ wtx' = NoTx /\ dirty' = << >>
  /\ UNCHANGED <<meta, rtx, slice, exposed>>

\* The meta page is in the file when the sync after it fails: the transaction
\* is rolled back by what it wrote itself, and the pages that open transactions
\* still read are free.
MetaSyncFails ==
  /\ wpc = "written"
  /\ meta' = [meta EXCEPT ![wtx.txid % 2] = wtx]
  /\ Reload(page, wtx)
  /\ wpc' = "none" /\ wtx' = NoTx
  /\ exposed' = {r \in Readers : rtx[r] # NoTx}
  /\ UNCHANGED <<page, rtx, slice, dirty>>

-----------------------------------------------------------------------------
\* The process dies and the file is opened again; what was not synced may be
\* in it.  The pages that were pending are free.
Crash ==
  /\ \E s \in SUBSET DOMAIN dirty : page' = Written(s)
  /\ ids' = page'[Current.freelist].ids
  /\ pending' = [t \in Txids |-> {}]
  /\ rtx' = [r \in Readers |-> NoTx] /\ slice' = [r \in Readers |-> NoTx]
  /\ wtx' = NoTx /\ wpc' = "none" /\ dirty' = << >> /\ exposed' = {}
  /\ UNCHANGED meta

Next ==
  \/ \E r \in Readers : ReadBegins(r) \/ \E b \in Buckets : FindOneEnds(r, b)
  \/ UpdateBegins \/ \E b \in Buckets : Spill(b)
  \/ Write \/ WriteMeta \/ RollsBack \/ MetaSyncFails \/ Crash

Spec == Init /\ [][Next]_vars

-----------------------------------------------------------------------------
(* Properties.                                                             *)

TypeOK ==
  /\ \A p \in Pgids : \/ page[p].kind = "leaf" /\ page[p].value \in Txids
                      \/ /\ page[p].kind = "root"
                         /\ page[p].leaf \in [Buckets -> Pgids \cup {0}]
                      \/ /\ page[p].kind = "freelist"
                         /\ page[p].ids \subseteq Pgids
  /\ meta \in [0..1 -> Metas]
  /\ ids \subseteq Pgids
  /\ pending \in [Txids -> SUBSET Pgids]
  /\ \A r \in Readers : /\ rtx[r] \in Metas \cup {NoTx}
                        /\ slice[r] \in [at : Pgids, value : Txids] \cup {NoTx}
  /\ wtx \in Metas \cup {NoTx}
  /\ wpc \in {"none", "begun", "spilled", "written"}
  /\ DOMAIN dirty \subseteq Pgids
  /\ exposed \subseteq Readers

\* What tx.Check looks for, whenever no update is under way: the pages of the
\* file are those reachable from the meta page that counts and the free ones, no
\* page is both and none is listed twice (tx.check, lines 330 ff.).
CheckPasses ==
  wpc = "none" =>
    /\ Reachable(Current) \cup Free = 2..(Current.pgid - 1)
    /\ Reachable(Current) \cap Free = {}
    /\ ids \cap AllPending = {}
    /\ \A t, u \in Txids : t # u => pending[t] \cap pending[u] = {}

\* No update writes to a page that an open transaction can still reach, but for
\* the transactions that were open when the sync of a meta page failed.
ReadersKeepTheirPages ==
  \A r \in Readers \ exposed : rtx[r] # NoTx =>
    Reachable(rtx[r]) \cap (ids \cup DOMAIN dirty) = {}

\* Every transaction sees what was committed when it began, however many
\* updates, rollbacks and crashes come between; an update is one step.  A commit
\* that fails in its last sync is made nevertheless, and ends every view.
Snap == INSTANCE Snapshots
          WITH committed <- Contents(Current),
               view <- [r \in Readers |->
                          IF rtx[r] = NoTx \/ r \in exposed THEN NoTx
                          ELSE Contents(rtx[r])]
ConsistentView == Snap!Spec

\* "FindOne returns a value for a bucketName and keyName" (rucksack/db.go:136):
\* the value stays what it was while its caller uses it.
ValueReturned ==
  \A r \in Readers : slice[r] # NoTx => page[slice[r].at] = Leaf(slice[r].value)
=============================================================================
