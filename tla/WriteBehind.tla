---------------------------- MODULE WriteBehind ----------------------------
(***************************************************************************)
(* What a Backpacker (rucksack/db.go, the interface at lines 41-58)        *)
(* promises to its callers: a persistent map behind a queue of accepted    *)
(* writes.  The accepted writes are taken in the order of acceptance, one  *)
(* at a time, and each is settled or dropped: an update that fails, and    *)
(* every update of a store that has been shut, is logged and forgotten,    *)
(* and no caller is told.  A removal acts on the map at once, or fails as  *)
(* silently, and does not see the queue.  A read that was left open makes  *)
(* the first write that needs a larger file wait for ever (jammed): then   *)
(* nothing more reaches the map until the process ends.  A restart begins  *)
(* with an empty queue and the same map.                                   *)
(***************************************************************************)
EXTENDS Sequences

CONSTANTS Entries,   \* the places of the map: a bucket and a key
          Values,
          Missing    \* what an absent entry holds

VARIABLES store,     \* the persistent map
          pending,   \* accepted and neither settled nor dropped, oldest first
          open,      \* may writes still reach the map?
          jammed     \* does a write wait for ever in front of all others?

wbvars == <<store, pending, open, jammed>>

Write == [at : Entries, data : Values]

Init == /\ store = [e \in Entries |-> Missing]
        /\ pending = <<>>
        /\ open = TRUE
        /\ jammed = FALSE

Settled(m, w) == [m EXCEPT ![w.at] = w.data]

Accept(w) == /\ pending' = Append(pending, w)
             /\ UNCHANGED <<store, open, jammed>>

Settle == /\ open /\ ~jammed
          /\ pending # <<>>
          /\ store' = Settled(store, Head(pending))
          /\ pending' = Tail(pending)
          /\ UNCHANGED <<open, jammed>>

\* The oldest write fails, or meets a shut store: it is logged and forgotten.
Drop == /\ ~jammed
        /\ pending # <<>>
        /\ pending' = Tail(pending)
        /\ UNCHANGED <<store, open, jammed>>

\* A removal that fails changes nothing.
Remove(e) == /\ open /\ ~jammed
             /\ store' = [store EXCEPT ![e] = Missing]
             /\ UNCHANGED <<pending, open, jammed>>

\* A write needs a larger file while a read was left open.
Jam == /\ open /\ ~jammed
       /\ jammed' = TRUE
       /\ UNCHANGED <<store, pending, open>>

Shut == /\ open
        /\ open' = FALSE
        /\ UNCHANGED <<store, pending, jammed>>

\* The process dies: the queue is gone, and of the operation it died in the
\* map holds everything or nothing.
Die == /\ open' = FALSE
       /\ pending' = <<>>
       /\ jammed' = FALSE
       /\ \/ UNCHANGED store
          \/ pending # <<>> /\ store' = Settled(store, Head(pending))
          \/ \E e \in Entries : store' = [store EXCEPT ![e] = Missing]

\* A removal that Close overtook may still reach the file.
LateRemove(e) == /\ ~open /\ ~jammed
                 /\ store' = [store EXCEPT ![e] = Missing]
                 /\ UNCHANGED <<pending, open, jammed>>

Reopen == /\ ~open
          /\ open' = TRUE
          /\ pending' = <<>>
          /\ jammed' = FALSE
          /\ UNCHANGED store

Next == \/ \E w \in Write : Accept(w)
        \/ Settle
        \/ Drop
        \/ \E e \in Entries : Remove(e) \/ LateRemove(e)
        \/ Jam
        \/ Shut
        \/ Die
        \/ Reopen

Safety == Init /\ [][Next]_wbvars

\* An open store that is not jammed gets through its queue.
Fairness == WF_wbvars(open /\ (Settle \/ Drop))

Spec == Safety /\ Fairness
=============================================================================
