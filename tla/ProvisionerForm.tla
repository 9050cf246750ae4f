--------------------------- MODULE ProvisionerForm ---------------------------
(***************************************************************************)
(* The forms of the provisioners, which save themselves while the user     *)
(* types (provisioners/ProvisionerFactory.js, ProvisionerController.js).   *)
(*                                                                         *)
(* ProvisionerForm is a service, so there is one for the whole program: it *)
(* has one debounce timer, and refers to the scope and the type of the     *)
(* page entered last.  Timers and answers that belong to an earlier page   *)
(* find the present one when they come.  Left out is the green tick behind *)
(* a field, with its own timer: nothing reads it.                          *)
(*                                                                         *)
(* The server's side is FormGenerate and FormSave (provisioners/main.go)   *)
(* over the write-behind store.  A value that is undefined is left out of  *)
(* the JSON text, and the server reads the missing value as the empty one. *)
(* PrepareSave refuses a value or changes it: blanks, empty lines and      *)
(* lines that are there already go.  What it makes of a text is the        *)
(* constant Prepare.                                                       *)
(***************************************************************************)
EXTENDS Naturals, Sequences

CONSTANTS
  FormType,     \* the provisioners, by their routes
  Field,        \* the input fields of all their forms
  TypeOf,       \* the provisioner whose form has the field
  Text,         \* what the patterns of the fields accept
  Empty,        \* the empty text, which they accept too
  Prepare,      \* what a provisioner's PrepareSave makes of a text
  Refused,      \* and the texts that it refuses
  None,         \* undefined
  Filed,        \* the texts that were saved before
  MaxEdits,     \* bound on the changes a user makes
  MaxVisits,    \* bound on the pages a user enters
  MaxFaults     \* bound on the updates that fail or jam, the slices that
                \* change and the ends of the server

ASSUME FormAssumption ==
  /\ TypeOf \in [Field -> FormType]
  /\ Empty \in Text
  /\ Prepare \in [FormType -> [Text -> Text]]
  /\ \A t \in FormType : Prepare[t][Empty] = Empty
  /\ Refused \in [FormType -> SUBSET (Text \ {Empty})]
  /\ Filed \in [Field -> Text]
  /\ None \notin Text /\ None \notin Field /\ None \notin FormType
  /\ MaxEdits \in Nat /\ MaxVisits \in Nat /\ MaxFaults \in Nat

VARIABLES
  type,         \* _type
  open,         \* whether the page of _scope is still shown
  text,         \* _scope[f]
  watched,      \* the fields with a listener in _scope
  invalid,      \* the fields of provForm whose input breaks the pattern
  timer,        \* _timeout: the field that _saveUpdates will save
  gets,         \* requests for a form: [id, type, st, data]
  posts,        \* saves under way: [id, prov, key, value, by]
  server,       \* "up", "closing" (the store is closed) or "down"
  db, queue, jammed, \* the Backpacker: what the file has for a provisioner
                \* and a field, and what is accepted, see WriteBehind
  visits, edits, sends, faults, \* pages entered, changes made, saves sent,
                \* and what went wrong behind the page
  \* History, read by no action:
  by,           \* what armed the timer: "edit", "answer" or an edit "before"
                \* the page was left
  edited,       \* fields the user changed on this page
  excused,      \* those whose last change was not noticed, was dropped or
                \* overtaken, failed or got lost
  lastSent, lastServed \* the newest save of a field sent, and accepted

form   == <<type, open, text, watched, invalid, timer>>
counts == <<visits, edits, sends, faults>>
hist   == <<by, edited, excused, lastSent, lastServed>>
bpVars == <<db, queue, jammed, server>>
vars   == <<form, gets, posts, bpVars, counts, hist>>

Place == FormType \X Field
Bp == INSTANCE WriteBehind WITH Entries <- Place, Values <- Text,
        Missing <- Empty, store <- db, pending <- queue, open <- server = "up"

FieldsOf(t) == {f \in Field : TypeOf[f] = t}
Posts == [id : Nat, prov : FormType, key : Field, value : Text \cup {None},
          by : {"edit", "answer", "before"}]
Gets  == [id : Nat, type : FormType, st : {"sent", "ok"},
          data : [Field -> Text]]

TypeOK ==
  /\ type \in FormType \cup {None} /\ open \in BOOLEAN
  /\ text \in [Field -> Text \cup {None}]
  /\ watched \subseteq Field /\ invalid \subseteq Field
  /\ edited \subseteq Field /\ excused \subseteq Field
  /\ timer \in Field \cup {None}
  /\ gets \subseteq Gets /\ posts \subseteq Posts
  /\ db \in [Place -> Text] /\ queue \in Seq(Bp!Write)
  /\ jammed \in BOOLEAN /\ server \in {"up", "closing", "down"}
  /\ visits \in Nat /\ edits \in Nat /\ sends \in Nat /\ faults \in Nat
  /\ by \in {"edit", "answer", "before"}
  /\ lastSent \in [Field -> Nat] /\ lastServed \in [Field -> Nat]

Init ==
  /\ type = None /\ open = FALSE
  /\ text = [f \in Field |-> None]
  /\ watched = {} /\ invalid = {} /\ timer = None
  /\ gets = {} /\ posts = {}
  /\ db = [e \in Place |-> IF e[1] = TypeOf[e[2]] THEN Prepare[e[1]][Filed[e[2]]]
                                                  ELSE Empty]
  /\ queue = <<>> /\ jammed = FALSE /\ server = "up"
  /\ visits = 0 /\ edits = 0 /\ sends = 0 /\ faults = 0
  /\ by = "edit" /\ edited = {} /\ excused = {}
  /\ lastSent = [f \in Field |-> 0] /\ lastServed = [f \in Field |-> 0]

-----------------------------------------------------------------------------
\* Mistake: a timer that is already running is kept.
DebounceUpdateKeeps(f, cause) ==
  /\ timer' = IF timer = None THEN f ELSE timer
  /\ by' = cause

(* The listener of a field: whatever timer there was is cancelled, be it   *)
(* for another field, and a new one will save field f.                     *)
DebounceUpdate(f, cause) ==
  /\ timer' = f
  /\ by' = cause

\* The change of f replaces the timer of another field.
Displaced(f) == {timer} \ {f, None}

(* The user enters the page of t: a new scope and a request for the form.  *)
(* The timers are those of the page before.                                *)
Enter(t) ==
  /\ visits < MaxVisits
  /\ open => type # t
  /\ visits' = visits + 1
  /\ type' = t /\ open' = TRUE
  /\ text' = [f \in Field |-> None]
  /\ watched' = {} /\ invalid' = {}
  /\ gets' = gets \cup {[id |-> visits + 1, type |-> t, st |-> "sent",
                         data |-> [f \in Field |-> Empty]]}
  /\ by' = "before" /\ edited' = {} /\ excused' = {}
  /\ UNCHANGED <<timer, posts, bpVars, edits, sends, faults,
                 lastSent, lastServed>>

(* The user leaves for a page of another kind: the scope and its listeners *)
(* are destroyed, and provForm is taken out of the scope.                  *)
Leave ==
  /\ open
  /\ open' = FALSE /\ watched' = {} /\ invalid' = {}
  /\ by' = "before" /\ edited' = {} /\ excused' = {}
  /\ UNCHANGED <<type, text, timer, gets, posts, bpVars, counts,
                 lastSent, lastServed>>

\* What the listener of a field does with a change the user made.  Without
\* one the change goes unnoticed, and the field gets no listener when the form
\* comes and finds a value in it.
Changed(f) ==
  IF f \in watched
  THEN /\ DebounceUpdate(f, "edit")
       /\ edited' = edited \cup {f}
       /\ excused' = (excused \cup Displaced(f)) \ {f}
  ELSE /\ edited' = edited \cup {f} /\ excused' = excused \cup {f}
       /\ UNCHANGED <<timer, by>>

(* The user types a text into a field of the page.                         *)
TypeText(f, v) ==
  /\ open /\ TypeOf[f] = type /\ edits < MaxEdits
  /\ v # text[f]
  /\ text' = [text EXCEPT ![f] = v]
  /\ invalid' = invalid \ {f}
  /\ edits' = edits + 1
  /\ Changed(f)
  /\ UNCHANGED <<type, open, watched, gets, posts, bpVars, visits,
                 sends, faults, lastSent, lastServed>>

(* The user types what the pattern does not match: angular makes the value *)
(* of the scope undefined and the form invalid.                            *)
TypeInvalid(f) ==
  /\ open /\ TypeOf[f] = type /\ edits < MaxEdits
  /\ f \notin invalid
  /\ text' = [text EXCEPT ![f] = None]
  /\ invalid' = invalid \cup {f}
  /\ edits' = edits + 1
  /\ IF text[f] # None THEN Changed(f)
                       ELSE UNCHANGED <<timer, by, edited, excused>>
  /\ UNCHANGED <<type, open, watched, gets, posts, bpVars, visits,
                 sends, faults, lastSent, lastServed>>

-----------------------------------------------------------------------------
\* Mistake: the form is saved whatever it contains.
FormValidNot == open

\* There is a form, and every field of it is valid.
FormValid == open /\ invalid = {}

(* The timer fires.  Type, scope and value are those of the present page;  *)
(* where no provForm is left the callback throws and nothing is saved.     *)
SaveUpdates ==
  /\ timer # None
  /\ timer' = None
  /\ IF FormValid
     THEN /\ sends' = sends + 1
          /\ posts' = posts \cup {[id |-> sends + 1, prov |-> type,
                                   key |-> timer, value |-> text[timer],
                                   by |-> by]}
          /\ lastSent' = IF TypeOf[timer] = type
                         THEN [lastSent EXCEPT ![timer] = sends + 1]
                         ELSE lastSent
          /\ UNCHANGED excused
     ELSE /\ excused' = excused \cup {timer}
          /\ UNCHANGED <<sends, posts, lastSent>>
  /\ UNCHANGED <<type, open, text, watched, invalid, gets, bpVars,
                 visits, edits, faults, by, edited, lastServed>>

\* Mistake: a missing value is stored as such.
PreparedMissing(p) == IF p.value = None THEN None ELSE Prepare[p.prov][p.value]

\* A missing value is read as the empty one.
Received(p) == IF p.value = None THEN Empty ELSE p.value

Prepared(p) == Prepare[p.prov][Received(p)]

(* FormSave: what PrepareSave makes of the value is queued for the store,  *)
(* under the key of the request and the route it was sent to.              *)
Stores(p) ==
  /\ Received(p) \notin Refused[p.prov]
  /\ server = "up" /\ UNCHANGED server
  /\ Bp!Accept([at |-> <<p.prov, p.key>>, data |-> Prepared(p)])
  /\ posts' = posts \ {p}
  /\ IF p.prov # TypeOf[p.key]
     THEN UNCHANGED <<excused, lastServed>>
     ELSE IF p.id < lastServed[p.key]
          THEN excused' = excused \cup {p.key} /\ UNCHANGED lastServed
          ELSE /\ lastServed' = [lastServed EXCEPT ![p.key] = p.id]
               /\ UNCHANGED excused
  /\ UNCHANGED <<form, gets, counts, by, edited, lastSent>>

(* PrepareSave refuses the value, Insert panics in a closing store, or the *)
(* request never gets to the server: a message, and nothing of the form.   *)
Refuses(p) ==
  /\ posts' = posts \ {p}
  /\ excused' = IF p.id = lastSent[p.key] THEN excused \cup {p.key}
                                          ELSE excused
  /\ UNCHANGED <<form, gets, bpVars, counts, by, edited, lastSent, lastServed>>

-----------------------------------------------------------------------------
\* The writes queued for a place.
Queued(e) == {k \in DOMAIN queue : queue[k].at = e}

\* Of the fields F those whose newest save got lost are excused.
Loses(F) == excused' = excused \cup {f \in F : timer # f /\ lastServed[f] = lastSent[f]}

Faulty == faults < MaxFaults /\ faults' = faults + 1

Behind == UNCHANGED <<form, gets, posts, visits, edits, sends, by, edited, lastSent,
                      lastServed>>

(* The Writer settles the oldest write, or drops it.                       *)
Writer ==
  /\ server # "down" /\ UNCHANGED server
  /\ \/ Bp!Settle /\ UNCHANGED <<excused, faults>>
     \/ /\ Bp!Drop
        /\ IF server = "up" THEN Faulty ELSE UNCHANGED faults
        /\ Loses({f \in Field : Queued(<<TypeOf[f], f>>) = {1}})
  /\ Behind

(* An update of whatever part of the program waits for ever in bolt.       *)
Jam == UNCHANGED <<server, excused>> /\ Bp!Jam /\ Faulty /\ Behind

(* The store is closed on a signal; the process ends, or dies at any       *)
(* point, with what is queued, and is started again.                       *)
CloseDb == server' = "closing" /\ Bp!Shut /\ Faulty /\ UNCHANGED excused /\ Behind

Halt ==
  /\ server # "down" /\ server' = "down"
  /\ \/ UNCHANGED db
     \/ /\ server = "up" /\ queue # <<>>
        /\ db' = Bp!Settled(db, Head(queue))
  /\ Bp!Die
  /\ Loses({f \in Field : Queued(<<TypeOf[f], f>>) # {}})
  /\ IF server = "up" THEN Faulty ELSE UNCHANGED faults
  /\ Behind

Start ==
  /\ server = "down" /\ server' = "up"
  /\ Bp!Reopen
  /\ UNCHANGED <<excused, faults>> /\ Behind

-----------------------------------------------------------------------------
(* FormGenerate reads the entries of the form, nothing in a closed store.  *)
(* It copies slices of bolt's map after their transactions, when the bytes *)
(* may be other ones.                                                      *)
Generates(g) ==
  /\ g.st = "sent" /\ server # "down" /\ ~jammed
  /\ \E torn \in SUBSET FieldsOf(g.type), d \in [Field -> Text] :
       /\ \A f \in Field \ torn :
            d[f] = IF server = "up" THEN db[<<g.type, f>>] ELSE Empty
       /\ \A f \in torn : server = "up" /\ db[<<g.type, f>>] # Empty
       /\ IF torn = {} THEN UNCHANGED faults ELSE Faulty
       /\ gets' = (gets \ {g}) \cup {[g EXCEPT !.st = "ok", !.data = d]}
  /\ UNCHANGED <<form, posts, bpVars, visits, edits, sends, hist>>

(* The answer fills the fields that have no value yet, in the present      *)
(* scope, whichever page asked, and gives them a listener.  A destroyed    *)
(* scope takes no listeners.  Where a listener sees the value change it    *)
(* does its work; of several the last to run keeps the timer.              *)
Filled(g) == {f \in FieldsOf(g.type) : text[f] \in {None, Empty}}

Fills(g) ==
  LET fill    == Filled(g)
      changed == {f \in fill \cap watched : g.data[f] # text[f]}
  IN  /\ g.st = "ok"
      /\ gets' = gets \ {g}
      /\ text' = [f \in Field |-> IF f \in fill THEN g.data[f] ELSE text[f]]
      /\ watched' = IF open THEN watched \cup fill ELSE watched
      /\ invalid' = invalid \ fill
      /\ IF changed = {}
         THEN UNCHANGED <<timer, by, excused>>
         ELSE \E f \in changed :
                /\ DebounceUpdate(f, "answer")
                /\ excused' = (excused \cup changed \cup Displaced(f)) \ {f}
      /\ UNCHANGED <<type, open, posts, bpVars, counts, edited, lastSent,
                     lastServed>>

(* The form does not come: a message, and no field gets a listener.        *)
FormMissing(g) ==
  /\ gets' = gets \ {g}
  /\ UNCHANGED <<form, posts, bpVars, counts, hist>>

-----------------------------------------------------------------------------
Next ==
  \/ \E t \in FormType : Enter(t)
  \/ Leave
  \/ \E f \in Field, v \in Text : TypeText(f, v)
  \/ \E f \in Field : TypeInvalid(f)
  \/ SaveUpdates
  \/ \E p \in posts : Stores(p) \/ Refuses(p)
  \/ Writer \/ Jam \/ CloseDb \/ Halt \/ Start
  \/ \E g \in gets : Generates(g) \/ Fills(g) \/ FormMissing(g)

Spec == Init /\ [][Next]_vars

(* The timer fires, saves end and the Writer takes what is queued.  No     *)
(* user has to type or to go anywhere, no form has to come, and no server  *)
(* has to stop or to start.                                                *)
FairSpec ==
  /\ Spec
  /\ WF_vars(SaveUpdates) /\ WF_vars(Writer)
  /\ WF_vars(\E p \in posts : Stores(p) \/ Refuses(p))

-----------------------------------------------------------------------------
\* The store has v for e, or will have when its queue is empty.
WillHold(e, v) ==
  \/ Queued(e) = {} /\ db[e] = v
  \/ \E k \in Queued(e) : queue[k].data = v /\ \A j \in Queued(e) : j <= k

\* What the server makes of what f contains.
Meant(f) == Prepare[type][IF text[f] = None THEN Empty ELSE text[f]]

\* The user changed f on this page, and nothing excuses the program.
Edited(f) ==
  /\ open /\ TypeOf[f] = type
  /\ f \in edited /\ f \notin invalid /\ f \notin excused

\* The store has something else and has accepted nothing better.
Unsaved(f) == Edited(f) /\ ~WillHold(<<type, f>>, Meant(f))

\* The file has something else.
Unfiled(f) == Edited(f) /\ db[<<type, f>>] # Meant(f)

\* f will be saved, or the save with its value is on the way.
OnItsWay(f) ==
  \/ timer = f
  \/ \E p \in posts : /\ p.id = lastSent[f]
                      /\ p.prov = type /\ p.key = f /\ p.value = text[f]

(* While the page is shown, what PrepareSave makes of a change is accepted *)
(* by the store, or the change is on its way there, however edits, answers *)
(* and saves of this page and of pages before interleave.  The exceptions  *)
(* are those of the code: the field had no listener yet; another field was *)
(* changed before the timer fired, or the form was invalid when it did;    *)
(* the save failed; an older save of the field came to the server later;   *)
(* or the store lost what it had accepted, by an update that failed or by  *)
(* the end of the server.                                                  *)
EditsReachStore == \A f \in Field : Unsaved(f) => OnItsWay(f)

(* A save that follows from an edit on the page shown goes to the form of  *)
(* its field and carries a value.  Only a timer that a page or an answer   *)
(* before left behind sends a field to a form that is not its own, or a    *)
(* field of a form that has not come yet, which empties it in the store.   *)
SavesOwnField ==
  \A p \in posts : p.by = "edit" => TypeOf[p.key] = p.prov /\ p.value # None

(* A change that is not in the file gets there, is given up as above, or   *)
(* is changed again: no chain of timers and answers leaves it behind.  The *)
(* exception is a jammed store, which takes nothing more from its queue.   *)
EditsSettle == \A f \in Field : Unfiled(f) ~> ~Unfiled(f) \/ jammed
=============================================================================
