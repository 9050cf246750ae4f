---------------------------- MODULE BrotzeitPage ----------------------------
(***************************************************************************)
(* The page of the cron schedules (brotzeit/brotzeitController.js), one    *)
(* row for a provisioner, on top of the handlers of picnic and SaveConfig  *)
(* and GetCollection of brotzeit/brotzeit.go.                              *)
(*                                                                         *)
(* A row is green (ScheduleIsValid) when its provisioner has a schedule.   *)
(* The colour is computed when the list comes and when a save is answered, *)
(* from what the row contains by then; the store writes behind, deletes at *)
(* once, tells nobody what fails, and may be shut, die and start again     *)
(* behind the page.                                                        *)
(***************************************************************************)
EXTENDS Naturals, Sequences, FiniteSetsExt

CONSTANTS
  Route,      \* the provisioners, a row each
  Schedule,   \* cron expressions that cron.Parse accepts
  Wrong,      \* and those it does not
  Empty,      \* the empty text: no schedule
  MaxVisits,  \* bound on the times the page is entered
  MaxEdits,   \* bound on the changes of a row
  MaxSaves    \* bound on the saves

ASSUME PageAssumption ==
  /\ Schedule \cap Wrong = {} /\ Empty \notin Schedule \cup Wrong
  /\ MaxVisits \in Nat /\ MaxEdits \in Nat /\ MaxSaves \in Nat

VARIABLES
  page,        \* how often the page was entered
  rows,        \* the routes of bzConfigs: all of them, or none yet
  text,        \* bzModel.Schedule of a row
  isCollapsed, ScheduleIsValid, \* the rows that are closed, and green
  list,        \* the request for the list: "none", "sent" or "served"
  read,        \* the schedules in its answer
  saves,       \* saves under way: [id, page, route, schedule, st]
  store, pending, open, jammed, \* the Backpacker, see WriteBehind
  bucket,      \* does the bucket dbConfig exist in the file?
  server,      \* "up", "closing" (on a signal, the Writer's channel closed)
               \* or "down"
  edits, sent, \* changes made, saves sent
  muddled      \* history: the routes whose colour need not be right until
               \* the list is read again

rowVars == <<rows, text, isCollapsed, ScheduleIsValid>>
backpack == <<store, pending, open, jammed>>
bpVars  == <<backpack, bucket, server>>
vars    == <<page, rowVars, list, read, saves, bpVars, edits, sent, muddled>>

Text == Schedule \cup Wrong \cup {Empty}
Save == [id : 1 .. MaxSaves, page : 1 .. MaxVisits, route : Route,
         schedule : Text, st : {"sent", "saved", "refused"}]

Bp == INSTANCE WriteBehind WITH Entries <- Route, Values <- Schedule,
                                Missing <- Empty

TypeOK ==
  /\ page \in 0 .. MaxVisits
  /\ rows \in {{}, Route}
  /\ text \in [Route -> Text]
  /\ isCollapsed \subseteq rows /\ ScheduleIsValid \subseteq rows
  /\ list \in {"none", "sent", "served"}
  /\ read \in [Route -> Text]
  /\ saves \subseteq Save
  /\ store \in [Route -> Schedule \cup {Empty}]
  /\ pending \in Seq(Bp!Write) /\ bucket \in BOOLEAN
  /\ open \in BOOLEAN /\ jammed \in BOOLEAN
  /\ server \in {"up", "closing", "down"}
  /\ edits \in 0 .. MaxEdits /\ sent \in 0 .. MaxSaves
  /\ muddled \subseteq Route

NoText == [r \in Route |-> Empty]

Init ==
  /\ page = 0 /\ rows = {} /\ text = NoText
  /\ isCollapsed = {} /\ ScheduleIsValid = {}
  /\ list = "none" /\ read = NoText /\ saves = {}
  /\ Bp!Init /\ bucket = FALSE /\ server = "up"
  /\ edits = 0 /\ sent = 0 /\ muddled = {}

-----------------------------------------------------------------------------
\* Where the queue has a schedule for r.
Queued(r) == {k \in DOMAIN pending : pending[k].at = r}

\* Something that was saved for r is not in the store yet.
Unsettled(r) == (\E s \in saves : s.route = r /\ s.st = "sent") \/ Queued(r) # {}

\* A save of r by this page is not answered yet.
Saving(r) == \E s \in saves : s.route = r /\ s.page = page

(* The page is entered, by the menu or anew: no rows, and a request.       *)
Enter ==
  /\ page < MaxVisits
  /\ page' = page + 1
  /\ rows' = {} /\ text' = NoText
  /\ isCollapsed' = {} /\ ScheduleIsValid' = {}
  /\ list' = "sent"
  /\ muddled' = {}
  /\ UNCHANGED <<read, saves, bpVars, edits, sent>>

\* The rows that have a schedule.
Green(texts) == {r \in Route : texts[r] # Empty}

(* GetCollection reads each schedule from the store, which what is queued  *)
(* and under way has not reached; from a closed one it reads nothing.  It  *)
(* copies a slice of bolt's map after the transaction of Count, when the   *)
(* bytes may be other ones.                                                *)
GetCollection ==
  /\ list = "sent" /\ server # "down" /\ ~jammed
  /\ list' = "served"
  /\ \/ ~open /\ read' = NoText /\ muddled' = Route
     \/ \E torn \in SUBSET Green(store) :
          /\ open
          /\ read' \in [Route -> Text]
          /\ \A r \in Route \ torn : read'[r] = store[r]
          /\ muddled' = torn \cup {r \in Route : Unsettled(r)}
  /\ UNCHANGED <<page, rowVars, saves, bpVars, edits, sent>>

(* The list comes.                                                         *)
ListShown ==
  /\ list = "served"
  /\ list' = "none"
  /\ rows' = Route /\ text' = read
  /\ isCollapsed' = Route
  /\ ScheduleIsValid' = Green(read)
  /\ UNCHANGED <<page, read, saves, bpVars, edits, sent, muddled>>

(* The list does not come: a message, and a page without rows.             *)
ListFails ==
  /\ list # "none"
  /\ list' = "none"
  /\ UNCHANGED <<page, rowVars, read, saves, bpVars, edits, sent, muddled>>

-----------------------------------------------------------------------------
(* The button of a row opens or closes it.                                 *)
Toggle(r) ==
  /\ r \in rows
  /\ isCollapsed' = IF r \in isCollapsed THEN isCollapsed \ {r}
                                         ELSE isCollapsed \cup {r}
  /\ UNCHANGED <<page, rows, text, ScheduleIsValid, list, read, saves,
                 bpVars, edits, sent, muddled>>

(* The user changes the expression of an open row.                         *)
Edit(r, v) ==
  /\ r \in rows \ isCollapsed /\ edits < MaxEdits
  /\ v # text[r]
  /\ text' = [text EXCEPT ![r] = v]
  /\ edits' = edits + 1
  /\ muddled' = IF Saving(r) THEN muddled \cup {r} ELSE muddled
  /\ UNCHANGED <<page, rows, isCollapsed, ScheduleIsValid, list, read, saves,
                 bpVars, sent>>

(* The user submits an open row.                                           *)
saveCronExpression(r) ==
  /\ r \in rows \ isCollapsed /\ sent < MaxSaves
  /\ sent' = sent + 1
  /\ saves' = saves \cup {[id |-> sent + 1, page |-> page, route |-> r,
                           schedule |-> text[r], st |-> "sent"]}
  /\ muddled' = IF Unsettled(r) \/ Saving(r) THEN muddled \cup {r}
                                             ELSE muddled
  /\ UNCHANGED <<page, rowVars, list, read, bpVars, edits>>

\* The save s is answered with st.
Answer(s, st) == saves' = (saves \ {s}) \cup {[s EXCEPT !.st = st]}

\* Mistake: the expression is stored without being parsed.
ParsesAny(v) == TRUE

Parses(v) == v \in Schedule

\* bp.Delete removes at once, or fails, which nobody is told.
Deletes(s) ==
  \/ Bp!Remove(s.route) /\ Answer(s, "saved") /\ UNCHANGED muddled
  \/ /\ Answer(s, "saved")
     /\ muddled' = muddled \cup {s.route}
     /\ UNCHANGED backpack

\* A message from the server, or a handler that panics.
Declines(s) == Answer(s, "refused") /\ UNCHANGED <<backpack, muddled>>

(* SaveConfig: a deletion, which panics without a bucket and waits in a    *)
(* jammed store; a refusal; or an insertion, which is queued, and panics   *)
(* when the channel of the Writer is closed.                               *)
SaveConfig(s) ==
  /\ s.st = "sent" /\ server # "down"
  /\ IF s.schedule = Empty
     THEN ~jammed /\ IF open /\ ~bucket THEN Declines(s) ELSE Deletes(s)
     ELSE IF Parses(s.schedule) /\ server = "up"
          THEN /\ Bp!Accept([at |-> s.route, data |-> s.schedule])
               /\ Answer(s, "saved") /\ UNCHANGED muddled
          ELSE Declines(s)
  /\ UNCHANGED <<page, rowVars, list, read, bucket, server, edits, sent>>

Elsewhere == UNCHANGED <<page, rowVars, list, read, saves, edits, sent>>

(* The Writer settles the oldest write, or drops it; then its row has a    *)
(* colour that nothing will come true of, unless a later write does.       *)
Writer ==
  /\ server # "down"
  /\ \/ Bp!Settle /\ bucket' = TRUE /\ UNCHANGED muddled
     \/ /\ Bp!Drop
        /\ muddled' = muddled \cup {r \in Route : Queued(r) = {1}}
        /\ UNCHANGED bucket
  /\ UNCHANGED server /\ Elsewhere

(* An update of whatever part of the program waits for ever in bolt.       *)
Jam ==
  /\ server # "down" /\ Bp!Jam
  /\ UNCHANGED <<bucket, server, muddled>> /\ Elsewhere

(* The server stops on a signal: bp.Close closes the channel, then the     *)
(* database; it ends, or dies at any point, with what is queued, and is    *)
(* started again.                                                          *)
Signal ==
  /\ server = "up" /\ server' = "closing"
  /\ UNCHANGED <<backpack, bucket, muddled>> /\ Elsewhere

CloseDb ==
  /\ server = "closing" /\ Bp!Shut
  /\ UNCHANGED <<bucket, server, muddled>> /\ Elsewhere

Halt ==
  /\ server # "down" /\ server' = "down"
  /\ \/ UNCHANGED <<store, bucket>>
     \/ /\ open /\ pending # <<>>
        /\ store' = Bp!Settled(store, Head(pending)) /\ bucket' = TRUE
  /\ Bp!Die
  /\ muddled' = muddled \cup {r \in Route : Queued(r) # {}}
  /\ Elsewhere

Start ==
  /\ server = "down" /\ server' = "up"
  /\ Bp!Reopen
  /\ UNCHANGED <<bucket, muddled>> /\ Elsewhere

\* Mistake: a row that was saved is green.
GreenSaved(r) == ScheduleIsValid \cup {r}

\* The colour of a row that was saved, by what it contains now.
GreenNow(r) == IF text[r] # Empty THEN ScheduleIsValid \cup {r}
                                  ELSE ScheduleIsValid \ {r}

(* The answer to a save closes the row and colours it.  The rows of a page *)
(* entered before are no longer shown.                                     *)
Saved(s) ==
  /\ s.st = "saved"
  /\ saves' = saves \ {s}
  /\ IF s.page = page
     THEN /\ isCollapsed' = isCollapsed \cup {s.route}
          /\ ScheduleIsValid' = GreenNow(s.route)
     ELSE UNCHANGED <<isCollapsed, ScheduleIsValid>>
  /\ UNCHANGED <<page, rows, text, list, read, bpVars, edits, sent, muddled>>

(* A refusal, a save that gets lost, or its answer: a message, if that.    *)
SaveFails(s) ==
  /\ saves' = saves \ {s}
  /\ muddled' = IF s.st = "saved" THEN muddled \cup {s.route} ELSE muddled
  /\ UNCHANGED <<page, rowVars, list, read, bpVars, edits, sent>>

-----------------------------------------------------------------------------
Next ==
  \/ Enter \/ GetCollection \/ ListShown \/ ListFails
  \/ Writer \/ Jam \/ Signal \/ CloseDb \/ Halt \/ Start
  \/ \E r \in Route : \/ Toggle(r) \/ saveCronExpression(r)
                      \/ \E v \in Text : Edit(r, v)
  \/ \E s \in saves : SaveConfig(s) \/ Saved(s) \/ SaveFails(s)

Spec == Init /\ [][Next]_vars

-----------------------------------------------------------------------------
\* What the store has for r when its queue is empty.
Owed(r) == IF Queued(r) = {} THEN store[r] ELSE pending[Max(Queued(r))].data

(* "Success/Green: Automatic active" says the page: when no save of a row  *)
(* is under way, the row is green if and only if the store has a schedule  *)
(* for it, or will have when its queue is empty.  The exceptions: the row  *)
(* was changed before its save was answered, two saves crossed or a        *)
(* deletion passed a queued insertion, the list was read while a save was  *)
(* not in the store yet, from a closed store or from bytes that had        *)
(* changed, the answer to a save was lost, a deletion failed unnoticed, or *)
(* a schedule that was accepted got lost: its update failed, or the server *)
(* stopped before it.                                                      *)
GreenMeansSet ==
  \A r \in rows \ muddled :
    (\A s \in saves : s.route # r) =>
      (r \in ScheduleIsValid <=> Owed(r) # Empty)
=============================================================================
