# Wanderlust: specifications and proofs

TLA+ modules that model the parts of Wanderlust (`src/`, a Go server with an
AngularJS dashboard) whose correctness depends on the order of steps, the TLC
configurations that check them on small instances, and proofs of the most
important properties for every value of the constants. `PROJECT.json` lists the
runs, maps every definition to the lines it models, and names for every property
a mistake in the code (an operator marked "Mistake" beside the definition) with
which TLC finds the property violated.

    tlc -workers 2 -config MCRucksack.cfg MCRucksack     one run
    tlapm RucksackProofs.tla                             one module of proofs

Contents: 1 the system, 2 the hard parts, 3 the modules, 4 the runs, 5 what the
code does otherwise, 6 the proofs, 7 what is not modelled, 8 the plan.

## 1 The system

Wanderlust warms a web shop's caches. Users describe in forms which URLs to
visit (provisioners) and when (crontab schedules); a scheduler starts the work.
`wlapp.Boot` (src/wlapp/app.go:43-50) starts, in this order, the store, the web
server, the cron service and a handler of signals; each runs in goroutines of its
own from then on.

| component | state | operations | talks to |
|---|---|---|---|
| **rucksack** (src/rucksack/db.go) | `writerChan` (capacity 100), the bolt file, the loop of `Writer` | `Insert`, `Delete`, `FindOne`, `FindAll`, `Count`, `Close` | bolt |
| **bolt** (vendored; db.go, tx.go, freelist.go) | `rwlock`, `metalock`, `mmaplock`, `db.txs`, the map; pages, two meta pages, the list of free pages | `View`, `Update`, `Begin`, `Commit`, `Rollback`, growth, `Open`, `Close` | the file |
| **cron** (src/github.com/robfig/cron) | `entries`, `running`, four unbuffered channels, a timer | `Schedule`, `Remove`, `Entries`, `Start`, `Stop`; `SpecSchedule.Next`; `Parse` | the clock, jobs |
| **brotzeit** (src/brotzeit/brotzeit.go) | `crond`, `chanCronAdd`, `chanCronDel` (capacity 1) | `SaveConfig`, `GetCollection`, `BootCron`, `BootCronNotifier`, `Close` | rucksack, cron, provisioners |
| **wlapp** (src/wlapp/app.go) | the process | `Boot`, `catchSysCall`, `UpdateAdminPassword` | all of the above |
| **picnic** (src/picnic) | tokens, which clients keep; accounts, in the store | login, logout, `authenticate`, `initUsers`, handlers | rucksack, brotzeit |
| **provisioners** (src/provisioners) | forms, in the store | `FormSave`, `ConfigComplete`, `ParseXML` | rucksack |
| **dashboard: session** (core/CoreServices.js, CoreFactory.js, CoreRoutes.js, login/, master/ under src/picnic/rd/src/app) | `loggedIn`, `lastLoginUrl`, the token in the local storage, URL and history, requests under way | `sync`, `login`, `logout`, the two interceptors, transitions of the router | picnic over HTTP |
| **dashboard: polls and menu** (dashboard/systemInfoController.js, `NavigationController`) | a poll per visit, the list of provisioners | `tick`, `$destroy`, the watch, `loadProv` | session, picnic |
| **dashboard: forms** (provisioners/ProvisionerFactory.js) | one service for every form: scope, type, two timers | `_debounceUpdate`, `_saveUpdates`, `init` | `FormGenerate`, `FormSave` |
| **dashboard: schedules** (brotzeit/brotzeitController.js) | rows, which of them are open and green | the list, `saveCronExpression` | `GetCollection`, `SaveConfig` |
| **wanderer** (src/wanderer) | none yet | `BootWanderer` logs a todo | |

How they interact. An HTTP handler that saves something calls
`Rucksack.Insert`, which sends to a channel and returns; the goroutine `Writer`
writes later. `Delete` and the reads do not take that way, they run a bolt
transaction in the handler's goroutine. Handlers, `Writer`, `BootCron`,
`BootCronNotifier`, cron's `run` and the signal handler share the store, the
runner and the channels, with no lock of the program's own. A signal makes
`catchSysCall` close the store, then the cron service, then exit.

What makes each correct:

- *rucksack*: an accepted write is settled or dropped once and in order, exactly one
  writer is in a transaction, no caller is left waiting, failures, shutdown and
  crashes leave the file in a state some order of the calls explains.
- *bolt*: readers see one snapshot, their pages and their mapping stay; pages
  are neither lost nor used twice, after a rollback or a crash too; the lock
  protocol never stops.
- *cron*: every activation is run once, in order and not early; calls return.
- *brotzeit*: the runner's entries are what the store held for complete
  provisioners; it runs when it has entries; saving and shutting down end.
- *picnic*: an account exists once and its password is the one told; a session
  ends at its expiry; a level of access is checked before its handler.
- *provisioners*: what was saved makes the provisioner complete, in any order
  of the fields.
- *dashboard*: who is logged in has a token, a session ends for a reason, a login
  leads back; polls do not pile up and end with the session; the menu is the
  session's; what the user typed last reaches the store, for its own form; a
  green row has a schedule.

## 2 The hard parts

`PROJECT.json` lists 40 hazards at their lines. They come in seven groups:
calls on one entry that go two different ways to the file (queue, direct
transaction); transactions that handlers leave open (`FindAll`, `Count`) or
whose memory they use after the end (`FindOne`); updates that fail, Close, panics
and crashes between any two steps; a timer against four channels; goroutines that start and
stop one runner; answers that come to the dashboard after the session, the page
or the token they belong to; and timers that one service shares among all fields
and pages. Unit tests of this code run one call after the other and see none of
these orders.

## 3 The modules

| module | models | kind |
|---|---|---|
| `WriteBehind` | what the interface `Backpacker` promises | abstract specification |
| `Rucksack` | Insert, Writer, Delete, what fails in them, Close, exit, crash, restart | implements `WriteBehind` |
| `RucksackProofs` | theorems about `Rucksack` | proofs |
| `BoltLocks` | the three locks under every transaction, growth, Close | state machine |
| `BoltLocksProofs` | theorems about `BoltLocks` | proofs |
| `Snapshots` | what bolt promises of a transaction | abstract specification |
| `BoltPages` | pages, free list, commit, rollback, crash | implements `Snapshots` |
| `BoltPagesProofs` | theorems about `BoltPages` | proofs |
| `Cron` | the goroutine `run` and its caller | state machine |
| `CronProofs` | theorems about `Cron` | proofs |
| `Brotzeit` | the cron service, composed of `WriteBehind` and the runner | composition |
| `BrotzeitProofs` | theorems about `Brotzeit` | proofs |
| `Session` | the dashboard's session, interceptors, router | state machine |
| `Dashboard` | polls and menu, on top of `Session` | composition |
| `DashboardProofs` | theorems about `Session` and `Dashboard` | proofs |
| `ProvisionerForm` | the forms, their timer, `FormGenerate`, `FormSave` and the store behind them | composition |
| `ProvisionerFormProofs` | theorems about `ProvisionerForm` | proofs |
| `BrotzeitPage` | the page of the schedules, `SaveConfig` and the store behind it | composition |
| `BrotzeitPageProofs` | theorems about `BrotzeitPage` | proofs |
| `MC...` | the instances TLC checks | |

**Rucksack.** `chan` and `sendq` are the buffered channel: a send goes through,
or waits in a queue, or panics once the channel is closed; `Receive` hands the
oldest blocked sender the free place, as the Go runtime does. A read-write
transaction is its begin (takes `rwlock`, looks at `db.opened`), sometimes a growth of
the file (`UpdateGrows`, `DeleteGrows`) and its end: the commit, or a failure that
leaves the file as it was (`UpdateFails`, `DeleteFails`; db.go:121 and 196 log it and
tell nobody). What happens inside is the subject of `BoltPages`. A growth waits for
every open read: `ReadLeavesOpen` is a `FindAll` or `Count` that returned with its
transaction, after which a growth never ends (`Jammed`; `BoltLocks` shows how). `proc`
follows a shutdown through its three stages. `DeletePanics` is the nil bucket of
db.go:193; net/http recovers it and bolt's deferred rollback gives the lock
back. The histories say of each entry what its last completed call asked for
(`expect`), whether it was a `Delete` that overtook a queued `Insert` (`late`), and
whether the update or Delete that call rests on failed (`failed`).

**WriteBehind** has a map, a queue of accepted writes and two flags: `open`, and
`jammed` when a write waits for ever before all others. Its actions are one per thing a
caller can tell apart: `Accept`, `Settle`, `Drop` (an update that failed, or came to a
closed store), `Remove`, `Jam`, `Shut`, `Die`, `LateRemove`, `Reopen`. A removal that
fails changes nothing, so it needs no action. The refinement maps the file to `store`,
the Writer's hand followed by the buffer to `pending`. `Brotzeit`, `BrotzeitPage` and
`ProvisionerForm` use the same module as their store, so they rest on the promise and
not on the code.

**BoltLocks** is the protocol of `beginTx`, `beginRWTx`, `removeTx`, `mmap` and
`close`, one action per lock operation; `mmaplock` is a `sync.RWMutex` whose
waiting writer keeps new readers out. `FindOne` goes through `View`; `FindAll` and
`Count` return with their transaction open, which is what rucksack/db.go does.
`UpdateMapFails` is the error return of `mmap` after the old mapping is gone (bolt
db.go:175-204): the database is open and its file not mapped. The update's rollback,
which reads the meta page, or a reader that begins in between then touches what is not
there (`Faults`), and the process ends. A new mapping with invalid meta pages is an
update that fails with the file mapped; an error of the munmap itself is left out.

**BoltPages** abstracts a bucket, the root and the list of free pages to a page
each and keeps all of allocation, freeing, release, commit, rollback, crash and
reopening. A commit is four steps (`UpdateBegins`, `Spill`, `Write`,
`WriteMeta`) with a failure possible after each: some of the pages written, or
all, or the meta page written and only its sync failed (`MetaSyncFails`).

**Cron.** A schedule is any function from a time to a later time or `Zero`. The
sorted list of the code is a set here: before each sleep the code sorts, then
reads only the head and the prefix that is due with it. `now` is the loop's own
variable, which a call does not refresh until it has been served, `timer`
the time at which the `time.After` of the current turn fires. The wake-up may
come `MaxLag` late. doc.go:118-119 asks callers for an order between their
calls, so there is one caller.

**Brotzeit** composes: the store is `WriteBehind`; handlers run `SaveConfig` and
the provisioners' `FormSave`; `BootCron` goes through the routes with one action
per read of the store; `Signal` and `CloseDb` are bp.Close, `CloseLooks`,
`CloseStops`, `CloseChan` and `Exit` the rest of the signal handler. A call waits where
the code waits: `Inserts` for room in the channel (`Capacity` counts what it holds and
the write in the Writer's hand), `Deletes` and the reads of BootCron for a store that is
not jammed; a Delete may fail unnoticed. Any other part of the program may be what
jams the store. Of the runner the module keeps the entries and whether it runs.
What `FindOne` returns is a slice of bolt's map, which BootCron uses after further
transactions: `found` and `conf` are those slices, `loose` says which of them updates
have overwritten meanwhile (`Reuse`; as an update of any part of the program can do
it, it is not tied to the writes of the model), and reading a loose one gives anything;
the history `muddled` names the routes for which that happened. An unmapped slice (a
file that grew, or was closed) gives anything too, or ends the process. The data of a
provisioner is one place. Of the two fields of a sitemap one is enough to be complete;
a ConfigComplete that reads one before and the other after two updates may find neither,
which is among what a loose `conf` gives. The history `held` collects what
each place of the store contained since the process began; `BootsFromStore` compares
the entries with it.

**Session.** The browser believes `loggedIn`, stores a token and has requests under
way; the server has the set of tokens it accepts. A request carries the token
stored when it was sent, is served (`Serve`) or lost (`Lost`) and answered
(`Deliver`) in any order. `authenticate` answers 401 also for a token it accepts when
it cannot find the user (auth.go:95-98; a closed store, bytes that changed): such a
request is "missed". The router: following a URL begins a transition at once
(`GoToUrl`, `GoBack`), `$state.go` changes the URL when the page is shown
(`StateGo`, `Render`), and a transition replaces the one before. `Redirected` is
`ErrorInterceptor` with `redirectToLogin`, which leaves the token where it is.
`CoreServices` never asks the server on its own, so nothing happens when a token
expires (`Expire`) until the next request.

**Dashboard** extends `Session`: a step of the session is conjoined with what the
controllers make of it. `PageChange` is the construction and the `$destroy` of a
`SystemInfoController`, which cancels an armed timer and not a request under way.
`MenuChange` is the watch on `loggedIn` of `NavigationController`. The histories
`left` and `why` say how many pages were left during a request and which answer
the menu shows; no action reads them.

**ProvisionerForm.** `ProvisionerForm` is an AngularJS service: the one debounce
`timer`, `_type` and `_scope` are shared by all pages. `Enter` replaces scope and type
and leaves the timer; `SaveUpdates` reads the present ones when it fires. `Fills` is the
answer of `FormGenerate`, which sets the fields still empty and gives them a listener;
a field that was changed before has a value then and gets none. On the server
`Received` reads a value that is `undefined`, and so left out of the JSON text, as the
empty text; `Prepared` is what `PrepareSave` makes of it (textarea.go:56-90 trims
lines, removes empty and repeated ones and refuses what is no URL; sitemap.go:52-57 trims
what is the URL of a sitemap and refuses the rest): the constant `Prepare` may be any
function that keeps the empty text, `Refused` any texts but that one. `Stores` queues the result; `Writer`, `Jam`, `CloseDb`, `Halt` and
`Start` are the store behind it (`WriteBehind`) and the server's end at any point.
`Generates` reads the file, not the queue, and copies slices of bolt's map after their
transactions (`torn`). The history `by` says what armed the timer, `excused` which edits
the code drops. The green tick behind a field, with a timer of its own, is left out: no
step reads it.

**BrotzeitPage** has a row per provisioner over the handlers and `WriteBehind`.
`SaveConfig` deletes at once, or fails to and says it did, refuses what cron.Parse
refuses and queues the rest, which the Writer may drop; `Signal`, `CloseDb`, `Halt` and
`Start` stop and start the server behind the page. `Saved` colours the row by the text
it contains when the answer comes (`GreenNow`). The history `muddled` names the rows
where two things crossed or the store lost something.

## 4 The runs

Each finishes in under five minutes with two workers.

| run | instance | properties |
|---|---|---|
| `rucksack_store` | 2 handlers, 2 buckets of 1 key, 2 values, channel of 1, 3 calls; 188 thousand states | `TypeOK`, `OneWriteTransaction`, `LastCallSettles`, `KeepsOrder`, `KeepsPromise`, `SendReturns` |
| `rucksack_shutdown` | the same, 4 calls | `ShutdownKeepsWrites` (violated) |
| `bolt_locks` | 2 handlers and the Writer, 4 calls, each read of every kind; 87 thousand | `TypeOK`, `ReadersMapped`, `ReadsReturn`, `UpdatesFinishAlone` |
| `bolt_stuck` | the same, 3 calls | `UpdatesFinish` (violated) |
| `bolt_pages` | 2 readers, 2 buckets, 3 updates; 357 thousand | `TypeOK`, `CheckPasses`, `ReadersKeepTheirPages`, `ConsistentView` |
| `bolt_slice` | the same | `ValueReturned` (violated) |
| `cron_runner` | 2 jobs, 2 schedules, activations up to 3, clock to 4, wake-ups up to 1 late; 167 thousand | `TypeOK`, `NeverEarly`, `ActivationsExact`, `WakesInTime`, `CallsReturn`, `DueRuns` |
| `brotzeit` | 2 routes, 2 handlers, 2 requests, room for 1 write; 174 thousand | `TypeOK`, `BootsFromStore`, `RunsAfterBoot`, `ShutdownEnds`, `SavesReturn` |
| `session` | a guarded page, 2 logins, 2 requests under way, 2 clicks, 1 reload; 5.9 million | `TypeOK`, `SessionHasToken`, `SessionEnds`, `LoginLeadsBack` |
| `dashboard` | the same with 1 request and 1 click, 2 requests for the menu; 1.9 million | `DashboardTypeOK`, `PollsDoNotPile`, `MenuFollowsSession`, `PollsEnd` |
| `provisioner_form` | a form of 1 field and one of 2, an empty text, one that is stored as it is and one that is stored as the other, 2 edits, 2 visits, 1 fault; 239 thousand | `TypeOK`, `EditsReachStore`, `SavesOwnField`, `EditsSettle` |
| `brotzeit_page` | 2 rows, a valid and a wrong expression, 2 visits, 2 edits, 2 saves, rows symmetric; 456 thousand | `TypeOK`, `GreenMeansSet` |

What the runs show.

- `rucksack_store`: the Writer and the handlers' Deletes exclude one another,
  panics and failures included; queue and file together hold what the last call on an
  entry asked for, unless that was a Delete that overtook a queued Insert or the update
  or Delete of that entry failed; a blocked Insert returns unless a growth waits
  for a read that was left open; every behaviour of the code is one of `WriteBehind`,
  its fairness included.
- `bolt_locks`: until Close the file is mapped under every reader; bolt knows
  every transaction that reads and forgets the ones that have ended; unless
  `FindAll` or `Count` left one open, every read returns and every update finishes,
  growth of the file, a growth that fails and Close included.
- `bolt_pages`: whatever mix of commits, rollbacks and crashes, a page is
  either reachable or free, the saved list is exact, and transactions see the
  snapshot they began with. The exception is written into the properties: a
  commit whose last sync fails exposes the transactions then open (`exposed`).
- `cron_runner`: the calls that interrupt a sleep neither lose, repeat nor
  hasten an activation.
- `brotzeit`: requests during the boot give entries only with a schedule the
  store held and for provisioners that were complete, but where a slice was
  overwritten before BootCron used it; unless the store is jammed, a signal at any point
  of the boot ends the process although Close may wait for a runner that is only
  about to start, and every save returns.
- `session`: whatever logins, logouts, refusals, expiries, reloads and lost
  answers cross, whoever is logged in has a token, a session ends for a reason,
  and a login at the form leads away from it; the exceptions are late answers.
- `dashboard`: a poll that outlives its page costs one page left in mid-request,
  all polls end once no valid token is stored for good, and the menu agrees with
  the token when its requests are answered in order.
- `provisioner_form`: what the server makes of an edit is accepted by the store, or
  the edit is on its way there, unless one of the things happened that the property
  names (no listener yet, another field changed or the form invalid before the timer
  fired, the save failed or was overtaken, the store lost it), and it stays out of the
  file for ever only in a jammed store; only a timer left from a page or an answer
  before saves what is not the field's own.
- `brotzeit_page`: a green row has a schedule and a row that is not green has none,
  but for saves, edits and reads that cross and for what the store loses in silence:
  a failed update or Delete, a shutdown, bytes that changed.

### Bounds, and why they are enough

- *Rucksack*: three calls fill the buffer, have the Writer hold another write
  and block a sender behind both, and are enough for Insert, Delete and Insert
  of one entry with a failure of any of them. Two buckets of one key distinguish an
  existing from a missing bucket. A capacity of one reaches "full" at every point; the
  proofs cover every capacity and any number of calls. To lose an accepted write at a
  shutdown takes fewer calls than `rucksack_shutdown` has.
- *BoltLocks*: a deadlock needs at most one holder of each lock; two readers, a
  growing update and Close hold or wait for all three together.
- *BoltPages*: the numbers of transactions start at 1, so `MaxTx = 4` is three
  updates: one whose pages a reader needs, one that replaces them, one that
  would reuse them. A fourth would meet the same lists under other numbers.
- *Cron*: two entries tie or differ; a schedule of fixed times has a last
  activation, a constant delay depends on the time it is asked; activations 1
  to 3 leave room for a wake-up that is late past the next activation.
- *Brotzeit*: two requests make an entry (schedule, data) or change one of the
  two while BootCron is between its reads, and fill a channel of one and a store with
  room for one write, behind which the second waits. The proofs cover any number.
- *Session*: the exceptions need a request of one session that is answered in the
  next, so two tokens and two requests; two clicks and a reload move the page
  between its being asked for and shown. One open page besides `/` would only be
  another page without data.
- *Dashboard*: one request of the session at a time and two of the menu: the menu's
  overtake each other, a reload or a login comes between.
- *ProvisionerForm*: two fields of one form displace each other's timer, a field of
  another form meets it after the change of the page; two edits of one field
  cross on the way to the store. Of two texts `PrepareSave` makes the same one. One
  fault (an update that fails or jams, a torn slice, an end of the server) is one more
  than a test meets; the proofs allow any number.
- *BrotzeitPage*: two saves cross in every order with the list read between and the
  server stopped anywhere. No action tells the two rows apart, so they are symmetric.

`CHECK_DEADLOCK FALSE` stands where the modelled system does stop: after the last
call of `BoltLocks` with an update waiting for a transaction left open, and in the
dashboard when the user has used up his clicks, edits or visits.

### Fairness

Go's scheduler runs every goroutine that can run: the Writer, a handler inside an
operation, `run`, `BootCron`, the notifier and the signal handler are weakly fair.
Strong fairness is assumed in two places. A `select` with several ready cases
picks one at random (`Fires` and `Serves` of `Cron`), so none is passed over
for ever. Blocked senders of a channel are served in the order they came (`Sends`
of `Brotzeit`, where a send of another handler may come between). A Go mutex is handed
to one who has waited for long, so a Delete gets bolt's write lock in its turn.
Nobody is obliged to call, grow the file, close, signal, crash or restart. The clock
goes on.

Fairness is of steps that can be taken, and an update that waits for a read left open
cannot: nothing is assumed of it. In `Rucksack` the end of a transaction is not enabled in
`Jammed`; `WriteBehind` is fair to `Settle \/ Drop`, which a jammed store does not enable;
in `Brotzeit` no write ends and no transaction begins in a jammed store, and `CloseDb`,
which takes the meta lock that a reader may hold while it waits, is not obliged to
happen there. So the liveness properties have the jam as their exception.

In the browser a `$timeout` fires and a request ends, answered, refused or lost:
`Tick` and `Success \/ Error` of `Dashboard`, `SaveUpdates` and the saves of
`ProvisionerForm` (`Stores \/ Refuses`) are weakly fair, and so is its `Writer`. No user has to type, click or leave,
no token has to expire. `PollsEnd` has as its premise that a valid token is stored
no more.

## 5 What the code does otherwise

Runs that TLC finds violated; each states a sentence of the documentation.

- `rucksack_shutdown`: Close ends the channel and at once the database. Writes
  that `Insert` acknowledged are lost at an orderly shutdown.
- `bolt_stuck`: one `FindAll` or `Count` leaves its share of the mmap lock taken,
  for `tx.Commit` refuses a read-only transaction before it closes it. The
  first update that has to grow the file waits for ever, and everyone behind it.
- `bolt_slice`: the bytes `FindOne` returns point into the map and are overwritten
  by later updates once its transaction is closed.

Others, met on the way, are written into the properties as the exception the
code makes, so that the properties say exactly what holds:

- An update or a Delete that bolt refuses is logged and forgotten, its caller has been
  told of success: of an update before it was tried, of a Delete nevertheless (`failed` in
  `LastCallSettles`, `excused` in `EditsReachStore`, `muddled` in `GreenMeansSet`).
- An update that waits for a read left open holds bolt's write lock: the Writer, every
  Delete, and then every Insert wait behind it, new reads too, and `GetCollection`
  leaves a read open for every provisioner. `SendReturns`, `SavesReturn`, `ShutdownEnds` and
  `EditsSettle` end there (`Jammed`, `jammed`); a shutdown may then hang in bp.Close.
- BootCron and the handlers read the bytes of `FindOne` after further
  transactions; entries, texts and rows may show what was never stored for their place
  (`muddled` in `BootsFromStore` and `GreenMeansSet`, `torn` in `ProvisionerForm`).
- A valid token is refused with 401 when the user's entry cannot be read, and that ends
  the session ("missed" in `SessionEnds`).
- A `Delete` overtakes an `Insert` that is still queued and is undone by it
  (`late` in `LastCallSettles`); `SaveConfig` with an empty schedule is such a
  Delete, whatever brotzeit.go:171 says.
- Transactions that are open when the sync of a meta page fails lose their
  snapshot (`exposed` in `BoltPages`): rollback reads the list of free pages from
  the meta page it has just written.
- An entry added to a sleeping runner gets its first activation from the time
  the loop last woke, so it may run for times before it was added
  (`base` in `ActivationsExact`).
- A runner that BootCron starts after bz.Close has counted its entries is not
  stopped; the exit of the process ends it (`RunsAfterBoot` ends at "stop").
- A saved schedule is only logged by `BootCronNotifier` and starts at the next
  boot (`BootsFromStore` speaks of the boot).
- The answer to the sync of the start overwrites what a login or logout set
  meanwhile, and a refusal of a request sent with an earlier token ends the
  present session (`SessionHasToken`, `SessionEnds`).
- `$destroy` does not cancel a poll whose request is under way, whatever
  systemInfoController.js:44 says; its answer arms a timer that lasts until the
  session ends (`left` in `PollsDoNotPile`). A poll does not begin when the answer
  to the sync comes after the page was shown, and any failed request ends it.
- The menu is not asked for anew when a token changes while `loggedIn` stays
  what it was (`why` in `MenuFollowsSession`).
- Editing a second field within 1.1 seconds drops the save of the first; a timer
  that fires after a change of the page saves its field under the provisioner of
  the new one, without a value or with none typed there, which empties it in the
  store (`excused`, `by` in `ProvisionerForm`).
- A field that was changed before its form came has no listener and is not saved, now or
  later on that page (`excused`; ProvisionerFactory.js:82-85).
- A row's colour is taken from what it contains when the answer comes
  (`muddled` in `GreenMeansSet`).

## 6 The proofs

TLAPS checks them for every set of clients, readers, handlers, buckets, keys, values,
jobs, routes, pages and fields, every capacity, horizon, clock and lag and every
bound on the number of transactions, calls, tokens, requests, edits and visits, from the named assumptions of the modules alone (names are distinct,
numbers are natural, a schedule answers with a later time).

**RucksackProofs.** `OneWriteTransaction` is not inductive: a step of the Writer needs
that its hand holds an entity, a restart that a dead process holds nothing. `IInv` adds to
it `TypeOK`, `BufferBound`, `WriterHolds`, `Halted` and `SendersAccountedFor` (a sender
waits only for a full buffer, and in the queue that the Writer serves).
`LastCallSettles` is inductive relative to `IInv`; its lemmas are about sequences:
appending a write decides its own entry and no other (`AppendDecides`), writing the
oldest one to the map decides nothing anew (`SettlingDecides`), dropping it decides at
most its own entry (`DroppingDecides`). `RucksackKeepsOrder` is the refinement:
`StepKinds` sorts the steps into those of `WriteBehind` and stutters, given `IInv`, and says
of each what the histories make of it (`Drops` and `Forgets` are the failures).

**BoltLocksProofs.** `IInv` adds to the type and to `ReadersKnown`: who holds which
lock follows from his place (`LocksOwned`), transactions are numbered apart
(`Numbered`), while the file is mapped anew, or could not be, nobody has a share of the
lock, and the file is unmapped at no other time before Close (`RemapExcludes`), a share
given back is not regained (`Removing`). Then `ReadersMapped` follows: a reader has a
share, so nobody is in "remap" or "failed".

**BoltPagesProofs.** `CheckPasses` speaks of the moments without an update, so the
invariant has to say what an update leaves true while it runs. `Whole`: the current
meta page leads to a tree and to a list of all other pages, whatever the update has
written. `Busy`: with its pages in place (`Image`) the update's own meta page leads to
such a tree too, none of the pages it writes is reached from the current one, and
what it replaced is pending under its number. `Apart` and `Quiet`: free and pending
pages are disjoint and, without an update, all that the tree leaves over. `Needed`:
a reader's pages are current or pending under a number after its own, which is why
`Released` may give back the others. `Untouched` follows: whatever part of an update
is in the file when it fails, no reader and no crash can tell, and the refinement of
`Snapshots` maps `WriteMeta` to the commit (`OneBucket`) and the steps before it to
stutters. `NoTxAssumption` says that "no transaction" is no meta page and no contents.

**CronProofs.** `IInv` adds: schedules look ahead (`LooksAhead`), the goroutine lives
exactly when a call may wait for it (`Alive`), its `now` is not ahead of the clock
(`ClockAhead`), an entry is added once and has no runs before (`Additions`), `Next`
of an entry lies after its runs (`NextIsLater`), the timer does not fire before
the soonest entry (`TimerNotEarly`). With these, `NeverEarly`, `ActivationsExact`,
`PrevIsLastRun` and `WakesInTime` are preserved by every step, and `NoRerun` follows.

**BrotzeitProofs.** The loop of BootCron is proved by its position. `Passed` says that
every route the loop has dealt with has an entry or an excuse (`Excused`), `Entered`
that an entry was in the store, and both are monotone in `held` (`BootKept`), so no
step of a handler or the Writer disturbs them. `FoundHeld` carries what BootCron
has read from one read to the next, `HeldNow` that the store is among what it held,
`Living` that the store is open until bp.Close has closed it and that the runner does
not run before BootCron is done. `Stored` has what the type leaves out: at the place of a
schedule there is a schedule. An overwritten slice is one more excuse (`muddled`), which
`Entered`, `FoundHeld` and `Passed` carry for its own route only.

**DashboardProofs.** The three action properties of `Session` follow from the type,
from `Sane` (a login that is granted carries a token, no token is stored that was not
issued) and from `Winding`: the URL and the history before it never have a page
twice in a row, which is why a login that goes back in the history leaves the form.
`Winding` is kept by `Append`, `Front` and a step to the same URL; the lemmas on
sequences say so once. A step of the dashboard is a step of `Session` or leaves it
alone (`SessionBelow` is the refinement), so the invariant is taken over and the
three properties hold of the dashboard too (`SessionKept`). `PollInv` counts: polls of
pages left are at most `left`, and one may be the present page's. `MenuInv` says what
the requests under way, in their order, and `why` tell of the menu: with nothing
overtaken, lost or unseen, the newest request carries the stored token (`Asked`), or
the menu is what it answered (`Told`).

**ProvisionerFormProofs.** Saves have numbers of their own, and none of a field is
newer than its `lastSent` (`Numbered`); only a page that is shown has changes, noticed in
fields with a listener, which have a value or an input that breaks the pattern
(`Shaped`); the timer of an edit is that of such a field (`Own`). `AllKept` strengthens
`EditsReachStore`: where queue and file hold the value already (`Held`), nothing newer
is on its way. The lemmas on the queue say that the write accepted last is what a place
will hold (`AcceptHolds`) and that settling the oldest changes nothing of it, dropping it
only where it is the only one of its place (`TailHolds`), which is then excused.

**BrotzeitPageProofs.** `GreenMeansSet` speaks of rows without a save under way.
`RowRight` says what such a save may be: a row that nothing has muddled has one at
most, of what the row contains, and nothing of it is queued before the handler has
run; once stored, the answer will colour the row rightly. `Fresh` says the same of a
list that was read and not shown yet, `Entered` that rows come with the list of their
page and saves after them, `DownIsEmpty` that a process that has ended has no queue.
What queue and file together hold for a row is the newest element queued for it; queuing
one decides its own row only (`AcceptDecides`), settling the oldest decides nothing
(`SettlingDecides`), dropping it only a row with nothing else queued
(`DroppingDecides`), which is then muddled.

**The store underneath.** `Brotzeit` and `BrotzeitPage` move the variables of
`WriteBehind` in actions of their own. `StoreUsedRightly`, in the proofs of each, shows
that whatever they do with them is a behaviour of `WriteBehind`, drops, silent failures,
jams and ends included, and `RucksackKeepsOrder` that the code of the store has no
others: what is shown of the cron service and its page does not rest on a store that
promises more than Rucksack keeps.

**What liveness rests on.** That something must happen is checked by TLC alone. That
nobody waits in vain, or without end, is a matter of safety and proved for any number
of processes:

| theorem | says | property whose safe part it is |
|---|---|---|
| `NoSenderStranded` (Rucksack) | while an Insert is blocked, the Writer can step, or a Delete that holds the lock can, unless a growth waits for a read left open | `SendReturns` |
| `SendersServedInTurn` (Rucksack) | blocked Inserts are queued in the order they came and return only then | `SendReturns` |
| `LocksTakenInOrder` (BoltLocks) | unless a read was left open, whoever waits for a lock waits for somebody of lower `Rank`, so that no circle can close | `ReadsReturn`, `UpdatesFinishAlone` |
| `NoCallerStranded` (Cron) | a blocked call waits for a goroutine that is alive, and its select has a case for the call | `CallsReturn` |
| `CloseNotStranded` (Brotzeit) | where Close waits for the runner, it runs, or BootCron is on its way to start it | `ShutdownEnds` |
| `BootTerminates` (Brotzeit) | BootCron never goes back: its place in the routes, then its `Stage`, only grow; only a jammed store makes it wait | `ShutdownEnds` |
| `PollsWane` (Dashboard) | once the stored token is refused, the `Rest` of a poll falls with each of its steps and rises with none | `PollsEnd` |

The guards named in them (`WriterCanStep`, `DeleteCanStep`, `CanStep`) are those of the
actions, written out because `ENABLED` is out of the prover's reach. Two more are
action properties of their own: a job that was removed is never run again
(`RemovedIsNotRun`), and at most one update is in the file (`UpdatesSerialized`).

Only model-checked: liveness itself (`KeepsPromise`'s fairness, `SendReturns`,
`ReadsReturn`, `UpdatesFinishAlone`, `CallsReturn`, `DueRuns`, `ShutdownEnds`,
`SavesReturn`, `PollsEnd`, `EditsSettle`), which is beyond the prover. Every invariant
and every action property of the runs is a theorem.

## 7 What is not modelled

- *picnic*: users, sessions and authentication on the server: `Session` has the set of
  tokens the server accepts and the level each request is checked at, not how
  tokens are made. The other handlers are one request and one response. The gzip
  and CORS middleware share nothing.
- *provisioners*: what `PrepareSave` makes of a given text, which is the constant
  `Prepare` of `ProvisionerForm`, and the sitemap parser; that data is saved field by
  field and read by `ConfigComplete` is in `Brotzeit`.
- *dashboard*: a second tab of the browser: `Session` and what rests on it are one
  tab, whose local storage nobody else writes; with two, a login or logout in one
  changes the token under the other. The green tick of a form, which no step reads. The
  marketplace (a constant list of products), the user's name and
  mail (one request whose answer is shown), the toggle of the sidebar, the
  directives and the tasks of gulpfile.js have no two steps that could come out of
  order. `check` and the requests to recover or change a password, in
  core/CoreServices.js, are called by nothing.
- *wanderer*: not written yet. *helpers*: pure functions and file I/O.
- *bolt*: the B+tree inside a bucket, overflow pages, torn meta pages and the
  copy of a meta page that a commit writes at the same time; an error of munmap.
- *cron*: jobs run in goroutines of their own; the calendar arithmetic of `Next` and
  the parser of crontabs are third-party algorithms without interleaving, `Cron`
  takes a schedule as any function to a later time.
- *vendored libraries* other than bolt and cron carry none of the program's logic.

## 8 The plan

The order follows what would hurt most: the store first, then what rests on it.

1. Done: the modules of section 3 and the proofs of section 6.
2. `Accounts` (picnic/user.go, auth.go, sessionManager.go, handlerAuth.go and
   `UpdateAdminPassword`) over `WriteBehind`: the administrator is created once
   over crashes between print, queue and file; `WriterDone` signals the command's own
   write; a session ends; login against a change of the password. It would refine the
   server's half of `Session`.
3. `Provisioners` (main.go, sitemap.go, textarea.go) over `WriteBehind`:
   `ConfigComplete` for every order of saves; the sitemap parser against a reference.
4. Additions to what is there: torn meta pages in `BoltPages`, two callers of
   `Entries` in `Cron`.
5. Proofs: `Accounts`.
