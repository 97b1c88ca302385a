# A formal model of SEC360

SEC360 collects an organisation's inventory (endpoints, users, security agents,
network equipment) from other products, evaluates compliance and risk over it,
shows it in a web console, and forwards what changes to a SIEM. This directory holds TLA+ models
of the parts of it whose behaviour depends on the order of events, the TLC
configurations that check them on small instances, and theorems about them that
TLAPS checks for every instance. Paths below are relative to the repository.

    tlc -config MCDeliveryOverlap.cfg MCNetworkMapDelivery     # one run
    tlapm NetworkMapDelivery_proofs.tla                        # one proof module

`PROJECT.json` is the index: components, runs, the source lines behind each
definition, hazards, findings and theorems.

## 1. The system

| Part | State | Operations | Talks to |
|---|---|---|---|
| Network Map collector (`collector/sec360_collector`) | SQLite tables `deliveries`, `source_sequences`; the memory of one process | a loop: flush, collect all sources, flush, heartbeat, wait | backend, over HTTP with a time-out |
| Network Map ingest (`backend/app/network_map`, `api/routes/network_map.py`) | collectors, connections, runs, observations | ingest, heartbeat; rotate, revoke, delete connection | PostgreSQL |
| SIEM outbox (`services/siem.py`) | `siem_deliveries`, the SIEM settings | queue, flush every minute, purge daily | every transaction that records an event; the receiver |
| Change tracking (`services/change_tracking.py`) | `entity_state_snapshots`, a marker row, `change_events` | capture | compliance runs, imports; the SIEM outbox |
| Compliance engine (`engines/compliance.py`) | `compliance_status`, exclusions | evaluate one endpoint, run all | change tracking; scheduler and routes |
| Correlation (`engines/correlation.py`) | endpoints, agents, owners | match, merge duplicates | scheduler |
| Risk engine (`engines/risk.py`) | risk scores | recompute all | scheduler |
| Collectors (`collectors/*.py`) | endpoints, users, agents; a circuit breaker per source in memory | fetch, upsert, prune | external products; scheduler, manual sync |
| Scheduler (`collectors/scheduler.py`) | APScheduler jobs in the backend's process | collection cycle, proxy audit sync, reports, purges, SIEM flush | all of the above |
| Proxy audit (`services/proxy_audit.py`) | connection row with `sync_in_progress`, revisions | scheduled and manual sync | Management Center |
| DLP policy tracking (`services/dlp_policy_tracking.py`) | snapshots of patterns | compare | change events |
| Authentication (`api/routes/auth.py`, `services/auth_sessions.py`, `core/rate_limit.py`) | users, sessions, failure counters in Redis or memory | login, refresh, revoke, invite, SSO | RADIUS, SAML, Redis |
| Linux audit, reports, settings, API keys | one table each | CRUD, upload | |
| MCP server | none | reads the API | backend |

The console (`frontend/src`, React, one page of code per screen) keeps state of its
own in every browser tab:

| Part | State | Operations | Talks to |
|---|---|---|---|
| Session store and interceptor (`store/auth.ts`, `api/client.ts`, `App`, `Login`, `Layout`) | what the tab believes of its session, its session checks, the shared refresh; the cookies are the browser's | sign in, check the session on load and on every change of the path, sign out, refresh and retry a denied query, route | authentication, the other tabs' cookies |
| Query cache (`main.tsx`, every page) | one entry per query: the last answer, the fetch in flight | mount, poll, save, invalidate, write an answer | every read of the backend |
| Proxy Audit page (`pages/ProxyAudit.tsx`) | whether a sync was seen | poll the connection, refetch the events | proxy audit |
| Endpoints page (`pages/Endpoints.tsx`) | facet filters, counts, selection | filter, tick, assign in bulk | the cached answer |
| Ten paged lists | box, debounce timer, search, filters, page | type, filter, page, take a saved view | the query they make |
| Seventeen forms (settings tabs, dialogs, panel sections) | draft, the answer it was loaded from, calls in flight | open, edit, save, test, sync, close | the cached answer, other administrators |
| Floating panels (`store/panels.ts`, `FloatingPanels.tsx`) | the open panels, closing timers | open, minimize, focus, close | every page |
| Map scene (`features/networkMap`) | selection; groups of 3D objects, one per floor shown | select, move a device, draw a frame | the map query |
| Navigation and palette (`App`, `navigation.ts`, `CommandPalette.tsx`) | role, connected integrations, path, palette | go, search, execute | the integrations query |
| Report preview (`pages/Reports.tsx`) | type, filters, preview | generate, print | reports |

The backend is one asyncio process (`backend/Dockerfile` starts one uvicorn
worker) over PostgreSQL at READ COMMITTED. A request is one transaction:
`get_db` commits after the handler has returned and before the answer is sent,
and rolls back on an exception. Handlers and jobs therefore interleave at their
database calls and at their outgoing requests, and the sessions are created with
`autoflush=False` (`core/database.py:15-21`): a session does not see, in its own
queries, rows it has added and not flushed.

What is hard in this system, and what makes each part correct:

- **Delivery of network snapshots.** Lost requests and answers, retries that run
  beside the request they repeat, crashes between allocating a sequence and
  queueing the payload, backoff that reorders the queue, token rotation. Correct
  if nothing queued is forgotten, observations of two snapshots never mix, and
  the map only moves forward.
- **The SIEM outbox.** Sends precede the single commit that records them; rows
  are purged; settings change in between; a receiver refuses some documents for
  ever. Correct if no committed event is dropped, no uncommitted one is sent,
  repetitions are bounded, and the deliverable ones are delivered.
- **The change log.** Runs overlap without a lock; rows are staged in sessions;
  endpoints come, go and merge while a run is under way. Correct if the log
  replays to the snapshot, reports only what happened, and the snapshot
  converges to the inventory.
- **The console's session.** Two tabs share two cookies; a refresh spends the
  token the other tab may be sending; a query is denied while a refresh is under
  way; session checks overlap and answer late. Correct if the browser is never left
  with a spent token of a live session, a tab refreshes once at a time, denied
  queries settle, only a tab's own calls sign it out, and a tab whose session is
  over comes to the login page and stays there.
- **What a page shows.** Answers served before a save arrive after it; polls,
  saves and written answers race. Correct if what was saved is shown in the end,
  and a page that polls comes to show the last version.
- **What a page holds back.** Drafts, selections, timers and searches outlive the
  answers they were made from. Correct if they are not lost, applied to another
  object, or executed for an older text.
- **Correlation** must not merge different machines; **pruning** must not take a
  truncated answer for an empty inventory; **a sync flag** must not survive its
  sync; **refresh rotation** must leave one valid token per session; **scheduled
  reports** should go out once.

`PROJECT.json` lists 40 of these hazards at their lines, with the property that
covers each and what it does not cover, or the module planned for it. Known, without a property and not in
that list: a heartbeat writing `metadata_json` beside an ingest
(`routes/network_map.py:237`), a request authenticated before a revocation
(`collector_auth.py:58`), dead rows that are never removed (`queue.py:68`),
deduplication beside a manual sync (`correlation.py:471`, `integrations.py:371`),
a report e-mailed before its commit (`scheduler.py:223`), a purge beside a flush of
the outbox (`scheduler.py:301`), the login limiter's check
apart from its count and its two places of counting (`rate_limit.py:42`, `:95`),
two acceptances of one invitation (`auth.py:421`), removals under an incomplete DLP
fetch (`dlp_policy_tracking.py:247`), the circuit breaker (`base.py:36`), two
uploads of one audit (`linux_audit.py:355`).

## 2. Modules

```
NetworkMapSnapshots         what a snapshot is
  |-- DeliveryQueue         the collector process and its SQLite queue
  |-- SnapshotIngest        the backend's handler, its admin routes, its crash
  |     \-- NetworkMapDelivery      both, over a network      (EXTENDS both)
  |           |-- MCNetworkMapDelivery       symmetry, for TLC
  |           \-- NetworkMapDelivery_proofs  theorems
  \-- LatestSnapshot        what the map promises (abstract specification)
SiemOutbox                  the outbox      -> SiemOutbox_proofs
  \-- AtLeastOnce           what it promises (abstract specification)
InventoryChanges            compliance runs and the change log -> InventoryChanges_proofs

WebSession                  tabs, cookies, sessions  -> MCWebSession, WebSession_proofs
  \-- SingleFlight          what its shared refresh promises (abstract specification)
QueryCache                  an entry of the console's query cache
ProxySync                   the proxy sync and the page that watches it
  \-- ConsoleData           one or the other, for TLC  -> ConsoleData_proofs
EndpointsPage, ListPages, Drafts, FloatingPanels, MapView, Navigation, ReportPreview
  |-- Workspace             the console's own state, part by part  (EXTENDS all)
  |     |-- MCWorkspace     a fleet and constants, for TLC
  |     \-- Workspace_proofs
  \-- Drafts_proofs, MapView_proofs
```

### Network Map delivery

`DeliveryQueue` has one action per operation of `queue.py` and per step of
`_collect_cycle`. The variables `lastSequence`, `deliveries` and `nextId` are the
SQLite tables and survive `Restart`; `phase`, `batch`, `remaining` and
`allocated` are the memory of the process. A flush reads its batch once and posts
it row by row; sources finish in any order, so `remaining` is a set. Every
payload may come out well-formed or malformed.

`SnapshotIngest` gives each request a slot and each database round-trip of the
handler a step: `Authenticate`, `CheckDuplicate`, `CheckStale`, `FindConnection`,
`BeginWrite` (the first flush), `Commit`. The row lock is not in the source as a
lock. `require_network_collector` assigns `last_seen_at`, so the first flush of
the session issues an `UPDATE` of the collector row, and from there to the commit
PostgreSQL makes every other request of the same collector wait. `OneCurrentRun`
rests on this incidental write: the mutant `LockNotTaken` breaks it. The two
unique constraints (snapshot id, source per collector) are `ConstraintsHold`; a
violation is a 500, which the collector retries.

`NetworkMapDelivery` composes the two: `Post` puts the row in hand into a free
slot, `Delivered`, `Rejected` and `Deferred` are the three branches of `_flush`,
`TimedOut` leaves the request behind in its slot, `RequestLost` and
`AnswerDropped` are the network. `CollectorRestart` is a crash, or an edit of
`config.yml` (a new token, another type for a source) and a restart.

`LatestSnapshot` is the abstract specification: per source, the map shows one
collected snapshot, replaced only by a later one, until its connection is
deleted. `ShowsLatest` states that the delivery implements it with `collected <-
produced` and `shown <- current`. That holds with one slot. With two it does not:
see *Findings*.

### SIEM outbox

An event goes `none -> open -> pending` (its transaction commits) or `aborted`,
then `failed` or `sent`, and `purged`. `flush_siem_deliveries` is `BeginFlush`
(settings and batch are read), one `Send` per row in the order of `created_at`,
and `EndFlush`, which commits all outcomes together; until then they are in
`result`, the session's view, and `Crash` drops them. `SendFails` and
`SendAccepted` are the exception and the success; `AnswerLost` is a document that
arrived although the sender saw an exception; `SendUnnoticed` is a syslog send to
a receiver that is down, or of a message it drops. The events in `Refused` are
documents no receiver accepts. `max_instances=1` of the job is `~flushing`.

`received`, `repeats`, `committed` and `unnoticed` are history variables: they
record what happened and no guard reads them.

`AtLeastOnce` is the abstract specification: an event is recorded and held, may be
delivered while it is held, and is let go of once it was received, or once a
transport without answers could not hear about it; a delivery repeats only for a
success that went unrecorded. `DeliversAtLeastOnce` states that `SiemOutbox`
implements it, with `held` mapped to the rows that are `pending` or `failed`: a
send is a delivery at once, although its row changes with the whole batch's commit.

### Inventory changes

`session[r]` is the transaction of run `r`: what it evaluated (`rows`), which of
those are new rows that its own query cannot see (`added`), which it deleted, and
after `Capture` the old snapshot it compared with and the new one it will store.
`Commit` applies it, or `FlushFails` drops it when a unique constraint, an updated
row that has vanished or a foreign key stops the flush (`FlushSucceeds`). Both
`run_full_compliance` (`Begin`, which deletes, and `ListCurrent`, which selects what
to evaluate) and a bare `capture_inventory_changes` (`BeginCapture`) are runs. The environment changes the inventory between any two
steps: endpoints are discovered, lose agents, are pruned, revived and merged
away, products become required, exclusions change (with their own evaluation). A
merge may also hand the removed endpoint's status row to the kept one
(`correlation.py:451-459`), which is left out: to the change log it is an evaluation
of the kept endpoint.

`told` is what a reader who replays the change events believes of each endpoint,
`altered` the products of which the report really changed since discovery.

### The console's session

`WebSession` has the tabs of one browser over one cookie `jar`, and the backend's
sessions (`live`). A tab is what `store/auth.ts` says of it (`auth`), the
page it is on, its queries, and its unanswered session checks (`me`, counted per
cookie they carry): `restoreSession` runs on load and again after every change of the
path, because the effect of `App.tsx:83-93` depends on `navigate`, which under
`BrowserRouter` is a new function for each pathname. So every action that changes the
path does it through `GoTo`, which sends a check; checks overlap, and each answer,
however late, sets or clears the store (`RestoreSession`, `CheckRefused`,
`CheckLost`). A refused check is not refreshed; it sends the event that leads to the
login page, and so another check. A query
that is denied waits for the tab's shared refresh (`refreshing`, the module
variable `_refreshing` of `client.ts:20`) or starts it. A refresh is sent, served
and received in three steps, because its answer replaces cookies: between serving
and receiving it, another tab may send the token that was just spent. The
refresh token is whether it is the current one of its session. The access cookie
expires at any moment (`AccessExpires`), sessions end by expiry, logout or an
administrator (`SessionEnds`), answers are lost. `invite` follows the page that
accepts an invitation and signs in.

`SingleFlight` is the abstract specification of the shared refresh: a caller that
needs a repair joins the one under way or starts it, and its end lets all of them go
on in one step. `SharesOneRefresh` states that `WebSession` implements it, with the
callers mapped to the queries that wait and the flights to the refreshes of a tab.
Everything else a tab does, up to the query that the invitation page sends without
waiting for a free slot, must be a stutter of it.

### What the pages show

`QueryCache` follows one entry of the cache, chosen in `Init`, through every
component that shows it and every mutation that changes or names it. The tables
at the head of the module are the code's own: which query each page mounts, which
keys each of its mutations invalidates, which poll. The library's steps (one fetch
per entry in flight; an invalidation replaces it if there is an answer to show
meanwhile and else joins it, `setQueryData` leaves it alone; a fetch fails after its
retries) are marked external in the map. The save of the platform settings awaits the
queries it has invalidated before it fetches its own again, so its handler is two
steps, between which an older fetch may land (`OnSuccessUntilAwait`,
`OnSuccessAfterAwait`).

`ProxySync` has the backend's flag and its two runs, which check and set it in
different sessions, the crash, the database error that nothing catches
(`SyncBreaks`), the statement at start-up, and the page: it polls while the flag is
shown, and fetches the events again when it sees the flag fall. Its fetches may fail,
and one that is insisted upon joins the fetch in flight while there is no list yet.

`ConsoleData` is the disjoint choice of the two, so that one run checks both.

### The console's own state

Each of the seven modules under `Workspace` is one page or store. Where the code
does one thing many times (ten pagers, seventeen forms), a module has one set of
actions and a row per occurrence that says how it differs; the row is chosen in
`Init`. A pager is `bounded` (the button is disabled at the last page), `clamped`
(the page is cut to the last) or `unequal` (disabled only *at* the last page). A
form follows its answer at its mount, once, when a status changes, or always; it
posts the fields it is for, or all of them; success leaves it, blanks it, resets it
to what was sent, or closes it; and two have a button that sends cleared fields
whatever the draft holds (`Clear`).

In `MapView` an attachment is drawn with its switch (`placed`, `attached`) and counted
on a floor of its own (`located`), because a port's override may name another one
(`service.py:455-461`); floors are managed or not, and devices of others are not
drawn; the page may show an error in the scene's place and keep the selection. In
`FloatingPanels` a panel opened again during its closing animation stays in its window
(`reopened`). In `Navigation` the way a user came is a link, a button to the data
sources, a command, an address, or a guard.

The parts do not read one another, so `Workspace` has `area`, the part a behaviour
is about, and the others stay in one initial state. `EachPart` proves that the
composition implements every part's own specification.

## 3. Runs

| Run | Module | Checks | States | 
|---|---|---|---|
| `MCDeliverySerial` | `MCNetworkMapDelivery` | `TypeOK`, `ShowsLatest`, `EventuallySettled` | 13,130 |
| `MCDeliveryOverlap` | `MCNetworkMapDelivery` | `NothingLost`, `OneCurrentRun`, `DeadOnlyWhenRefused`, `NeverReinstalled` | 157,188 |
| `MCDeliveryStale` | `MCNetworkMapDelivery` | `StaleRejected` is violated | |
| `MCSiemOutbox` | `SiemOutbox` | `TypeOK`, `OnlyUnnoticedLosses`, `DeliversAtLeastOnce`, `EventuallyReceived` | 730,960 |
| `MCSiemSyslog` | `SiemOutbox` | `NothingDiscarded` is violated | |
| `MCInventoryChanges` | `InventoryChanges` | `TypeOK`, `LogFollowsSnapshot`, `EventuallyAccurate` | 560,949 |
| `MCInventoryBaseline` | `InventoryChanges` | `RealChanges` is violated | |
| `MCSessionTabs` | `MCWebSession` | `TypeOK`, `TokenNotStranded`, `OnlyOwnCallsSignOut` | 1,952,575 |
| `MCSessionQueries` | `MCWebSession` | `SharesOneRefresh`, `DeniedQueriesSettle`, `ExpiredTabReachesLogin` | 198,343 |
| `MCSessionExpired` | `MCWebSession` | `SilentRefreshFirst` is violated | |
| `MCConsoleData` | `ConsoleData` | `SavedOnItsWay`, `SavedIsShown`, `PolledCatchesUp`, `SeenSyncIsShown`, `SyncNeverStuck` | 362,823 |
| `MCWorkspace` | `MCWorkspace` | endpoints: `CountIsWhatItShows`, `OnlyTickedArePosted`; lists: `PagePromised`, `SearchSettles`; forms: `ResultUnderItsHeading`, `NoToggleUndone`, `EditsSurvive`, `UntouchedSaveChangesNothing`; panels: `PanelsFit`, `OnlyDismissedClose`; map: `OneFloorInFront`, `SceneFollows`; navigation: `LinksLeadThere`, `EntitiesSettle`; reports: `PrintedUnderItsType` | 685,589 |

Several properties name where the code does not keep to them; these are stated, not
hidden, and their comments give the case. `SavedIsShown` excepts the features tab,
whose `setQueryData` a fetch in flight overwrites for good. `PagePromised` excepts
the Linux and proxy lists (`LinuxAudit.tsx:327`, `ProxyAudit.tsx:161`), which count
on past the end after the list has shrunk. `CountIsWhatItShows` excepts risk: the
count reads the score, the filter the override. `EditsSurvive` excepts the forms
that follow their answer: the features tab, the SIEM tab and the proxy connection,
where pressing *Test* sets `last_tested_at` and so discards what was typed.
It says nothing of a form's own save either: the scope control takes what it sent,
and with it goes what was edited meanwhile.
`NoToggleUndone` is about the platform and features tabs; the SSO and SIEM tabs post
their whole form and may undo another administrator's change. A scheduled report
that is edited loses its filters (`UntouchedSaveChangesNothing`). `LinksLeadThere`
says of the links to the data sources, which the header and the dashboard
show to everyone, that they are refused to all but administrators; the palette's
commands ignore the role as well. `PrintedUnderItsType`
excepts a type changed while the report is generated. `SceneFollows` counts
devices: one replaced by another, or moved on its floor, does not change the
scene's signature. And it speaks of *even* floors only: putting a floor into the
managed ones or taking it out does not change the signature either, an attachment
whose port is overridden is counted on one floor and drawn on another, and of a switch
with more than 32 the rest are not drawn. `OnlyDismissedClose` excepts a panel opened
again within the 160 ms of its closing animation, which is closed with its window.
`ResultUnderItsHeading` excepts a form closed under its call, `EntitiesSettle` the
200 ms of the debounce. `SeenSyncIsShown` excepts two syncs that overlap, of which the
first takes the flag down, and a run that broke on the database; it is satisfied by an
error on the page, and a page whose first list is still on its way owes nothing, since
the library joins that fetch. `SyncNeverStuck` excepts a database error outside the
run's `try`. `LogFollowsSnapshot` is about runs that did not overlap.

### Bounds

Every bound is a constant; the code has none of these limits, or larger ones.

- `MaxSequence = 2` (snapshots per source), `Slots` (one or two requests at
  once), `MaxFaults = 2` or `3` (lost requests, time-outs, crashes, rotations,
  revocations, deletions). Two snapshots of a source are what it takes to
  reorder; two slots, for a request to race its retry; two faults, to lose an
  answer and then crash or rotate. One source is enough for the safety
  properties: nothing but the row lock relates two sources, and the proofs hold
  for any number. `MCDeliveryOverlap` has two source types, so that a source may
  change its type.
- `BatchLimit = 2` stands for 50 rows (`queue.py:55`) and 100 (`siem.py:250`). In
  `MCSiemOutbox` it is smaller than the number of events, so a batch can be full,
  and larger than the number of refused documents, which `EventuallyReceived`
  needs: with as many refused documents due as a batch takes, they fill it.
- `MaxChanges = 3` in `MCInventoryChanges` allows a discovery, a change during a
  run and a change between runs, or runs that die. One endpoint suffices: no
  property and no guard relates two endpoints other than through a run's failure.
  A safety-only run with two products (8.7 million states) passes as well; it is
  too long to keep.
- Sessions: two tabs, one query each and two sign-ins are what it takes to
  present a spent token and to mistake one session's token for another's;
  `MCSessionQueries` has two queries in one tab, which is what it takes to share a
  refresh. `MaxEvents` (2 or 3) counts the choices of user, clock and network.
  `MaxChecks` bounds the unanswered checks a tab has sent with one cookie: one with two
  tabs (checks with different cookies still overlap), two with one tab. The invitation
  is open, or, with two tabs, used as well.
- `MaxVersion = 3` and `MaxCalls = 2` let a save overtake a fetch and a second save
  overtake the first; `MaxSyncs = 2` a manual and a scheduled run overlap
  or follow one another; `MaxFaults = 1` is a crash, a database error or a failed fetch.
- `MCWorkspace`: two endpoints that differ in every facet, two filters at once (one
  facet twice, or two facets); three pages, so that a list can shrink by one and
  by two; two objects for a form that opens on several, one for a form over one record,
  and two changes by others; of the addresses that filter endpoints those of the
  dashboard and the palette; four panels at a limit of
  three (four in the code), so that one is pushed out; two floors, one switch, one
  attachment, one attachment drawn per switch (32 in the code) and three groups of
  objects, so that two groups fade out under a third.
  What is proved of these parts holds for any number.

Deadlock is checked in the delivery runs, in which the collector's loop never stops,
and in `MCConsoleData` and `MCWorkspace`, where a user can always do something. The
other models may stop when every bound is used up and nothing is due
(`CHECK_DEADLOCK FALSE`).

### Fairness

- Collector: its loop runs for ever under a container that restarts it, a backoff
  is at most 900 seconds, a backend handler runs to its answer. There is no
  fairness for a *successful* collection or enqueue beyond `Enqueue` (the
  insertion into the local file): `CollectFails` may happen for ever. Faults are
  finitely many.
- Outbox: APScheduler starts the job every minute for ever; a backoff is at most
  60 minutes; outages end (`Recovery`); a flush ends, because connecting, posting and
  draining have time-outs. One wait has none: `wait_closed` of the TCP sender
  (`siem.py:247`). Were it to hang on a connection that never finishes closing, the
  job would, and nothing that is said under this fairness would hold. The property
  itself assumes that forwarding stays enabled from some time on.
- Inventory: the scheduler starts its run for ever, and a run that has begun goes
  on to its commit or its failure. Nothing is assumed of the requests' runs
  starting, nor of the inventory; changes are finitely many.
- Sessions: a request that was sent is answered or fails (the browser and the
  proxy time it out), a promise that settled runs its continuations, a page that
  is shown sends its queries. Nothing is assumed of users, of the clock, or of a
  refresh succeeding.
- Query cache: the library's interval fires, and a fetch is served and arrives or
  fails. No mutation and no user need act.
- Proxy sync: a run ends, because every call to the Management Center has a
  time-out; a process that crashed is restarted by its container; the scheduler's
  job fires; an open page polls.
- The workspace has none: its properties are safety.

No strong fairness is used anywhere.

## 4. Proofs

| Theorem | Property | Argument |
|---|---|---|
| `NetworkMapDelivery_proofs!TypeCorrect` | `TypeOK` | `TypeInv`: the type invariant with three facts it needs: an allocated source has a positive sequence; while an answer is awaited a flush is running and has a row in hand; the token's generation is at most the number of faults |
| `CurrentRunUnique` | `OneCurrentRun` | `LockInv`: a request that is writing holds the row lock, and the runs it will retire are exactly those of its source that are current. Only one request can hold the lock, so nothing becomes current between its reading and its commit |
| `DeliveryGuarantee` | `NothingLost` | `DeliveryInv`: row ids are unique; the batch holds rows of the table; the answer awaited is the one to the row in hand; a 200 is given only if the snapshot, or a later one, was accepted |
| `SerialDelivery` | `ShowsLatest` | Assumes one slot. `MapInv`: sequences grow along the queue; everything queued, posted or shown was produced; a request past the stale check is newer than every run of its source. Each step then maps to a step of `LatestSnapshot` or a stutter |
| `InstalledAtMostOnce` | `NeverReinstalled` | `Fresh`: a request that is writing has a snapshot without a run: the unique constraint is met as the write begins, and the row lock keeps every other commit away until this one |
| `DeadForGood` | `DeadOnlyWhenRefused` | `RefusalInv`: an answer that refuses for good was given to a malformed snapshot or to one whose source had been accepted with another type (`RefusedAnswers`), and what was accepted stays accepted |
| `SiemOutbox_proofs!TypeCorrect` | `TypeOK` | inductive as it stands |
| `NoEventDiscarded` | `OnlyUnnoticedLosses` | `OutboxInv` (what is committed has a row; a batch holds rows still to send) and `ArrivedInv` (a row is sent because its document arrived, or a syslog send went unnoticed) |
| `AtLeastOnceDelivery` | `DeliversAtLeastOnce` | from `OutboxInv`, `ArrivedInv` and `RepeatsInv`: a commit maps to `Record`, a send that arrived to `Deliver`, `Crash` to `Interrupt`, `EndFlush` to `LetGo` of the rows it marks sent, and every other step to a stutter |
| `CommittedFirst` | `OnlyCommitted` (implied by `DeliversAtLeastOnce`) | `OutboxInv` |
| `RepeatsBounded` | `RepeatsExplained` (implied as well) | `RepeatsInv`: a row that will be sent again has used up one uncommitted success per arrival |
| `HttpLosesNothing` | `NothingDiscarded`, with `Transports = {"http"}` | no send goes unnoticed, so `ArrivedInv` gives the README's sentence |
| `InventoryChanges_proofs!TypeCorrect` | `TypeOK` | inductive as it stands |
| `LogComplete` | `LogFollowsSnapshot` | `TrackedInv` (only tracked products are present) and `AloneInv` (a run that is alone compares with the snapshot it will replace); `ReportFollows` shows that one capture's events lead from the old state to the new one |
| `WebSession_proofs!TypeCorrect` | `TypeOK` | inductive as it stands |
| `OneRefresh` | `OneRefreshPerTab` (implied by `SharesOneRefresh`) | inductive with the types: a refresh starts only when the tab's shared one is empty, and the shared one is cleared only when it settles |
| `RefreshIsShared` | `SharesOneRefresh` | `FlightInv`: the tab's shared refresh is under way, and where a query waits there is one; `AcceptInv`: while the invitation page waits for its password's answer the tab sends nothing, so that its next query takes no waiting one's slot. A first 401 then maps to `Join`, the end of a refresh or a reload to `Settle`, and every other step to a stutter |
| `NeverStranded` | `TokenNotStranded` | `TokenInv`: sessions are numbered (`NumbersInv`), and the token in an accepted answer on its way is the only current one of its session (`RotationInv`): the rotation has spent the copy in the jar and those other tabs sent |
| `SignedOutByOwnCalls` | `OnlyOwnCallsSignOut` | by the actions, from the types: the store is cleared by a load, the end of a sign-out, a check that was lost, or one that was refused; and the refusal that takes a tab off a page sends the check of the login page's path |
| `Workspace_proofs!PagesPromised`, `SearchesSettle` | `PagePromised`, `SearchSettles` | `ListInv`: what a pager shows was promised for this search and these filters |
| `MapView_proofs!OneFloor`, `SceneKeepsUp` | `OneFloorInFront`, `SceneFollows` | `MapInv`: the selection keeps its types, and the last frame left nothing in front or one group of the floor and counts in its signature (`FrameInv`); on an even floor what is drawn are the devices that are counted (`FloorCounts`) |
| `Drafts_proofs!ResultsBelong`, `TogglesKept`, `EditsKept`, `UntouchedSaves` | `ResultUnderItsHeading`, `NoToggleUndone`, `EditsSurvive`, `UntouchedSaveChangesNothing` | `DraftInv`: a call carries what the draft held, and a draft no one touched is what it was loaded from |
| `LinksLead`, `EntitiesFollow` | `LinksLeadThere`, `EntitiesSettle` | `NavigationInv`: the role and the need of a link that was followed are met (`LinkMet`), until an answer changes the needs; the data sources are behind a guard of role alone; a running timer holds the text of the box |
| `PrintedRight` | `PrintedUnderItsType` | `ReportsInv`: a report on its way, or shown, is of the selected type or was overtaken |
| `PostedWasTicked` | `OnlyTickedArePosted` | the selection holds only what was ticked while listed |
| `CountsAreRows` | `CountIsWhatItShows` | facet by facet: the value a row is counted under is the value the filter compares with (`CountedMatches`, `OfferedIsEffective`) |
| `PanelsAlwaysFit`, `ClosedOnPurpose` | `PanelsFit`, `OnlyDismissedClose` | `PanelsInv`: ids are distinct, timers and drafts belong to mounted windows, and a running timer's panel was dismissed in that window, opened again since or not; adding, dropping the oldest and removing one keep a sequence of distinct ids distinct |
| `ConsoleData_proofs!SavedComes` | `SavedOnItsWay` | `CacheInv`: nothing owed or answered is newer than the backend's data. A success handler either leaves the debt alone, or names the query it raised it for, and a named query's fetch is replaced; that each of the 25 mutations does so is `EveryMutationRefreshes`, a row-by-row check of the table |
| `FlagIsNeverStale` | `FlagFollowsRuns` (safety behind `SyncNeverStuck` and `SeenSyncIsShown`) | `ProxyInv`: two runs in progress have overlapped, nothing runs in a dead backend; a flag that is set belongs to a run in progress, or a run of this process broke on the database |
| `EachPart` | | the composition implements each of its seven parts |

The properties are not inductive. `OneCurrentRun`, for instance, survives
`Commit` only because of what `BeginWrite` read earlier and the lock has kept
true since; that is what `Locking` adds. `LogFollowsSnapshot` carries the premise
that no two runs have overlapped because without it TLC finds two runs that
compare with the same snapshot: the second one to commit writes over the first
one's snapshot, and both have logged.

The assumptions are those the modules declare: the constants are sets without the
`No...` values, bounds are naturals, `Sources` and `Events` are finite. TLC
evaluates them in every run.

**Only model-checked**: the liveness properties (liveness under fairness is outside
TLAPS) and the four violations. Every safety property that a run checks is a theorem.
For the liveness of the query cache, of the proxy page and of the denied queries the
safety it rests on is proved: that a fetch is on its way, that a flag that is set has a
run which will take it down, and that a query which waits has a refresh whose end
takes it along; what is left to TLC is that fair steps are taken in the end.

## 5. Findings

1. **A stale snapshot can replace a newer one** (`MCDeliveryStale`).
   `service.py:255` compares sequences before the request holds any lock. The
   collector times out on snapshot 1 and goes on; snapshot 2 is accepted while the
   handler of 1 is past its check; then 1 commits, and its observations become
   current. `README.md:350` promises that stale sequences are rejected. Checking
   again after the first flush would restore `SerialDelivery` for any number of
   slots.
2. **A syslog receiver that is down loses events** (`MCSiemSyslog`).
   `README.md:581` promises that an outage discards nothing. Over HTTP that is so,
   and proved. The syslog transport has no acknowledgement, a fact the settings
   route mentions (`settings.py:1201`) and the README does not.
3. **New endpoints report false product changes** (`MCInventoryBaseline`).
   `evaluate_endpoint` adds the first status row without a flush
   (`compliance.py:171`), autoflush is off, and the capture in the same
   transaction cannot see it. The baseline has no products, and the next run
   reports them as added, and the verdict as changed from `not_evaluated`.
   `README.md:566` promises the opposite. The test
   (`test_new_endpoint_does_not_report_initial_products_as_changes`) flushes by
   hand.
4. **Following a link can sign out a live session** (`MCSessionExpired`).
   `client.ts:12-14` says that an expired access token is answered with one silent
   refresh before giving up. The session check is an exception: its 401 is not
   refreshed (`client.ts:41-43` leaves all of `/auth/` alone), and
   `store/auth.ts:56-57` clears the session. It is not only sent on load:
   `App.tsx:83-93` repeats it after every change of the path. So with an expired
   access cookie it is a race: a query that is denied first has the cookie renewed,
   and a click on a link first ends at the login form, although the session lives and
   the refresh token is good. `SilentRefreshFirst` states the comment's sentence, and
   TLC's run is that click. A user with no session left, on the other hand, does come
   to the login form, which sends the tab back a few times before a check's refusal
   clears the store (`ExpiredTabReachesLogin`, in `MCSessionQueries`).

Seen while modelling, and stated here for the record: a refresh that is refused
because another tab has just rotated the token sends the tab towards the login page,
although the session lives (`client.ts:52` calls it "truly expired"); a late 401 of a
session check clears a sign-in made meanwhile, until the check that this sends is
answered; a logout with an expired access token revokes nothing; the query cache is
not cleared on logout; the platform settings' save names neither
`compliance-endpoints` nor `users-all`, and a risk override not the dashboard's
totals; *evaluate* is answered before the evaluation is done; a database error outside
the `try` of `run_proxy_audit_sync` (`proxy_audit.py:348-352`, `:366-373`) leaves the
flag set while the process lives; a proxy page whose first list is still in flight
when the sync ends may keep that list; the late success of a dialog that was closed
closes the next draft; the scope control's save overwrites what was edited while it
was under way; a pager that hides at one page leaves the user beyond the end; the
default view of Puppet facts may replace typed text; `/users?highlight=` is written
and never read; the map's previous and next buttons keep another floor's device
selected; a floor put into or taken out of the managed ones keeps its old picture
until the selection changes, and a click on an attachment whose port is overridden
selects a floor on which it is not drawn; the buttons to the data sources in the
header and on the dashboard are shown to every role and lead all but administrators
back to the dashboard; a panel opened again within 160 ms of its dismissal closes.

## 6. What is abstracted, and what is not modelled

- A snapshot is its source, sequence, type and whether it is well-formed; its
  records are not modelled, and a run stands for its observations. The uuid
  `snapshot_id` is the pair of source and sequence, since sequences are not reused
  while the queue's file lives. A lost file is a hazard without a property yet.
- The answers `accepted`, `duplicate` and `stale` are one stage, `ok`: the
  collector does the same on each.
- Times are orders or a Boolean (`due`). Attempt counters only set the delay.
- A product's presence stands for all checks of the compliance verdict; versions,
  disk encryption and device control add conjuncts. Events on users, owners,
  controls and names are left out: they are compared and stored in the same two
  statements as the verdict.
- The collector's heartbeat and the backend's health display are left out.
- Of the console: sorting, exports, the contents of drawers, geometry and camera of
  the map, themes, translation, and the notes and compliance pages' filters are left
  out. What a form edits is two fields, what a query answers is a version, a search
  is one of a few texts. `SearchBar`, `FacetFilterPanel`, `DataTable`, the audit tab
  of `Settings.tsx` and the users tab of `Security.tsx` are mounted nowhere.
- How the backend verifies a password, a RADIUS answer or a SAML assertion is left
  out: a sign-in succeeds or not.
- The parts marked `not_modelled` in `PROJECT.json` have no module, each with its
  reason.

## 7. Plan

In order of what can go wrong there:

1. `EndpointCorrelation`: matching strategies, merge with inherited fields,
   repeated passes; the property that two valid serials are never merged (the
   code's own comment, `correlation.py:341-344`), that a pass ends, and that
   agents and owners follow the kept row. Two runs: one passing, one for the
   comparison values that are stale after a merge.
2. `InventorySync`: the fetch, upsert and prune of the JumpCloud and SentinelOne
   collectors, truncated fetches, a manual sync beside the scheduled cycle, the
   circuit breaker. To be composed with `InventoryChanges`.
3. The rate limiter and the invitations, over the sessions of `WebSession`: the
   counters in two places, two acceptances of one link, single sign-on codes.
4. `DlpPolicyChanges`, `ScheduledReports`, `LinuxAudit`: small modules on the
   patterns above.
5. The proxy import itself (revisions and their diffs), under `ProxySync`.
6. An abstract change log that `InventoryChanges` and `DlpPolicyChanges` both
   implement; an abstract sign-in (a session, and the tabs that believe in it) that
   `WebSession` implements.
7. Proofs: the safety behind the remaining liveness properties (a queued snapshot has
   a way out, a snapshot that lags behind the inventory a run to come); the refinements
   of item 6; the safety properties of the new modules.
