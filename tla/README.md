# A TLA+ model of go-rss-update-handler (gruh)

gruh polls RSS and Atom feeds, stores each new entry once, asks an LLM whether the entry is important,
and notifies channels (webhook, Slack, Telegram) of the important ones. The modules here model the
pipeline, its components, the life of the process and the web page from the Go source; TLC checks them on
small instances, TLAPS proves all of the safety properties for all instances. Paths are relative to the repository.

## 1. Inventory

### Components, their state and operations

| Component | State | Operations | Behaviour that is hard to test |
|---|---|---|---|
| Orchestrator (`internal/orchestrator`) | none of its own; locals of three goroutines | `ProcessFeed`, `ReconcilePending`, `RunWorker`, `RunDispatcher` | three goroutines over one database and one bus; each step may fail or be the last before the process dies |
| Wiring (`cmd/gruh/main.go`) | goroutines of `run()`, the signal context | start, early returns, graceful stop | start order of the goroutines; a stop that waits for none of them; the roles `collector`, `worker` and `dispatcher` each build a `MemoryBus` of their own |
| Scheduler (`internal/scheduler`) | interval, jitter | `Start` | a task that blocks the loop; a pause of zero |
| Storage (`internal/storage`) | tables `feeds`, `updates`, `raw_contents`, `channels`, `feed_channels`, `dispatches` | `InsertNew`, `SaveVerdict`, `GetVerdict`, `LastImportant`, `IsDispatched`, `MarkDispatched`, `ListPending`, `ListUndispatchedImportant`, `UpdateCacheHeaders`, `ChannelsFor`, `List`; `InitDB`, `Close`; `PurgeRawContent`; `ListUpdates` | which rows a query selects after any sequence of statements; counts compared instead of rows |
| In-memory bus (`internal/bus/memory.go`) | subscriptions, a buffered channel each | `Publish`, `Subscribe` | a full channel blocks its publisher; a topic without subscriber drops |
| Redis bus (`internal/bus/redis.go`) | stream, groups, pending lists | `Publish`, `Subscribe` | lost answers, failed handlers, replicas that die before XACK; not used by `main.go` yet |
| Collector (`internal/collector`) | a limiter per host | `Fetch` | limiter, backoff and `Retry-After` are three waits of one loop |
| Parser, deduplicator | none | `Parse`, `Fingerprint` | what identifies an entry over its life: edits, missing links and dates, several feeds |
| Classificator, LLM client (`internal/classificator`, `internal/llm`) | a semaphore | `Classify`, `Complete` | two retry loops inside each other, cancellation at each wait, every way out must return the slot |
| Dispatcher (`internal/dispatcher`) | none; a report per call | `Dispatch`, `Send` | concurrent sends that share a context; servers that hang, answer and break off |
| Prompt manager (`internal/prompt`) | blueprints by name, read once | `New`, `Execute` | files of one name replace each other in the order of two walks; which faults end the start, which are skipped |
| Configuration (`internal/config`) | none | `Load`, `Validate` of each section | three layers; what no section validates is found by the goroutines that use it |
| Web UI, Atom feed (`internal/webui`, `query.go`) | none in the server; offset, filter and cards in the page's script | `/api/updates`, `/feed.atom`, `refresh`, the buttons | answers out of order, two queries for an answer, paging over a table that grows |
| Observability, metrics | counters | `NotifyShutdown`, `Validate`, logging | sequential but for the signal |

### How they interact

    scheduler goroutine                worker goroutine            dispatcher goroutine
    ReconcilePending, then for each    RunWorker's handler         RunDispatcher's handler
    feed ProcessFeed:                  LastImportant, Classify,    GetVerdict, ChannelsFor,
    Fetch, headers, Parse, InsertNew   SaveVerdict                 IsDispatched, Dispatch,
           |                             ^         |               MarkDispatched
           +-- updates.new (bounded) ----+         |                       ^
           +-- updates.important (reconcile) ------+-- (bounded) ----------+

The tables outlive the process, the bus and the goroutines do not. Messages are dropped when a handler
fails, when nobody has subscribed yet and when the process dies; `ReconcilePending` is what makes up for
all three, by publishing again on every tick whatever the tables show as unfinished.

Around them, `run()` loads the configuration, opens the file, starts the retention job, reads the prompts,
starts the goroutines and waits for a signal. The retention job deletes from `raw_contents`, which is where
the text in a reconciled message comes from; the prompts decide whether a classification can succeed; the
deferred `Close` checkpoints the WAL while goroutines may still be in a transaction. The web server only
reads `updates`.

### What makes the components correct

- pipeline: an entry is discovered once; it is announced only with a verdict on record; repeated
  notifications are bounded by crashes and by the tries of a `Send`; nothing stored is forgotten; re-publishing
  comes to an end.
- bus: bounded mailboxes, blocking rather than dropping for a subscriber.
- Redis bus: in-order hand-out to one consumer of each group; what is not finished stays in the pending list.
- collector: distance between tries to a host, obedience to `Retry-After`, a body whole or refused.
- ingest: one row for each date of an entry with a link, and no more; an entry dropped only for its twin, one of
  the same link and second.
- classification: slots come back, bounded requests, no verdict without a reply that supports it.
- dispatcher: a true report, isolation of failures, an end when the process is stopped.
- process: rows for ever, texts for as long as the setting says, a primary file that a graceful stop leaves
  complete, the last sound prompt of each name, a stop that ends.
- page and feed: the page comes to rest on what the table has; a patient reader misses nothing.

## 2. Modules

| Module | Models | Used by |
|---|---|---|
| `Storage` | tables, queries and statements of the repositories; a call is one statement or one transaction, hence one atomic operator | `Pipeline` |
| `MemoryBus` | registry and mailboxes of the in-memory bus | `Pipeline` |
| `Pipeline` | the monolith: the three goroutines, feed servers, channels, the operator, crashes | composes `Storage` and `MemoryBus` |
| `UpdateLifecycle` | abstract: what the pipeline promises about an update | refined by `Pipeline` |
| `RedisBus` | one topic of the Redis bus with groups and replicas | |
| `GroupDelivery` | abstract: in-order hand-out without redelivery | refined by `RedisBus` |
| `Collector` | `Fetch` over a sequence of feeds | |
| `Ingest` | `Parse`, `Fingerprint` and `InsertNew` over the life of the feeds | |
| `Classification` | `Classify` and `Complete` with several callers | |
| `Notifications` | `Dispatch` and `Send` over a sequence of events | |
| `DispatchCall` | abstract: what a call of `Dispatch` promises its caller | refined by `Notifications` |
| `Config` | `Load`, `Validate`, `ParseRetention` as operators | `Process` |
| `Prompts` | the prompt manager as operators | `Process` |
| `Process` | `run()` over several lives, with the goroutines as writers of one SQLite file and the retention job | composes `Config` and `Prompts` |
| `WebUI` | the page's script, `/api/updates`, `/feed.atom`, `ListUpdates` | |
| `PipelineProofs`, `RedisBusProofs`, `CollectorProofs`, `ClassificationProofs`, `NotificationsProofs`, `IngestProofs`, `ProcessProofs`, `WebUIProofs` | theorems about the module of that name | |
| `MC...` | values of the constants for TLC | the `.cfg` files |

A definition marked "Faulty variant" is no part of a specification: it is a bug the code might have had,
and the property it is written against fails when it takes the place of a definition of the specification.

### Pipeline

The variables `owner`, `verdict`, `dispatches`, `feedChannels` and `etag` are columns of the tables, `subs`
and `mailbox` the bus, `sched`, `worker` and `disp` a program counter and the locals of each goroutine.
An update is identified with its fingerprint, a document with a version number, whose `ETag` is that
number. A step is what lies between two calls another goroutine can observe:

- scheduler: `ReconcileUnclassified` and `ReconcileUndispatched` are the queries of `ReconcilePending`,
  `SchedPublish` one `Publish` of a batch, `ListFeeds` the query of the tick, `FetchFeed` the answer to a
  conditional request, `SaveHeaders` and `StoreEntries` the two writes of `ProcessFeed`, `Tick` the pause.
- worker: `WorkerReceive` (message and history), `WorkerClassify`, `WorkerSave`, `WorkerPublish`.
- dispatcher: `DispReceive` (message, verdict and pending channels), `DispSend` one channel's
  notification, `DispMark` one `MarkDispatched`.
- environment: `ServerPublishes`, `Remap` (an operator edits `feed_channels` with SQL), `Restart`.

Reads are merged with the step before them where no other goroutine writes what they read. Every call
whose error the code handles may fail (`Fails`); a failed `MarkDispatched` and a process death are counted
apart (`lapses`), because they are what repeated notifications come from.

### RedisBus

An entry is its number in the stream; `delivered`, `pending` and `groups` are what Redis keeps for a group,
`reader` what a replica does. All replicas of a group read as consumer "worker-1", so a group has one
pending list. `Read` includes the answer that is lost after Redis recorded the delivery.

### Classification, Notifications, Collector, Ingest

Replies, answers and documents are records of what the code branches on. `Classification` keeps both loop
counters and the semaphore; `Notifications` the tries and transmissions of each goroutine, with the request
body that a later transmission may find drained. `DispSend` of `Pipeline` is coarser: it settles one channel, as taken
or not, in one step. A `Send` that loses an answer tries again, and the server may have taken the notification before:
so a channel that takes it does so once to `Attempts` times, and `deliveries` counts each of them. `DispatchCall` is the
interface between the two. `Collector` keeps the limiter, the backoff, the redirects of a try and time in ticks;
`Ingest` rows with their feed, text edition, source and second. In `Ingest` the feeds' authors add, edit, redate and
drop entries (one that gets another link is another entry, since nothing but link and date identifies it), and the
clock may advance inside a document, since `Parse` reads it for each dateless entry.

### Process, Config, Prompts

A life begins with `Start` (`Load`, `--check-config`) and goes through `InitDB`, `StartRetention`,
`StartGoroutines`, and on a signal `ShutDown`, `Checkpoint`, `ClosePool`, `Exit`; the early returns of `run()`
join it at `Checkpoint`. `tables` is what primary file and WAL hold together, `file` what the primary file
holds alone, `stmt` the one transaction SQLite lets be under way. The goroutines of `Pipeline` appear as far
as they write or read texts: `Reconcile` and `Poll` for the scheduler's task, `WorkerReceive` and `Classify`,
`Purge`, and `EndTransaction`, in which a transaction commits or is interrupted by the cancelled context and
its call returns. A pause ends at a tick; `Tick` need not wait for goroutines, as they may be late. `Kill` is
possible at any step. A layer of the configuration is a function on some keys, a retention is a number with
a unit and `Duration` wraps at `Width` bits; a prompt file is what `parse` branches on.

### WebUI

`state`, `shown` and `pager` are those of the script, `request` the requests under way. `Count` and `Find` are
the two queries of an answer, between which the pipeline may act; `Deliver` renders an answer whenever it
comes, for whatever state the page is then in. `walk` and `feed` are histories: a reader who clicks through all
updates, and one who reads the feed.

## 3. Runs

| Run | Instance | What it shows |
|---|---|---|
| `pipeline_safety` | two feeds that share an entry, one from its second document on, two channels of which one has no notifier, mailboxes of 2, one failed call, one lapse, one edit of `feed_channels`, two tries for a `Send` | `TypeOK`; `NoNilVerdict`: `GetVerdict` never dereferences NULL; `DeliveryBound`: a channel takes an update at most as often as one `Send` tries, and as often again for each lapse; `FalseRecordsBound`: no more channels are on record without having got anything than calls failed; `UndeliveredIsSelectedUnlessRemapped`: without edits the query by counts finds every undelivered update; refinement of `UpdateLifecycle` |
| `pipeline_liveness` | two entries, batch and mailboxes of 1, one failed call, one lapse | `EventuallyClassified`, `EventuallyRecorded`, `EventuallySilent`: every entry is classified, every important one put on record, and re-publishing ends |
| `redis` | groups of two and one replicas, 3 entries, 2 faults | the pending list covers the unfinished, at most one entry abandoned for each fault, refinement of `GroupDelivery`, every entry of an existing group is finished or abandoned |
| `notifications` | four channels: answering, arbitrary, reachable, without notifier; 3 tries, 2 events, a stop at any time | `ReportIsTrue`, `FailureIsolated`; refinement of `DispatchCall`; `UpIsServed`: an answering channel is served whatever the others do; `StopEndsDispatch` |
| `classification` | two callers, one slot, one retry in each loop, ten kinds of reply | `SlotsCounted`; `RequestsBounded`; `NoFabricatedVerdict`; `SecurityIsImportant`; `EveryCallReturns` |
| `ingest` | two feeds, three entries with and without link and date, one edit of a text or a date, two seconds | `OneRowPerDate`: an entry with a link has as many rows as it had dates, at most; `OnlyTwinsDropped`: an entry that was polled has a row, or one of the same link (feed, for one without) and second has it |
| `collector` | three feeds on two hosts, 2 retries, up to two redirects for each try, `Retry-After` shorter and longer than the limiter's gap | `TriesSpaced`: tries to a host are a gap apart; `RetryWaits`, `BodyIsWhole`, `FetchReturns` |
| `process` | two lives over one file, one update, seven configuration files, two environments, nine prompt directories, three ticks | `BlindOnlyIfPurged`: a message without text is about a purged text; `StopIsSelfContained`: after a graceful stop or a failed start without a transaction under way the primary file is complete; `RowsLiveForever`; `KeptForRetention`; `TicksSpaced`; `LastSoundWins`: the blueprints are the last sound file of each name; `StopEnds` |
| `webui` | three updates, two there at the start, pages of one, a feed of two, two requests under way, two changes, two clicks, one failure | `PagingComplete`, `FeedComplete`, `ViewConverges` |
| `failed_send` | one update, one failed `Send` | violated: a channel that failed is marked as delivered |
| `headers_first` | one document, one failed `InsertNew` | violated: later polls get 304 and its entries are never stored |
| `starvation` | batch of 1, an entry the LLM refuses each time and one whose message was lost | violated: the second is never published again |

The last three state what a document or a comment of the repository says; `PROJECT.json` quotes the line.

### Bounds

`MaxFaults`, `MaxLapses`, `MaxRemaps`, `MaxEntries`, `MaxEvents`, `MaxTime`, `MaxEdits`, `MaxLives`, `MaxChanges`,
`MaxClicks`, `MaxFailures` and the `Slots` of the page bound the environment; nothing in the program is bounded that the program does not bound. One fault or lapse is
enough to lose any one message, at any step; the proofs of section 5 cover all numbers of them. Two
entries with batches and mailboxes of one make the scheduler block on the worker, the worker on the
dispatcher, and the batch exclude an entry. The three tries of `notifications` are those of the code; the pipeline runs
have `Attempts` 2, which tells a `Send` that was taken twice from one that was not, and the proofs any number. For the
other loops one or two retries, and two redirects (`net/http` follows nine), are the least that tell the first, the last
and a middle one apart. In `ingest` the dates an author may give are two seconds and none, so that one edit can make a
new date, take one that another entry has, or remove it. `MaxInt` stands for the largest int64.

Distinct states: `pipeline_safety` 1 671 939, `ingest` 1 516 416, `webui` 903 246, `process` 714 904, `notifications`
318 240, `collector` 2 733.

`Process` has a second life because what a life leaves behind is met only in the next, with other settings.
One update is enough for its tables: no property there relates two updates, and the proofs have any number.
The files have a retention of a day, of nine days, which wraps to less than nothing with `Width` 5, of a week, and
text that is none; a jitter below, above and without an interval. Three ticks exceed a day and the pause of
the retention job. `WebUI` has two requests under way, the least that
overtake each other, and pages of one, so that one update moves every page.

### Fairness

- Pipeline: weak fairness of each goroutine as a whole. The Go runtime schedules runnable goroutines, the
  pause of the scheduler ends, the collector and the LLM client have timeouts. That notifications return is
  an assumption of `pipeline_liveness`, which a server that never answers breaks (section 4).
- Nothing is assumed of faults: no failing disjunct has to happen, and those that do are bounded.
- RedisBus: each replica goes on when Redis answers; failing steps are not forced.
- Notifications: the goroutines run, the servers in `Up` answer, a cancelled context aborts a request. No
  fairness for other servers, since `http.DefaultClient` has no timeout.
- Classification: strong fairness of taking a slot, as waiting senders of a Go channel are served in
  turn; requests end by the client's timeout.
- Collector: time passes, requests end by the client's timeout.
- Process: weak fairness of `main` only: `StopEnds` must hold though the other goroutines hang in a call.
- WebUI: the timer of the page fires and each request is answered or fails; nothing of the reader.

Deadlock is checked in the runs of `Pipeline`, `Classification`, `Ingest`, `Collector` and `WebUI`. The instances
of `RedisBus`, `Notifications` and `Process` stop when their last entry, event or life is done.

## 4. Disagreements between the repository's statements and its code

The three violation runs, and, met while modelling but without a run of their own:

- `orchestrator.go:213` "exactly once": a process death between Send and MarkDispatched repeats a notification, and so
  does a retry within `Send` whose first answer was lost (`webhook.go:45`). `DeliveryBound` counts both. A delivery is
  what the server took and, where its answer arrived, answered 2xx.
- `main.go:249` "after the worker/dispatcher subscriptions have registered": nothing orders the goroutines
  of `run()`; the next tick publishes again what the first one lost.
- `orchestrator.go:126` "genuinely earlier ones": `LastImportant` (`repo.go:205`) selects by feed and verdict,
  so the history may hold later updates, or the update itself when two copies of its message exist.
- `06-orchestrator.md:87` "LLM is not called" for a redelivered event: `RunWorker` never looks at the stored
  verdict; a tick that comes while a message waits makes a second copy and a second verdict.
- `README.md:20` "important updates": `RunDispatcher` (`orchestrator.go:218`) sends the verdict it reads without testing
  it; if the second verdict of the previous item is noise, noise is sent.
- `02-collector.md:14` "Per-host rate limiting": `client.Do` follows redirects (`02-collector.md:50` wants them) without
  asking a limiter (`collector.go:151`), so that a redirect within a host sends two requests back to back, and one to another
  host is sent whatever that host's limiter says. `TriesSpaced` is about tries, each with its redirects.
- `collector.go:170`: a `max_body_size` of the largest int64, which `Validate` allows, wraps when one is added; every body
  is then empty and returned without error, and the parser fails on it. `BodyIsWhole` excuses this limit.
- `04-deduplicator.md:60` calls it acceptable: a changed date, as GitHub makes with an edit of a release, gives a new
  fingerprint, a second row and a second notification. `OneRowPerDate` counts rows by dates for this reason.
- `04-deduplicator.md:65` "Entry with no guid and no link": neither guid nor content is part of the fingerprint, so
  entries with one link, or without any in one feed, collapse when they have one second.
- `04-deduplicator.md:5` "exactly once": an entry without dates is a new update at each 200 answer
  (`parser.go:42`). `03-parser.md:65` "event is not lost": entries without link published in one second share
  a fingerprint, and one of them is stored.
- `05-bus.md:40` "will be redelivered": the Redis bus reads with `>` only, so what a handler failed on stays in
  the pending list. `05-bus.md:79` "subscribers reconnect": when XGROUP CREATE fails for want of a
  connection (`redis.go:36`), the group is never made and each read fails with NOGROUP.
- `10-dispatcher.md:57` "backoff on 429/5xx/network": a status is never retried (`webhook.go:57`), and after a
  broken exchange the request body is drained, so that the retries fail in the client (`webhook.go:46`).
- `07-classificator.md:48` "required fields, known `Category`": only JSON and the range of the confidence are
  checked; `{}` is a verdict of noise.
- `repo.go:50` "channels still lacking a dispatch record": the query compares two counts (`repo.go:268`), so a
  channel added while another is removed is never served; `UndeliveredIsSelectedUnlessRemapped` says so.
- `10-dispatcher.md:56` "failure of one does not block others": true within an event; but the notifiers use
  `http.DefaultClient` (`webhook.go:46`), which has no timeout, so a server that never answers holds up all later events.
- `main.go:197` "self-contained": not with a transaction under way when the signal comes. The checkpoint finds
  the database busy, which is a row of its answer and not an error, and nobody waits for the goroutine.
- `11-storage.md:120` on `busy_timeout`: `db.go:58` sets the PRAGMA on one connection of the pool only; so a
  writer on another may fail at once when the database is locked. And on SQLite in distributed mode: no
  validation refuses it.
- `09-prompt.md:7` "a user file takes priority": one that does not compile and is not marked critical is skipped with
  a log line and the built-in stays; one that decodes to an empty blueprint replaces it with an empty prompt; one
  without schema turns the structured output off.
- `retention.go:27`: a retention beyond the 64-bit duration wraps: negative ones disable the job, others purge early.
- The sections scheduler, dispatcher, prompt and web UI are not validated: an interval of zero makes the tasks
  follow each other without pause, and `runCollector` (`main.go`) divides by it.
- The page: an answer to an earlier state is rendered as the page of the present one, until the next poll; a
  total counted before an update came may disable "next" early; two fast clicks go beyond the end; a filter
  such as "pending" loses rows while it is paged through; the page's signature of a row ignores its reason.
- The feed: `updated` of an entry is its publication, so a reader never sees a later verdict; an entry that is
  older than the newest ten never appears.
- `02-collector.md:73` "respect `Retry-After`": that of the last try is dropped, and neither the next poll nor
  another feed of the host waits for it.

## 5. Proofs

`PipelineProofs` proves, for all feeds, entries, channels, capacities and bounds that satisfy the ASSUMEs of
`Storage`, `MemoryBus` and `Pipeline`:

| Theorem | Statement |
|---|---|
| `TypeCorrect` | `[]TypeOK` |
| `ProvenanceInvariant` | `[]Provenance`, the inductive invariant about messages and rows |
| `VerdictOnRecord` | `[]NoNilVerdict` |
| `DeliveryInvariant`, `DeliveriesBounded` | `[]DeliveryInv`, hence `[]DeliveryBound` |
| `FalseRecordsArePaidFor` | `[]FalseRecordsBound` |
| `UnsavedArePaidFor` | `[]UnsavedDocumentsBound`: documents whose `ETag` is saved without their entries are no more than failures and lapses |
| `PipelineImplementsLifecycle` | `Spec => ImplementsLifecycle` |
| `OnlyImportantIsDelivered` | `[]Lifecycle!OnlyImportantDelivered`: what was sent or put on record is stored, has a verdict and was once important |
| `CountsMissNothing` | `[]UndeliveredIsSelectedUnlessRemapped` |

`NoNilVerdict` is not inductive: a message in the worker's hands becomes an announced one. `Provenance`
adds that what waits for a verdict is stored, that what was ever judged important is stored and has a
verdict, that a row with verdict "important" was so judged, that everything announced was, and that each
consumer is subscribed to its own topic only. The reconcile pass keeps it because its query asks for
`verdict_important`, the worker because it announces after saving.

`DeliveryBound` needs `DeliveryInv`: for an update and a channel that is neither on record nor notified and
yet to be marked by the dispatcher (`Owed`), the deliveries are at most `Attempts` for each lapse; otherwise they are
at most `Attempts` more. The dispatcher takes a channel only if it has no record, so the deliveries of a `Send` are
followed either by their record or by a lapse.

`failed_send` and `headers_first` show that a failed `Send`, or a failure between the two writes of `ProcessFeed`,
loses something; two theorems say that nothing else does, and that each failure loses one thing. They keep account
of the set that grows (`FalseSoFar`: channels recorded, or owed a record, that got nothing; `UnsavedDocuments`: feeds
whose saved headers hide entries without a row). Every step leaves that set within what it was, or adds one member
and counts a fault or a lapse (`NextAdds`, `NextLeaves`); the rest is cardinality. `FalseSoFar` has the channels that
the dispatcher has passed and not yet marked, without which the bound is not inductive.

`CountsMissNothing` rests on `MappedInv`: as long as nobody edits `feed_channels`, the channels an update is
on record for are mapped to its feed. Then equal cardinalities of finite sets, one inside the other, mean
equal sets (`CountsCompare`). The condition cannot be dropped: two edits are enough to hide a channel.

The refinement maps each variable of `UpdateLifecycle` to the variable of that name; `StepRefines` has one
case for each action and uses all three invariants. `OnlyImportantIsDelivered` goes the other way: the property is an
invariant of `UpdateLifecycle` (`LifecycleStep`), and the refinement makes it one of the pipeline. It says "was once
important", since a second verdict may take the first one's place (section 4).

`RedisBusProofs` does the same for the Redis bus, from the ASSUME of `RedisBus`:

| Theorem | Statement |
|---|---|
| `BusTypeCorrect` | `[]TypeOK` |
| `PendingKeepsUnfinished` | `[]PendingCoversUnfinished` |
| `BusImplementsGroupDelivery` | `Spec => ImplementsGroupDelivery` |
| `FaultsBoundLoss` | `[]AbandonedBound`, for any set of groups |
| `GivenOnceInOrder` | `[]Delivery!InOrder` and `Delivery!NeverAgain`, proved of `GroupDelivery` and carried over by the refinement |

`PendingCoversUnfinished` is not inductive, because an acknowledgement takes an entry off the list. `Held` adds
that only a finished entry is acknowledged (`AckedDone`), that what a group finished was given to it, and that
an entry at a handler is open and at one replica of the group only (`OneHandler`). The refinement needs all of
it: `StatusCases` gives the four cases of `StatusOf` as a table, `ReadRefines` shows that a read takes the least
entry that waits, and `LetGoRefines` that a replica that finishes, fails or dies settles its entry, as nobody
else in the group holds it. For `FaultsBoundLoss`, `LostInv` says that what was abandoned is a finite set with at
most as many members as there were faults: a step abandons one entry at most, and only where it counts a fault.

The proofs of the other components, each from the ASSUMEs of its module:

| Module | Theorems | Inductive invariant |
|---|---|---|
| `CollectorProofs` | `CollectorTypeCorrect`, `BodiesAreWhole`, `TriesKeepDistance`, `RetriesObeyServer` | types; the limiter has no token before the gap is over (`Spaced`); what the server asked is still waited for (`OwedIsWaited`); the tries left (`TriesLeft`) |
| `ClassificationProofs` | `ClassificationTypeCorrect`, `SlotsComeBack`, `RequestsStayBounded`, `NoVerdictWithoutReply`, `SecurityStaysImportant` | the slots are the callers that hold one; each call is `Sound`: its requests are those of the format retries before and the network retries of this one, its verdict comes from a reply |
| `NotificationsProofs` | `NotificationsTypeCorrect`, `ReportStaysTrue`, `FailuresStayIsolated`, `DispatchImplementsCall` | the group's context is never cancelled by an error; `Kept` of each channel: tries, its entry of the report, that an answering channel fails at a stop only; for the refinement, that only a channel with notifier sends (`NotifierSends`) |
| `IngestProofs` | `IngestTypeCorrect`, `OneRowForEachDate`, `DroppedForTwins` | rows are what `Parse` returned for a date the entry had, one for each fingerprint; the rows of an entry with a link map to its dates one to one, which bounds their number; what a poll saw has a row with its source and second |
| `ProcessProofs` | `ProcessTypeCorrect`, `BlindOnlyAfterPurge`, `StopLeavesWholeFile`, `RowsNeverGo`, `TextsKept`, `TasksKeepDistance`, `LastSoundFileWins` | see below |
| `WebUIProofs` | `WebUITypeCorrect`, `PagingMissesNothing`, `FeedMissesNothing` | see below |

In `Process` nothing but `EndTransaction` writes the tables (`OnlyEndWrites`), and what it may do to an update is
one of a few effects (`EndEffects`). The invariant adds to the types: nothing runs and nothing is in hand while
the process is down (`NotRunning`); the goroutine that has the transaction is the one that waits for it
(`WriterWaits`); a message is about a stored update and has its text or the text is gone (`MessagesKnown`); what
the purge under way would delete is older than the setting says if the setting fits a duration (`PurgeDue`);
what is left of a pause and what has passed of it make up interval - jitter (`PauseLeft`); after the pool is
closed the file is complete and nobody writes, unless a transaction was under way (`Closed`).

`LastSoundFileWins` is about the two walks of the prompt manager, which fold `parse` over the files. `Walk` is a recursive
function over a number of files read; `WalkExists` shows that it is well defined and `WalkSteps` unfolds it once, so
that `Loaded` (the manager holds, of each name, the last sound file among those read) carries over a file
(`VisitLoads`), a walk (`WalkLoads`) and both (`ManagerLoads`). The induction over the number of files is by a least
counterexample (`LeastNumber`), which the well-founded orders of the library give.

In `WebUI`, a row's position in the list is the number of newer rows. An arrival raises it by one or leaves it
(`PositionAfterArrival`), no row ever moves up, and a page is the rows at its positions (`PageRows`). The invariant of
a reader who clicks from page to page through all updates (`Reading`) is that a row he has not seen is not before the
page he is on, nor on it once it was shown (`Ahead`); that an answer under way that is in time leaves unseen only
rows beyond its page, and tells of them if nothing came between its two queries (`Answers`); and that the pager,
while unseen rows are left, lets him go on (`PagerTellsMore`). What the property excuses is the `misled` of the walk.
`FeedInWindow` says that what the feed's reader has not seen is among the newest rows, as many as arrived since his
last visit, and that those fit the feed while he comes in time.

`DispatchImplementsCall` maps the states of a channel's goroutine to open or settled (`ChannelStepRefines`): tries,
sleeps and transmissions are stutters, and a step that ends a goroutine settles its channel, with a number of
transmissions its server took that the tries bound.

Only model-checked: what holds under fairness (`Eventually...`, `EveryCallReturns`, `FetchReturns`, `UpIsServed`,
`StopEndsDispatch`, `StopEnds`, `ViewConverges`), which is out of reach of the provers, as is `ENABLED`. The library's
induction theorems take an operator as a parameter, which the provers cannot instantiate; where an induction was
needed, a least counterexample was used instead. `UnsavedDocumentsBound`, `OnlyImportantDelivered`, `InOrder` and
`NeverAgain` are proved only, and no run lists them.

## 6. Not modelled

- `InitDB` is one step that fails or not: the migrations, the pool's settings and the choice of Postgres are GORM's.
- SQLite: automatic checkpoints of the WAL, which only bring `file` nearer to `tables`, and reads under way at the
  close, which may make a checkpoint incomplete like a transaction does. One writer waits or fails as the code sees it.
- gofeed, the Redis server, net/http and the LLM service are external: the modules keep what the code relies on.
- The texts: what `Execute` renders and `Schema` returns, the content the parser chooses and truncates, the payload of
  requests and notifications, the page's markup and the sanitising.
- Logging, counters, the metrics server and the five seconds an HTTP server is given at a stop, after which `run()`
  returns whatever is open; the command line.
- The roles of the split mode each make a `MemoryBus` (`main.go:85`, `main.go:168`), so they do not reach each other
  and there is nothing to compose until the Redis bus is wired in. `initDispatcher` and the scheduler's `Locker`
  belong to them. `Channels()` has no caller.

## 7. Plan

Done: `Storage`, `MemoryBus` and `Pipeline` first, since everything the program promises depends on their interplay;
the components whose loops and limits the pipeline takes for granted; the process with its configuration, prompts,
retention and stop; the page and the feed; the interface of `Dispatch`; the proofs of the safety properties. Left, in this order:

1. `BusFanOut`: `MemoryBus` with several subscribers of a topic and cancelled publishers; refinement by the
   single-subscriber `Publish` of `Pipeline`.
2. Split roles over `RedisBus`, with the `Locker`, once `main.go` wires them.
