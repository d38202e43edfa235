# htracker: a formal model

HTracker watches web sites for its subscribers: it scrapes the subscribed sites at
regular intervals, keeps the latest content of each and the difference to the one
before, and offers an HTTP API to manage subscriptions and read sites. This directory
models it in TLA+, checks the models with TLC, and proves theorems about them with
TLAPS. Paths like `service/archive.go` are relative to the repository.

## 1. The system

| Component | State | Operations | Talks to |
|---|---|---|---|
| Subscription (`subscription.go`) | none | `Equals` | |
| In-memory storage (`storage/memory`) | a slice of pointers to subscribers, a slice of pointers to sites, a mutex | the interfaces of `storage/` | |
| PostgreSQL storage (`storage/postgres`) | tables `subscriptions`, `subscribers`, `subscriber_subscription`, `sites` | the same; subscriptions with transactions | the database |
| Subscription service (`service/subscription.go`) | two limits | `AddSubscriber`, `Subscribe`, `Unsubscribe`, `DeleteSubscriber`, lookups | subscription storage |
| Site archive service (`service/archive.go`) | none | `Update`, `Get` | site storage |
| Exporter (`exporter`) | its context | `Export` | reads a channel, calls `Update` |
| Scraper (`scraper`) | the `Exports` channel, requests under way (in the library geziyor) | `Start`, parse callbacks | web sites, exporters |
| Watcher (`watcher`) | ticker, channel of batches, workers | `Start`, `RunScrapers`, `GenerateScrapeList` | subscription service, scrapers |
| HTTP transport, endpoints (`http`, `endpoint`) | none of their own; connections (in the library net/http) | one handler per request | both services |
| Server (`cmd/htracker`) | run group, contexts | `serve` | starts and stops the watcher and the HTTP server |

What makes each of them correct, and where it is hard:

- **Storage and subscription service.** An e-mail and a subscription of an e-mail are
  stored once, a removal loses the right element, limits hold. Every request is a
  goroutine. The storage locks one operation at a time, while the service decides
  between two operations on what the first returned - in memory a pointer to a live
  object.
- **Site archive.** The parts of a stored site belong to one scrape, the latest scrape
  wins, times do not go back. `Update` is read, compare, write, with no lock around the
  three; in memory it compares, and even writes, the live object outside the mutex.
- **Watcher, scraper, exporter.** Every subscription of a round is scraped once, nothing
  is forgotten in a channel, every wait ends, cancelling stops everything. The interval
  may be over, or the context cancelled, at any moment of a round.
- **PostgreSQL subscriptions.** Keys stay unique, references intact, nobody's subscription disappears by
  an operation of somebody else, and no subscription is left without a reference. Transactions of several
  statements run concurrently, each statement sees a different state, and some wait for locks in between.
- **Scrape list.** No site is listed twice, none is left out; the key it is deduplicated
  by is not the key the storages use, and in memory the arrays it is collected from belong to the
  storage, which goes on changing them.
- **HTTP transport.** An answer tells what was done, with every body and every error.
- **Server.** A failing component stops the others; requests in progress are given time; no
  new ones come in meanwhile.
- **Intervals.** A row is read back as it was written, whatever form PostgreSQL gives the interval.

`PROJECT.json` lists the hazards line by line, with the properties that address them.

## 2. The modules

| Module | Models |
|---|---|
| `Subscription` | the record and its keys (`subscription.go`, the keys in `watcher.go`) |
| `MemoryStorage` | the subscription half of `storage/memory/storage.go`, as sequences |
| `SliceStorage`, `SliceStorage_proof` | the same, as Go slices with their arrays, while `ScrapeList` goes through them, and theorems about it |
| `SubscriptionDirectory` | what `storage/subscription.go` promises: the abstract specification |
| `SubscriptionService` | `service/subscription.go` over `MemoryStorage` |
| `SubscriptionService_proof` | theorems about `SubscriptionService` |
| `PostgresStorage`, `PostgresStorage_proof` | `storage/postgres/subscription.go` and its tables in `00001_init.sql`, and theorems about it |
| `PostgresLookups` | its lookups, beside the transactions (theorems in `PostgresStorage_proof`) |
| `Interval`, `Interval_proof` | the conversion of intervals in `storage/postgres/db.go`, and theorems about it |
| `SiteArchive`, `SiteArchive_proof` | `service/archive.go` over both site storages, and a reading request, and theorems about it |
| `ScrapeList`, `ScrapeList_proof` | `GenerateScrapeList` of `watcher/watcher.go`, and theorems about it |
| `Watcher`, `Watcher_proof` | the rest of `watcher/watcher.go`, with `scraper`, `exporter` and geziyor, and theorems about it |
| `Endpoints` | `endpoint`, the routes of `http/api.go` and the status codes of `http/json.go` |
| `Server` | `cmd/htracker/serve.go` and the handlers of `http/json.go`, with oklog/run and net/http |
| `Server_proof` | theorems about `Server` |
| `MC...` | instances for TLC |

The definitions carry the names of the source, and `map` in `PROJECT.json` gives the
lines each of them stands for. Definitions under a comment that begins with *Mutant* are
broken forms of the definition that follows. No specification uses them: for every
checked property, `mutants` in `PROJECT.json` names one that, put in the place of the
correct definition, makes TLC report the property violated. They show that the
properties can fail.

Composition: `SubscriptionService` runs over `MemoryStorage`, `SliceStorage` extends `ScrapeList` with the
storage under it, `PostgresLookups` extends `PostgresStorage`, and `Server` uses `Endpoints`. Two storages
implement one directory, and `SliceStorage` implements both the environment `ScrapeList` assumes and the
operations of `MemoryStorage`, so that what is shown or proved of the one holds with the other beneath it.

### MemoryStorage and SubscriptionService

`db.subscribers` is a slice of pointers, and `GetSubscriber` hands such a pointer out. So
`heap` maps addresses to subscriber objects, and `subscribers` is a sequence of addresses.
An object that was removed from the slice while a call still points to it is an orphan: it
stays in the heap until nobody refers to it. Every storage operation holds `db.mu`
throughout and is one step.

`call` holds, for each caller (a goroutine that serves a request), where its call is and
its local variables. `AddSubscriber` is two steps, `AddSubscriberCount` (the count is read,
without the mutex, and compared) and `AddSubscriberInsert`. `Subscribe` is three,
`SubscribeGet`, `SubscribeCheck` (the limit is compared with the live object, or with an
orphan) and `SubscribeAdd`. `Unsubscribe` and `DeleteSubscriber` are one. Requests that are
refused at their first step change nothing and are left out.

`SubscriptionDirectory` forgets slices, pointers and positions: a function from e-mails to
a limit and a *set* of subscriptions. `ImplementsDirectory` says that every step of the
service is a step of the directory or changes nothing in it, under the mapping `Directory`;
`OperationsAsRequested`, that it is the step with the arguments of the call. This is what shows
that removing by swapping with the last element is right.

### PostgresStorage

The committed rows of the three tables, and for each caller its open transaction `tx`: where it is,
what it asked for, and what it wrote so far, which `Commit` makes visible and `RollBack` forgets. The
code opens transactions with the default options, so the isolation level is read committed. What
PostgreSQL does at that level is modelled where the code depends on it:

- a statement sees the committed rows at its beginning: `SelectUnreferenced` is the moment a clean-up
  looks for rows without references, `DeleteUnreferenced` the moment it deletes them;
- between the two it may wait, and so may every statement that needs a row another transaction has
  inserted, updated or deleted (`WrittenByOthers`, `RemovedByOthers`, `GoneByOthers`), or refers to by
  a foreign key and wants to stay (`ReferredByOthers`); these waits are guards. The `ON CONFLICT DO UPDATE`
  sets the columns of the key, so it waits for references as a deletion does;
- a row that was only locked while a `DELETE` waited is deleted without another look at the condition;
- `ON DELETE CASCADE` deletes the references there are when the row is deleted (`Cascade`).

A statement takes all the locks it needs in one step; that transactions which took some of them wait for
each other is covered by `RollBack`, which is possible at every moment, as any statement, the commit, or
the connection may fail. A caller that gets an error from a commit that was done sees a `Commit`. The
columns `subscription_limit` and `interval` are left out. `overlapped` records
whether two transactions were ever open at once. `Renderings` are the values of `UseChrome` callers ask for.

`Directory` maps the tables to `SubscriptionDirectory`, with `CreateOnSubscribe` false and a key
without `UseChrome`: of two callers who subscribe to a site with different values of `UseChrome` the
second gets the rendering of the first, unless both insert the row at once.

### PostgresLookups

A lookup selects subscribers (`GetAllSubscribers`, `FindBySubscription`, `GetSubscriber`), and then reads the
subscriptions of each in a statement of its own (`FindBySubscriber`), outside any transaction. `Elsewhere`
are the transactions, which go on between the statements; `always` and `ever` record what was committed
throughout the lookup, and at any moment of it. An answer need not be one the tables ever held, but
`AnswersHold` says what it cannot miss and cannot invent.

### Interval

`Value` writes a duration as a time, `Input` and `Output` are what PostgreSQL makes of it, and `Scan` is
`unmarshalForIntervalStyle`: a turn of its loop over the parts of the text is `Parse`, its variables are an
accumulator, and `Scanned` has them after every part. `IntervalsReadBack` and `IntervalsUnderstood` state what the two directions together must
do, the second against a definition without a parser: a year is 365 days, a month 30. The
machine is one row: `WriteInterval`, or `OtherInterval` for a row somebody else wrote, then `ReadInterval`.
It shares no state with the transactions, so `MCPostgresStorage` lets either move while the other is at its
initial state, in one run.

### SiteArchive

The module follows one subscription, as sites of different subscriptions never meet. `site`
is the archived object or row. Scrapes are numbered by `clock`, the time in `LastChecked`.
A checksum is represented by the content it identifies, a diff by the pair of the contents
it was made from, and a content is a text and its whitespace, because `DiffText` ignores
whitespace. A field is read and written at once: that Go may tear a racing read of a string
or a time is not modelled.

An updater is an exporter that calls `Update` with one result after the other. Its call goes
`get`, then `add` (no site yet) or `compare`, `diff`, and `update` (`UpdateField`,
`UpdateRow`) or `touch`. In memory `archivedSite` is the live object (`Archived`): checksum
and content are read at two moments, `Touch` assigns `LastChecked` without the mutex, and the
object is then copied to itself under the mutex (`SaveRead`, `SaveWrite`). `UpdateField` assigns
one field per step and keeps the mutex (`holder`) from the first to the last. With PostgreSQL
a statement is one step; `StorageFails` lets it fail before or after it had its effect. Which
backend the server was started with is the variable `backend`. `acked` remembers the latest
result whose `Update` returned no error, `seen` what was scraped at each time, and `overlapped` whether
two calls were ever under way at once: they only record, and no action depends on them.
With them, `TimesOfScrapesSerially` says what the two times of a site mean.

Two things the properties do not rule out, because the code allows them: a site that was scraped
once has no `LastUpdated` with PostgreSQL, which inserts the zero time it is given, although
`scraper/scraper_test.go:60` expects the time of the check (the in-memory storage sets it); and of two
first results that race, the second is dropped with `ErrAlreadyExists`.

### ScrapeList

The two nested loops of `GenerateScrapeList`, one step per turn, over the subscribers `GetSubscribers`
copies one by one. A copy holds a slice of subscriptions whose length stays and whose elements the
storage may overwrite at any time: `Overwritten` lets them become anything, and the properties of
this module hold all the same. The texts of a subscription are short sequences of characters, because
the deduplication joins them.

### SliceStorage

Which elements really are overwritten. An owner (`DB` for the slice of subscribers, and every subscriber for
that of its subscriptions) has a list of arrays, the latest last, and a length; a copied slice (`Copy`)
is an owner, the number of an array, and a length. `Appended` writes behind the end of the array or, when it is
full, to a new one; `Removed` overwrites an element and leaves the rest of the array as it is. `GetAllSubscribers`
is the first moment (`all`), `CopySubscriber` a turn of the loop in `GetSubscribers`, and all operations of the
storage may happen in between.

A removal moves the last element to the place of the removed one, but a copied slice is longer than the
one that remains, and still covers the old last element: nobody is missed. An addition that follows
writes to that very element; `recycled` records that this happened, and `KeptAreScraped` does not hold
then: a subscription that stays may be left out of one round. `ListedWereStored` holds even so.

A call of `GenerateScrapeList` begins with any list that earlier operations can have left: one array per
owner that may be longer than the slice, and no two subscriptions of a subscriber that are `Equals`
(`ListsAssumption`, which `UniqueSubscriptions` of `SubscriptionService` justifies). `db.subscribers`, too,
has such an array (`room` in `LiveInit`). An e-mail that is removed and added again gets a new subscriber
each time, as often as there are changes.

### Watcher

The goroutine of `Start` (`pc`, `round`, `list`, `next`), a channel of batches per round
(`batches`, `closed`), its workers, whose number is the option `threads`, and for each worker the scraper it runs: the requests under
way (`fetching`), the callbacks about to send (`parsed`), the `Exports` channel (`exports`,
`open`) and the exporter goroutine. Workers belong to a round, as a round that was given up
leaves its workers to run on while the next round starts. `Timeout` ends a round's context,
`Cancel` that of `Start`; `Done` is `tctx.Done()`. `Start` runs any number of rounds: the number of a round
is used again when its workers have returned (`Running`), so that only what runs at a time is bounded.

geziyor is a dependency, and is modelled by what the repository relies on:
`Start` runs the exporters, sends the requests, waits for their callbacks
(`CallbacksReturned`), closes `Exports` (`CloseExports`), waits for the exporters and returns
(`ScraperReturns`). That it waits for them is what the tests count on, which read the archive as soon as
`Start` of the scraper or `RunScrapers` has returned (`scraper_test.go:47-50`, `watcher_test.go:145-149`); the comment of
`RunScrapers` (`watcher.go:109`) says the opposite, see section 3. The
capacity of `Exports` is a constant, 1 in the runs, which is what the library uses; a larger
channel would only need a larger batch to fill.

### Server and Endpoints

The run group is `pc`, its actors are `actor`: the signal handler, the watcher and the HTTP server. The
first to return makes the group interrupt all of them in the order they were added: `Interrupt` is the
`cancel()` of the first two, `Shutdown` that of the server, which closes the listener and polls the
connections (`ShutdownPolls`) until none is in use or its context is done. `Exit` needs all three to have
returned. A signal before `Notify` kills the process. The watcher is what `Watcher` shows of it: cancelled,
it returns or hangs (`WatcherStops`); before that it may fail. `WatcherFails` is a failed `GenerateScrapeList`.

Beside the group, clients connect and send requests to the endpoints they use (`Served`). A handler is
`Decode`, `Call`, `Write`, with the body, the error and the status as data; `Endpoints` says of each
endpoint what it needs to find in the body, which errors it hands on and what success is. `done` records
whether the service did what was asked; a failed database statement leaves that open. A connection is
`fresh` until its first request: net/http closes those only after 5 seconds without one.

## 3. The runs

Runs that pass:

| Run | Configuration | Shows | Bounds |
|---|---|---|---|
| `subscription_service` | `SubscriptionService.cfg` | types and pointers (`TypeOK`), `UniqueEmails`, `UniqueSubscriptions`, `OvershootInv`, `ImplementsDirectory`, `OperationsAsRequested` | 2 callers, 2 e-mails, 3 objects, 3 subscriptions of which 2 are equal and 2 differ in `UseChrome` only, at most 2 subscribers and a default limit of 1, requests with and without a limit |
| `postgres_storage` | `PostgresStorage.cfg` | `TypeOK`, `UniqueKeys`, `NothingDangles`, `TransactionsInv` and `AddedAsRequested` for concurrent transactions, `AnswersHold` for lookups beside them; `NoGarbageSerially` and `DirectorySerially` until transactions overlap; `IntervalsReadBack`, `IntervalsUnderstood` | 2 callers and a lookup, 2 e-mails, 2 keys, 2 ids; 108 durations, 384 intervals |
| `site_archive` | `SiteArchive.cfg` | `TypeOK` (who holds the mutex is inside `storage.Update`) and `SiteCoherent`, also for overlapping calls; `LatestScrapeKeptSerially`, `TimesOfScrapesSerially`, `CheckedForwardSerially` until calls overlap | both backends, 2 updaters, a reader, 3 scrapes, 2 texts, one of them with 2 whitespaces |
| `scrape_list` | `ScrapeList.cfg` | `ScrapeListInv`, `ScrapedOnce`, `AllScraped`, `KeptAreScraped`, `ListedWereStored`; `ImplementsScrapeList`, `ImplementsMemoryStorage` | up to 2 subscribers with none, one or three of 3 subscriptions, 2 of which differ but have the same joined texts, 3 changes during a call |
| `watcher` | `Watcher.cfg` | `TypeOK` (channels within their capacity), `HandledOnce`, `NilMeansHandled`, `NothingAbandoned`, `RoundEnds`, `WorkersEnd`, `CancelStops` | any number of rounds; at a time 1 with 2 workers, or 2 with 1; batches of 2; no subscription, one, or three in a list, 3 at a time |
| `server` | `Server.cfg` | `TypeOK`, `AnswerTellsEffect`, `NothingNewAfterShutdown`, `Stops` | 2 clients, one of which uses every endpoint and the other one of them |

Two callers are the smallest number that can race (and with two transactions, one can be inserted into
every gap of the other, or the lookup into those of both; a second id lets a key be inserted, deleted and inserted again), an object more than e-mails is what an
orphan needs, and three scrapes are a site, a change, and a late result. A round's hard cases
are an incomplete last batch, an empty list, and two workers for two batches; two rounds at a time let
the workers of an abandoned round run beside those of the next; another one waits in the model until workers have returned. Two clients are one request that is under
way and one connection that is fresh or idle. Lists of one and three subscriptions have arrays that are full
and arrays with a free element. Symmetric sets are those the
specifications only compare for equality.

`CHECK_DEADLOCK FALSE` stands where the system stops: `Start` has returned, `GenerateScrapeList`
has (`ScrapeList`, `SliceStorage`), or the process has exited (`Server`).

Runs that TLC must find violated, each a statement of the repository that the code does not
keep:

| Run | Statement | What happens |
|---|---|---|
| `subscriber_limit` | "the maximum number of subscribers" (`service/subscription.go:68`) | two calls count before either inserts; the comparison is for equality, and once the count has gone past the limit nothing is refused until deletions bring it back |
| `archive_latest` | "the results of the latest scrape" (`service/archive.go:33`) | a call that decided on what it read earlier writes after another has stored a later result |
| `archive_response` | "metadata, checksum and content of a site" (`service/archive.go:73`) | in memory, the response is encoded while the fields are assigned |
| `postgres_cleanup` | "cleanup non-referenced subscriptions" (`storage/postgres/subscription.go:261`) | a clean-up waits for the commit of a reference it has not seen, and deletes the subscription with it |
| `watcher_hangs` | "can be stopped by canceling the given context" (`watcher/watcher.go:185`) | the exporter leaves, the callbacks of a batch of 4, the default, block on the full channel, and everybody waits |
| `server_grace` | "shutdown grace period in seconds" (`cmd/htracker/serve.go:32`) | the context with the period is derived from the one that is cancelled first, so `Shutdown` waits for nobody |

Four more statements the code does not keep are not runs of their own. That a subscriber has at most
its limit of subscriptions (`service/subscription.go:60`) is replaced by the bound the code does keep,
`LimitOvershootBounded`, which follows from `OvershootInv` and which two callers reach. That `RunScrapers`
"waits for them [the worker threads] to finish" (`watcher/watcher.go:108`) fails in `SendInterrupted`, the
early return while sending; `NilMeansHandled` and `WorkersEnd` say what holds instead. And "the combination
of URL, Filter and ContentType must be equal for subscriptions to be equal" (`subscription.go:15`; the
code below it adds `UseChrome`), but the scrape list is deduplicated by the joined texts: of a site `a` with
filter `b` and a site `ab` without one, only the first in the list is scraped, and whoever subscribed to the
other gets nothing because of somebody else's subscription; of two subscriptions that differ only in
`UseChrome`, which `Equals` tells apart, only the first is, too. The subscriptions of `scrape_list` include a
pair of the first kind. `AllScraped` says what the code does keep: of every subscription looked at, the joined
texts are listed, and its very texts unless others collide with them.
Last, "subscribe with unknown subscriber" is an error (`service/subscription_test.go:57`), but `AddSubscription`
creates a subscriber it does not find: one that is deleted after `SubscribeGet` comes back, with limit 0,
which means none. `OvershootInv` and `TypeOK` cover that path.

One comment contradicts the tests: "When all scrapers finished there still might be exporters processing the
results asynchronously" (`watcher/watcher.go:109`), while `watcher_test.go:145-149` expects every result in the
archive when `RunScrapers` has returned nil, and `scraper_test.go:47-50` when `Start` of a scraper has. Which of
them is right depends on geziyor, which is not in the repository. The model follows the tests: `ScraperReturns`
waits for the exporter, and `NilMeansHandled` rests on it. If the comment is right, results may still be on
their way to the archive when `RunScrapers` returns, and the tests may fail. Even then an exporter whose context is not
done would go on until its channel is closed and empty (`NothingAbandoned`): the results arrive later.

`NoGarbageSerially` stops at overlapping transactions because two clean-ups that remove the last two
references to a subscription each see the reference of the other, and the row stays behind until the next
clean-up; `DirectorySerially`, because of what `postgres_cleanup` shows.

`watcher` and `watcher_hangs` belong together: with `Exports` of capacity 1 an exporter may
leave after one result with one more in the channel, so batches of two never block, and those of
three or more can. `RoundEnds`, `WorkersEnd` and `CancelStops` are therefore promises for batches of at most
one more than the channel holds; with the default batch of 4 `watcher_hangs` shows `CancelStops` false, and the
same hang refutes the other two.

### Fairness

`Watcher` and `Server` have liveness properties. `Spec` of `Watcher` assumes weak fairness of the goroutine of `Start`, of
every worker, scraper and exporter (the Go scheduler runs every goroutine that can run), of every
request (the HTTP client has a timeout, so each ends in a response or an error, and a callback that
can send does), and of ticks and timeouts (timers fire). Nothing is assumed about `Cancel`, and
`GenerateFails` is possible but not forced: no property holds because `Start` gives up.
Archive updates are assumed to return. `StartStep` is one fairness condition because it is one
goroutine; in a `select` with two ready branches either may be taken. The `select` at the end of the loop of
`Start` chooses at random between a tick and the cancelled context, so it does not choose the tick every time
for ever: that is strong fairness of `ContextDone`, without which `CancelStops` fails.

`Server` assumes weak fairness of the group's goroutine (`GroupStep`), of each actor and of each handler.
Nobody is obliged to send a signal or a request, and neither the watcher nor the listener to fail; a
watcher that hangs is the exception `Stops` makes.

## 4. The proofs

`SubscriptionService_proof` holds, for every set of e-mails, subscriptions, addresses and limits,
and every finite set of callers (`CallersAssumption`; limits are integers, `LimitsAssumption`):

- `StorageCorrect`: `StorageInv`, the conjunction of `TypeOK`, `UniqueEmails` and
  `UniqueSubscriptions`, is inductive. The three need each other: that an object is found at one
  position only (`Found`) is `UniqueEmails`, and without it `RemoveSubscriber` could drop an object
  from the heap that is still listed; `TypeOK` says that the heap holds exactly what is listed or
  held by a call. `TypeCorrect`, `EmailsUnique` and `SubscriptionsUnique` follow.
- `OvershootBound`: concurrent calls exceed a limit by less than their number. The bound alone is
  not inductive: a call that passed its check may still add. `OvershootInv` counts these calls in
  (`Unchecked`), and with them those that hold an orphan with the same e-mail, whose check says nothing
  of the object now listed. The proof has one lemma per action over `StorageInv` and `OvershootInv`;
  the decisive one is `SubscribeCheck`, where a caller that was not counted begins to be, and the check
  has just shown that there is room.
- `DirectoryImplemented` and `RequestsDone`: every step is a step of `SubscriptionDirectory` under `Directory`,
  and the one with the arguments of the call. `Directory` chooses the object of an e-mail; `DirectoryOf` says,
  thanks to `UniqueEmails`, that it is the listed one, and one lemma per operation of the storage (`...Mapped`)
  what the operation does to the directory. That the set of subscriptions loses exactly the one removed, while
  `SwapRemove` moves another, is where `UniqueSubscriptions` is needed. `InsertedLimits` adds to the invariant
  that a call about to insert has the limit it was given, or the default.

Lemmas on `Append` and `SwapRemove` come first, and each action has a lemma of its own.

`ScrapeList_proof` shows for any subscribers that no joined texts are listed twice (`ListedOnce`) and that
those of every subscription looked at are listed, and its very texts unless others looked at collide with them
(`AllListed`). The invariant adds what `siteSet` means, the set of the keys of the list, and that only what was
looked at is listed. As `Overwritten` lets the storage do anything to the elements, this holds
for the list that is collected under a changing storage too.

`PostgresStorage_proof` holds for any number of callers, any renderings and any bound on the ids (`MaxIdAssumption`).
`StorageInv` is the conjunction of `TypeOK`, `UniqueKeys`, `NothingDangles` and `TransactionsInv`. The
properties of the committed tables are not inductive alone, because a commit is right only if what the
transaction has found and written earlier is still so; `TransactionsInv` says what stays so, thanks to the
locks: the rows a new reference is to are not deleted by others (`ReferredStay`), nobody else has or writes
a row with the key of a written one (`WrittenAlone`), every reference to a deleted row is deleted too, also
one that was committed meanwhile (`DeletedWhole`), and an id never changes its key (`IdsMeanKeys`).
All actions but `AddSubscriber` and `Commit` only replace one transaction by another; `LocalStep` says once what
the new one must satisfy (`Fits`), and the lemma of each action shows that. `CommitCorrect` cashes it in.
`KeysUnique`, `ReferencesHold` and `AdditionCorrect` (an action property) follow.

What holds until transactions overlap needs more. `SerialInv` says of the only open transaction that what it
has found is what the tables hold now, and when a clean-up has selected, that it selected exactly what has no
reference once the transaction is committed (`Alone`); hence `NothingLeftSerially`: every
committed subscription is referenced. `DirectoryImplemented` goes from step to step under this invariant: a commit of an
addition or a removal is the step of the directory its transaction was opened for, and all other steps
change nothing in it.

For the lookups, `LookupInv` is put beside `StorageInv`: a pair committed all the time is of
a subscriber still to be read, or in the answer, and what is committed of the selected subscribers is in the
history. `AnswersCorrect` follows for any number of subscribers and whatever the transactions do in between.

`SiteArchive_proof` holds for any updaters, contents and number of scrapes, and both backends
(`ArchiveAssumption`; `NoSiteAssumption` says that no site is the value for none).

- `Coherence`: the site has checksum, diff and content of one scrape unless somebody assigns its
  fields. Inductive is only what says how far that is: `CallCoherent` has, for the call which holds the mutex, the
  fields it has written already, for a call that saves, that it has the mutex between its read and its write,
  and for all others, that the copies they took are coherent. A copy is taken from the live object, and stays
  coherent only because nobody takes it while another holds the mutex (`CoherentWhenFree`).
- `LatestKept`, `CheckedForward` (an action property): `SerialInv` says, until calls overlap, that the one
  call has the latest scrape in hand (`OnlyCall`), and that what was acknowledged is kept (`Kept`).
- `TimesOfScrapes`: `DatedInv` says, unless the fields are being assigned, what the scrapes at the two times of the site
  saw (`Dates`), and that the one call has in hand what the latest saw (`InHand`).

`Watcher_proof` holds for any scrape lists without a repetition (`ListsAssumption`, which `ListedOnce` of
`ScrapeList_proof` justifies), any batch size, number of workers, any number of rounds (as their numbers are used again), any bound on those that run at a time, and capacity of `Exports`
(`WatcherAssumption`: they are positive). A subscription of a round is in the rest of the list, in a batch in the
channel, in a scraper or handled (`Places`). `Once` says that these are disjoint, and `Complete` that they
are the whole list until the context of the round is done. `WorkerInv` and `Progress` say what the protocol
adds: `Exports` is closed after the callbacks have returned, the exporter leaves last unless the context is done, a worker returns when
the channel is closed and empty, and nil is returned after all of them. `EachOnce`, `NilIsHonest` and
`ExportsComplete` follow. `HandledOnce` quantifies over all pairs of places and is not inductive: nothing in it keeps a
scraper from sending on a closed channel.

`SliceStorage_proof` holds for arrays of any length, any number of subscribers, and any number of changes
during a call (`MaxChanges`, of which `ChangesAssumption` says only that it is a natural number).

- `SafeInv`: an owner's last array has its length, copies do not reach beyond the elements that were
  ever written, and every element written is a subscription that was stored at some time. With
  it each step is one of `ScrapeList` (`ScrapeListImplemented`), whose theorems therefore hold over the
  storage too (`ListedWhileChanging`), and `OnlyStoredListed` follows.
- `KeptInv`: the subscriptions in a slice are `Apart`, that is, no two of them are `Equals`, and as long as no
  element was reused, a pair that was subscribed all the time has a place in the slices of the call, and
  is listed when the loops have gone by it. A removal moves the pair to another place at most, and never to one
  the loops have passed without listing it: an element that is overwritten is the removed one.
  Hence `NobodyMissed`.
- `SequencesImplemented`: operations on arrays are those of `MemoryStorage` on sequences.

`Server_proof` holds for any clients and whatever endpoints they use (`ServedAssumption`). Its invariant
adds to `TypeOK` that a handler has not answered before its endpoint is called (`Truthful`), which is what
makes the first status the only one; that the contexts are cancelled before `Shutdown` (`Interrupted`); and
that a connection which is open while the group waits is in use or fresh (`Drained`). From the last follows
`NothingNew`, an action property. `RouteCodes` and `StatusOf` say what the endpoints answer, and
`AnswersTrue` follows from them.

`Interval_proof` holds for any durations that are not negative, and any values PostgreSQL can have for an
interval (`IntervalAssumption`: the time below the hours has the sign of the hours). `ScanIs` is the heart of it: whatever
`Output` writes, `Scan` returns its months, days and hours as hours, and its milliseconds. As PostgreSQL writes
seven parts at most, the function of the loop is given part by part (`ScannedIs`), without an induction;
`FieldsAt` says where the fields and the time are in the text, and `ScanField` and `ParseHMS` what the loop
makes of them. `Digits` and `SignedTime` are the arithmetic of a time, and `Years` says that there is only one way to split months into
years and months of the same sign, so that `Understood` holds against a definition that knows nothing of `Output`.
`ReadBack` needs `InputIs` besides. The invariant (`IntervalInv`) relates the three variables of a row.

Only model-checked are the liveness properties (`RoundEnds`, `WorkersEnd`, `CancelStops`, `Stops`), which are
beyond TLAPS here. All other properties of the passing runs are theorems.

## 5. Not modelled

- Selectors, regular expressions, diffs and hashes as text, and JSON: data, which the properties tell
  apart only by equality, or by the cases `Bodies` names.
- Logging, flags, the endpoint middleware, opening the database, its URI, the migrations: I/O without
  state of its own.
- `MakeUpdateEndpoint`: no route leads to it.
- Torn reads of strings, slices and times in the data races of the in-memory storage.
- Durations that are negative or beyond 292 years, which `DurationValuer` is not made for; an Atoi that
  overflows.
- The watcher inside `Server`, which is replaced by what it may do to the group; and the services
  behind an endpoint, whose interleavings are `SubscriptionService` and `SiteArchive`.
- What a crash leaves behind: in memory nothing, and in PostgreSQL what a `RollBack` does.

## 6. Plan

Done: 1. the subscription service over the in-memory storage, with the directory as its abstract
specification and its first proofs; 2. the watcher with scrapers and exporters; 3. the site archive;
4. the scrape list; 5. the subscriptions in PostgreSQL; 6. their lookups; 7. slices that share arrays
(`SliceStorage`); 8. the run group and the shutdown (`Server`); 9. `Interval`; 10. requests, errors and
status codes (`Endpoints`).

Proofs done: every invariant, action property and refinement of the passing runs. Liveness stays with TLC.
