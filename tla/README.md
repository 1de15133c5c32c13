# peevee in TLA+

peevee is a Go program that shows the usage of the PersistentVolumeClaims of several Kubernetes
clusters. One process scrapes every cluster on a timer, keeps the latest snapshot in memory with a
short usage history, and serves a web page, a JSON API, a stream of events and a metrics endpoint.
It can also push the same metrics to a remote-write endpoint. This directory holds TLA+ models of
the parts where order, concurrency and failure matter, the configurations that check them with TLC,
and theorems about them that TLAPS checks.

Run a model with `tlc -workers 2 -config MCStore.cfg MCStore`, a proof with
`tlapm StoreProofs.tla`.

## 1. Inventory

| Component | State | Operations | Talks to | Hard to get right |
|---|---|---|---|---|
| Snapshot store, `internal/store` | latest snapshot, history per volume key, registered wakeup channels | `Put`, `Subscribe`, unsubscribe, `Snapshot`, `Query`, `History` | runner writes; API handlers read | sends happen after the lock is released; history lives outside the snapshot |
| Snapshot stream, `handleStream` in `internal/api` | one channel of one slot and one handler goroutine per connection | subscribe, wake, read snapshot, write, leave | store, browser | a wakeup that finds the channel full is dropped; a browser that does not read; a browser that leaves |
| Scrape of one cluster, `internal/collector` | nodes scraped, nodes failed, best sample per claim | `scrapeNodes`, `indexMounts`, `buildVolume`, `annotateSilentDrivers` | API server, kubelets | goroutines merging under a mutex, a deadline, nodes that fail, one claim on many nodes |
| Collection over all clusters, `Collector.Collect` | the snapshot in the making | one goroutine per cluster behind a semaphore | pool (list of clusters, `SetHealth`) | a cluster that fails, cancellation, the pool changing meanwhile |
| Cluster pool, `internal/cluster` | clusters by name, health by name, load errors | `Reload`, `Watch`, `SetHealth`, `Clusters` | the mounted directory, the collector | names claimed twice, files that cannot be read, a reload between two steps of a collection |
| Collection loop, `internal/app` | refresh token, last error | `Run`, `Trigger`, `cycle`, `push` | collector, store, remote write | a refresh during a collection, failure of one step, stopping |
| Remote write, `internal/remotewrite` | status of the last push | `Push`, `sendWithRetry` | remote endpoint | batches in parallel shards, retries, partial success |
| Queries, `internal/store` | none (reads the store) | filter, severity, trend, totals, facets, sort, page | API | snapshot and history read at different moments, boundaries of severity and paging |
| Metrics, `internal/metrics` | none | `Build`, `WriteText`, `ToSeries` | API, remote write | clusters that have failed; two claims that look alike; labels out of order |
| HTTP API, `internal/api` | none besides the above | handlers, redaction, CSV export | store, runner, pool | redaction of a configuration that others share; pages that are requests of their own |
| Browser UI, `web/ui/app.js` | page, filters, request under way | load, page, stream, poll | HTTP API | answers out of order, a page past the end |
| Configuration, `internal/config` | settings | load, override, validate | main | defaults, file and environment in layers; values that pass and stop something later |
| Process, `cmd/peevee` | where `run` is | start, signal, shutdown | everything | a failure at any step of the start; open streams at shutdown |

What makes each of them correct:

* store and stream: no stream whose browser keeps reading stays behind what was stored since it
  subscribed (the page loads before it connects, so what was stored in between it learns with the
  next event, section 6); a browser that leaves is forgotten; the history of a volume is its latest
  readings, in order and bounded; a `Put` never fails because of a reader, and no reader sees a
  `Put` write;
* scrape: what it reports of a claim does not depend on the order in which kubelets answer; usage is
  never under-reported; a claim without usage is given the reason that applies, and a driver is
  blamed on the answers of all nodes; it ends;
* collection: every cluster is accounted for exactly once, and one that fails takes nothing with it;
* pool: it comes to agree with the directory, silently ignores no file, and keeps the clients of
  what did not change;
* loop: a refresh that was asked for leads to a collection that starts later; a failed push does not
  stop the loop;
* remote write: every series is either sent or counted as failed, and what counts as sent arrived;
* configuration and process: what is accepted makes a process that works; the environment wins over
  the file; the password and the headers that look secret reach the endpoint and no page;
* queries, metrics and UI: the pages together are the one ordered list that is exported; totals
  agree with rows; a push carries what `/metrics` shows; the page at rest is one that exists.

## 2. Modules

| Module | Models | Builds on |
|---|---|---|
| `Feed` | what the snapshot stream promises a connection, and nothing of how | |
| `Store` | `store.go`: `Put`, `Subscribe`, unsubscribe; `api.go`: `handleStream` | implements `Feed` |
| `HistoryMemory` | `store.go`: the arrays behind the history, what `Put` does to them, `Query` between its unlock and its answer | extends `Store` |
| `HistoryLog` | `Store` with the list of all snapshots beside it, against which the history is compared; it changes nothing of the store | extends `Store` |
| `Config` | `config.go`, `duration.go`: `Load`, the environment, `Validate`; redaction and credentials; all as operators | |
| `App` | `runner.go`, `main.go`, `/api/refresh`, `/api/config` | extends `Store` and `Config` |
| `Scrape` | `collector.go`: one `collectCluster` | |
| `Pool` | `cluster.go`: `discover`, `Reload`, `Watch`, `SetHealth`; `collector.go`: `Collect` | abstracts `Scrape` to its outcome |
| `RemoteWrite` | `client.go`: `Push`, `sendWithRetry` | |
| `Query` | `store.go`: what `Query` computes, `api.go`: what a request asks for and the export; as operators | |
| `Metrics` | `metrics.go`: the series of one collection, as text and as they are pushed, with the order of their labels from `proto.go`; as operators | extends `Query` |
| `UI` | `app.js`: one open page, with the server it reads from | extends `Query` |
| `View` | nothing of the code: what a page and `/metrics` show of one snapshot, compared with each other and with what they mean | extends `UI` and `Metrics` |
| `MCStore`, `MCApp`, `MCScrape`, `MCPool`, `MCRemoteWrite`, `MCView` | the instances for TLC | |
| `StoreProofs`, `HistoryProofs`, `AppProofs`, `ScrapeProofs`, `PoolProofs`, `RemoteWriteProofs` | theorems | extend the module they are named for; `HistoryProofs` and `AppProofs` also extend `StoreProofs`, `HistoryProofs` also `HistoryLog` |
| `QueryProofs`, `UIProofs` | lemmas about the operators of `Query`; theorems about `UI`, `View` and, through them, `Query` and `Metrics` | `UIProofs` extends `View` and `QueryProofs` |

Definitions whose comment begins with "Mutant" are not part of a model. Each is a bug that somebody
could put into the definition below it; with the bug in place the property it is paired with in
`PROJECT.json` fails.

### Store and stream

`Put` is three kinds of step. `PutLocked` is everything under the lock, and copies the set of
subscribers; `Send(c)` is one non-blocking send, in any order, because a Go map is iterated in any
order; when none is left the `Put` has returned. A handler goes from `Subscribe` through `Wake` (it
takes the wakeup out of its channel), `ReadSnapshot` (`store.Snapshot()`) and `Flush` (the write to
the connection) back to waiting, or through `Unregister` and `Close`, the two halves of unsubscribe,
which the code does with the lock and without it. A send to a channel that was closed in between
sets `crashed`, which stops every action: it is a panic in the runner's goroutine. Snapshots are
numbered by the `Put` that stored them. A volume is absent from a snapshot, listed without usage or
listed with usage, which is all that `Put` distinguishes.

The refinement maps `latest` to `generatedAt`, `joined` to the subscribers of a process that has not
crashed, and `told` to itself. What a page knows when it subscribes is outside both modules: a
client is told of what is stored from then on. `HistoryLog` adds a variable `log`, the list of all
snapshots, so that the retained history can be compared with what it should be.

### The memory of the history

`Store` has the history as sequences. The code has slices: `append` writes into the array of a slice
while there is room and copies it otherwise, the trim moves the start of the slice, and `Query` takes
slices whose points it reads after the lock is released. `HistoryMemory` adds the arrays (`memory`),
the slices and one query that has its slices and has not answered; its other steps are those of
`Store`. How much room `append` leaves is the runtime's choice, so it is any of `Rooms`. A second
query would add nothing, because a query writes nothing. `Points(k, s)` is what is read through a
slice, and also what `History` copies for the drawer, under the lock.

### Configuration

`Config` is `Load` as operators over a flat record: the defaults, what the file sets over them with
durations decoded and unknown fields refused, what the environment sets over that, and `Validate`.
Fields that are only displayed, and those that another module has as a constant (the discovery, the
overrides of single clusters, the retries), are not in the record. Headers are a function from names
to texts, and `SecretNames` holds the names that contain *auth*, *token*, *key* or *secret*: `redact`
blanks those and shows the others as they are. A push sends the configured headers over the one of
the tenant, and a bearer token or basic authentication over an `Authorization` among them.

### Process

`App` begins with `run` in `main.go`: the configuration, the first `Reload`, the remote-write client
and the wiring, the goroutine of the loop, and the server that listens. Each of these steps may fail
and end the process (`main = "refused"`); a signal that comes before the context exists ends it too
(`"killed"`). `config` is the one configuration, whose maps and pointers all its copies share. A look
at `/api/config` adds what it shows to `shown`, and a push adds what it is sent with to `pushed`.

From then on `App` decides when `Put` happens. `loop` is the place in `Run` and `cycle`: collecting,
storing the errors, pushing, waiting in the select. `trigger` is the buffered channel of capacity
one behind the refresh button. A tick, a trigger and the cancelled context are separate actions of
the select, so any that is ready may win. `main` goes from serving through `http.Server.Shutdown`,
which waits for open connections until its deadline, to its exit; it does not wait for the loop.
Every volume exists throughout: a snapshot that does not list one could not see it. A request that
is in flight when the shutdown begins is treated as subscribed. With no place for a cluster a
collection waits for the end of the context, and without a positive interval the ticker panics;
`Validate` is what keeps both away. The push is one step here.

### Scrape

The initial state is what the list calls return: the nodes with their readiness, the pods with
claim, node and phase, and the claims. The walk over the nodes starts a goroutine for each, which
waits for the semaphore or the deadline, queries, and merges its samples under the mutex. The walk
itself writes to `failed` for a node that is not Ready without taking the mutex. That is a data race
with the goroutines that were started before: in the model two overlapping map writes may lose an
entry, or the runtime may notice them and end the process (`crashed`). `raced` remembers that they
overlapped, and the properties about recorded failures except the entries that were lost to it and
nothing else. That a kubelet reports only claims that a pod listed as running there mounts
(`RunningOn`) is an assumption about kubelets. `Build` is `buildVolume` over all claims followed by
`annotateSilentDrivers`. `answers` keeps what each kubelet sent, so that the result can be compared
with the answers and not with the samples they were merged into.

### Pool and collection

`Reload` is a step per file (`ReadFile`), because the directory may change between two reads, and
one step under the lock (`Install`). A collection takes the clusters of the pool, and then each of
its goroutines acquires a place, reports health to the pool and merges its result. Clients are
numbered by the `Reload` that built them, which tells a kept client from a rebuilt one. How a file name
becomes a cluster name (`sanitize`) is a constant, chosen so that names collide, between files and
between two contexts of one file; what can be wrong with a file is one of three faults. The reload
interval is assumed positive. `Reload` also writes the display name and labels of clusters that a
collection may be reading, but always equal values; a cluster that is kept keeps its old source as
well. Neither is in the model. A cluster is kept when its name and the content of its file are the
same; that the name may by then stand for another context of that content (section 6) is left to
that test, in the model as in the code.

### Remote write

`Push` cuts the series into batches; each batch waits for a shard, sends, and on an answer that may
be retried waits and sends again. The endpoint takes a request or not, and the answer arrives or
not: a batch may be ingested and reported as failed. Only the number of series is kept of a batch;
what a series carries is in `Metrics`, and what a request authenticates with in `Config`.

### Queries, metrics and UI

A volume is a record and a name a natural number, in alphabetical order, 0 being the empty name.
A sample of `Metrics` is a name, a set of labels and a value; `WriteText` and `ToSeries` leave out
labels without a value, and `Encoded` puts the labels, which come out of a map in any order, and the
external ones in the order of their bytes, in which `LabelNames` lists their names.
Quotients are pairs of integers, so the model is exact where the code has `float64`. A search finds
whole names. A loop over rows or points is a recursive function of the number of rows it has seen
(`ComputeTotals`, `SumOf`). A sort is described by its result: `Arranged` puts the element first that
has nothing before it, then the one that has one before it, and so on, and `RowOrder` is the stable
order that `sort.SliceStable` makes of the comparison. A fleet (`Fleets`) lists each claim of each
cluster once, as a list call does, and as `model.go:90` says of the key of a volume.

The answer to a fetch is reduced in `UI` to two numbers, how many rows match and how many of them
are sent, because nothing else decides what the page does next; what the rows are is compared in
`View`. `UI` keeps `state` as `app.js` does, a sequence of fetches under way, the answer on
show and the buttons as they were last rendered. The server answers a fetch from the snapshot of
that moment; answers arrive in any order. The checkbox *at risk* stands for all filters that reload
at once; the search box reloads when its timer fires. `Infinity * 0`, which the *last page* button
computes while the new page size is 0 and the old pager is still there, is the value `NaN`.

## 3. Runs

A run that passes is a claim about the code; a run that ends in a violation is one of the
disagreements of section 6. All of them run with two workers.

| Run | Configuration | Instance | What it shows |
|---|---|---|---|
| `store` | `MCStore.cfg` | one volume, found in any condition; a history of two points; either two connections, one of which may stop reading, and three `Put`s, or a query at any time, four `Put`s and arrays with room for none or two points more | no wakeup is lost; the history is the latest readings since the volume was last missing; the store implements `Feed`; handlers of clients that left end; slices hold the history, and a query reads the points of its moment |
| `store_panic` | `MCStorePanic.cfg` | as above, one volume that does not change | `Put` can send on a closed channel |
| `scrape` | `MCScrape.cfg` | three nodes, at most two queried at once; two claims, one mounted by two pods; every readiness, placement, phase and order of answers; failures and the deadline at any moment | the highest reading wins; nodes add up, with those that ran out of time and unless the race lost an entry; the reason given is the failure that happened; a driver is blamed exactly when no answer spoke for it; the scrape ends |
| `scrape_unreported` | `MCScrapeUnreported.cfg` | two claims in use on two nodes | a node that was never asked is taken for one that answered |
| `pool` | `MCPool.cfg` | two files that claim each other's names and that of the in-cluster fallback, and one that claims a name twice; four states of the directory; two changes of it; one cluster scraped at a time | a collection accounts for every cluster; the pool comes to agree with the directory and ignores no file; health catches up; clients of what did not change survive |
| `pool_ghost` | `MCPoolGhost.cfg` | the same with one change | health of a removed cluster comes back |
| `app` | `MCApp.cfg` | twelve ways to configure the process, six of which are refused; two clusters with a volume each; one tick; a shutdown at any moment; with the defaults one connection and two refresh requests, otherwise looks at the configuration | a refresh leads to a later collection, a burst of them to one; `LastError` is that of the stored snapshot; the process becomes ready, or says why not, and ends; what a push is sent with is what was given, and secrets are not shown |
| `app_history` | `MCAppHistory.cfg` | two cycles | a failed scrape drops the history of volumes that exist |
| `app_shutdown` | `MCAppShutdown.cfg` | two cycles, one connection | an open stream makes the shutdown fail |
| `remote_write` | `MCRemoteWrite.cfg` | pushes of two or five series in batches of two through two shards, one retry, two pushes | every series is counted once; what was counted as sent is at the endpoint; a push ends |
| `view` | `MCView.cfg` | 343 fleets of three claims, lines of usage of two to four points, and a volume without a size, looked at; one fleet that may shrink, browsed with two moves of the user, page sizes 0 (all), 1 and 2 | the page comes to rest on a page that exists; sorting, totals and projections agree with their definitions, the pages with the export, the series with each other, and a push with `/metrics` |
| `view_blank` | `MCViewBlank.cfg` | the same, and fetches do not fail | a late answer leaves the table blank |

Why the bounds are enough for what is asked:

* `store`: three `Put`s are one more than the history holds, so it is trimmed; the third can arrive
  while a handler has read the first and still has a wakeup for the second. A second connection
  makes the order of sends matter; a third adds nothing that two do not have, and the theorems hold
  for any number. A query and a stream share nothing but `Put`, and the steps of one commute with
  those of the other, so a behaviour has one or the other. Four `Put`s with room for none or two
  points fill an array, trim in it and leave it for a new one, which is trimmed as well, while a
  query holds on to the first slice.
* `scrape`: two goroutines merge the same claim while a third node waits for the semaphore. Readings
  are a low fresh one and a high old one, the pair on which "the highest" and "the latest" disagree.
  The two claims have one driver or two, and are reported by nodes that answer in either order, so the
  evidence for a driver may be the last thing to arrive.
* `pool`: each of the three ways to claim one name (a file, a context of another file, the
  fallback) can win or be left over, and a file can fail or go away, between any two steps of a reload
  and of a collection. Two changes let the directory change back.
* `app`: `trigger` has room for one request, so the second is the one that finds it full. `MaxPuts`
  exceeds the number of reasons to collect, so the bound never stops the loop. The configurations
  are one of each kind: accepted with credentials from the file, from the environment, from a
  mounted file and in a header, and with a push timeout of 0; refused for a missing URL, no places,
  a duration without a unit, an unknown field, a document with nothing in it and a file that cannot
  be read. What the other actors do does not depend on which it is, so streams and refreshes are
  explored with the defaults, and looks at the configuration with the others.
* `remote_write`: five series make two full batches and one that is not, on two shards, so one
  batch waits; the second push finds the status of the first.
* `view`: three claims side by side, each in one of seven conditions, contain every pair and every
  tie; two moves are one that puts the page off the beginning and one that makes its offset invalid,
  and a collection can do the latter too. One more fleet grows and has no size.

Every configuration sets `CHECK_DEADLOCK FALSE`: the behaviours are bounded, and the process itself
may stop. That nothing stops too early is what the liveness properties are for.

## 4. Fairness

Goroutines that can run do run, so their steps are weakly fair. Beyond this:

* `Store`, `App`: the cases of a `select` that are ready are chosen at random. A handler with a
  wakeup and a closed connection may take the wakeup any number of times, but not for ever, so
  `Unregister` is strongly fair; so are taking the refresh request and stopping the loop, which
  compete with the ticker. `Flush` is fair only for clients that read and for clients that have
  gone: the server has no write timeout, so a browser that does not read holds its handler for
  ever, and nothing is claimed about it except that it holds up nobody else.
* `Scrape`, `RemoteWrite`: both run under a context with a deadline, and the deadline comes. An
  answer never has to come; once the deadline is over a pending request fails.
* `Pool`: both tickers tick until the context is cancelled. That a scrape ends is what `Scrape`
  shows (`ScrapeEnds`), so here it is assumed.
* `App`: ticks are not fair: the interval may be long. Nothing that is claimed depends on a tick.
  The steps of the start are weakly fair as one action: some of them is taken, with either outcome.
  A collection is fair only once it can end: with no place for a cluster it waits for the context.
* `HistoryMemory`: a query need never answer, nor does anything that is claimed depend on it.
* `UI`: a collection may or may not wake the page, whose stream need not be open. There is one
  condition for the page as a whole (`Progress`): some pending answer, timer or event is processed.
  Which one is left open, and a fetch may always fail instead.

## 5. Proofs

Each of the eight proof modules is checked by `tlapm` and holds for all values of the constants.
They assume what the modules state as assumptions, and these say little: bounds are numbers, sets
are subsets of what they should be, the history holds at least one point, there is a place for a
scrape, `MaxPuts` does not stop the loop (`AppAssumption`), only YAML has settings and only the
variables that `Load` reads are in the environment (`SetupAssumption`), a node list is finite
(`ScrapeAssumption`), and the fleets a page may meet list each claim once (`UIAssumption`). Batch
size, shards and retries may be any integers (`RemoteWriteAssumption`), because `New` and `Push`
make sense of those that are too small.

`StoreProofs`, about `Store`:

* `StoreTypeOK`: type correctness. The step worth reading is the one about `Put`, which needs that
  trimming a history yields a history (`TrimKeepsTheEnd`, `RetainType`).
* `StoreNoLostWakeup`: a subscriber that is behind has a wakeup in its channel, is about to get one,
  or has taken one and not yet read the snapshot. By itself this is not inductive: when a `Put`
  begins it must be known that a handler that waits is among the subscribers that `Put` copies.
  `WakeupInv` adds this (`Registered`). The one step where the order of the code matters is
  `ReadSnapshot`: because the handler takes the wakeup first and reads second, and `Put` stores
  first and sends second, whatever is stored after the read comes with a wakeup of its own.
* `StoreHistoryOrdered`: the points of every volume are in order, not from the future, not more than
  the history holds, and the last one is that of the stored snapshot when that has a reading. It is
  inductive together with `TypeOK`; appending needs that the new snapshot is later than all points,
  and trimming keeps the end (`RetainOrdered`).
* `StoreImplementsFeed`: every step of the store and the handlers is a step of `Feed` or changes
  nothing it sees (`FeedStep`). This is the safety part. That attentive clients do not stay behind
  is the fairness of `Feed`, which the run `store` checks on its instance.

`HistoryProofs`, about `HistoryMemory`, uses the theorems about the store (`MemoryUsesStore`):

* `MemorySlicesHoldHistory` and `MemoryQueryReadsItsMoment`: the slices are the histories of `Store`,
  and those of a running query still hold what they held when it took them. The invariant
  (`MemoryInv`) says that every slice lies in its array (`Fits`) and holds its points (`Holds`), and,
  which is what makes it inductive, that a slice a query took ends no later than today's slice of the
  same array (`Behind`): an append writes one cell behind the latter (`AppendInPlace`) or into an
  array that nobody has (`AppendInNewArray`), and a trim moves the start and never the end
  (`TrimMovesTheStart`).
* `HistoryIsTheLatestReadings`, about `HistoryLog`: after any sequence of snapshots the history of a
  volume is its latest readings since it was last missing. The invariant (`LogInv`) gives every point
  its rank: the x-th from the end has x - 1 readings after it (`Ranked`). A snapshot with a reading
  puts one more behind each (`OneMoreIsLater`), which pushes exactly the oldest beyond the depth where
  the trim cuts (`RankedStays`); one without leaves the readings as they are, and one that does not
  list the volume leaves none (`ReadingsFollowPut`).

`AppProofs`, about `App`:

* `AppUsesStore`: every step of the process is a step of `Store` or leaves it alone (`AppStep`), so
  the theorems about the store are theorems about the process; `AppNoLostWakeup` is one.
* `AppTypeCorrect`: that the cycles stay within their bound needs `CyclesCounted`, which counts the
  reasons for which a cycle began: the start, a tick, or a request. That a loop runs only with a
  configuration that was accepted is `ConfigAccepted`.
* `AppLastErrorIsCurrent`: outside the two writes of a cycle, `LastError` names the clusters that
  the stored snapshot names. It follows from the invariant about where the loop is (`LoopTypeOK`).
* `AppBurstCollapses`: after the last refresh request at most one cycle begins that no tick began.
  `BurstCounted` is the strengthening: the request in the channel is counted as a cycle to come.
* `AppSecrets`: a push is sent with what the operator gave, and no page shows the password or a
  header whose name looks secret, whatever was looked at before. It rests on `ConfigAccepted`: the
  configuration stays what `Load` made of the file and the environment, of which `LoadedTexts` and
  `LoadedHeaders` say how the texts come about.

`ScrapeProofs`, about `Scrape`, from the invariant `ScrapeInv`:

* `ScrapeHighestUsageWins`: `ReadingsInv` says that a node that has not answered has given no
  reading, so that merging an answer is the only step that can break it.
* `ScrapeNodesAddUp`, `ScrapeFailureIsTheReason`: `NodesInv` says that the counter is the number of
  nodes that were scraped, that unless two writes overlapped exactly the nodes whose entry was
  written are recorded, and no others in any case, and that a node leaves without a record only when
  the deadline has passed or it is not worth asking. `ResultInv` keeps the result what it was built
  as.
* `ScrapeBlameRestsOnAnswers`: the blame, which the code computes from the statuses of the claims in
  the result, is there exactly when the kubelets' answers hold nothing of the driver's claims. A sample
  is missing exactly when every answer lacks it (`NoSampleMeansNoReading`, from `ReadingsInv`), and
  statistics need a sample (`StatsNeedASample`); `ResultInv` carries it past the end, since no answer
  comes after `Build`. That the claim's own node answered is `HostAnswered`, from `NodesInv`.
* `ScrapeTypeOK` follows from all of them.

`PoolProofs`, about `Pool`:

* `PoolTypeOK`: what the pool may hold rests on what a `Reload` carries from one file to the next
  (`ScanTypeOK`).
* `PoolCollectionComplete`: before its end a cluster is in the snapshot or in the errors exactly when
  its goroutine has merged, or was passed over in a shutdown (`Accounted`), and if its health is that
  of the client it was scraped with, then it is the one that was just set (`HealthMatches`). The
  second holds through a `Reload` because no new client gets the number of an old one.
* `PoolClientsSurvive`: an action property, for every step and any number of files.

`RemoteWriteProofs`, about `RemoteWrite`, from the invariant `PushInv`:

* `RemoteWriteEverySeriesCounted`: the batches are a partition of the series (`BatchesPartition`), so
  each of the two counters is the number of series that batches with that outcome cover
  (`CountsOK`), and when all have returned the two add up to all.
* `RemoteWriteSentIsIngested` and `RemoteWriteTypeOK`: `BatchOK` bounds what a batch has cost and
  what the endpoint may have of it in each of its states.

`UIProofs`, about the page, from the invariant `UIInv`:

* `UITypeCorrect`: every page that is asked for starts at a multiple of the page size. An offset that
  is `NaN` goes with a page size of 0 (`States`), and is left behind by whatever changes the size.
* `ThePageExists`: the page at rest exists. `PageExists` alone is not inductive; `PageOrLoad` adds
  that there is an answer, and that it has been compared with the offset of today, for every step
  that changes the offset begins a load (`LoadBegins`), and the answer that arrives last is compared
  with it. `NeverBlank` (section 6) is what does not follow: the rows of that answer are those of the
  offset it was sent with.
* `AnswersStepBack`: "the offset strictly decreases, so this cannot loop" as an action property: an
  answer changes nothing but the offset, to an earlier page that exists (`SteppedBackTo`).

`UIProofs`, about what is shown of any fleet, from lemmas of `QueryProofs`:

* `PagesAreTiles`: a page is a piece of one sorted list (`PageIsAPiece`), the same for every page,
  because it depends on the filters and the column alone (`RowsOfFilters`).
* `SortsAsPromised`: the comparison of every column, ties broken by position, is a strict total order
  (`RowOrderIsTotal`), so the n-th row is the one with n - 1 before it (`ArrangementIsInOrder`). That
  rows without a value end the list in one order in both directions is `SameTail`: two orders of one
  set that agree on a part, and that both put last, end in the same sequence.
* `TotalsCountOnce`: the loop adds the rows that are counted (`TotalsAreSums`), which are the dedicated
  ones and the first of each disk (`OneOfEachDisk`).
* `TrendsAreHonest`: the slope `leastSquaresSlope` computes from five sums is the one of the pairs
  of points, n*Sxy - Sx*Sy being the sum over all pairs of the products of their distances
  (`SumOfPairs`, Lagrange's identity), and its denominator is positive when the points are not all
  of one time (`RunIsPositive`). There is one exactly for enough points (`GrowthNeedsPoints`). The
  first form of `TrendIsHonest` turned out to be unprovable: it forgot that a measured volume
  without a size has no projection. It says so now, and `Unsized` is a fleet of the run.
* `NoSeriesTwice`: every sample of a claim carries its three names in one label each (`ClaimIsTagged`),
  so two claims have no series in common (`ClaimsApart`), nor have two clusters, and the families of
  the three sources differ.
* `PushesAreExposed`: every label set has one value for a name (`Keyed`), so sorting by name is a total
  order (`SortedLabels`), and a line can be read back from the series it was sent as (`PushedSample`).

Loops are reasoned about by an induction over the naturals stated for sets (`InductionSet`): what is
proved of f[n] for every n is that a set of numbers holds 0 and the successor of every member.

Only model-checked are the liveness properties and the fairness of `Feed`: fairness and `ENABLED` are
outside what the prover does here. They are `GoneClientsLeave` and the fairness part of
`ImplementsFeed` (`store`), `RefreshHonoured`, `ProcessEnds` and `BecomesReady` (`app`), `ScrapeEnds`,
`FollowsDirectory`, `NoFileIgnored` and `HealthCatchesUp` (`pool`), `PushEnds` (`remote_write`) and
`LoadsSettle` (`view`). Every other property of a run that passes has a theorem.

## 6. Disagreements between the code and its comments

Each of these is a run that ends in a violation of one property, whose comment in the module quotes
what it is taken from.

1. **A closing connection can end the process** (`store_panic`, `UpdatedFires`). `Put` copies the
   channels, unlocks and sends; unsubscribe closes. A connection that ends between the two makes
   `Put` send on a closed channel, `store.go:68-79` and `store.go:102-106`.
2. **A node that was never asked counts as one that answered** (`scrape_unreported`,
   `UnreportedMeansAnswered`). A goroutine that still waits for the semaphore at the deadline
   returns without a record, `collector.go:408`, and its claims are called unreported, which
   `model.go:18` reserves for nodes that answered.
3. **The health of a removed cluster comes back and stays** (`pool_ghost`, `RemovedAreForgotten`).
   A collection that began before the reload reports it afterwards, `cluster.go:365`.
4. **One failed scrape costs the whole history of a cluster** (`app_history`,
   `ExistingKeepHistory`). `store.go:61` wants to drop volumes that no longer exist; it drops those
   the last snapshot could not see.
5. **An open page makes the shutdown fail** (`app_shutdown`, `ShutdownIsGraceful`). Shutdown does
   not cancel the requests it waits for, and a stream ends only with its request.
6. **The table can stay blank** (`view_blank`, `NeverBlank`). Type a search and press *next* before
   its timer fires: two loads are under way, and if the older answer arrives last, its page past the
   end is compared with the newer offset and nothing steps back, `app.js:106` and `app.js:304`.

Met while reading, without a run:

* data shown: `metrics.go:164` calls the labels of `peevee_pvc_info` stable for the life of a claim,
  and the workload, the volume name and whether the filesystem is shared are not; `indexMounts`
  counts pods that have completed, so that a claim only they name is unreported and not unmounted;
  the columns *used* and *capacity* sort a volume without statistics as 0 among the others, where
  the comment in `sortRows` keeps rows without a value below; filesystems are told apart by cluster,
  node and capacity, which merges two of equal size on one node and counts a network filesystem once
  per node; before the first collection `/metrics` gives the time of the last scrape as that of the
  year 1, a large negative number.
* the message that blames a driver: `collector.go:185` and `docs/troubleshooting.md:48` speak of a
  driver whose claims are silent *while other drivers report normally*, and the code never asks
  whether another driver reports, so that a cluster with one driver, or with none that reports, gets
  the message as well; "in this cluster" leaves out the claims of namespaces that are not allowed
  (`collector.go:166`), whose readings are no evidence although the kubelets gave them; and the claims
  of a node that was never asked (disagreement 2), or that the API server does not list, or of a pod
  that has no node yet, count as silent. `BlameRestsOnAnswers` states what the code does decide by.
* UI: the page loads its data before it connects its stream and not when the connection opens
  (`app.js:903-904`), nor after a reconnection, so that it misses a snapshot that is stored in between
  until the next one comes; the drawer shows a history that arrives late under whichever claim is open
  by then.
* configuration: a duration without a unit is refused, although `duration.go:27` has a branch that
  takes it for seconds (YAML decodes a number into the string of the first branch); a file with
  nothing in it is an error, unlike no file; `SourceName` (`config.go:276`) gives the path of a file
  even when it was missing; `remoteWrite.timeout` is not validated, and 0 ends every push before its
  first request; `Watch` returns at once when `reloadInterval` is not positive; a password in the
  environment without a user name sends no authentication.
* probes: `/readyz` (`api.go:250`) is ok after a first collection in which every cluster failed.
* push: an external label may have the name of one of peevee's own, which then occurs twice
  (`client.go:92`).
* pool: a cluster is kept by name and content of its file (`cluster.go:123`), so a name that comes
  to stand for another context of the same content keeps the client of the first: the context `b-c`
  of `a.yaml` and the context `c` of `a-b.yaml` are both `a-b-c`. Load errors are under the full
  path when a file cannot be parsed and under its base name when a client cannot be built.

Four listed hazards have no property, because the code promises nothing that one could state beyond
repeating it: the pods that `indexMounts` counts (`collector.go:531`), the labels of the info metric
(`metrics.go:169`), the late history of the drawer (`app.js:722`), the cluster that is kept for
another context (`cluster.go:123`).

## 7. Not modelled, and the plan

Not modelled, and why:

* how a value is written: escaping and number formats of the text exposition, the JSON, CSV and YAML
  of the handlers, the bytes of protobuf and snappy. These are conversions without state, and have
  tests; which series, labels and rows are written is modelled;
* the handlers that show one read of one component (`/api/clusters`, the probes), and logging;
* the Kubernetes client itself, and how a kubeconfig becomes a client: faults of the constants;
  `sanitize` is in the model through the names it makes equal;
* of the UI the drawer, the cluster cards, the settings and all rendering but the pager;
* of the configuration the fields named in section 2; of the process its flags and its logger.

The order of work, the most important behaviour first:

1. *(done)* `Store` with `Feed`, the stream and the history; `Scrape`; `Pool`; `App` over `Store`;
   `RemoteWrite`; `Query`, `Metrics` and `UI`; the proofs for `Store` and `App`.
2. *(done)* `HistoryMemory`: the memory behind the history slices, that no query sees a `Put` write,
   and its proof.
3. *(done)* `Config` and the start of the process in `App`; redaction; the exposition, the push and
   the export in `Metrics` and `Query`.
4. *(done)* Proofs for `RemoteWrite`, `Scrape` and `Pool`.
5. The drawer of the UI with its late answers, and the cluster cards.
6. *(done)* Proofs for `HistoryLog`, `UI`, `Query`, `Metrics` and `View`.
7. What the liveness properties rest on, as far as it is safety: that a pool whose directory has come
   to rest agrees with it after one more reload.
