# goseeit in TLA+

goseeit is a single-binary host monitor: a Go back end polls the machine every 1.5 s and
pushes each snapshot over WebSocket to React dashboards, which draw it and keep a history in
IndexedDB. This directory holds TLA+ models of the parts whose correctness depends on order,
concurrency or arithmetic at a boundary, TLC configurations that check them, and TLAPS proofs.
Paths are relative to `src/backend/` (Go) and `src/frontend/src/` (TypeScript).

## 1. Inventory

| Component | Source | State | Operations | Talks to | What makes it correct |
|---|---|---|---|---|---|
| WebSocket hub | `internal/ws/hub.go` | registry of clients, atomic count, three channels | `Run`, `Broadcast`, `ClientCount` | poll loop, pumps | one close per channel, no send after it, never waits for a client, count = registry |
| Client pumps | `internal/ws/client.go` | send channel (256), connection | `ServeWS`, `readPump`, `writePump` | hub, browser | the drain loop never blocks; a dead peer is released |
| HTTP server, poll loop | `internal/server/server.go` | latest snapshot and its bytes under one lock | `startPolling`, `pollAndBroadcast`, `/ws`, `/api/health`, `/api/metrics/current`, static files | collectors, hub | a dashboard's stream moves forward; the cache is never behind the stream |
| Process | `cmd/goseeit/main.go` | root context, signal and error channels | start, signal, shutdown | everything | a signal ends it, requests are drained |
| Configuration | `internal/config/config.go` | settings | defaults, file, environment, flags | process | precedence; intervals that the ticker accepts |
| Collection manager | `internal/collector/manager.go` | a WaitGroup per call | `CollectAll` | seven collectors | a returned snapshot is final; ticks keep coming |
| Docker collector | `internal/collector/docker.go` | previous counters per container | `Collect`: list, bounded fan-out, decode, swap, prune | Docker daemon | no CPU that was not used; no baselines of the gone; an end |
| Network and disk collectors | `network.go`, `disk.go` | baseline per device | `Collect` | kernel counters | no rate above what was carried; one row per mount |
| GPU collector | `gpu_linux.go` | RC6 baseline, path | `Collect`, `resolveDrmPath` | sysfs | busy time is awake time, of one card; a card is found |
| CPU collector | `cpu.go` | the library's times of the previous call, for the whole process | `Collect` | gopsutil | no work is missed, a core is shown with its share |
| Memory, host collectors | `memory.go`, `host.go` | constants read at the start | `Collect` | gopsutil | (copies, not modelled) |
| Snapshot types | `internal/model/metrics.go`, `types/metrics.ts` | none | the Go structs as JSON, the types they are read as | collectors, page | the page's types tell what is on the wire |
| WebSocket client | `lib/websocket.ts` | socket, reconnect timer, prune interval | `connect`, `disconnect`, the socket's handlers | App, history | one stream; the badge is true; the stream comes back |
| History | `lib/db.ts` | records in IndexedDB | `recordSnapshot`, `pruneOldRecords`, `getAggregatedPoints` | WebSocket client, chart | bounded; each record averaged once, in order |
| History chart | `components/HistoricalChart.tsx` | window, points | `fetchData` at once and every 3 s | history | settles on the window selected |
| Picture of the chart | `components/HistoricalChart.tsx`, `components/ui/trend-chart.tsx`, `components/ui/chart.tsx` | category, chart type, point under the pointer | tabs, hover | chart | legend and tooltip name the series drawn, and write its reading |
| App and cards | `App.tsx`, `components/OverviewCards.tsx` | snapshot, trends, references, deltas | REST answer, stream, render, effect | server | trends and deltas are of what was rendered |
| Sections | `components/CpuSection.tsx`, `DiskAndNetworkSection.tsx`, `VisualGaugesSection.tsx`, `DockerSection.tsx`, the header | none | drawing a snapshot | App | nothing that a collector leaves out takes the page down; the same number looks alike everywhere |
| Docker table | `components/DockerSection.tsx`, `components/ui/data-table.tsx` | column order, visibility, drag; search, sorting, page, page size | drag and drop, keys, menus; search, header, pager; the link of a row | tanstack table | no column lost; a drop lands where let go; the footer tells the rows; links lead where they say |
| Numbers | `lib/utils.ts`, `lib/format.ts`, meters, gauges, badges in `components/` | none | formatting, zones, segments, colours | cards | what is written is the value |

Hard to test here: the hand-over on unbuffered channels between a hub that may or may not be
parked and pumps that end at any time; collections that share baselines and overlap while no
snapshot is cached; events of replaced sockets that come late; answers that overtake each
other; remounts; rows that change under a page, a search and a sorting; sections that fail with
their collector while the rest is drawn; numbers at the boundaries of units, zones, intervals
and counters. `PROJECT.json` lists these hazards at their lines.

## 2. Plan

Order, most important behaviour first. All of these are written and checked; a module
`XProofs` holds the proofs about `X`.

1. `Hub`.
2. `Server` (extends `Hub`), the abstract `Feed` that it implements, and `ServerProofs` for
   both.
3. `Collector`, `CollectorProofs`; `Docker`, `DockerProofs`.
4. `WSClient`; `Dashboard` (extends `WSClient`); `Aggregate`; `HistoryProofs` for the three.
5. `Rates`, `Cpu`, `Gpu`, `Selection`, `Config`, side by side in `Sources`, and
   `SourcesProofs`; `GpuPath`; `Process`, `ProcessProofs`; `Static`.
6. `View`; `Snapshots`, and `Sections` that draw them; `Chart`, `Picture`; `Ordering`, and
   `Columns` and `DataTable` that order by it; `Links`; `Format`, `Meters`, `Delta`. All but
   `Chart` side by side in `Page`, with `PageProofs` and, for the table, `TableProofs`.

Still open:

- proofs: none of a safety property that a run checks, but for the two that are about
  `ENABLED` (section 6);
- models: the filter of network interfaces, a container's memory and network sums; the averages
  of a bucket as numbers;
- compositions: the collectors' baselines under `Collector` instead of a free choice of two
  callers; `View` over `Server` instead of the server's summary in `View`.

## 3. The modules and the code

Every definition that models code has its lines in `PROJECT.json` (`map`); an operator
`X_Something` just before `X` is a mutant of it, a plausible bug, used to confirm that the
property named with it can fail.

- **`Hub`** - `Run` is one goroutine over four cases. `register` and `unregister` are
  unbuffered: a plain send waits for a parked hub, a non-blocking one (`readPump`'s unregister)
  is lost unless the hub is parked. So `hubPC` tells "select" (a ready case may be taken) from
  "parked". The fan-out sends to one client per step, in any order, as Go ranges over a map.
  `PeerGone` makes a connection fail from then on; pings and deadlines are in it.
- **`Server`** extends `Hub` with the poll loop (collect and marshal, store, count, broadcast),
  the cache, the `/ws` handler (reads the bytes, then `ServeWS`), and the dashboard at the
  other end. A snapshot is the number of its poll. **`Feed`** is what a viewer may rely on: at
  most one greeting, first, then updates that never go back.
- **`Collector`** - `CollectAll` for the poll loop and for a request that found no snapshot:
  goroutine per subsystem, recover, `wg.Done`, deadline, hang, panic.
- **`Docker`** - list, slots, per-container timeout, decode, swap of the baseline, prune; the
  clock, the containers and the daemon are the environment.
- **`Rates`** - the loop over mounts or interfaces with `lastIO`; counters wrap at `Width` and
  devices are replaced at any time, also while calls overlap.
  **`Cpu`** - `cpu.Percent(0)`: a call reads the times and then swaps them, under the library's lock, for those of whichever call came before; overlapping
  calls may swap an older reading in, and the interval is then empty or counted twice.
  **`Gpu`** - RC6 residency, the frequency guess, and the change to another card, whose
  residency is then taken against the first one's baseline. **`GpuPath`** - the two looks at a
  path that overlapping calls rewrite without the lock, the files of the directory read after
  them, and cards of either vendor; a torn read of the string is one of the outcomes.
  **`Selection`** - partitions against targets, the fallback row. **`Config`** -
  three sources over defaults, the ticker's period, the deadline.
- **`Process`** - main, listener, poller, hub, requests and hijacked connections only as far as
  their life goes. **`Static`** - `handleStatic` and the file server it hands over to.
- **`WSClient`** - every handler and timer one action, since the browser runs one task at a
  time; sockets close and fail late. **`Dashboard`** adds records and the pruning clock, and
  deletions that fail and are forgotten (`websocket.ts:68`).
  **`Aggregate`** - the loop of `getAggregatedPoints`, one record per step; which records a
  point is the average of, not the averages. **`Chart`** - its
  queries in any order.
- **`View`** - REST, greeting, stream, batched renders, renders for another state than the
  snapshot, the effect that rolls trends and moves references. Snapshots may come without a
  disk or a GPU, and give no point to that trend (`OverviewCards.tsx:70,75`).
- **`Snapshots`** - which fields of the Go structs are always in the JSON, which ones
  `omitempty` leaves out when they are zero, which slices come as `null`; and what the
  TypeScript types say of the same fields. **`Sections`** - each section as a function of the
  snapshot: what it reads, through which of `.`, `?.`, `??`, `||`, what it draws, in which
  colour. Reading a field of nothing is `Crash`. The network card is the list of what it adds
  up, which is all that could throw.
- **`Picture`** - the categories, their series and configuration, which payload the legend and
  the tooltip look up by which key, how the tooltip writes a reading, the corners of a stack of
  bars.
- **`Ordering`** - what a filter and a sort make of a list, by the place of each entry in the
  result (how many come before it) instead of by a recursion, of which nothing can be proved.
- **`DataTable`** - search, sorting, pages, the footer; the library's reset to the first page,
  which comes in a microtask after each snapshot (`resetDue`); the table that leaves the page,
  with all it keeps, while the daemon cannot be asked. **`Columns`** - order, visibility,
  pinning and dragging.
- **`Format`**, **`Meters`**, **`Delta`**, **`Links`** - the pure functions, checked against
  reference definitions. `Math.floor(Math.log(bytes) / Math.log(k))` is not exact: within `Slip`
  below a power of `K` it may be the next exponent, so that an amount has a set of ways in which
  it may be written. Doubles slip by a few bytes at most below PB, by less than a byte's tenth
  below the other units; the assumption of `Format` allows half of the unit before.

## 4. The runs

Independent components are checked on a common bench (`Sources`, `Page`, `MCHistory`,
`MCSetup`): `part`, which never changes, says which of them moves in a behaviour, the others stay in
one initial state. The state space is the disjoint union of theirs, nothing is lost or added; the
benches instantiate the modules as they are, or extend them where their names do not clash.

A property of a run is often a conjunction of parts that have names of their own in the module:

| Property | Parts |
|---|---|
| `StreamInOrder` | `ServerTypeOK`, `PipelineOrdered`, `StoredBeforeSent` |
| `BaselinesFit` | `TypeOK`, `NoGhosts`, `BaselineKept` |
| `RatesAreReal` | types of `Rates`, `NeverInvents`, `NeverTooFast` |
| `UsageIsReal` | of `Gpu`: types, `BusyIsReal`, `HigherIsBusier`; of `Cpu`: `NoTimeMissed`, `ShareOfTime` |
| `RowsFit` | `OneRowPerMount`, `TargetsShown`, `PrimaryDisk` |
| `PollTimesFit` | `TickerCanStart`, `DeadlineInsideInterval` |
| `PointsInTime` | `InOrder`, `NotBeforeStart` |
| `RendersAreTold` | `TrendIsTheLastRenders`, `DeltasAreOfRenders` |
| `ColumnsKept` | `NoColumnLost`, `DropLands`, `DragForgotten` |
| `TableTellsTheRows` | once the page reset is done: `FooterCountsTheBody`, `ButtonsLead`, `EveryRowOnce` |
| `SectionsFit` | `NeverThrows`, `TypesTellTheWire`, `SectionsAgree`, `ColoursAgree` |
| `WrittenRight` | of `Format`: `HasAUnit`, `Accurate`, `NeverLess`, `UptimeOfAClock`; of `Delta`: `BadgeTellsTheChange` (`WritesTheChange`, `ColoursAgree`) |
| `ShowsTheValue` | of `Meters`: `MarkerOnZone`, `FilledIsTheShare`; of `Picture`: `TellsThePoint`, `ToldApart`, `RoundOutside` |

| Run | Shows | Bounds, and why they are enough |
|---|---|---|
| `hub` | types, registry = open channels, exact count, drain, no waiting | 2 connections (a victim and a bystander), buffers of 2 (full, half, empty), one payload, symmetry |
| `hub_live` | a gone client is released; pumps end after shutdown | 1 connection, since each obligation is of one; `FairSpec` |
| `server` | the stream is ordered, cached before sent, the same for all, and implements `Feed` | 3 polls: one in the cache, one queued, one in flight; 2 connections with buffers of 1, so that one is evicted in mid fan-out. `AloneOrServing`: while the program stops or a peer leaves, one connection at most (shutdown and departures of two are in `hub`) |
| `server_greeting` | *violation*: a greeting shares a frame with a broadcast | 1 connection, 2 polls |
| `docker` | types and slots, baselines, no exaggeration, an end | 2 containers, 1 slot, poll loop and one request, clock to 2, symmetry. While a request may overlap, one container at a time is scraped |
| `sources` | rates, GPU and CPU usage, rows, configuration | one device mounted twice with a counter of 3 values, one replacement, clock to 3, so that a counter wraps and is replaced within one call of another; GPU frequencies 1, 2, 4 or absent, at the start only, one change of card; two cores, each at work or not in each of 3 moments, a request over the poll loop's calls; two mount entries of three mounts and four devices; intervals -1, 0, 150, 499, 500 and a bad value |
| `history` | one stream, true badge, bounded history, buckets, stream and chart come back | 3 sockets (current, closing, next), 3 mounts, retention 1; 3 buckets of 2 with 4 to 6 records and 2 of skew; 3 windows, 2 queries on their way, 3 selections |
| `rates_overtaken` | *violation*: a rate against a baseline that was read later | as `sources` |
| `aggregate_gap` | *violation*: records after a gap are averaged at the wrong time | 3 buckets, 5 records |
| `page` | snapshots, trends, deltas, columns, rows, sections, picture, formats, meters, badges, links | 2 snapshots, each of which may be fetched, greet and be broadcast, 2 connections, history 3, one optional trend; 5 columns, one pinned; 3 containers on pages of 1 or 2, so that a snapshot can leave the page empty; of each collector nothing, zeros, and values on both sides of the thresholds and on them; readings at the rounding and unit boundaries; units a factor 10 apart, past the last, with slips as large as assumed; -2.0 to 130.0 %; every form of a label |
| `setup` | returned snapshots are final; ticks come while nothing hangs; the process ends and drains; files arrive; the card is found | 2 subsystems, one of which may hang, the poll loop without end and one request; for the process 2 requests, 2 clients; three names and `index.html`, each absent, file or directory; cards 0 to 2 (those the code tries are 0 to 7) of either vendor, one directory elsewhere, and 2 changes |
| `collector_stall` | *violation*: a hang stalls the loop | as `setup`, `Collector` alone |

A request that collects by itself does so once: it is the one case in which the server lets
collections overlap, and it ends with the first stored snapshot (`server.go:136-145`).
Deadlock is checked in `hub` and `hub_live`. The others stop on purpose: a bound on polls or
time is reached, the process ends, or a loop is done.

The violations are findings: each quotes a text of the repository that the code contradicts.

- `GreetingShown`: `writePump` writes queued messages into one frame with nothing between
  (`client.go:97-103`), `websocket.ts:38` parses a frame as one document. A greeting with a
  broadcast behind it is dropped, against `README.md:206`.
- `SlowMountNeverStalls`: `wg.Wait` (`manager.go:127`) knows no deadline, against
  `README.md:204`.
- `RatesOfTheDevice`: a collection that read its counters before a device was replaced, and gets
  the lock after another one has stored a reading of the new device, finds the counter ahead of
  the baseline and shows the difference (`network.go:68`, `disk.go:95`), against `network.go:42`.
- `InItsBucket`: one bucket forward per record, whatever the gap (`db.ts:85`), against
  `db.ts:57`.

## 5. Fairness

- Go: a goroutine that can run does (weak fairness). A `select` with several ready cases takes
  one at random, so `HubDone` and `HubRegister` get strong fairness. While the program serves,
  the ticker keeps broadcasting. Timers and deadlines fire. Nothing makes peers come or go, a
  daemon answer, a handler respond, a signal arrive or the host change; a collection that hangs
  is never made to return.
- Browser: timers fire, a socket that closes ends in an event; a server that is asked again and
  again accepts at last (strong fairness of `OnOpen`), without which no client could
  reconnect. Queries end, and keep being answered.
- The benches state the fairness of a part only where it moves.

## 6. What is proved

The theorems of the eight proof modules hold for every value of the constants, from the named
assumptions of the modules: finite sets of connections, subsystems, containers or cores,
capacities and lengths positive, distinct null values, a request is not the poll loop, the root
is a mount point. `SectionsAssumption` says what a collector may bring: a struct with every field
of its Go type filled in, as Go fills them, a list of such structs, or nothing; numbers where the
code has numbers, of which the load and the number of cores are not negative; and marks for
"not there", "null" and "throws" that are none of these.

- **Hub.** `TypeCorrect`. `RegistrySafe` is inductive once it also says that `fan` is empty
  outside a fan-out (`RegInv` = types, registry, that). `CountCorrect` rests on `RegInv` and
  cardinalities. `DrainSafe` needs `DrainInv`: a pump that was not started or has ended drains
  nothing, and what it counted is still in the channel, because it is the only receiver.
  `ClosedStaysClosed` is an action property, proved only: a closed channel gets no message.
- **Server.** `StreamInv` follows a message through the whole pipeline. Per client, the way is
  frame, queue and the hub's channel behind the last update delivered (`Lane`): each part is in
  order, each is before the next, and a message of a fan-out under way is newer than what the
  clients still to be visited have queued (`Way`). Greetings are first and alone in what they
  are in, and before any update (`Greets`); pumps that have not started have been given nothing
  else (`Started`); all of it is older than the snapshot that is being polled, and no newer than
  the cache (`Recent`, `HubRecent`, `Cache`). Every action is shown to keep a lane by a lemma
  about the three sequences, so that nothing is said of their lengths. `StreamCorrect` follows.
  `OneStream` adds `Alike`: outside a fan-out the last message queued is the same for all
  registered clients whose pump is awake, within one it is the fan-out's message for those
  visited and the one before for the others. `ServerImplementsFeed` maps each step to one of
  `Feed` under the same invariant: only a delivery moves `greeting` and `cursor`.
- **Collector.** `CollectorTypeCorrect` and `SnapshotFinal` from `WaitCounts` (the WaitGroup
  counts the goroutines that are not done) and `NothingRunsOutside` (none runs unless its
  caller waits); types need the first, since `wg.Done` below zero panics.
- **Docker.** `Workers` adds to the types that the slots taken are those of the workers between
  their request and their baseline (`SlotsCounted`) and that only listed containers have
  workers. `BaselinesAlwaysFit` needs next to it that a sample with a time is of a worker that
  has decoded an answer (`Decoded`), and that what the poll loop has sampled is a baseline until
  a request with a list without the container prunes it (`Kept`). `NeverExaggeratesAlways`
  needs `Workers` and, for each container, that no two samples in hand are further apart than
  the host's counters in them (`Paced`), also the next one that could be taken (`NotAhead`):
  collections may store their samples in any order.
- **WSClient.** `OneStreamAlways`: with types, "at most one socket is open or opening, and it
  is `ws`" is inductive. `StatusAlwaysTrue` adds that before the first mount nothing has
  happened (`Untouched`), and that during it what is shown is what the client has noted, which
  is true of its socket, and every other socket is closed and has no event left (`Upright`).
- **Dashboard.** `HistoryAlwaysBounded` adds `Fresh`: during the first mount the interval is
  armed through every reconnect, and if the deletion succeeded when it last fired no record is
  older than the retention and what the interval has run since. Failed deletions are made up
  for by the next that succeeds.
- **View** (`PageProofs`). `FewStepsBackAlways` counts the steps back that are still to come: of what the page
  is sent next (`wire \o queue`) only the first two may go back, the rest goes forward
  (`Forward`), and so may the answer to the fetch. Those made and those to come are at most the
  connections and, once it is answered, the fetch (`Credit`). `RendersAlwaysTold`: each trend is what it started with and the
  renders with a point for it, of which the effect that is due has still to add the last
  (`Telling`), rolling and appending commute with taking the last ones, and a metric's reference
  is the latest render in which it was positive.
- **Rates.** `RatesStayReal`. What a counter lacks of what its device carried (`Lacks`), by wraps
  and replacements, never gets less. The invariant says so of every two readings of a device
  that the baseline and the calls hold, one earlier than the other (`Ordered`), and of each and
  the counter as it stands (`Reaches`, together `InOrder`); and that the clock is read after
  the counters (`Clocks`). A difference of counters is then never more than what was carried,
  whichever calls overlap and however often counters went back, unless the call was overtaken:
  it read before its baseline was read, and the counter went back between the two
  (`Overtaken`). There the code does go wrong, as the run `rates_overtaken` shows, and both
  `NeverInvents` and `NeverTooFast` leave it out. The loop over the rows is a fold; after each
  turn a device's baseline is either the old one, with no rate shown, or this call's, with one
  row at most that shows a rate (`Worked`): its mount points together show it once.
- **Gpu**, **Cpu.** `UsageStaysReal`. All readings that are kept or in hand, of one card, are
  of one clock of sleep: between two of them it has not run backwards nor faster than the time
  (`OneSleeper`), so two in the wrong order give no busy time rather than too much. The CPU's
  invariant is that what was read before is counted; its shares are proved from the arithmetic
  of rounding and the mean of finitely many numbers.
- **Selection.** `RowsStayFit`: after each entry of the mount table the rows are those of the
  wanted mount points seen that answer, one each (`Chosen`).
- **Config.** `HigherSourceStays` and `PollTimesStayFit` from the settings after each source
  (`Settled`). What is stated is the code's precedence: a variable counts if it is usable and
  the file was taken, the file's value as it stands. What texts of the repository promise
  beyond that is among the differences of section 7.
- **Process.** `DrainsAlways` needs that requests are cut by the end of the process alone.
- **Aggregate.** `EachRecordOnce`, `PointsInOrder`, `NeverTooLate` (together `PointsFit`) from
  one invariant: the records are sorted; those before `next` are in a closed bucket or the open
  one (`Covered`), in one only (`Disjoint`); closed buckets start before the open one
  (`Behind`) and are not empty (`Occupied`); a record is never before its bucket
  (`StartsBefore`).

- **Sections.** `SectionsAlwaysFit`. The invariant is that nothing has come yet or that the
  daemon wrote it of something that collectors can bring (`SnapshotInv`). From it each part of
  the snapshot is missing or an object with every required field of its type, filled in
  (`Arrives`, `IsObject`), through all of `omitempty`. What `.`, `?.`, `??`, `||`, `toFixed` and
  `map` make of such a part is stated once (`GetIs`, `OptIs`, `OrIs`, `FixedIs`, `ListsAre`), and
  each of the fourteen sections follows. That they agree rests on what is drawn of a container
  and of a disk (`ContainerRowIs`, `DiskRowIs`, `FirstVolume`, `FirstTold`), the colours on the
  zone that a percentage is in (`ZoneOf`).
- **Columns, DataTable** (`TableProofs`). There is one order of every finite set by a strict
  total order (`InOrder` is it), and a filter keeps it. `ColumnsAlwaysKept`: the order is empty
  or one of all columns, the pinned ones are not dragged, and what is dragged and what it is
  over are two columns that can move (`TableInv`); taking an entry out and putting it in again
  at the place of another permutes. `RowsAlwaysTold`: until the reset is due, the page begins
  with a row or is the first (`RowsInv`). That the pages are a partition is division with rest,
  for any size of a page.
- **Format, Delta, Meters, Picture, Links.** The state is one input, and the invariant says no
  more than what kind of input it is; the theorems are about the functions. `NumbersWrittenRight`:
  the unit's power is a recursive function of the unit (`PowerIs`), so its growth is an induction
  over sets of numbers; an amount has the powers up to one in it (`FilledIs`), and is written in
  that unit or, if it lacks no more than half of the unit before, in the next one (`UnitIs`,
  `LackIs`); rounding to a digit, and over either border, keeps the order. An amount between
  zero and one byte is written without a unit (`NoUnit`), so the theorem compares nothing with
  it: `HasAUnit` says which amounts do have one. `ValuesAlwaysShown`: zones are three, the value is in one (`LitZone`), and the number of
  segments whose middle is reached is the rounded share (`FilledAre`); keys and names of a
  series tell it apart. `LinksAlwaysLead` goes through the beginnings that a label can have.

Folds (`FoldLeft`, `SumFunction`) are recursive functions of the library. Its induction theorems
cannot be instantiated by the provers, so `SourcesProofs` begins with induction as a statement
about sets of numbers (`Least`, `Induction`, from the well-foundedness of the numbers), that the
recursive function behind a fold exists (`FoldExists`), and what a sum of numbers is bounded by;
`PageProofs` and `TableProofs` use the same principle. The library's `SelectSeq` and `SortSeq`
are recursive operators, so the table is stated with `Ordering` and the containers are counted
as a set.

Only model-checked: the properties that are beyond the prover. These are liveness (those of
`hub_live`, `TickerNeverStalls`, `StreamComesBack`, `ChartSettles`, `SignalEndsIt`,
`FilesArrive`, `CardFound`), and `ENABLED` (`SlowConsumerNeverBlocks`, `CollectEnds`).

## 7. Limits of the models

- A hub step sends to one client or moves one message; Go's runtime makes each atomic. Reads of
  `clientCount` are atomic in the code.
- Times have no width: an interval of 290 years overflows `time.Duration` (`config.go:75`).
- `View` lets the picture go back once per greeting, as the code does: a broadcast that was
  queued when the greeting was read may be older (`FewStepsBack` bounds it).
- `Rates` shows what a device could carry only for calls that were not overtaken (section 6).
  `Gpu` has no reset of the residency by the driver.
- `GpuPath`: a card is found unless the collector holds on to a directory of another vendor's
  GPU (`HeldOnTo`). The code looks for another path only when its own is gone
  (`gpu_linux.go:86`), so that an Intel card next to such a `card0` is not found.
- `Format` says nothing of amounts between zero and one byte but that they are written without a
  unit. How far the logarithm may slip is an assumption about doubles, not a model of them.
- `Columns` is the component. The only table of the program passes neither `reorderable` nor
  pinned columns (`DockerSection.tsx:246-255`), so that columns are hidden here, and not dragged.
- `Dashboard` takes the server's timestamps for the browser's clock: a host whose clock is
  behind has its records pruned early, one ahead of it late (`db.ts:16`).
- `Links` has labels of http addresses and their abbreviations only.
- A hub that has stopped leaves a connection in `ServeWS` waiting until the process ends.

- `Cpu` takes the library's times as exact; the ticks of the kernel are coarser, and the idle
  and iowait columns are one.
- `DataTable` sorts by the name or by one other column; what a cell compares by is a number.
  The reset of the page comes before the next input and the next snapshot, as a microtask does.
- `Sections` and `Picture` draw the last snapshot and one pair of readings: what was drawn
  before them does not matter to either.

Not modelled: memory and host collectors (copies of gopsutil's numbers), interface filter, a
container's memory and network sums, row selection and the hooks of the table that the Docker
section does not use, menus and dialogs of third-party components, arcs and layout, the GPU stub
of other systems, packaging.

Differences between code and text that were read and are not runs:

- `client.go:45` says goroutines never leak on shutdown; `ServeWS` sends on `register` without
  a default (`client.go:138`), so one that is late waits for ever.
- `gpu_linux.go:85` re-verifies the path "in case volume was mounted later"; line 87 overwrites
  the configured one, which is never looked at again.
- `main.go:43` logs "using defaults and environment variables", and `README.md:155` says that
  all settings of the file can be overridden by variables; `Load` returns before they are applied
  (`config.go:85,89`) and `main.go:44` takes the defaults alone.
- `config.yaml.example:6` says "minimum 500" of the file's interval; only the variable is tested
  (`config.go:108`).
- `kpi-card.tsx:26` calls `delta` a fractional change; for CPU and memory it is the difference
  in points.
- `websocket.ts:65` schedules pruning; `disconnect` (line 109) clears the interval but leaves
  its handle, so the next mount schedules none (line 66).
- `HistoricalChart.tsx:37` means the made-up points for the initial load; they come back for
  every empty answer. `App.tsx:121` says "Real Sparklines"; they begin with made-up numbers
  (`OverviewCards.tsx:15`).
- `README.md:161,167` name two variables that the code reads under other names
  (`config.go:107,127`).
- `server.go:172` falls back to `index.html`, but line 188 serves the path that has no file.
- `data-table.tsx:609` nudges "one slot"; hidden and pinned columns have slots too.
- `README.md:207` says clients are disconnected at shutdown; main does not wait for the hub.
- `utils.ts:13-16` writes `undefined` for the unit of an amount below one byte, which the
  collectors' rates, rounded to tenths, can be.
- `DiskAndNetworkSection.tsx:66` colours the text above 75 and 90 %, the meter from there on.
- `disk.go:146` compares the last element of a mount point with devices' names, and may add
  what `config.yaml.example:10` does not name; `network.go:101` filters by name only, where
  line 17 of that file says "active physical interfaces".
- `DockerSection.tsx:252` says that no containers were found also when the search matches none.
- `DockerSection.tsx` takes the table off the page while the daemon cannot be asked: search,
  sorting and page are lost with one failed listing. Each snapshot turns the table back to its
  first page, so that another page is shown for at most one interval (1.5 s).
- The storage meter has its zones at 70 and 85 %, the volumes at 75 and 90 %.
- `VisualGaugesSection.tsx` takes `coreCount ?? 1` in one place and `|| 1` in another: "0 Cores"
  beside a load "/ 1.0".
- The header counts "0 running" in green when Docker cannot be asked. Containers neither running
  nor paused are all "Exited".
- The chart's labels say "(KB/s)", its tooltip writes the unit that fits.
- A missing memory or disk is shown as 0.0 %. The memory gauge calls `free_bytes` "Available".
- `App.tsx:105` says "Live (1.5s)" whatever the interval is.
