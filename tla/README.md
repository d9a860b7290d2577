# Verification of btcd.watch

btcd.watch is a block explorer and live dashboard on top of one btcd node: a Go
daemon (`cmd/btcdwatchd`, `internal/`), a React single-page application
(`web/`) and a few operations scripts (`deploy/`). This directory holds TLA+
models of its concurrent and fault-handling parts, the TLC configurations that
check them on small instances, and proofs, checked by TLAPS, that hold for every
value of the constants. `PROJECT.json` lists the runs, the mutants (a plausible
bug for every checked property, each of which TLC finds), which lines every
definition stands for, the findings, the hazards and the theorems.

Paths below are relative to the repository.

## 1. The system

| part | state it keeps | operations | talks to |
|---|---|---|---|
| Hub (`internal/api/hub.go`, `ws.go`) | clients, watchers per txid, dirty flag; per connection a send buffer, a `done` channel, a watch set | register, unregister, watch, unwatch, block, mempool signal, two tickers, shutdown; read and write pump; detached pushes | browsers; service (reads); node callbacks |
| Mempool snapshot (`internal/explorer/mempool.go`) | entries, histogram, age, dirty flag, generation, fetch in flight | `Snapshot`, `SnapshotAndQueue`, `Invalidate`, `MarkDirty` | btcd (RPC without a lock); every reader of the mempool |
| Live cache (`live.go`; computes in `stats.go`, `fees.go`, `arrivals.go`) | the last value of three feeds, in-flight flag, two time stamps | `liveSnapshot`, `refreshLive`, the refresh ticker | mempool snapshot, btcd; hub pushes and REST |
| Sync state (`stats.go` 77-139) | syncing, tip, when last checked | `SyncStatus`, `refreshSync` | btcd; the gate and healthz |
| Arrivals, inflow (`arrivals.go`, `inflow.go`) | capped list of recent transactions; six rotating buckets | `NoteArrival`, `computeMempoolUpdate`, rate | node callbacks; mempool snapshot |
| Transactions (`tx.go`) | caches of headers, prevouts, block interval | `GetTx`, spend derivation, `OnBlock` | btcd; mempool snapshot |
| Addresses (`address.go`, `cache.go`) | LRU of totals with a time to live | totals scan, pages | btcd |
| Blocks, ribbon, histogram, fees (`block.go`, `recent.go`, `queue.go`, `fees.go`) | per-hash caches | walks and aggregations | btcd |
| Node client (`internal/node/client.go`) | ready flag, last block hash, handlers | connect, re-register, deduplicate blocks | btcd's websocket; daemon callbacks |
| HTTP API (`handlers.go`, `middleware.go`, `server.go`) | token buckets, scan semaphore | gate, rate limit, health verdict, search | everything above |
| Price (`internal/price`) | one quote | refresh loop | CoinGecko |
| Browser (`web/src`) | socket with subscriptions, watched tx, search sequence, history entries | reconnect and replay, REST fallback, navigation | hub, REST |
| Sync watchdog (`deploy/btcd-sync-watchdog.sh`) | state file, intervention log | one tick every ten minutes | btcd through btcctl |

How news travels: btcd's notification goroutine runs `OnBlock` / `OnTxAccepted`
(`main.go` 106-120); these invalidate the service's caches and put a signal in a
one-place channel of the hub. The hub's loop starts push goroutines, which read
the live cache (or look up a transaction) and offer the result to the clients'
buffers; the write pumps send it on. The live cache is recomputed in the
background, at most every five seconds, from the mempool snapshot, which is
itself refetched on demand.

What makes it hard, and what would have to be true:

* **Hub.** Commands, drops, rejections, lost connections and pushes to slow
  clients race. The loop's two books must agree, no client may be lost or leak,
  wake-ups that are coalesced must not be lost, and neither the loop nor the
  node's goroutine may ever wait on a client.
* **Mempool snapshot.** The fetch runs with no lock, for minutes if btcd
  flushes. Invalidations and other fetches land in between. A snapshot that
  counts as clean must hold everything announced; it must not go back in time,
  freeze, or be paired with a foreign histogram.
* **Live cache.** A wedged recompute must not freeze the dashboard; a failed
  feed must not disappear; with no traffic at all the numbers must stay current.
* **Node client.** Blocks missed while disconnected, duplicated blocks, failed
  registrations.
* **Browser.** Watches must survive reconnects; a late answer must not replace
  newer news, nor land on another page; timeouts must end what they began and
  nothing else; the history must say where Back leads; the page and the server
  bin and count the same mempool and must tell one story.
* **Watchdog.** It acts on the outside world and may die before it writes that
  down; its rails must hold all the same, as far as that is possible.

`PROJECT.json` lists these as hazards, line by line, with the property that
covers each or the reason why none does.

## 2. The modules

| module | models | extends | used by |
|---|---|---|---|
| `WatchServer` | what hub.go promises of connections and watches (abstract) | | `Hub` (INSTANCE) |
| `Hub` | hub.go and ws.go | | `MCHub`, `HubProofs` |
| `MCHub` | TLC instance: symmetry and view | `Hub` | runs `hub`, `hub_live` |
| `Mempool` | mempool.go, its invalidations from tx.go and arrivals.go | | runs `mempool`, `mempool_late` |
| `LiveCache` | live.go, with the readers in stats.go, fees.go and arrivals.go | `Mempool` | run `live_cache`, `MempoolProofs` |
| `NodeFeed` | client.go, `OnBlock` and the interval cache of tx.go, the totals cache of address.go | | run `node_feed`, `NodeFeedProofs` |
| `Watchdog` | btcd-sync-watchdog.sh | | run `watchdog`, `WatchdogProofs` |
| `Subscription` | what ws.ts promises (abstract) | | `LiveSocket` (INSTANCE) |
| `LiveSocket` | ws.ts | | `WatchTx` |
| `WatchTx` | useWatchTx.ts, its part of state.ts, a pushing server | `LiveSocket` | run `watch_tx`, `LiveSocketProofs` |
| `Nav` | nav.ts | | `Browser` |
| `Browser` | App.tsx, useSearch.ts, state.ts, the links and buttons of the views | `Nav` | run `browser`, `BrowserProofs` |
| `Paging` | AddressView.tsx, BlockView.tsx, useLoadMore.ts, the pages of address.go and block.go | | run `paging`, `PagingProofs` |
| `Dashboard` | useNetworkData.ts, blocks.ts, the flight in MinedRibbon.tsx and MempoolQueue.tsx | | run `dashboard`, `LandingProofs` |
| `Queue` | queue.go, `derivePending` of tx.go, MempoolQueue.tsx, QueueBar.tsx, format.ts | | `MCQueue`, `LandingProofs` |
| `MCQueue` | three bands, symmetry of the transactions | `Queue` | run `queue` |

`HubProofs`, `MempoolProofs` (over `LiveCache`), `NodeFeedProofs`,
`LiveSocketProofs` (over `WatchTx`), `WatchdogProofs`, `LandingProofs` (over
`Dashboard` and `Queue`), `PagingProofs` and `BrowserProofs` hold the theorems. Operators called "Seeded
fault" or "Deviation" are the mutants: a plausible slip in the definition below
them, not used by the specification.

How the modules meet: the value of a feed in `LiveCache` is what the pushes of
`Hub` and the answers in `Dashboard` carry; the server side of `LiveSocket`
reads the commands that `Hub` handles one by one, and a lost connection loses
its watches as `WatchServer!Depart` says; `WatchTx`, `Browser` and `Paging` share the
reducer of state.ts, each with the actions about its own part of the state.

### WatchServer and Hub

`WatchServer` is the abstract promise: a connection joins once, is turned away
only by a full house, is told of exactly the transactions it took up, departs
with all of them at once, and never comes back. `WatchesServed` is the
refinement: `joined` are the clients while the loop runs, `gone` the connections
that were shut down, and `served` is read from the sets of `watchers`, the ones
the pushes are started from, not from the client's own book.

In `Hub`, one action per case of `Hub.Run`'s select, per step of a pump, per step of a
push goroutine. An unbuffered channel (`register`, `commands`) is a hand-off:
the sender's control state (`reader[c]`) says that it is blocked, and the loop's
action moves both. Buffered channels are sequences, the capacity-one signal
channel a Boolean. `c.send` is reduced to the number of queued messages, since
nothing on the server looks into one; `done`/`open` are the closed `done` channel
and the usable socket. Push goroutines are a bag of records (what, to whom, has
the fetch returned); every delivery is a step, so that drops, closes and other
pushes land between two clients of one fan-out. `trySend` may take either ready
case of its select. `owed` is a history variable: whom the newest news is owed
to. A connection is one TLA+ value and never reused, like a `*wsClient`.

### Mempool

`refresh` is split where it gives up the lock: the check under the lock
(`CallServed` or `CallFetches`), the node's answer (`NodeAnswers`), the failure
(`FetchFails`) or the locked install (`Install`), then the locked read of the
caller (`Snapshot`, `SnapshotAndQueue`). The mempool's contents are a version
number; `heard` is the version the processed notifications announce, which may
lag behind the node's. Times are ages, capped at the threshold they are compared
with (`m.fetched` zeroed by `Invalidate` is the largest age). `overlapped` and
`regressable` are history variables that say which installs came from overlapping
fetches. So are `flightAge`, the time since each caller's own fetch began (the
code keeps only `m.fetchStarted`, the start of the last one), and `cleared`:
since the last fetch began, another has ended beside one that is not stuck, and
its end has cleared the one flag they share. No step reads them.

### LiveCache

The callers of `Mempool` are here the `refreshLive` goroutines; `phase` says
which of the computes they are in (`computeStats` takes the block count and
reads the snapshot twice, `computeFees` and `computeMempoolUpdate` once). A
feed's value is the version of the mempool it was computed from. No value decides
what is computed or when, so a behaviour may follow a set of feeds (`Followed`)
and the run follows the three (stats, fees, mempool) one at a time; the theorem is
about any set of them. `RunLiveRefresh`
stands for its own ticker and for `WarmLive`; reads of the cache start the same
recompute, so they add nothing. Any of the computes may fail, and then its feed
keeps the value it has. A slow refresher's RPC hangs rather than fails.

### NodeFeed

`wire` is what btcd sent on the present session: block notifications, each in
both forms, and answers. The callback goroutine takes its head; while `handler`
says that it is in `OnBlock` it takes nothing more, which is why a mutex held
across an RPC would stop everything. `Drop` loses the wire and the registration;
rpcclient sends unanswered requests again. A reader looks under the mutex, gives
it back, asks, and stores under the mutex; a value is the tip it was computed
at. The same actions stand for `addressTotals` and `avgBlockInterval`, which
differ in what an error leaves (`Stores`, `Result`). The several RPCs of a scan
or a measurement are one answer that shows the tip of the first. `missed` and
`raced` are history variables: an invalidation during the fetch, and whether the
cached value came from such a fetch. The mempool snapshot, which `OnBlock`
invalidates first, is left to `Mempool`, the hub to `Hub`.

### Watchdog

`pc` walks through one tick: `height`, `peers`, `disconnect`, `log`, `save`;
`mem` are the script's `s_` variables, `state` the state file, `log` the
intervention log, in which the stamp of a line is its index. Each RPC may fail;
each write to the log or the state, and btcd's answer to the disconnect, may be
lost, and the script may be killed anywhere; `losses` counts those. `quiet` and
`spent` are history: the time since the last disconnect, and the disconnects
since a tick last saw the height move.

### Subscription and LiveSocket

`Subscription` is the abstract promise: the views hold watches, and while there
is a connection the server serves exactly those. `LiveSocket` has the fields of
the class (`ws`, `open`, `backoff`, `watches`), the pending reconnect timeouts
counted (`timers`: two at once would be the bug `OneConnection` is about), and
the network: the state of every socket (`link`; "dead" is a connection that is
gone and whose `onclose` has not run), the unread commands per connection and
transaction (`wire`), and what the server watches. A socket object is used again
when nothing refers to it. `PromiseKept` is the refinement: `held` are the
transactions with a callback, `connected` is `Up`, and `served` what the server
of the live connection will serve once it has read what is on the wire.

### WatchTx

The page of a pending transaction over `LiveSocket`. `Render` is a dispatch with
the render and effects it causes: it leaves the page (its fetches go on, with a
flag nobody looks at) and moves the callback from the transaction watched before
to the one watched now, which is a step of the socket. `checking` is the ref of
the same name, `own` marks the fetches whose end resets it. A fetch's answer goes
to the reducer whatever page is shown by then, as `tx-updated` does; `strayed`
remembers that an answer to an earlier page has been applied to this one.
`PageIsOwn` and `WatchEnds` except it (section 4 says what it does). The server pushes a confirmation again with every tick, as
`Hub` does. While the socket is not open the poll asks.

### Nav and Browser

A history is its entries and the current one; an entry has the query, the kind of
page it showed and the kind before it. `PushQuery`, `MarkKind` and `FreshEntry`
are nav.ts's operations on it. `Browser` has one action for each thing a user can
do (search, follow a link, home, Back, Forward, the buttons between blocks, a
reload, an edited URL) and for each answer. `searches` are the searches whose
answers will still be applied: a new search takes a new number, so that older
answers are dropped; Back to the landing page and `GoHome` take none, so that one
under way may still land there. `navs` are the fetches of a block's buttons,
whose answers are shown even after the page was left. `strayed` and `mismarked`
are history variables for these two exceptions, which the properties name.

### Paging

`items` are what the node lists, newest first for an address, so that a page
asked for by its offset shifts when something arrives or is evicted (`moved`).
`count` is the cached number of an address's transactions, behind `hasMore`; the
scan stops at `MaxScan`, and a count that reached it is approximate: then `hasMore`
says whether the page is full (`Approximate`, address.go:96). `miscounted` and
`capped` remember that the last answer rested on an outdated count, or on the
page's length. The page asks from the length of what it shows; the reducer appends an answer if it
is about the list then shown, even one asked for by an earlier showing of the
same list (`crossed`). `loading` is the flag of the component on screen; blocks
swapped in place keep the component and with it the flag.

### Dashboard

The server's live cache lags the node's chain, which may be reorganised; pushes
of one page are a set, delivered in any order; a REST load is answered when the
server reads its cache and arrives when it likes. A walk over the recent blocks
that fails leaves the newest of them, or none, in the cache. `ApplyStats`, `MempoolArrives`
and `BlockArrives` are the handlers; `Merge` is blocks.ts. Timeouts carry their
time: `Tick` stops while one is due, so that timeouts are never late by a tick.

### Queue

The variable is a snapshot of the mempool, a map from the transactions that wait;
everything else is an operator of it. A sum (`Total`) is written as the size of
the set of units it counts, because what a fold computes cannot be reasoned about
with the provers; `MCQueue` checks that it is what a fold would give.
Rates are whole numbers of 1/`Unit` sat/vB and fractions are compared by
cross-multiplication, since the code's doubles are exact or apart by more than
their error at the sizes meant. A pending transaction's page and the queue are of
one snapshot.

## 3. The runs

All bounds are constants in the .cfg files.

| run | question | instance | result |
|---|---|---|---|
| `hub` | types and capacities; registered exactly until shut down; the notifier never blocks; no lost wake-up; the loop's two books agree; the hub implements `WatchServer`, its limits included | 2 connections, 1 place, 2 txids, 1 watch each, 1 block hash, buffers of one | holds |
| `hub_live` | lost connections are reaped; pumps end; owed pushes start | 1 connection, fair | holds |
| `mempool` | consistent reads; what may be fetched alongside; clean means current; never backwards; becomes current | 2 callers, one of them strandable, 2 changes, 3 invalidations, fair | holds |
| `mempool_late` | mempool.go:202, what lands mid-fetch keeps it dirty | the same | violated |
| `live_cache` | feeds stay, and become current without a request | 2 recomputes, one strandable, 1 change, each of 3 feeds in turn, fair | holds |
| `node_feed` | once per block; current unless raced; lookups return; caches settle | 2 readers, 2 caches, 1 block, time to live 1, fair | holds |
| `watchdog` | budget, rate, log, outcomes, giving up | 2 heights, 2 interventions per stall, 2 losses, fair | holds |
| `watch_tx` | one connection; the promise of `Subscription`; a page keeps to its transaction; a watched page flips | 2 sockets, 2 txids, 2 failures, 2 fetches at a time, delays 1 to 2, fair | holds |
| `browser` | a page shows what its URL asks; the history is true | 5 queries of all kinds, heights 0 and 1, 3 entries, 2 block fetches | holds |
| `paging` | rows in order; the button for more is true and never sticks | 1 address, 2 blocks of 3, pages of 2 rows, 5 items, counted up to 4, 2 pages under way | holds |
| `dashboard` | the newest block stays; the live layer is sound; the page settles | heights to 3, 2 branches, a ribbon of 2, 1 push of a type, 1 failure, fair | holds |
| `queue` | advised rates are next-block rates; a transaction's page, the chip, the caption and the bar agree | 4 transactions, 7 rates, 3 sizes, 3 bands, blocks of 3 | holds |

Why the bounds are enough to be interesting:

* With one place and buffers of one, full houses, full buffers and a full
  unregister queue are reached within a few steps; two connections suffice for
  every race between a client and its successor or its neighbour in a fan-out.
  `MaxPushes` only stops new work while goroutines are still under way.
* Two callers overlap on a cold start and beside a stuck fetch. One change of the
  mempool before, during and after every fetch shows each ordering against the
  generation; two show a snapshot that goes backwards.
* In `node_feed` one block, announced or not, before, during and after every fetch
  shows each ordering of the invalidation and the store, and two readers an older
  fetch that overwrites a newer one. Two heights of the watchdog give a stall,
  progress and a second stall; two losses let a retry be lost as well.
* `watch_tx` has one socket more than `OneConnection` allows, and two failures, so
  that a connection is lost, reopened and lost again, or that a fetch fails and
  the connection too.
* Three entries of a history are one before and one after the current one; two
  navigations let an abandoned block fetch overtake a new one. Height 1 may be
  asked for before it exists.
* With pages of two rows and a scan of four, an address has histories of a broken
  page, of whole pages, counted to the end, and beyond the cap with and without a
  row left. Two blocks give pages of another list, and a list shown again.
* A ribbon shorter than the chain loses its oldest block; two branches and three
  heights give a reorganisation that replaces shown blocks.
* The seven rates lie on, below and above the minimum of every band, the three
  sizes below, on and beyond what fills a block with one or two neighbours.

`MCHub` hides what no step reads (`View`); symmetry is used in runs without
liveness properties only. `CHECK_DEADLOCK FALSE` is set for `hub` and `hub_live`,
because the hub really stops, and for `browser`, `paging` and `dashboard`, where a
user may leave everything alone and the bounds end what is left to happen.

### Fairness

* Hub: the loop returns to its select and Go picks among ready cases at random,
  hence weak fairness for its cases and strong fairness for the block channel,
  which the notifier may empty and refill; goroutines blocked on a channel are
  served in order, hence strong fairness for `Leave`; a closed socket holds
  finitely many frames, hence strong fairness for `ReadFails` on a closed one;
  writes and RPCs end by their deadlines. No fairness for peers, the node or
  ticks.
* Mempool: time passes; outages of the node end (`OutagesEnd`); callers outside
  `Slow` are answered and come back, which is `RunLiveRefresh`'s ticker. A slow
  caller's RPC may return at any time or never.
* LiveCache: time passes, the ticker fires, outages end, and recomputes outside
  `Slow` go on.
* NodeFeed: rpcclient keeps connecting, time passes, the callback goroutine and
  a lookup under way run (strong fairness, as Go's mutexes starve nobody and btcd
  answers on a session that lasts), sessions stop breaking. Nothing is assumed of
  new lookups or blocks, and registrations and RPCs may fail forever.
* Watchdog: the timer fires, scripts end, time passes however often somebody
  starts a script by hand, RPC outages end, losses are finitely many.
* WatchTx: the poll's timer runs, requests are answered, the browser notices a
  lost connection, the server reads its clients' commands and its ticker pushes.
  Failures are finitely many. The socket need never connect: then the poll has to
  do, and nothing is assumed of the user or the miner.
* Dashboard: the tickers of the live cache, the hub and the page's poll fire, and
  what was sent or asked is answered. The socket need never open.

## 4. The findings

`mempool_late`: an older fetch installed after a newer, overlapping one leaves an
outdated snapshot that counts as clean, until it expires by its age.
`CleanUnlessOverlapped` and `ForwardUnlessOverlapped` show that nothing else can.

Met while reading and modelling, and not runs of their own:

* `refresh`'s comment (mempool.go:142-144) allows a fetch beside another only on a
  cold start or beside a stuck one. All fetches share one flag, and every end
  clears it (168, 197): after an overlap the end of one fetch (the first of a cold
  start, or a stuck one that answers after all) unmarks a younger one, and the next
  reader of a stale snapshot piles another RPC on it. TLC violates `SingleFlight`
  in seven steps when its last disjunct, `cleared`, is left out; with it,
  `SingleFlight` shows that this is the only other way, and that each such fetch
  takes the end of one more overlapped fetch.
* The fetch that a watched page starts is not cancelled when the page is left, and
  `tx-updated` checks no txid (state.ts:91-101). Its late "pending" answer replaces
  another transaction that the user has opened and is watching: the page then shows
  and watches the old one, and the confirmation of the other is never shown,
  although the page says that it "flips the moment it lands in a block"
  (PendingTx.tsx:145). (A late "confirmed" answer takes the user to the old one's
  page from wherever they are.) `WatchEnds` shows that nothing but such an answer,
  the user or the confirmation ends a watch, and is violated without `strayed`.
* hub.go:323 drops the message and keeps a slow client when the unregister queue
  is full; ARCHITECTURE.md:453 says that such a client is disconnected. The next
  message that does not fit tries again.
* hub.go:201: the throttled mempool push serves the live cache as it is and
  forgets the request, so that the last arrival before a quiet period is not
  pushed (ARCHITECTURE.md:432) until an arrival, block or registration pushes
  again.
* useSearch.ts:45: a search left for the landing page still shows its answer
  there, under the landing page's URL, and marks its entry (`strayed`,
  `mismarked` in `Browser`).
* BlockView.tsx with useLoadMore.ts: a page of rows asked for before a block was
  swapped away and back is appended to the list shown anew (`crossed` in
  `Paging`), so that rows may show twice.
* address.go:97: of a history that was not counted to its end, the button for more
  stays when the history ends with a full page; it then loads an empty page and
  goes. `MoreIsTrue` excepts this case and no more.
* fees.go:57 labels the urgent rate one block however deep the line is, where the
  chips of the feed count blocks.
* MinedRibbon.tsx and MempoolQueue.tsx keep the flight's dimming when the socket
  drops during a flash, and play it again when the landing page is mounted anew.
* The watchdog's header promises at most one intervention per interval and at
  most `MAX_INTERVENTIONS` per stall without a condition; every lost state file
  (full disk, kill, lost answer) costs one more, which is what `BudgetKept`
  states.

## 5. The proofs

For all values of the constants that satisfy the named assumption of each module
(types, positive capacities, special values that are no members of the other
sets; `MinAge <= MaxAge`, `FlightTime < FlashTime`, `InitialBackoff <=
MaxBackoff`; the bands of the queue descend; there is a branch; a query is of one
kind):

| module | theorem | property |
|---|---|---|
| `HubProofs` | `TypeCorrect` | `TypeOK` |
| | `WatchBooksCorrect`, `RegistrationCorrect` | `WatchBooksAgree`, `RegisteredUntilShutdown` |
| | `LimitsCorrect` | `WithinLimits` (the run checks it as part of `WatchesServed`) |
| | `NotifierCorrect`, `WakeupsCorrect` | `NotifierNeverBlocks`, `NoLostWakeup` |
| | `HubServesWatches` | `WatchesServed`: the hub implements `WatchServer`, its limits included |
| `MempoolProofs` | `MempoolTypeCorrect` | `TypeOK` |
| | `MempoolFlightsCorrect`, `MempoolFlagCorrect` | `SingleFlight`, `FlagMeansFetch` |
| | `MempoolSnapshotCorrect`, `MempoolReadsConsistent` | `CleanUnlessOverlapped`, `ReadsAreConsistent` |
| | `MempoolMovesForward` | `ForwardUnlessOverlapped` |
| | `LiveCacheUsesSnapshot` | `FeedSpec => Spec`: the theorems above hold of what the live cache is served |
| | `LiveCacheKeepsFeeds` | `FeedsStay` |
| `NodeFeedProofs` | `NodeFeedTypeCorrect` | `TypeOK` |
| | `NodeFeedOncePerBlock`, `NodeFeedCurrent` | `OncePerBlock`, `CurrentUnlessRaced` |
| `WatchdogProofs` | `WatchdogBudget`, `WatchdogRate` | `BudgetKept`, `RateLimited` |
| | `WatchdogSettles`, `WatchdogTruth` | `LogSettled`, `OutcomesTruthful` |
| `LiveSocketProofs` | `PageUsesSocket` | `Spec => SocketSpec` of `WatchTx` |
| | `SocketOneConnection` | `OneConnection` |
| | `SocketKeepsPromise` | `PromiseKept`: the socket implements `Subscription` |
| | `PageKeepsToItsOwn` | `PageIsOwn` |
| `LandingProofs` | `DashboardLiveLayer`, `DashboardNewestStays` | `LiveLayerSound`, `NewestStays` |
| | `LandingAdvice`, `LandingPlaces` | `AdviceIsNextBlock`, `PlacesAgree` |
| `PagingProofs` | `PagingInOrder`, `PagingMore`, `PagingLoads` | `RowsInOrder`, `MoreIsTrue`, `LoadingEnds` |
| `BrowserProofs` | `BrowserShowsAsked`, `BrowserHistorySound` | `ShownIsAsked`, `HistorySound` |

The argument follows Init => Inv, Inv and a step => Inv', with these
strengthenings.

* Hub: `RegistryInv` joins the two registry properties and adds `FreshUnwatched`,
  a connection that is not registered yet has no watches: otherwise an admitted
  client could enter with watches that no set knows of. That `drop` may work from
  the client's own watch set is right only because the books agree. `FeedInv`
  joins the notifier and the wake-ups: a block that is owed is held by the
  notifier or is the only one in the channel, which is empty whenever the
  notifier holds one. `LimitsInv` adds that the counted sets are finite. The
  refinement (`ServiceInv`) rests on both: because the books agree, what is served
  is what the clients watch (`ServedIsWatched`), so each case of the loop is judged
  by one client's watch set, and everything else is a stutter.
* Mempool: `FlightInv` says that, while the flag is set, no fetch under way is
  younger than `m.fetchStarted` tells, so that when the last one counts as stuck
  all are; and that while it is not set, a young fetch is under way only beside the
  end of another. `SnapshotInv` contains `FetchInv`, what every
  fetch under way may be used for: an answer whose generation is still current
  holds all that was announced, and an answer is at least as new as the snapshot,
  unless another fetch was installed meanwhile.
* NodeFeed: `InOrder` and `HubHeard`, blocks on the wire are in order and none is
  older than the last one handled; without the order, comparing with the last
  block only would not recognise a duplicate. `CurrentInv`: a reader has one
  answer on its way, and what it brings is not behind the last block if no
  invalidation came since it asked, from the moment `OnBlock` has emptied its
  cache.
* Watchdog: `BudgetInv` relates what was spent to the count in the state file and
  in the running script at every step between the disconnect and the save;
  `RateInv` the time since the last disconnect to the stamps of both;
  `TruthInv` says that the line remembered as pending was written at the remembered
  height, `SettledInv` that it is the only one without an outcome, in memory while
  a tick runs and else in the file, and that a script that has given up leaves none.
* LiveSocket: `SocketInv` adds to `OneConnection` that nothing is on the wire of
  or watched at a connection that is not up (`QuietUnlessUp`), that one that is up
  has run its onopen (`UpIsOpen`, else a change of watches would not be sent), and
  that the live one was told of what is held (`ToldOfWatches`). The refinement
  then takes each step to `Connect`, `Disconnect`, `Change` or a stutter.
* WatchTx: `OwnInv` adds that only the page on screen has a callback
  (`WatchedOnly`, so that a push starts a fetch of the page's own transaction),
  that nothing on its way says "confirmed" wrongly (`AnswersTrue`), and that no
  search is under way while a pending transaction is shown.
* Dashboard: `LayerInv` adds that no push is under way without a connection.
  `RibbonInv` says that the ribbon and every window on its way, in the cache, in a
  push or in an answer, is a finite set of blocks with heights; then merging keeps
  the newest of both (`MergeKeepsNewest`), so that the ribbon need not know which
  of them is older.
* Queue: `LineInvariant`, the line is finite and its rates and sizes are of the
  constants. The rest is arithmetic of every such line. That a finite set of rates
  has a least and a greatest comes from the order of the naturals being
  well-founded (a least counterexample, `LeastExists`), not from an induction over
  sets. Since a sum is the size of a set, sums over disjoint sets add up and
  sums over a smaller set are smaller by the theorems about finite sets; that the
  bands in front of band k hold together what pays more than its lower end
  (`TotalByClass`) needs a least counterexample again. The advice holds since what
  a walk over the line fills at the cutoff is at least what the bands in front of
  the advised rate hold; the page agrees with the chip since the bands in front of
  a transaction's own are ahead of it, and dividing and rounding are monotone.
* Paging: `PagingInv` adds that the component has one page under way, and that one
  asked for from the list on screen starts at its length and brings the rows that
  follow (`FreshContinues`), and that only the end of the list breaks off a page
  (`WholeUntilEnd`): a button that is there with nothing left, after a full last
  page, therefore means a history of whole pages.
* Browser: `Sound` says of every entry that its own kind and the one before it are
  none or true; `BrowserInv` joins it to the search under way.

Only model-checked: every liveness property, because fairness and ENABLED are
beyond the prover, and the violation. Every invariant and every action property
that a run checks is also a theorem. Some of them say what their runs cannot show:
the run `hub` has one place, so that two clients never watch one transaction at a
time (a second place costs more states than a run can visit), and that they may is
covered by `WatchBooksCorrect` and `HubServesWatches` alone; in `node_feed` there
is one block, so that only `NodeFeedOncePerBlock` speaks of a copy that comes after
the next block; in `dashboard` one push of a type is under way, so that only
`DashboardNewestStays` speaks of two of one feed that overtake each other; and the
theorems about
`Queue` hold for lines and bands of any length.

## 6. What is not modelled

Payload contents, formatting beyond the spans of `Queue`, CSS and rendering,
configuration parsing, static files, HTTP routing, the development harness, CI and
build scripts have no state worth checking. btcd, rpcclient, gorilla/websocket,
the browser and CoinGecko are external and appear as nondeterministic answers.
In particular:

* Server: the sync probe (the same single flight as the live cache, on one value
  that the next probe replaces), the scan semaphore (handlers.go:47, a buffered
  channel with a deferred release), the rate limiter (middleware.go:134, floating
  point), the inflow buckets (inflow.go:68) and the arrivals buffer, the price
  loop, fee tiers, spend derivation, chain parameters, `notePeakLocked` (a
  displayed maximum), shutdown beyond the hub's own `Stop`, a manual run of the
  watchdog beside the timer's.
* Browser: scroll offsets, the details tab, toasts, the fee panel and its fetch,
  queue positions pushed to a watched page, peaks and the geometry of bars,
  particles, glowing rows, the departing tile of the ribbon, and variants for reduced
  motion and narrow screens.

Abstractions a reader should know of: an effect is one step with the dispatch that
causes it; two identical fetches nobody owns are one member of a set; failures of
the network are bounded by `MaxFaults`; in `LiveCache` a slow caller hangs rather
than fails; in `Dashboard` the node is in sync and the landing page stays mounted
during a flash; the server of `LiveSocket` refuses no watch (a page never comes
near the cap on a client's watches).

## 7. The plan

Done: the modules above, their runs, and proofs of every safety property that the
passing runs check.

What could follow, in this order: the fee tiers beside `Queue`; the sync probe
with heights; the semaphore and the token buckets of the API; the inflow buckets
as functions against a reference definition. Each is small, and none interacts
with the modules here other than through a value it reads.
