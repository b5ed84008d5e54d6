# TLA+ models of the trading system

This directory is a formal model of the repository in two halves. The first is
the trading system: the market-data hub, the services that feed it, those that
keep orders at the exchange, and the recorders that copy orders and trades into
the database. The second is what people look at: the web dashboard and the
legacy front end with the handlers and files behind them. TLC checks small
instances; TLAPS proves the theorems listed below for every value of the
constants.

The code is the reference. Where a document says something else than the code
does, the model follows the code and a run shows the difference.

Contents: 1 the system, 2 modules and code, 3 runs, 4 bounds, 5 fairness,
6 proofs, 7 divergences and observations, 8 what is left out, 9 going on.

## 1. The system

Many small processes trade one Binance futures account. They share no memory;
they meet in the hub, at the exchange and in the database.

```
  exchange ──REST── tick collector ───┐
  exchange ──REST── kline collectors ─┤        ┌── trading strategy ──┐
  exchange ──REST── position poller ──┼─ hub ──┼── stop-loss maker ───┼── exchange
  exchange ─stream─ position stream ──┤        └── order checker ─────┘      │
  database ──────── commission ───────┘          (cancels through the web server)
  exchange ──REST── order and trade recorders ── database ── web server, front ends
```

| Component | State it keeps | Operations | Meets | What makes it right |
|---|---|---|---|---|
| Hub, `ws/ws-server` | klines, joined cache, three timestamped slots, ban list, count, two round-robin indices, connection count; all in memory | six reads, eight writes, connect, leave, shutdown, restart | every service, over FIFO connections | readers get the newest reading offered; the cache shows no replaced text; work is shared evenly; the connection count is right |
| Kline collectors, `oneMinKlineToWs`, `specialOneMinKlineToWs` | the list of symbols | announce, ask for an index, read, write short text, write long text | hub | every symbol is refreshed for ever |
| Position poller, `getBinancePosition` | none | read, label, send | hub slot | a label promises no more than its reading |
| Position stream, `wsPosition` | a copy of the positions | merge an event, send, refresh in a thread, reconnect | hub slot | the copy follows the account |
| Stop-loss maker, `makerStopLoss` | positions last read, order ids | read positions, list orders, post a batch, cancel the old stops | hub, exchange | positions are covered; stops do not pile up |
| Order checker, `checkTimeoutOrders` | positions last read | list orders, start cancelling threads | hub, exchange, web server | timed-out orders and stops without a position go |
| Recorders, `binanceOrdersRecord`, `binanceTradesRecord` | tables `order` and `trade` | query, request, insert and update, look up old rows | exchange, database | every order has a row, no trade has two, rows show what the order is |
| Tick collector, `tickToWs` | each symbol's place in the exchange's list | read, send | hub slot | the price sent is the symbol's |
| Trading strategy, `simple_trade`, `useData` | bars, positions, marks of what was seen | merge, decide, post with retries | hub, exchange, web server | bars are consecutive minutes; one opening per position |
| Trading router, `routers/trading.py` | openings taken, number of the last order; in memory | take and end an opening, replace take-profits, open, close, stop | traders, exchange | an opening is taken once; take-profits are of one request |
| Configuration router, `routers/config.py` | one JSON file with two sections | get, modify | settings and hot-key dialogs | no save loses the other section |
| Dashboard's handlers, `routers/dashboard.py`, `records.py` | two caches and one within another, a list rebuilt in place | answer | dashboard, database | answers are whole and catch up with the database |
| Dashboard, `frontend/web-front` | a store per kind of figures, timers, the range | poll, choose a range | its handlers | every store follows the database; the charts show the range chosen |
| Legacy board, `Show.js` | the charts, two selects | ask for files, unpack them, choose | files of the uploader | charts come to show the range chosen; what is drawn is what was recorded |
| Uploader, `webOssUpdate.py` | the last day written | pack balances, add up a day's income | database, files | packing loses nothing; days add up |
| Settings dialog, `OtherConfigModal.js` | settings in the page, in `localStorage`, and the server's copy | change, restore, save | configuration router | what is stored is what is shown; fields are not mixed |
| Hot-key dialog, `HotKeyModal.js` | bindings, an add form, a modal | bind, change, delete, restore | configuration router | bindings can be drawn; careful edits add up |
| Replay chart, `tv_api.js` | bars, trades, the replay's clock, subscriptions | load, tick, subscribe | charting library, files | no bar of the future; no bar left out; it goes on |
| Commission, `commission` | table of income | record, sum up, ban | database, hub | sums cover the last day; income is counted once |
| Symbol update, `updateTradeSymbol` | table of symbols | delete, refill | every service that loads symbols | all services index the same list |
| Infrastructure client, `infra_client` | one connection to the hub | send, ask, reconnect | hub | lost frames and replies do no lasting harm |

The hard behaviours are these. Writers race for one slot with readings of
different age. A thread stores a reading that events have overtaken. A reply is
lost and the request repeated after it took effect. The hub restarts empty and
the services do not notice. Two services act on one list of orders, each with
an older picture of the positions. A batch fails half way and is reported as
done. A window of rows is compared with a window of orders. Threads of the web
server share a file, a number or a list. A page keeps a setting three times and
reads an answer late. A chart asks for bars while others are under way.
PROJECT.json lists each place under "hazards", with the properties that watch
it.

## 2. Modules and the code they model

PROJECT.json, "map", gives the lines of every definition.

**HubState** holds the pure operations of `state.rs` and `protocol.rs`: the
timestamped slot, the joined texts, the round robin, and what the parser makes
of a count. A payload is one value. A count is written without padding and
read as three digits; `Radix` and `CountFloor` are 10 and 100 in the code, and
2 and 2 in the runs, which keeps the three cases (too short, read, cut) with
few numbers.

**WsHub** is the process. One action is one handler run: the runtime is single
threaded and a handler holds the write lock from its start to its end. Each
connection has a FIFO of frames and one of replies, and may break at any time;
the process may shut down, die and be started again with `MarketState::new()`.

**HubHistory** adds what was offered to each slot and how often each index was
handed out. **LatestValue** is the abstract promise of a slot: the offer with
the greatest time, the last to arrive among equals. `Served` is the refinement
mapping, `ServesLatest` the statement that the hub implements it.

**AccountFeed** has the exchange, the poller, the stream with its copy, threads
and callbacks, the frames on their way, and the hub's position slot, which it
takes from HubState. Time is the number of changes of the account so far; a
change has one time, which is the `updateTime` of its position and the `T` of
its event. Step boundaries are the places where the code waits: the poller
reads and later sends; `on_message` merges and later sends, and a thread may
store in between; the thread reads and later stores. Every message of the
stream, an account's or another, starts a thread unless one was started less
than a second ago (`young`), and the first always does, since
`LAST_UPDATE_POSITION_TS` begins at 0. `merged` and `overtaken` are history:
the newest event in the copy, and whether a thread's reading from before it
was stored over it.

**KlineFeed** composes the collectors with the whole of WsHub. A text is the
version of the market it was read at. `SendOrDrop` and `Ask` are the client of
`infra_client.py`: a frame is dropped when reconnecting fails too, be it the
announcement, which is made once; a request whose reply is lost is sent again.

**StopLoss** has the exchange's orders, the maker and the checker with its
threads. Quantities are lots; `RoundedQuotient` is Python's `"%.nf"`, to the
nearest with ties to even. Orders posted by the trading side are environment.
So are the stops that `stop_loss_batch` and `stop_loss_once` of the web server
post for traders (`RouterPostsStop`), whose client ids have the maker's form:
maker and checker count, replace and cancel them like the maker's. The field
`own` tells them apart for one property; no step reads it.
An order whose client id has no underscore raises in the maker, which asks
again without end (`errorTime` is never increased): the maker's listing is not
enabled while such an order is open.

**OrderRecords** has the orders and trades at the exchange, two tables and the
two recorders. An order is its progress, a number; a row shows the progress it
was written at, or `NoExit`. `Updated` writes to the oldest row of the window, at which
the code's scan ends, as `DBID` does. What a query or an answer picks are sets of ids
(**TableRows**): `LastOf` is "order by id desc limit n", `InOrder` lists ids one
after the other. The order recorder's query and request make
one step and its commit another; its look-up of one old row is one step.

**TradingRouter** has the requests of one symbol, each a thread of the web
server, and the exchange's open orders. Its steps are the calls of the
exchange and the places where threads share state: `should_trade` is tested in
one step and `take_open_obj` set in the next; `next_order_id` increases the
number and reads it in two. A request is the number of its orders; a refused
one is refused after the old orders are gone, as the code does it
(`trading.py:707`). `inTurn`, `cancelled`, `takenNow` and `takenTwice` are
history. **OrderServices** puts StopLoss and TradingRouter side by side: one of
them runs while the other rests. They tell their orders by the client id. The
steps across are two. The checker cancels openings that wait too long: to
StopLoss these are orders of the trading side, to TradingRouter orders that are
gone some time, as if filled (`OrderFills`). The router's requests for stops
appear in StopLoss, a stop at a time.

**UserConfig** is the file of `config.py` with its requests. Each save reads
the whole file, empties it by opening it and dumps it, three steps of a thread;
a dump over another's may leave a text that is no JSON (`torn`). **OtherConfig**
and **HotKeys** each add a dialog, and the other dialog's saves as a section
written from elsewhere. An array of settings is the field it was made for and a
version of its contents; a binding is its function and its number of
parameters, which **HotKeyTable** takes from `hotKey.js`.

**ShowBoard** has the board's timers and its three kinds of requests, which are
answered in any order. The file of a minute's figures is never there, since the
uploader raises before it puts one (section 7), so that the board shows no
figures and its timer asks for them and for the records every three seconds.
**BoardFiles** has what two of those files say: balances are packed as changes
of figures cut to whole dollars, and unpacked by adding up; a row of the daily
income is written when its day is over. An income is worth what its bar's code
makes of it: `TodayWorth` for today's (`generateObj`), `RowWorth` for a row
(`updateDayIncome`). **TimeNames** has `formatDate` and
`turnTsToTime`, minute by minute through the ends of months.

**WebDashboard** has the dashboard's stores, its timers and the threads that
answer, which may raise at any of their steps. The database is a version; an
answer is a version and whether the list it was read from was whole, and the
summary's also the version of the machines' status, which has a cache of its
own with the time taken before the query. The summary's figures of today are
left out: they come from memory that only `/get_income_obj` fills, which no page
asks for. `strict` is the development build, in which
`usePolling` runs twice and starts no timer the second time.

**ChartFeed** has `tv_api.js` between the charting library, which is external,
and the two files it loads. A bar is its place in the file, and what is known
of it is the clock up to which its trades are counted.

**FrontEnd** puts the pages side by side, as a browser has one of them open.
The two dialogs share the server of UserConfig.

**MC...** modules hold the instances' constants. The theorems are in eight
modules: **HubProofs** (WsHub and HubHistory), **AccountFeedProofs**,
**OrderServicesProofs** (StopLoss, TradingRouter and their composition),
**OrderRecordsProofs**, **UserConfigProofs** (the server's steps),
**DialogProofs** (the two dialogs), **FrontEndProofs** (board, dashboard, files,
names, chart, and all pages together), and **DataTheorems**, which has the
lemmas on data that the others share: sums and lowest values over finite sets,
the last n ids of a set, a set of ids in its order.

## 3. Runs

| Run | Question | Result |
|---|---|---|
| `hub_market` | Do the cache and the connection count survive every order of frames, connections, shutdowns and restarts? | holds |
| `hub_history` | Does the hub serve the newest offer and hand out work evenly, from whatever index a new count finds it at? | holds |
| `account_settles` | Are labels honest, and what does the hub settle on after losses, refreshes and a restart? | holds |
| `account_phantom` | Does the hub follow the account when nothing is lost? | violated |
| `kline_refresh` | Is every symbol refreshed once the hub knows their number, with special collectors, lost announcements, broken connections and failed readings? | holds |
| `kline_restart` | Are the klines served again after the hub restarts? | violated |
| `order_services` | Do positions have what a batch gives them, and are stops bounded, when a call fails at any point of a batch? Are openings taken once, and is one request's set of take-profits left? | holds |
| `stop_stale` | Do old pictures of the positions, or a stop of the web server, leave a position uncovered, stops piled up, or a stop or timed-out order behind? | holds |
| `stop_confirm` | Are old stops cancelled only after the new ones are confirmed? | violated |
| `records_kept` | Does every reported order get a row, and no trade two? | holds |
| `records_right` | Does that row come to show the order as it is? | violated |
| `front_end` | Do settings and hot keys survive careful use, can every page be drawn, do the charts settle on the range chosen, does the dashboard follow the database, and does the replay go on? | holds |

Every property of a run that holds has a mutant in PROJECT.json: a change a
programmer could plausibly make, under which TLC finds the property violated.

What the properties say, in the order of the runs:

- `AggCacheCurrent`: the joined kline text never shows a replaced text.
  `ConnectionsCounted`: the connection count is the number of registered
  connections, and never too low during a shutdown.
- `ServesLatest`: the hub implements LatestValue. `DispatchBalanced`: two
  indices are handed out equally often, give or take one.
- `LabelsHonest`: a poller's frame labelled with the newest change carries the
  account as it is. `NewestShownRight`: with nothing lost and no thread's
  reading stored over a newer event, the hub never shows the newest label with
  anything else, however many threads read before, between and after events. `LatestOpenSettles`:
  if the newest change left a position open, the hub comes to show the account
  whatever happened. `FollowsUndisturbed`: with nothing lost, no event undone by
  a thread and no restart, it comes to show the account after a close, too. The last needs
  "no restart": a reading the poller took before a close can reach an empty
  hub and, labelled with an open position, stay there; nothing newer is sent
  until the account changes again.
- `EverySymbolRefreshed`: once the market rests, both texts of every symbol
  come to show it, if the hub keeps knowing how many there are. It needs one
  announcement to arrive; both may be lost in the run, and then nothing makes
  up for them, so that the property promises nothing.
- `StopsBounded`: the maker's stops of a side are less than 95% of the largest
  position and a batch. The web server's stops are not bounded by anything: a
  trader may ask for any number of them. `PositionsProtected`: an open position
  comes to have stops for 95% of it, or for what a whole batch is after
  rounding; more cannot be promised (section 7). `StaleStopsGone`,
  `TimedOutOrdersGone`: what has no position any more, or is too old, goes.
- `TradesOnce`, `OrdersKept`: the second is not obvious, since a changed order
  is written over the row of another. The overwritten order is missing from
  the window in the next round and inserted again.
- `ProfitsOfOneRequest`: requests that wait for each other leave the
  take-profits of one of them, although calls go unanswered half-way, the
  position turns, orders fill and the server restarts; unless an order cannot
  be cancelled in two tries. `OpenedOnce`: an opening reported by several
  traders in turn is taken once until it ends, and an order posted again after
  code -1001 does not stand beside the first. Both speak of requests in turn;
  those that overlap do leave orders of two, and may take an opening twice.
- `SerialSavesKept`: saves that the server handles one after the other lose
  nothing of either section. `StoredIsShown`: loading the page again changes no
  setting, the field aside that `onChangeAutoCancelOrderTs` stores under
  another's key. `ServerColumnCurrent`: the column of server values is what the
  server has, once answers have arrived; the row of the recommission is left
  out, which is given another field's value (section 7).
- `ConfigDrawable`, `ModalDrawable`: bindings have as many parameters as their
  function has rules, wherever they are; otherwise drawing raises, and the page
  that loads them raises again. `CarefulEditsAddUp`: edits of a user who
  reloads before each one all stay.
- `BoardSettles`: the board's charts come to the range of the select and stay
  with it, although a late answer can put another one back. `RangeShown`: with
  answers in order they show it whenever nothing is under way.
  `RecordsDrawnRight`: what is drawn of the balances is what was recorded, to
  the dollar. `IncomeAddsUp`: the line of the daily income ends at all that was
  earned, each income by the rule of its bar.
- `DashboardFollows`, `RangeFollows`: every store shows again and again all the
  database has, the summary the machines as they are, and the charts the range
  chosen, in a production build.
- `NoFutureBar`, `NothingSkipped`, `ReplayGoesOn`: the chart has no bar that
  has not begun, goes from each bar to the next with its trades complete, and
  comes to the last.
- `WordsGoOn`: the word for a time goes from today over yesterday to a date and
  never back, although days are compared by their day of the month; a cut time
  never goes back.

## 4. Bounds

Every bound is a constant of a module and a guard of the action it bounds.

- Hub: two connections (treated alike, hence the symmetry set), one frame or
  reply under way on each, two starts. Handlers of different connections
  interleave in every order; a longer queue only delays frames, since a
  handler depends on the state and its frame alone. Counts on all three sides
  of the parser's limits occur, and an index that only the larger count
  reaches. Timestamps 0, 1, 2 arrive in every order.
- Account: three changes of two symbols, which is what the phantom needs (open,
  read, close, and an event of the other symbol), one loss, one refresh thread
  at a time, which any message may start again, one restart, one frame under
  way per writer.
- Klines: two symbols, an ordinary and a special collector, one fault (a
  broken connection, a failed reading or a dropped text), two versions of the
  market. That announcements are dropped while the hub is away is no fault and
  not bounded: one may be, or both. In `kline_restart` one collector and two starts.
- Stops: one symbol, since the two services treat symbols one after the other;
  two trades; one failing call. `order_services` has batches of two, where
  first and last stop occur (five in the code), and sizes of 5 and 6 lots, one
  of which a batch cannot cover. `stop_stale` has batches of one, both signs,
  one restart of the hub and one order of the trading side or stop of the web
  server, of three lots where the position has four, so that the maker adds to
  it and replaces it.
- Records: two orders, one change and at most one trade each, one row that
  turns an hour old, one failure. In the code an answer has up to 1000 orders
  or 100 trades and a window 1000 rows; `records_kept` has 2 and 2, so that the
  window is full with two orders of one symbol and slides over the duplicates
  that overwriting leaves, and not full with one order of each. In
  `records_right` both are 4: a symbol with fewer rows than the window.

- Router: one symbol, since openings and listings are per symbol; three
  requests, a request that others overlap counting twice, which gives three in
  turn or two at once; take-profits of two orders, so that a batch stops
  between them; two times of an opening, which gives older, equal and newer;
  one call in doubt, two starts. Numbers of orders start again at the same
  value, which is the case in which a number meets an order that is still open.
- Configuration: three requests, so that two saves of the sections and a
  reading meet; one mishap (lost request, lost answer or restart); two loads of
  a page and two edits, what undoing an earlier edit takes. The fields are one
  of each kind of handler, with one value the handlers refuse, and both fields
  of the row that shows another's server value. The keys are two
  that can be bound and one that cannot.
- Board: two ranges, four requests without an answer, one answer
  that never comes, two loads.
- Dashboard: two versions after the first, two requests of a kind under way,
  one failure at any step of a handler; kinds are followed five ways, two or
  fewer at a time, since they meet only in the spinner and their server.
- Files: three balance records of values on both sides of a dollar's cut; two
  incomes, of a kind that both rules count alike, of one that only today's
  figure counts and of one that only rows count, in three days.
- Chart: four bars of three ticks, two resolutions, two loads.
- Times: minutes in the first and the last hour of days on both sides of the
  ends of a month of 31 and one of 28 days; the clock moves in steps of six
  hours, which meets each midnight.

`CHECK_DEADLOCK FALSE` is given for the two hub runs, where the process may be
down for good after its last start; for `order_services`, since the router
rests when nobody asks it; and for `front_end`, since a page may rest when its
user does.

## 5. Fairness

- Services loop for ever with `while 1` and catch every exception, so their
  steps are weakly fair (`PollReads`, `Collector`, `MakerReads`, `OrdersRead`
  and the like). Threads run. A thread that stores what it read is fair.
- The hub accepts and handles what arrives, and docker starts it again
  (`restart: unless-stopped`); `Start` is fair, within the bound of starts.
- The exchange is never fair: nothing has to change, fill, expire or fire. Nor
  is a special collector's reading: it may pass over every symbol.
- Faults are not fair, and finitely many in an instance: liveness is claimed of
  runs in which calls succeed from some time on.
- `HubShows` in StopLoss is fair: the feeds bring positions to the hub. That is
  what AccountFeed examines, and `account_phantom` shows when it fails; the
  results of StopLoss are conditional on it.
- The router owes nothing: its properties are about what must not be.
- Browsers run their timers (`BoardTick`, `Poll`, `Tick`), and the oldest
  answer of a kind that is not lost arrives some time. Caches age by the clock
  (`CacheAges`, `StatusAges`), and the first request for a summary is settled
  also where the summary is not followed (`SpinnerEnds`). A user is never fair: nothing needs to be chosen, saved or
  loaded. The dashboard's liveness is claimed of production builds only: the
  development build never polls (section 7).
- In FrontEnd and OrderServices each fair step is taken by the part that runs,
  and the conditions say so (`page = "board" /\ BoardTick`): a part at rest
  owes nothing.

## 6. Proofs

| Theorem | Says | Inductive invariant |
|---|---|---|
| `TypeCorrect` | the hub's state is well typed, counts and indices within three digits | `TypeOK` itself |
| `CacheCurrent` | `AggCacheCurrent` | with `TypeOK` |
| `NeverTurnedBack` | `TimestampsAdvance`: no step of a living hub serves an older reading | with `TypeOK` |
| `CountCorrect` | `ConnectionsCounted` | `CountInv` |
| `HubServesLatest` | the hub implements LatestValue | `HistoryInv` |
| `IndicesShared` | `DispatchBalanced` | `DispatchInv` |
| `FeedTyped` | the account feed is well typed | `TypeOK` itself |
| `PollerHonest` | `LabelsHonest` | `PollerInv` |
| `StreamHonest` | `NewestShownRight` | `IInv` |
| `OtherTypes` | settings page and server are well typed | `OtherInv` |
| `SavesDoNotLose` | `SerialSavesKept` | `OtherInv` |
| `StorageFollowsPage` | `StoredIsShown` | `OtherInv` |
| `SettingsKeepTheirFields` | `FieldsNotMixed` | `OtherInv` |
| `ColumnShowsServer` | `ServerColumnCurrent` | `OtherInv` |
| `HotTypes` | hot-key page and server are well typed | `HotInv` |
| `ConfigurationsDrawable` | `ConfigDrawable` | `HotInv` |
| `ModalAlwaysDrawable` | `ModalDrawable` | `HotInv` |
| `CarefulEditsKept` | `CarefulEditsAddUp` | `HotInv` |
| `ServicesTyped` | maker, checker and router are well typed | `StopInv`, `TradeInv` |
| `StopsNeverPileUp` | `StopsBounded` | `StopInv` |
| `OneRequestsProfits` | `ProfitsOfOneRequest` | `TradeInv` |
| `OpeningTakenOnce` | `OpenedOnce` | `TradeInv` |
| `RecordersTyped` | the recorders' tables and answers are well typed | `RecordInv` |
| `TradesRecordedOnce` | `TradesOnce` | `RecordInv` |
| `ChartsShowSelect` | `RangeShown` | `BoardInv` |
| `ReplayHidesFuture` | `NoFutureBar` | `FutureInv` |
| `ReplaySkipsNothing`, `NoBarSkipped` | `NothingSkipped`, of the chart alone and under the other pages | `Follows` |
| `FrontTyped` | all pages, files and answers are well typed | `FrontInv` |
| `RecordsRight` | `RecordsDrawnRight` | `RecordsInv` |
| `IncomeRight` | `IncomeAddsUp` | `IncomeInv` |
| `PagesKeepTheirPromises` | what holds of each page alone holds of all together | `FrontInv` |
| `NamesGoOn` | `WordsGoOn` | `NamesTypeOK` |

So every invariant and every action property of the runs that hold is a
theorem, and so is the refinement. `FieldsNotMixed` (a field of the settings never
shows an array made for another, the shared key aside) is proved only.

They hold for any number of connections, symbols, payloads, times, starts,
requests, faults, orders, trades, fields, keys, ranges, records, incomes and
bars, under the named assumptions of the modules:

- sets of connections are finite, frames are well formed, timestamps are
  natural numbers, `Radix` is at least 2;
- positions have finitely many sizes, one of which is none (`AmountAssumption`),
  and traders ask for stops of some lots at some prices (`AskedAssumption`);
- the recorders compare with no fewer rows than an answer has entries
  (`WindowAssumption`; 1000 rows and answers of 1000 or 100 in the code);
- files of settings have both sections (`FilesAssumption`) and hold what the
  pages saved (`SavedAssumption`, `SavedHotKeysAssumption`,
  `NoHotKeysAssumption`), and another browser saves what its dialog can make
  (`ElsewhereAssumption`);
- the first range is a range (`FirstRangeAssumption`), there is a version of the
  database (`VersionsAssumption`), and a store that is followed is followed for some slot (`FollowAssumption`);
- the replay starts after the first bar of its file has begun and not after its
  end (`FeedAssumption`);
- a time that is named lies in the days looked at (`NamedTimeAssumption`).

TLC evaluates each of them in the runs.

`CountInv` adds to `ConnectionsCounted` what a stopped process leaves behind:
no connection is registered while it is down. The proof of the count rests on
the cardinality of a finite set with one element more or less.

`HistoryInv` says that a slot is empty when nothing was offered and the latest
of its offers otherwise. Accepting an offer makes it the newest
(`AcceptedIsNewest`), refusing one leaves the newest as it was
(`RejectedKeepsNewest`); with these, every step of the hub maps to an arrival,
a restart to forgetting, and all others stutter.

`PollerInv`: no frame of the poller is labelled later than now, and one
labelled now carries the account. It is inductive because a change advances
the time, so a frame labelled with what was now is labelled with the past.

`StreamInv` is needed because the copy lags, and because threads replace it
while events wait. As long as nothing is lost and no event undone, the copy and
the events still to be merged into it add up to the account (`CopyComplete`),
the labels still to be announced grow (`EventsOrdered`), and every frame under
way is honest. The readings that threads hold are part of it: one that reaches
the newest event merged (`Reaches`) adds up with the events still waiting just
as the copy does, so that storing it changes nothing; one that does not would
undo an event, and storing it ends the premise. `TimesRight` says why a reading
and a waiting event are not merged twice: update times are those of changes
whose events are in order, so that an event a reading has seen is older than it
says. Once something is lost or undone the invariant says nothing more, and
stays true; `StaysDisturbed` shows that a disturbance is never undone. The
premise is one the program meets: any number of threads may read and store, the
first message's among them.

`DispatchInv` says where the round robin stands (`Shared`): it began somewhere
since the count was last told, and the indices from there up to where it stands
have been handed out once more than the others. `DispatchBalanced` alone does
not say which index is next. The special collectors' indices go through the
same `NextIndex` and are not counted.

`OtherInv` and `HotInv` rest on the lemmas of UserConfigProofs about the
server, whose steps both dialogs' specifications contain. `OneAtATime` is the
heart of both: while requests wait for each other there is one at most, it has
read the file as it is, and only its own dump has emptied the file, so that
writing the file with one section changed keeps the other. `Settings` says that
whatever is in the page, in the browser's storage, in the file and in the
bodies under way stands for its field. `CopyFollows` adds to
`ServerColumnCurrent` that an answer under way carries what the file holds.
`LoadsOnce` says that the page waits for one configuration at most and has none
until it comes, and `EditsKept` where the edits of a careful user are: in the
file, or under way, in the answer and in the page that has not edited yet.

`StopInv` bounds the maker's own stops of each side of a symbol by what must
have been there when a batch began: all stops together, the web server's
included, covered less than 95% of a position, which is no larger than the
largest, and a batch adds five rounded shares at most (`Bound`). A stop of the
web server that comes later is not the maker's and does not count. While a batch is under way that is not enough, since the next stop
must fit too; `BatchGrows` counts the stops posted so far. `StopsBounded` alone
does not say how far a batch has come. A cancel that fails, or stops of an
older batch, only add to what the next listing sees. The sums are
`MapThenSumSet` over the open orders, one order more or less at a time
(`TotalMore`).

`TradeInv`: while requests come in turn there is one at most. `InTurnInv` says
that openings taken now are not newer than the marked one and that this one is
traded still, so that the test which a newer opening passes turns away one taken
before. `ProfitsInv` says which of the open take-profits a request still has to
cancel: all of them until it posts, only its own afterwards. `TakenByCall` says
that an order of an opening stands open while its request runs only if that
request is about to post it again under the same id, which the exchange then
refuses. `CallsDiffer` gives each request a number of its own. OrderServices
needs no more than both invariants side by side: the maker and checker leave the
router's state alone except that openings that wait too long go, and fewer
orders keep `TradeInv` (`LessKeeps`).

`RecordInv` is needed because `TradesOnce` compares with the newest rows only. A
trade may be missed for good when more of them come between two rounds than an
answer holds. It must not be answered later and be inserted below newer rows,
which would push its own row out of the window one day: `GapsAreOld` says that
a missed trade older than a recorded one is too old for any answer, and
`RowsInOrder` that rows stand in the order of trades. Then the newest rows of a
symbol hold the newest trades recorded, among them every trade of the answer
that is recorded at all, when the window is no smaller than the answer. Without
that assumption the theorem is false; `WindowOfNewest` is its mutant.

`BoardInv` says that while no answer was overtaken or lost, the newest request
for records asks for the range of the select, and that with none under way the
charts show it (`NewestAsked`). `FutureInv` adds to `NoFutureBar` that bars in
the cache have begun, too, since the chart is handed those. `Follows`: while no
request of the timer is under way, every subscriber was given the last bar of
the tick before. From one tick to the next at most one bar begins (`NextBar`),
so the next one given is the next one there is; `TicksPerBar` at least 1 is all
that needs.

`RecordsInv` says that the file of changes is made of the records packed.
Changes are differences of cut figures, so partial sums telescope
(`ChangesAddUp`, from `SumOfChanges`); cutting each change instead of each
figure is the mutant that breaks it. `IncomeInv` is more than `IncomeAddsUp`
because a row is written once and read for ever: `RowsFinal` says that all rows
but the newest hold everything earned on their day, if none of it came more
than a day late (`Complete`), since the update that wrote the next row ran when
that time was over; the newest row may still be rewritten. The sum over days is
then the sum over incomes (`SumOfUnion`). Rows and today's figure are sums by two
rules, which nowhere have to agree.

`DialogsInv` says what the page that is not open leaves behind. The hot keys that
another browser saves go through the server under the settings page:
`HotKeysRest` keeps of `HotInv` what does not depend on the page, and the
lemmas of UserConfigProofs are used for both. `FrontInv` joins the invariants of
all parts; as one page is open at a time, a step of one leaves the others'
conjuncts unchanged (`FrontKeeps`).

`NamesGoOn` needs that two days fewer than 28 apart have different numbers in
their months (`CloseDays`), since the code compares days by that number only;
no month has fewer days (`MonthAssumption`). The names' other half, that a cut
time never goes back, is `CutKeepsOrder`.

A remark on induction. The library's induction theorems take an operator as a
parameter, which the provers here cannot instantiate. DataTheorems does the
inductions needed with sets: a set of numbers that is not empty has a least one
(`LeastNumber`, from the minimal elements of a well-founded order), hence a set
with 0 and all successors has every number (`EveryNumber`), and a family with
the empty set that is closed under adding an element has every part of a finite
set (`EveryPart`). What the folds of the community modules compute follows by
`EveryPart` from their definition (`FoldUnfolds`, `SumUnfolds`). `SelectSeq`,
whose definition is recursive in a way the prover does not open, is avoided in
the modules proved about: what a query selects is a set of ids.

Model-checked only, since liveness under fairness and ENABLED are beyond the
prover: `LatestOpenSettles`, `FollowsUndisturbed`, `EverySymbolRefreshed`,
`PositionsProtected`, `StaleStopsGone`, `TimedOutOrdersGone`, `OrdersKept`,
`BoardSettles`, `DashboardFollows`, `RangeFollows` and `ReplayGoesOn`. No
theorem is about KlineFeed, whose runs ask for liveness only.

## 7. Divergences and observations

With a run:

- `account_phantom`: `wsPosition.py:58` compares a number with a list, so a
  refresh always replaces the copy, however old; a closed position can come
  back under the newest label and stay. README_EN.md:369 promises the latest.
- `kline_restart`: the count is sent once, `oneMinKlineToWs.py:37`, and a
  restarted hub serves no kline. The plan of the hub expects the Python side to
  fill it again.
- `stop_confirm`: `makerStopLoss.py:204` reports success on every path, and the
  old stops go. README_EN.md:391 promises a check in between.
- `records_right`: `binanceOrdersRecord.py:102` writes a changed order to the
  wrong row, for ever as long as the symbol has fewer rows than the window.
  (With a full window the rows slide until the right one is the oldest; the
  price is a duplicate row for each slide.) README_EN.md:434 asks no more of
  this part than that the final result is right.

Met while modelling, without a run:

- A count below 100 makes a frame too short for the parser (`protocol.rs:52`),
  so a short list of symbols is never announced. The model has it
  (`CountUnderstood`).
- Klines carry no time: of two collectors reading one symbol the one that
  writes last wins, with an older reading perhaps (`handler.rs:51`). It heals
  when the symbol's turn comes again, which `EverySymbolRefreshed` shows.
- The joined cache keeps its old length when the count changes, until the next
  write.
- The stops start at 10% from the cost (`makerStopLoss.py:283`) and their steps
  multiply up, `stopLossPrice*(1+0.005*i)` with the product stored back
  (`makerStopLoss.py:191`), to more than 15%; README_EN.md:389 names 5% to 7%.
  Prices are not modelled.
- Makers that wait too long are put on lists nobody reads
  (`checkTimeoutOrders.py:340`); README_EN.md:342 promises that they are
  converted.
- `updateTrade` asks for a row of any symbol under the symbol the loop is at
  (`binanceOrdersRecord.py:185`) and marks living orders `noExit`. The model
  has it; `OrdersKept` holds with it.
- `makerStopLoss.py:185` rounds each stop: a fifth of six lots is one, five
  stops cover less than 95%, and the batch is replaced every round; a fifth of
  one or two lots is nothing, and the position has no stop. README_EN.md:387
  promises that an unchanged position is left alone. `order_services` has such
  a size (two stops of two lots for a position of five).
- The stops that the web server posts for a trader have ids of the maker's form
  (`trading.py:591`, `:643`, `:658`; `makerStopLoss.py:190`). The maker counts
  them as cover, whatever their price, and cancels them when it posts a batch.

Of the trading router:

- `stop_profit_batch` and `stop_profit_once` cancel the old take-profits before
  the check that refuses the new ones (`trading.py:707`). The position is left
  with none. The model has it (`CheckSize`).
- A call that raises inside `stop_profit_batch` sets `some_order_timeout` and
  then parses the result of the call before, which raises: the answer never
  says that an order timed out.
- `take_open` tests and sets in two steps, and `next_order_id` increases and
  reads in two. Overlapping requests may both open, and may draw one number;
  the exchange refuses the second order of a client id while the first is open,
  but not once it is filled.
- Openings taken are forgotten when the server restarts.

Of the front ends and what is behind them:

- `onChangeAutoCancelOrderTs` (`OtherConfigModal.js:733`) stores the time of
  cancelling under the loss lock's key. The dialog's first mounting uses an
  undeclared `formData`, and raises unless the page happens to have one.
  Restoring from an empty copy writes "undefined" texts, since the test of the
  keys is always passed. `onChangeAutoBuyBnbA` and `B` raise.
- Saves of `config.py` that overlap lose the other section or tear the file.
- The answer to a change of the hot keys is an object that the page parses as
  text. It raises, the page keeps the bindings from before, and a second edit
  without a reload undoes the first.
- In the dialog's table the recommission row gets the server's value of
  `binanceAddressConfigArr` (`OtherConfigModal.js:1074`). The model has it
  (`ServerFieldOf`).
- The uploader's minute figures raise at `webOssUpdate.py:266` and `:347` (a
  text that is no number; a date added to a text), before any file is put. Its
  loop goes on with the other two files. So the board never has figures, and
  asks for them and the records every three seconds instead of every minute.
- The board has no handler for a request that fails and compares no times: a
  late answer for another range replaces the records, until the next look.
- The dashboard's profit and commission of today come from memory that only
  `/get_income_obj` fills (`dashboard.py:37`, `income.py:17`), and no page in
  the repository asks for that: they stay 0.
- An income in a currency other than BNB, USDT and BUSD counts in today's figure
  (`webOssUpdate.py:302`) and not in its day's row (`:505`); one of no symbol
  counts in the row only. The model has both rules.
- An income at exactly midnight is in the row of the day that ends and in the
  figure of the day that begins. One stored more than a day late reaches no
  row.
- In a development build the dashboard asks once and never again: the second
  run of the effect in `usePolling.ts` starts no timer. The list of large
  losses is marked young before it is read, then filled in place; a query that
  raises leaves the old list, or a part of the new, for a minute.
- The replay chart shows the last bar with its final values until the trades
  are there, and for ever if their file fails (`tv_api.js` tests the status of
  the wrong request). A callback that comes while bars are under way is
  dropped (`:447`). The resolution is read once, when the page is loaded:
  another one chosen gets no bars until the page is loaded again.

## 8. What is left out

- Hub: the token, pings, binary frames, and the length of a frame whose time
  is cut short, which no client sends.
- Account: the balance, which takes the same way as the positions under its
  own label; the JSON file and the BNB price, which are output.
- Klines: prices and volumes. Whether a special collector reads is a choice.
- Stops: prices, symbol data and `cancelBinanceOrder`, which is never called.
- Router: prices and quantities; opening and closing with retries; the purchase
  of BNB. A request for stops is not a thread of its own: its posts come one by
  one and any of them may not come to be, which is all that the maker sees of it.
- Records: the fields of an order beyond its progress; the first round for
  MAVUSDT.
- Front ends: layout, wording, themes, kinds of charts and studies; what the
  board would draw of figures if there were any; the dashboard's figures of
  today; `serverUpdateTsConfigArr`, which
  is the time of the last save; parts that no page in the repository uses
  (PROJECT.json names them).

Not modelled, and why:

- Trading strategy and tick collector: the merging of bars and the decisions
  are arithmetic on prices and clocks, and the hazards found there are ones
  the code does nothing about (an order for every tick until the position
  shows; bars that stop after a gap of two minutes). A property of them would
  be a list of exceptions.
- Position risk closes positions with market orders; to StopLoss that is a
  change of a position, which the environment makes at any time.
- Commission, symbol update, machine status: small programs over one table.
  BoardFiles takes the incomes of the first as given at any time, and
  KlineFeed the lists of symbols of the second.
- Reports of the web server, models and migrations, the SDK, the remaining
  legacy programs, tools and scripts keep no state that trading or the pages
  modelled depend on.

## 9. Going on

What would add most next: the collectors' steps leave the hub's invariants
alone, so that `AggCacheCurrent` carries over to KlineFeed by proof; the safety
parts of the liveness arguments as theorems, such as the bound on how far a
board or a store lags behind the requests under way; TradingRouter for openings
and closings with retries; StopLoss and TradingRouter interleaved rather than
side by side, once the checker's cancelling of the router's openings ("wTake"
orders older than 15 s) is to be looked at together with `take_open`.
