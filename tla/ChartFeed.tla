------------------------------ MODULE ChartFeed ------------------------------
(* The replay chart of the legacy page: tradingview_extra_js/tv_api.js,     *)
(* datafees.js and dataUpdater.js between the charting library and a file   *)
(* of bars and one of trades.  A timer moves the replay's clock and hands   *)
(* the bars up to it to the library's subscribers.                          *)
(*                                                                          *)
(* A bar is its place in the file; bar i begins at i * TicksPerBar.  What   *)
(* is known of a bar is the clock up to which its trades are counted in.    *)
(* The library is external: it asks for bars when it shows a resolution,    *)
(* and subscribes to a resolution once it has been given bars for it.       *)
EXTENDS Naturals, FiniteSets

CONSTANTS
    Resolution,     \* the resolutions the buttons offer
    TicksPerBar,    \* a bar of 60 s, ticks of 1 s
    Start,          \* klineNowTs when the page is loaded
    LastBar,        \* bound: bars in the file, from 0
    MaxFeedLoads    \* bound: loads of the page

\* The replay begins after the first bar of the file has begun and before the
\* last one is over.
ASSUME FeedAssumption ==
    /\ TicksPerBar \in Nat \ {0} /\ LastBar \in Nat
    /\ Start \in Nat \ {0} /\ Start <= (LastBar + 1) * TicksPerBar
    /\ IsFiniteSet(Resolution) /\ MaxFeedLoads \in Nat

Bar == 0 .. LastBar
End(i) == (i + 1) * TicksPerBar
MaxClock == End(LastBar)
Clock == 0 .. MaxClock

VARIABLES
    stored,         \* localStorage "tradingview.resolution"
    interval,       \* that.interval: what was stored when the page was loaded
    clock,          \* that.klineNowTs; it stops where the file ends
    traded,         \* tradeRecordArr is loaded
    barCache,          \* cacheData of the interval: bars and what is known of them
    busy,           \* cacheData[... "state"]: resolutions whose bars are asked for
    klines,         \* requests for the bars under way
    trades,         \* requests for the trades under way
    running,        \* requestCompleteDataArr is loaded and the timer runs
    subscribers,    \* per subscribed resolution: lastBarTime
    pending,        \* requestsPending
    resolution,     \* what the library shows
    waiting,        \* it waits for bars: its callback is kept, or was dropped
    chart,          \* the bars it has
    feedLoads

api      == <<interval, clock, traded, barCache, busy, running>>
requests == <<klines, trades>>
updater  == <<subscribers, pending>>
library  == <<resolution, waiting, chart>>
feedVars == <<stored, api, requests, updater, library, feedLoads>>

NoBars == [i \in {} |-> 0]
Never == LastBar + 1            \* lastBarTime is null
BarsUpTo(n) == {i \in Bar : i <= n}
Newest(bars) == Cardinality(DOMAIN bars) - 1

FeedTypeOK ==
    /\ stored \in Resolution /\ interval \in Resolution /\ resolution \in Resolution
    /\ clock \in Clock
    /\ traded \in BOOLEAN /\ running \in BOOLEAN
    /\ \A bars \in {barCache, chart} : \A i \in DOMAIN bars : i \in Bar /\ bars[i] \in Clock
    /\ busy \subseteq Resolution
    /\ DOMAIN subscribers \subseteq Resolution
    /\ \A r \in DOMAIN subscribers : subscribers[r] \in Bar \cup {Never}
    /\ pending \in 0 .. Cardinality(Resolution)
    /\ waiting \in {"no", "kept", "dropped"}

\* The page is loaded, and the library at once asks for the first bars.
FeedInit ==
    /\ stored \in Resolution
    /\ interval = stored /\ resolution = stored
    /\ busy = {stored}
    /\ clock = Start
    /\ traded = FALSE /\ running = FALSE
    /\ barCache = NoBars /\ chart = NoBars
    /\ klines = 1 /\ trades = 0
    /\ subscribers = NoBars /\ pending = 0
    /\ waiting = "kept"
    /\ feedLoads = 1

-----------------------------------------------------------------------------
(* The library asks for bars and subscribes.                               *)

\* getBars for a resolution.  Bars are kept for the interval only.
AskFor(r) ==
    IF r \in busy
    THEN /\ waiting' = "dropped" /\ chart' = NoBars
         /\ UNCHANGED <<busy, klines>>
    ELSE IF r = interval /\ barCache # NoBars
    THEN /\ waiting' = "no" /\ chart' = barCache
         /\ UNCHANGED <<busy, klines>>
    ELSE /\ waiting' = "kept" /\ chart' = NoBars
         /\ busy' = busy \cup {r} /\ klines' = klines + 1

\* A button: the choice is stored, the library shows another resolution.
ChooseResolution(r) ==
    /\ r # resolution
    /\ stored' = r /\ resolution' = r
    /\ AskFor(r)
    /\ UNCHANGED <<interval, clock, traded, barCache, running, trades, updater,
                   feedLoads>>

Subscribe ==
    /\ waiting = "no"
    /\ resolution \notin DOMAIN subscribers
    /\ subscribers' = [r \in DOMAIN subscribers \cup {resolution} |->
           IF r = resolution THEN Never ELSE subscribers[r]]
    /\ UNCHANGED <<stored, api, requests, pending, library, feedLoads>>

Unsubscribe(r) ==
    /\ r \in DOMAIN subscribers /\ r # resolution
    /\ subscribers' = [q \in DOMAIN subscribers \ {r} |-> subscribers[q]]
    /\ UNCHANGED <<stored, api, requests, pending, library, feedLoads>>

-----------------------------------------------------------------------------
(* Files arrive.                                                           *)

\* Mutant of HistoryUntil: the whole file.
WholeFile(now) == Bar

\* The bars onMessage gives to the library: those that have begun.
HistoryUntil(now) == {i \in Bar : i * TicksPerBar < now}

\* Mutant of BusyAfterLoad: the mark stays.
BusyStill == busy

\* onMessage takes back the mark of the interval only.
BusyAfterLoad == busy \ {interval}

\* onMessage.  It calls the callback of the interval, whichever resolution
\* the file was asked for; a chart that waits for a callback that was
\* dropped may or may not take what the earlier one is given.
KlinesArrive ==
    /\ klines > 0
    /\ klines' = klines - 1 /\ trades' = trades + 1
    /\ LET list == [i \in HistoryUntil(clock) |-> End(i)]
       IN  /\ barCache' = IF barCache = NoBars THEN list ELSE barCache
           /\ IF resolution = interval /\ waiting # "no"
              THEN \/ chart' = list /\ waiting' = "no"
                   \/ waiting = "dropped" /\ UNCHANGED <<chart, waiting>>
              ELSE UNCHANGED <<chart, waiting>>
    /\ busy' = BusyAfterLoad
    /\ running' = TRUE
    /\ UNCHANGED <<stored, interval, clock, traded, updater, resolution, feedLoads>>

TradesArrive ==
    /\ trades > 0
    /\ trades' = trades - 1
    /\ traded' = TRUE
    /\ UNCHANGED <<stored, interval, clock, barCache, busy, running, klines, updater,
                   library, feedLoads>>

\* There is no handler for a file that cannot be read.
FileMissing ==
    /\ \/ klines > 0 /\ klines' = klines - 1 /\ UNCHANGED trades
       \/ trades > 0 /\ trades' = trades - 1 /\ UNCHANGED klines
    /\ UNCHANGED <<stored, api, updater, library, feedLoads>>

-----------------------------------------------------------------------------
(* The timer.                                                              *)

\* The bars up to the clock; the trades until now make the last one, as
\* soon as they are loaded.
BarsAt(now) ==
    LET last == IF now >= MaxClock THEN LastBar ELSE now \div TicksPerBar
    IN  [i \in BarsUpTo(last) |->
            IF i = last /\ traded /\ now < End(i) THEN now ELSE End(i)]

\* Mutant of Emitted: the bar before a new one is not given again.
EmittedLast(last, bars) == {Newest(bars)}

\* onSubscriberDataReceived: the last bar, before it the one that it follows.
Emitted(last, bars) ==
    IF last # Never /\ last < Newest(bars)
    THEN {Newest(bars) - 1, Newest(bars)} ELSE {Newest(bars)}

\* getBars answers a subscriber at once, or never.
Answered(r) == r = interval /\ r \notin busy

UpdateData(bars) ==
    IF pending # 0
    THEN UNCHANGED <<updater, chart>>
    ELSE LET heard == {r \in DOMAIN subscribers : Answered(r)}
         IN  /\ pending' = Cardinality(DOMAIN subscribers \ heard)
             /\ subscribers' = [r \in DOMAIN subscribers |->
                    IF r \in heard THEN Newest(bars) ELSE subscribers[r]]
             /\ chart' =
                    IF resolution \in heard /\ waiting = "no"
                    THEN LET new == Emitted(subscribers[resolution], bars)
                         IN  [i \in DOMAIN chart \cup new |->
                                 IF i \in new THEN bars[i] ELSE chart[i]]
                    ELSE chart

Tick ==
    /\ running
    /\ clock' = IF clock < MaxClock THEN clock + 1 ELSE clock
    /\ barCache' = BarsAt(clock)
    /\ UpdateData(BarsAt(clock))
    /\ UNCHANGED <<stored, interval, traded, busy, running, requests, resolution,
                   waiting, feedLoads>>

\* The page is loaded again.
FeedReload ==
    /\ feedLoads < MaxFeedLoads
    /\ feedLoads' = feedLoads + 1
    /\ interval' = stored /\ resolution' = stored
    /\ busy' = {stored}
    /\ clock' = Start
    /\ traded' = FALSE /\ running' = FALSE
    /\ barCache' = NoBars /\ chart' = NoBars
    /\ klines' = 1 /\ trades' = 0
    /\ subscribers' = NoBars /\ pending' = 0
    /\ waiting' = "kept"
    /\ UNCHANGED stored

FeedNext ==
    \/ \E r \in Resolution : ChooseResolution(r) \/ Unsubscribe(r)
    \/ Subscribe \/ KlinesArrive \/ TradesArrive \/ FileMissing \/ Tick \/ FeedReload

\* The browser runs the timer.
FeedFairness == WF_feedVars(Tick)

FeedSpec == FeedInit /\ [][FeedNext]_feedVars /\ FeedFairness

-----------------------------------------------------------------------------
(* Properties.                                                             *)

\* The chart never has a bar that has not begun yet, whichever file arrives
\* when and for whichever resolution.  (The last bar can show its end too
\* early: until the trades are loaded, it is the one of the file.)
NoFutureBar == \A i \in DOMAIN chart : i * TicksPerBar <= clock

\* When the chart has followed a bar and is given a later one, it is the
\* next, and the bar it followed has got all of its trades.
NothingSkipped ==
    [][ LET r == resolution IN
        r \in DOMAIN subscribers /\ r \in DOMAIN subscribers' /\ waiting = "no" =>
            \/ subscribers[r] = Never
            \/ subscribers'[r] = subscribers[r]
            \/ /\ subscribers'[r] = subscribers[r] + 1
               /\ chart'[subscribers[r]] = End(subscribers[r]) ]_feedVars

ChartFollows == waiting = "no" /\ resolution \in DOMAIN subscribers

\* A chart that has subscribed comes to show the last bar, whatever was
\* chosen or lost before, unless it is unsubscribed or the page is left.
ReplayGoesOn == ChartFollows ~> ~ChartFollows \/ LastBar \in DOMAIN chart
=============================================================================
