---------------------------- MODULE AccountFeed -----------------------------
(***************************************************************************)
(* How the account's positions reach the hub.  Two services write the      *)
(* hub's position slot (HubState), each over its own connection:           *)
(*                                                                         *)
(*   getBinancePosition.py polls the account over REST and labels what it  *)
(*   read with the newest update time among the OPEN positions;            *)
(*   wsPosition.py keeps a copy of the positions, merges the exchange's    *)
(*   ACCOUNT_UPDATE events into it and labels the copy with the event's    *)
(*   time; its handler starts a background thread whenever the last one    *)
(*   was started more than a second ago, the first message's always, and   *)
(*   the thread replaces the copy by a REST reading.                       *)
(*                                                                         *)
(* The exchange's clock counts the changes of the account: a change        *)
(* happens at a time of its own, the update time of the position and the   *)
(* time T of its event.  The exchange, its REST interface and its stream   *)
(* are external.                                                           *)
(***************************************************************************)
EXTENDS Integers, Sequences, FiniteSets

CONSTANTS
    Symbol,          \* traded symbols
    Amount,          \* position sizes, 0 for no position
    MaxChanges,      \* bound: changes of the account
    MaxMissed,       \* bound: events and frames that are lost
    Thread,          \* the handler's refresh threads; bound: how many at a time
    MaxInFlight,     \* bound: frames of one writer on their way to the hub,
                     \* the poller's reading included
    MaxHubRestarts   \* bound: restarts of the hub

ASSUME AmountAssumption == Amount \subseteq Nat /\ 0 \in Amount
ASSUME FeedBoundsAssumption ==
    /\ MaxChanges \in Nat /\ MaxMissed \in Nat /\ MaxInFlight \in Nat
    /\ MaxHubRestarts \in Nat

Positions == [Symbol -> Amount]
Flat == [s \in Symbol |-> 0]

Hub == INSTANCE HubState
       WITH Data <- Positions, Empty <- Flat, Ts <- Nat,
            Radix <- 10, CountFloor <- 100

Frame == Hub!TimestampedData

VARIABLES
    clock,       \* changes so far: the exchange's time
    account,     \* the positions at the exchange
    changed,     \* changed[s]: update time of s at the exchange
    events,      \* ACCOUNT_UPDATE events not yet handled by wsPosition
    connected,   \* the stream is connected
    missed,      \* events and frames lost so far
    reading,     \* what the poller has read and not yet sent: a set
    known,       \* POSITION_ARR of wsPosition
    young,       \* the last refresh was started less than a second ago
    asked,       \* the threads whose REST call is under way
    refresh,     \* the readings that threads have not stored yet
    announcing,  \* time of the event merged and not yet announced, or 0
    merged,      \* history: time of the newest event merged, or 0
    overtaken,   \* history: a reading was stored over a newer event
    toHub,       \* toHub[w]: frames of a writer on their way
    slot,        \* the hub's position slot
    hubRestarts

exchange == <<clock, account, changed>>
poller   == <<reading>>
stream   == <<events, connected>>
threads  == <<young, asked, refresh>>
history  == <<merged, overtaken>>
copy     == <<known, threads, announcing, history>>
hub      == <<slot, hubRestarts>>
feedVars == <<exchange, stream, missed, poller, copy, toHub, hub>>

Writers == {"poller", "stream"}

Snapshot == [amt |-> account, updateTime |-> changed]

Snapshots == [amt : Positions, updateTime : [Symbol -> Nat]]

Reading == [thread : Thread, amt : Positions, updateTime : [Symbol -> Nat]]

Event == [T : Nat, s : Symbol, amt : Amount]

TypeOK ==
    /\ clock \in Nat
    /\ account \in Positions
    /\ changed \in [Symbol -> Nat]
    /\ events \in Seq(Event)
    /\ connected \in BOOLEAN
    /\ missed \in Nat
    /\ reading \subseteq Frame
    /\ known \in Snapshots
    /\ young \in BOOLEAN
    /\ asked \subseteq Thread
    /\ refresh \subseteq Reading
    /\ announcing \in Nat
    /\ merged \in Nat
    /\ overtaken \in BOOLEAN
    /\ toHub \in [Writers -> Seq(Frame)]
    /\ slot \in Frame
    /\ hubRestarts \in Nat

\* Both services are up, wsPosition has read the account once and is about
\* to connect.
Init ==
    /\ clock = 0
    /\ account = Flat
    /\ changed = [s \in Symbol |-> 0]
    /\ events = <<>>
    /\ connected = FALSE
    /\ missed = 0
    /\ reading = {}
    /\ known = Snapshot
    /\ young = FALSE
    /\ asked = {}
    /\ refresh = {}
    /\ announcing = 0
    /\ merged = 0
    /\ overtaken = FALSE
    /\ toHub = [w \in Writers |-> <<>>]
    /\ slot = Hub!NewSlot
    /\ hubRestarts = 0

-----------------------------------------------------------------------------
(* The exchange.                                                           *)

\* A position is opened, changed or closed; the event is lost when nobody
\* is connected.
Change(s, amt) ==
    /\ clock < MaxChanges
    /\ account[s] # amt
    /\ clock' = clock + 1
    /\ account' = [account EXCEPT ![s] = amt]
    /\ changed' = [changed EXCEPT ![s] = clock']
    /\ IF connected
       THEN /\ events' = Append(events, [T |-> clock', s |-> s, amt |-> amt])
            /\ missed' = missed
       ELSE /\ missed < MaxMissed
            /\ missed' = missed + 1
            /\ events' = events
    /\ UNCHANGED <<connected, poller, copy, toHub, hub>>

\* The connection breaks or its listen key expires: pending events are lost.
StreamBreaks ==
    /\ connected
    /\ missed + Len(events) + 1 <= MaxMissed
    /\ connected' = FALSE
    /\ events' = <<>>
    /\ missed' = missed + Len(events) + 1
    /\ UNCHANGED <<exchange, poller, copy, toHub, hub>>

-----------------------------------------------------------------------------
(* getBinancePosition.py.                                                  *)

OpenIn(p) == {s \in DOMAIN p : p[s] # 0}

\* positionUpdateTs: the newest update time of an open position.
IsNewestOpen(ts, snap) ==
    IF OpenIn(snap.amt) = {}
    THEN ts = 0
    ELSE /\ \E s \in OpenIn(snap.amt) : ts = snap.updateTime[s]
         /\ \A s \in OpenIn(snap.amt) : snap.updateTime[s] <= ts

PollReads ==
    /\ reading = {}
    /\ Len(toHub["poller"]) < MaxInFlight
    /\ \E ts \in 0 .. clock :
        /\ IsNewestOpen(ts, Snapshot)
        /\ reading' = {[update_ts |-> ts, data |-> account]}
    /\ UNCHANGED <<exchange, stream, missed, copy, toHub, hub>>

\* Mutant of PollSends: labelled with the time of sending.
PollSendsNow ==
    \E r \in reading :
        /\ reading' = {}
        /\ IF r.update_ts > 0
           THEN toHub' = [toHub EXCEPT !["poller"] =
                             Append(@, [r EXCEPT !.update_ts = clock])]
           ELSE UNCHANGED toHub
        /\ UNCHANGED <<exchange, stream, missed, copy, hub>>

\* A reading without open positions has the label 0 and is not sent.
PollSends ==
    \E r \in reading :
        /\ reading' = {}
        /\ IF r.update_ts > 0
           THEN toHub' = [toHub EXCEPT !["poller"] = Append(@, r)]
           ELSE UNCHANGED toHub
        /\ UNCHANGED <<exchange, stream, missed, copy, hub>>

-----------------------------------------------------------------------------
(* wsPosition.py.                                                          *)

\* The main loop fetches a listen key and connects; nothing is read again.
StreamConnects ==
    /\ ~connected
    /\ connected' = TRUE
    /\ UNCHANGED <<exchange, events, missed, poller, copy, toHub, hub>>

\* The threads that are not at work.
IdleThread == Thread \ (asked \cup {r.thread : r \in refresh})

\* LAST_UPDATE_POSITION_TS: on_message starts a refresh thread unless it
\* started one less than a second ago.  It starts at 0, so the first message
\* always starts one.
StartRefresh ==
    /\ young' = TRUE
    /\ IF young
       THEN asked' = asked
       ELSE \E t \in IdleThread : asked' = asked \cup {t}
    /\ UNCHANGED refresh

\* The stream's clock: the last refresh is more than a second old.
SecondPasses ==
    /\ young
    /\ IdleThread # {}
    /\ young' = FALSE
    /\ UNCHANGED <<exchange, stream, missed, poller, known, asked, refresh,
                   announcing, history, toHub, hub>>

\* on_message of any other message of the stream (an order's update, a
\* margin call): the refresh is all it does.
OnOtherMessage ==
    /\ connected
    /\ announcing = 0
    /\ StartRefresh
    /\ UNCHANGED <<exchange, stream, missed, poller, known, announcing,
                   history, toHub, hub>>

\* Mutant of OnMessage: an event that closes a position is not merged.
OnMessageOpen ==
    /\ events # <<>>
    /\ announcing = 0
    /\ StartRefresh
    /\ LET e == Head(events) IN
        /\ known' = IF e.T > known.updateTime[e.s] /\ e.amt # 0
                    THEN [known EXCEPT !.amt[e.s] = e.amt]
                    ELSE known
        /\ announcing' = e.T
        /\ merged' = e.T
    /\ events' = Tail(events)
    /\ UNCHANGED <<exchange, connected, missed, poller, overtaken, toHub, hub>>

\* on_message merges an ACCOUNT_UPDATE: the amount of a position last read
\* before the event; its updateTime stays.
OnMessage ==
    /\ events # <<>>
    /\ announcing = 0
    /\ StartRefresh
    /\ LET e == Head(events) IN
        /\ known' = IF e.T > known.updateTime[e.s]
                    THEN [known EXCEPT !.amt[e.s] = e.amt]
                    ELSE known
        /\ announcing' = e.T
        /\ merged' = e.T
    /\ events' = Tail(events)
    /\ UNCHANGED <<exchange, connected, missed, poller, overtaken, toHub, hub>>

\* Mutant of Announces: like the poller, silent without open positions.
AnnouncesOpen ==
    /\ announcing # 0
    /\ Len(toHub["stream"]) < MaxInFlight
    /\ toHub' = [toHub EXCEPT !["stream"] =
                    IF OpenIn(known.amt) = {} THEN @
                    ELSE Append(@, [update_ts |-> announcing, data |-> known.amt])]
    /\ announcing' = 0
    /\ UNCHANGED <<exchange, stream, missed, poller, known, threads,
                   history, hub>>

\* The rest of on_message: the whole copy, labelled with the event's time.
Announces ==
    /\ announcing # 0
    /\ Len(toHub["stream"]) < MaxInFlight
    /\ toHub' = [toHub EXCEPT !["stream"] =
                    Append(@, [update_ts |-> announcing, data |-> known.amt])]
    /\ announcing' = 0
    /\ UNCHANGED <<exchange, stream, missed, poller, known, threads,
                   history, hub>>

ReadingOf(t) == [thread |-> t, amt |-> account, updateTime |-> changed]

\* Mutant of RefreshReads: the answer without its update times.
RefreshReadsBare ==
    \E t \in asked :
        /\ asked' = asked \ {t}
        /\ refresh' = refresh \cup {[thread |-> t, amt |-> account]}
        /\ UNCHANGED <<exchange, stream, missed, poller, known, young,
                       announcing, history, toHub, hub>>

\* A thread's REST call returns what the account is at that moment.
RefreshReads ==
    \E t \in asked :
        /\ asked' = asked \ {t}
        /\ refresh' = refresh \cup {ReadingOf(t)}
        /\ UNCHANGED <<exchange, stream, missed, poller, known, young,
                       announcing, history, toHub, hub>>

\* A copy that was read when the event of time T had happened, or later.
Reaches(c, T) == T = 0 \/ \E s \in Symbol : c.updateTime[s] >= T

\* A thread stores it: a list is compared with a length, so the branch
\* that would keep newer entries is never taken.
RefreshStores ==
    \E r \in refresh :
        /\ known' = [amt |-> r.amt, updateTime |-> r.updateTime]
        /\ refresh' = refresh \ {r}
        /\ overtaken' = (overtaken \/ ~Reaches(r, merged))
        /\ UNCHANGED <<exchange, stream, missed, poller, young, asked,
                       announcing, merged, toHub, hub>>

\* The REST call fails, is answered with a code, or raises.
RefreshFails ==
    \E t \in asked :
        /\ asked' = asked \ {t}
        /\ UNCHANGED <<exchange, stream, missed, poller, known, young,
                       refresh, announcing, history, toHub, hub>>

-----------------------------------------------------------------------------
(* The connections to the hub, and the hub.                                *)

\* send_to_ws_a gives up after one reconnection.
FrameLost(w) ==
    /\ toHub[w] # <<>>
    /\ missed < MaxMissed
    /\ missed' = missed + 1
    /\ toHub' = [toHub EXCEPT ![w] = Tail(@)]
    /\ UNCHANGED <<exchange, stream, poller, copy, hub>>

HubTakes(w) ==
    /\ toHub[w] # <<>>
    /\ slot' = Hub!TryUpdate(slot, Head(toHub[w]).update_ts, Head(toHub[w]).data)
    /\ toHub' = [toHub EXCEPT ![w] = Tail(@)]
    /\ UNCHANGED <<exchange, stream, missed, poller, copy, hubRestarts>>

HubRestarts ==
    /\ hubRestarts < MaxHubRestarts
    /\ hubRestarts' = hubRestarts + 1
    /\ slot' = Hub!NewSlot
    /\ toHub' = [w \in Writers |-> <<>>]
    /\ UNCHANGED <<exchange, stream, missed, poller, copy>>

-----------------------------------------------------------------------------
Next ==
    \/ \E s \in Symbol, amt \in Amount : Change(s, amt)
    \/ StreamBreaks \/ StreamConnects
    \/ PollReads \/ PollSends
    \/ OnMessage \/ Announces \/ OnOtherMessage \/ SecondPasses
    \/ RefreshReads \/ RefreshStores \/ RefreshFails
    \/ \E w \in Writers : FrameLost(w) \/ HubTakes(w)
    \/ HubRestarts

Spec == Init /\ [][Next]_feedVars

\* The poller loops for ever, wsPosition's main loop reconnects, its
\* callbacks and threads run, and the hub serves both connections.  A poll
\* that fails changes nothing and is left out: the loop tries again.
Fairness ==
    /\ WF_feedVars(PollReads) /\ WF_feedVars(PollSends)
    /\ WF_feedVars(StreamConnects)
    /\ WF_feedVars(OnMessage) /\ WF_feedVars(Announces)
    /\ WF_feedVars(RefreshReads) /\ WF_feedVars(RefreshStores)
    /\ \A w \in Writers : WF_feedVars(HubTakes(w))

FairSpec == Spec /\ Fairness

-----------------------------------------------------------------------------
(* Properties.                                                             *)

PollFrames == reading \cup {toHub["poller"][k] : k \in DOMAIN toHub["poller"]}

\* What the poller labels with the time of the account's newest change is
\* the account as it still is, however long the reading has been on its
\* way: a label never promises more than its reading (getBinancePosition).
LabelsHonest ==
    \A f \in PollFrames : f.update_ts = clock /\ clock > 0 => f.data = account

\* While no event or frame was lost and no thread stored a reading older
\* than an event already merged, the label of the newest change is only ever
\* shown with the account as it is: the events that on_message merges one by
\* one into wsPosition's copy, before, between and after the readings its
\* threads put in the copy's place, add up to the account, announced late
\* and accepted by the hub next to the poller's frames or not.
NewestShownRight ==
    missed = 0 /\ ~overtaken /\ clock > 0 /\ slot.update_ts = clock
        => slot.data = account

-----------------------------------------------------------------------------
(* Why NewestShownRight holds: its strengthening, proved inductive in      *)
(* AccountFeedProofs.                                                      *)

\* Nothing was lost, and no event merged was undone by an older reading.
Undisturbed == missed = 0 /\ ~overtaken

\* A label up to now, and the account with the label of now.
Honest(f) == f.update_ts <= clock /\ (f.update_ts = clock /\ clock > 0 => f.data = account)

\* Labels grow along what is still to be announced.
EventsOrdered ==
    /\ merged <= clock
    /\ announcing \in {0, merged}
    /\ \A k \in DOMAIN events : merged < events[k].T /\ events[k].T <= clock
    /\ \A j, k \in DOMAIN events : j < k => events[j].T < events[k].T

\* The pending events that on_message would merge into the copy c.
Merges(c, k) == events[k].T > c.updateTime[events[k].s]

\* The copy c and the events still to be merged into it add up to the account.
CopyComplete(c) ==
    \A s \in Symbol :
        \/ /\ c.amt[s] = account[s]
           /\ \A k \in DOMAIN events : events[k].s = s => ~Merges(c, k)
        \/ \E k \in DOMAIN events :
            /\ events[k].s = s /\ Merges(c, k) /\ events[k].amt = account[s]
            /\ \A j \in DOMAIN events : j > k => events[j].s # s

\* Update times are those of changes that have happened, each reported by
\* its event, and a copy that lacks a pending event was read before it.
TimesRight(c) ==
    /\ \A s \in Symbol : c.updateTime[s] <= clock
    /\ \A k \in DOMAIN events : Merges(c, k) =>
            \A s \in Symbol : c.updateTime[s] < events[k].T

StreamGood ==
    /\ EventsOrdered
    /\ \A s \in Symbol : changed[s] <= clock
    /\ \A k \in DOMAIN events : events[k].T <= changed[events[k].s]
    /\ TimesRight(known) /\ CopyComplete(known)
    /\ \A r \in refresh : TimesRight(r) /\ (Reaches(r, merged) => CopyComplete(r))
    /\ \A k \in DOMAIN toHub["stream"] : Honest(toHub["stream"][k])
    /\ Honest(slot)

StreamInv == Undisturbed => StreamGood

PollerInv == \A f \in PollFrames : Honest(f)

IInv == TypeOK /\ PollerInv /\ StreamInv

-----------------------------------------------------------------------------
NewestIsOpen == \E s \in Symbol : account[s] # 0 /\ changed[s] = clock

\* When the newest change opened or resized a position and the account
\* rests, the hub comes to show exactly the account, whatever was lost,
\* merged late or refreshed in between: the poller repairs it.
LatestOpenSettles ==
    <>[]NewestIsOpen => <>[](slot.data = account)

\* As long as nothing is lost, no reading is stored over a newer event and
\* the hub stays up, the hub comes to show the account once it rests, whether
\* its newest change opened or closed a position: the stream reports the
\* closes that the poller cannot see, refreshed as it goes.  (A restart makes
\* room for a poller's frame from before a close.)
FollowsUndisturbed ==
    [](Undisturbed /\ hubRestarts = 0) => <>[](slot.data = account)

\* README_EN.md: the latest information of the position feeds is selected.
\* So, as long as no event and no frame is lost, the hub comes to show the
\* account once it rests.
HubFollowsAccount ==
    [](missed = 0) => <>[](slot.data = account)
=============================================================================
