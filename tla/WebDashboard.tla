---------------------------- MODULE WebDashboard -----------------------------
(* The dashboard frontend/web-front and the handlers that answer it        *)
(* (web_server/routers/dashboard.py, records.py).  Each store of the page  *)
(* is filled by requests that a timer repeats; requests of one kind may    *)
(* overtake each other.  The handlers are plain functions, so that FastAPI *)
(* runs them in threads; two of them answer from a cache, a third rebuilds *)
(* its list in place, and the summary has a second cache in it, the status *)
(* of the machines.  What the database holds is counted by versions.       *)
(* The summary's figures of today are not part of it: they come from       *)
(* state.income_obj, which only /get_income_obj fills, and the dashboard   *)
(* never asks for that; they stay as they were when the server started.    *)
EXTENDS Naturals

CONSTANTS
    Follow,         \* what is followed: per kind the slots for its requests
    ChartRange,          \* what the charts can show
    DefaultRange,   \* "all"
    MaxVersion,     \* bound: changes of the database
    Slot,           \* bound: requests of one kind under way, one per slot
    MaxFailures     \* bound: requests that fail

\* Summary, profit by symbol, balance records, large losses.  The page asks
\* for the daily income like for the records.
Kind == {"summary", "profit", "position", "bigLoss"}
Cached == {"summary", "profit"}

ASSUME FollowAssumption ==
    \A f \in Follow :
        DOMAIN f \subseteq Kind /\ \A k \in DOMAIN f : f[k] \subseteq Slot /\ f[k] # {}
ASSUME DefaultRangeAssumption == DefaultRange \in ChartRange
ASSUME VersionsAssumption == MaxVersion \in Nat \ {0}

DbVersion == 0 .. MaxVersion

VARIABLES
    slots,          \* per kind followed: the slots for its requests
    db,             \* version of the database
    cache,          \* per kind: version and whether the list is whole
    fresh,          \* per kind: the cache is young enough
    status,         \* version of trade_machine_status_data
    statusFresh,    \* it is young enough
    calls,          \* requests under way
    strict,         \* development build: StrictMode runs effects twice
    polling,        \* kinds whose timer runs
    loading,        \* the page shows nothing but a spinner
    range,          \* what the select of the charts names
    shown,          \* per kind: what the store holds
    failures

stores  == DOMAIN slots
machines == <<status, statusFresh>>
server  == <<db, cache, fresh, machines>>
client  == <<slots, strict, polling, loading, range, shown>>
webVars == <<server, calls, client, failures>>

\* An answer, and in the summary's the status of the machines.
Reading == [version : DbVersion, whole : BOOLEAN, range : ChartRange, status : DbVersion]
NoData == [version |-> 0, whole |-> FALSE, range |-> DefaultRange, status |-> 0]

Call == [kind : Kind, slot : Slot, range : ChartRange, got : Reading,
         pc : {"sent", "read", "fill", "stamped", "status", "answered"}]

WebTypeOK ==
    /\ db \in DbVersion
    /\ slots \in Follow
    /\ cache \in [Kind -> Reading] /\ fresh \in [Kind -> BOOLEAN]
    /\ status \in DbVersion /\ statusFresh \in BOOLEAN
    /\ calls \subseteq Call
    /\ strict \in BOOLEAN /\ loading \in BOOLEAN /\ range \in ChartRange
    /\ polling \subseteq stores
    /\ shown \in [Kind -> Reading]

NewCall(k, s, r) ==
    [kind |-> k, slot |-> s, range |-> r, got |-> NoData, pc |-> "sent"]

\* Mutant of TimersLeft: the cleanup always runs.
TimersLost(kinds) == {}

\* The effect of usePolling asks for everything and starts the timers.  In
\* StrictMode the effect is cleaned up and run again at once; the second
\* time finds mounted.current set and starts none.
TimersLeft(kinds) == IF strict THEN {} ELSE kinds

FirstSlot(k) == CHOOSE s \in slots[k] : TRUE
AtMount == stores \ {"bigLoss"}     \* the others have a table of their own

WebInit ==
    /\ slots \in Follow
    /\ db = 1
    /\ cache = [k \in Kind |-> NoData] /\ fresh = [k \in Kind |-> FALSE]
    /\ status = 0 /\ statusFresh = FALSE
    /\ strict \in BOOLEAN
    /\ polling = TimersLeft(AtMount)
    /\ calls = {NewCall(k, FirstSlot(k), DefaultRange) : k \in AtMount}
    /\ loading = TRUE /\ range = DefaultRange
    /\ shown = [k \in Kind |-> NoData]
    /\ failures = 0

-----------------------------------------------------------------------------
(* The page asks.                                                          *)

Free(k) == {s \in slots[k] : \A c \in calls : c.kind # k \/ c.slot # s}

\* Mutant of RangeNow: the range that was selected when the page was loaded.
RangeAtMount == DefaultRange

\* fetchPositionRecord reads the range when it is called.
RangeNow == range

\* A timer fires.
Poll(k) ==
    /\ k \in polling
    /\ Free(k) # {}
    /\ calls' = calls \cup {NewCall(k, CHOOSE s \in Free(k) : TRUE, RangeNow)}
    /\ UNCHANGED <<server, client, failures>>

\* The select of the charts, which reports changes only.
SetRange(r) ==
    /\ "position" \in stores
    /\ r # range
    /\ Free("position") # {}
    /\ range' = r
    /\ calls' = calls \cup
           {NewCall("position", CHOOSE s \in Free("position") : TRUE, r)}
    /\ UNCHANGED <<server, slots, strict, polling, loading, shown, failures>>

-----------------------------------------------------------------------------
(* The handlers.                                                           *)

Commit ==
    /\ db < MaxVersion
    /\ db' = db + 1
    /\ UNCHANGED <<cache, fresh, machines, calls, client, failures>>

Moves(c, d) == calls' = (calls \ {c}) \cup {d}

Answers(c, reading) ==
    Moves(c, [c EXCEPT !.pc = "answered", !.got = [reading EXCEPT !.range = c.range]])

Read(whole) == [NoData EXCEPT !.version = db, !.whole = whole]

\* get_position_record, and get_day_income as far as this module goes.
AnswerUncached(c) ==
    /\ c.kind \notin Cached \cup {"bigLoss"} /\ c.pc = "sent"
    /\ Answers(c, Read(TRUE))
    /\ UNCHANGED <<server, client, failures>>

\* get_dashboard_summary, get_profit_by_symbol and get_big_loss_trades while
\* the cache is young.
AnswerCached(c) ==
    /\ c.kind \in Cached \cup {"bigLoss"} /\ c.pc = "sent"
    /\ fresh[c.kind]
    /\ Answers(c, cache[c.kind])
    /\ UNCHANGED <<server, client, failures>>

\* The first two read the database, the summary its balances.
ReadAnew(c) ==
    /\ c.kind \in Cached /\ c.pc = "sent"
    /\ ~fresh[c.kind]
    /\ Moves(c, [c EXCEPT !.pc = "read", !.got = Read(TRUE)])
    /\ UNCHANGED <<server, client, failures>>

\* The summary goes on with the machines: it takes the time and then reads,
\* so that other threads meanwhile answer with the status that was there.
StampStatus(c) ==
    /\ c.kind = "summary" /\ c.pc = "read"
    /\ ~statusFresh
    /\ statusFresh' = TRUE
    /\ Moves(c, [c EXCEPT !.pc = "stamped"])
    /\ UNCHANGED <<db, cache, fresh, status, client, failures>>

ReadStatus(c) ==
    /\ c.pc = "stamped"
    /\ status' = db
    /\ Moves(c, [c EXCEPT !.pc = "status"])
    /\ UNCHANGED <<db, cache, fresh, statusFresh, client, failures>>

\* Then they replace the cache.
WithStatus(c) ==
    IF c.kind = "summary" THEN [c.got EXCEPT !.status = status] ELSE c.got

ReplaceCache(c) ==
    /\ c.kind \in Cached
    /\ \/ c.pc = "status"
       \/ c.pc = "read" /\ (c.kind = "summary" => statusFresh)
    /\ cache' = [cache EXCEPT ![c.kind] = WithStatus(c)]
    /\ fresh' = [fresh EXCEPT ![c.kind] = TRUE]
    /\ Answers(c, WithStatus(c))
    /\ UNCHANGED <<db, machines, client, failures>>

\* The third takes the time first, so that other threads answer with what
\* there is: the old list, and while it is filled again a part of the new.
ReadLosses(c) ==
    /\ c.kind = "bigLoss" /\ c.pc = "sent"
    /\ ~fresh["bigLoss"]
    /\ fresh' = [fresh EXCEPT !["bigLoss"] = TRUE]
    /\ Moves(c, [c EXCEPT !.pc = "read", !.got = Read(FALSE)])
    /\ UNCHANGED <<db, cache, machines, client, failures>>

ClearList(c) ==
    /\ c.kind = "bigLoss" /\ c.pc = "read"
    /\ cache' = [cache EXCEPT !["bigLoss"] = c.got]
    /\ Moves(c, [c EXCEPT !.pc = "fill"])
    /\ UNCHANGED <<db, fresh, machines, client, failures>>

FillList(c) ==
    /\ c.kind = "bigLoss" /\ c.pc = "fill"
    /\ cache' = [cache EXCEPT !["bigLoss"].whole = TRUE]
    /\ Answers(c, cache'["bigLoss"])
    /\ UNCHANGED <<db, fresh, machines, client, failures>>

\* 10 seconds, five minutes and one minute have passed; no request takes
\* that long.  The status of the machines is read again after a minute.
CacheAges(k) ==
    /\ k \in stores /\ fresh[k]
    /\ \A c \in calls : c.kind # k \/ c.pc \in {"sent", "answered"}
    /\ fresh' = [fresh EXCEPT ![k] = FALSE]
    /\ UNCHANGED <<db, cache, machines, calls, client, failures>>

StatusAges ==
    /\ statusFresh
    /\ \A c \in calls : c.pc # "stamped"
    /\ statusFresh' = FALSE
    /\ UNCHANGED <<db, cache, fresh, status, calls, client, failures>>

-----------------------------------------------------------------------------
(* Answers.                                                                *)

\* The first settled request for the summary ends the spinner; the table of
\* large losses appears, asks and starts its timer.
SummarySettled(left) ==
    IF loading /\ "bigLoss" \in stores
    THEN /\ calls' = left \cup {NewCall("bigLoss", FirstSlot("bigLoss"), DefaultRange)}
         /\ polling' = polling \cup TimersLeft({"bigLoss"})
    ELSE calls' = left /\ UNCHANGED polling

Settled(c) ==
    IF c.kind = "summary"
    THEN SummarySettled(calls \ {c}) /\ loading' = FALSE
    ELSE calls' = calls \ {c} /\ UNCHANGED <<polling, loading>>

\* The first request for a summary that is not followed is settled.
SpinnerEnds ==
    /\ "summary" \notin stores /\ loading
    /\ SummarySettled(calls) /\ loading' = FALSE
    /\ UNCHANGED <<server, slots, strict, range, shown, failures>>

Arrives(c) ==
    /\ c.pc = "answered"
    /\ shown' = [shown EXCEPT ![c.kind] = c.got]
    /\ Settled(c)
    /\ UNCHANGED <<server, slots, strict, range, failures>>

\* The server cannot be reached, or a query or a row raises wherever the
\* handler has come to, or the answer is lost.  What the handler has done by
\* then stays done: the time of the large losses or of the machines is taken
\* although their old contents remain, or a part of the list.  Every store
\* catches a failure and keeps what it has.
Fails(c) ==
    /\ failures < MaxFailures
    /\ failures' = failures + 1
    /\ Settled(c)
    /\ UNCHANGED <<server, slots, strict, range, shown>>

Handles(c) ==
    AnswerUncached(c) \/ AnswerCached(c)
    \/ ReadAnew(c) \/ StampStatus(c) \/ ReadStatus(c) \/ ReplaceCache(c)
    \/ ReadLosses(c) \/ ClearList(c) \/ FillList(c)

WebNext ==
    \/ \E k \in stores : Poll(k) \/ CacheAges(k)
    \/ \E r \in ChartRange : SetRange(r)
    \/ Commit \/ StatusAges \/ SpinnerEnds
    \/ \E c \in calls : Handles(c) \/ Arrives(c) \/ Fails(c)

\* The call in a slot is handled or its answer arrives.
Handled(k, s) ==
    \E c \in calls : c.kind = k /\ c.slot = s /\ (Handles(c) \/ Arrives(c))

\* The browser runs its timers, caches age, and each request is answered
\* some time.
WebFairness ==
    /\ WF_webVars(StatusAges) /\ WF_webVars(SpinnerEnds)
    /\ \A k \in Kind :
           /\ WF_webVars(Poll(k))
           /\ WF_webVars(CacheAges(k))
           /\ \A s \in Slot : WF_webVars(Handled(k, s))

WebSpec == WebInit /\ [][WebNext]_webVars /\ WebFairness

-----------------------------------------------------------------------------
(* Properties.                                                             *)

\* In a production build, once the database rests, every store shows again
\* and again all of what it holds, and the summary the machines as they are,
\* wherever requests failed before, however answers overtake each other and
\* in whatever order threads rebuild the caches.  (Not for good: an answer
\* from a list that is being filled again shows a part of it until the
\* next.)  A development build asks only once, and the summary's figures of
\* today, which are not read from the database, follow nothing.
DashboardFollows ==
    []~strict /\ <>[](db = MaxVersion) =>
        []<>(\A k \in stores :
                /\ shown[k].version = MaxVersion /\ shown[k].whole
                /\ k = "summary" => shown[k].status = MaxVersion)

\* In a production build the charts come to show the range that the select
\* names and stay with it once the user leaves it alone: an answer for an
\* earlier range that comes late is replaced when the timer asks again.
RangeFollows ==
    []~strict /\ []("position" \in stores) /\ <>[][range' = range]_range =>
        <>[](shown["position"].range = range)
=============================================================================
