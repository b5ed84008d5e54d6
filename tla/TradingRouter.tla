---------------------------- MODULE TradingRouter ----------------------------
(* web_server/routers/trading.py for one symbol: openings that traders      *)
(* report and may take once (take_open, end_open) and the take-profit       *)
(* orders, which each request replaces (stop_profit_batch and _once).  The  *)
(* handlers are plain functions, so that FastAPI runs them in requests that  *)
(* share the state; the exchange may leave any call without an answer.      *)
(* Prices and quantities are left out: a request is its number of orders.   *)
EXTENDS Naturals, FiniteSets

CONSTANTS
    OpenTime,       \* times of the openings that are reported
    Parts,          \* orders of a request
    FirstIndex,     \* where the numbers of orders may start
    MaxTradeCalls,  \* bound: requests; one under way counts twice
    MaxInDoubt,     \* bound: calls of the exchange that fail or go unanswered
    MaxTradeStarts  \* bound: starts of the server

ASSUME TradeAssumption ==
    OpenTime \subseteq Nat \ {0} /\ FirstIndex \subseteq Nat /\ Parts \subseteq Nat \ {0}

Direction == {"longs", "shorts"}
ProfitKind == {"longsStopProfit", "shortsStopProfit"}
KindOf == [longs |-> "longsStopProfit", shorts |-> "shortsStopProfit"]
NoOpening == [openTime |-> 0, status |-> "none"]

VARIABLES
    openOrders,     \* open orders at the exchange
    requests,        \* requests the server works on
    takeOpen,       \* take_open_obj of the symbol
    quarterOver,    \* 15 minutes have passed since its ts
    orderIdIndex,   \* order_id_index
    tradeCalls, inDoubt, tradeStarts,
    inTurn,         \* history: no request came before the others had ended
    cancelled,      \* history: no order is left after two tries to cancel it
    takenNow,       \* history: openings taken since the last end or quarter
    takenTwice      \* history: one of them was taken again

atExchange == <<openOrders, inDoubt>>
opening    == <<takeOpen, quarterOver, takenNow, takenTwice>>
tradeCount == <<tradeCalls, tradeStarts, inTurn>>
tradeVars  == <<atExchange, requests, opening, orderIdIndex, tradeCount, cancelled>>

RouterOrder == [kind : ProfitKind \cup {"take"}, id : Nat, call : Nat]

TradeTypeOK ==
    /\ openOrders \subseteq RouterOrder
    /\ \A t \in requests : t.todo \subseteq RouterOrder /\ t.left \in Nat
    /\ takeOpen.openTime \in OpenTime \cup {0}
    /\ takeOpen.status \in {"none", "trading", "end"}
    /\ orderIdIndex \in Nat /\ takenNow \subseteq OpenTime

TradeInit ==
    /\ openOrders = {} /\ requests = {}
    /\ takeOpen = NoOpening /\ quarterOver = FALSE
    /\ orderIdIndex \in FirstIndex
    /\ tradeCalls = 0 /\ inDoubt = 0 /\ tradeStarts = 1
    /\ inTurn = TRUE /\ cancelled = TRUE
    /\ takenNow = {} /\ takenTwice = FALSE

-----------------------------------------------------------------------------
(* Requests arrive.                                                         *)

NewThread(op, kind, pc, n) ==
    [call |-> tradeCalls, op |-> op, kind |-> kind, pc |-> pc, left |-> n,
     openTime |-> 0, flat |-> FALSE, refused |-> FALSE,
     todo |-> {}, tries |-> 0, id |-> 0, again |-> FALSE]

Starts(t) ==
    /\ tradeCalls + Cardinality(requests) < MaxTradeCalls
    /\ tradeCalls' = tradeCalls + 1
    /\ requests' = requests \cup {t}
    /\ inTurn' = (inTurn /\ requests = {})
    /\ UNCHANGED <<atExchange, opening, orderIdIndex, tradeStarts, cancelled>>

\* take_open of a trader, flat if its position is worth nothing.
AskTake(time, flat) ==
    Starts([NewThread("take", "take", "test", 1) EXCEPT !.openTime = time, !.flat = flat])

\* stop_profit_batch or stop_profit_once.  refused: one order would be too
\* large for the market, or more than ten would be needed.
AskProfit(direction, n, refused) ==
    Starts([NewThread("profit", KindOf[direction], "list", n) EXCEPT !.refused = refused])

Goes(t, u) == requests' = (requests \ {t}) \cup {u}
Ends(t) == requests' = requests \ {t}

-----------------------------------------------------------------------------
(* Openings.                                                                *)

\* should_trade.
ShouldTrade(t) ==
    \/ takeOpen = NoOpening
    \/ t.flat /\ quarterOver
    \/ takeOpen.status = "end"
    \/ t.openTime > takeOpen.openTime

TestOpening(t) ==
    /\ t.pc = "test"
    /\ IF ShouldTrade(t) THEN Goes(t, [t EXCEPT !.pc = "mark"]) ELSE Ends(t)
    /\ UNCHANGED <<atExchange, opening, orderIdIndex, tradeCount, cancelled>>

\* Mutant of Opened: the status that end_open left stays.
OpenedAsBefore(t) ==
    [openTime |-> t.openTime,
     status |-> IF takeOpen.status = "end" THEN "end" ELSE "trading"]

Opened(t) == [openTime |-> t.openTime, status |-> "trading"]

MarkOpening(t) ==
    /\ t.pc = "mark"
    /\ takeOpen' = Opened(t) /\ quarterOver' = FALSE
    /\ takenTwice' = (takenTwice \/ t.openTime \in takenNow)
    /\ takenNow' = takenNow \cup {t.openTime}
    /\ Goes(t, [t EXCEPT !.pc = "count"])
    /\ UNCHANGED <<atExchange, orderIdIndex, tradeCount, cancelled>>

QuarterPasses ==
    /\ takeOpen # NoOpening /\ ~quarterOver
    /\ quarterOver' = TRUE /\ takenNow' = {}
    /\ UNCHANGED <<atExchange, requests, takeOpen, takenTwice, orderIdIndex, tradeCount,
                   cancelled>>

\* end_open, one assignment.
EndOpen ==
    /\ takeOpen.status = "trading"
    /\ takeOpen' = [takeOpen EXCEPT !.status = "end"]
    /\ takenNow' = {}
    /\ inTurn' = (inTurn /\ requests = {})
    /\ UNCHANGED <<atExchange, requests, quarterOver, takenTwice, orderIdIndex, tradeCalls,
                   tradeStarts, cancelled>>

-----------------------------------------------------------------------------
(* Old take-profit orders go.                                               *)

Doubt == inDoubt < MaxInDoubt /\ inDoubt' = inDoubt + 1

\* Mutant of Replaced: only the orders of the position's direction.
ReplacedOwn(t) == {o \in openOrders : o.kind = t.kind}

\* The orders of both directions, told by the client id.
Replaced(t) == {o \in openOrders : o.kind \in ProfitKind}

ListOrders(t) ==
    /\ t.pc = "list"
    /\ \/ /\ Goes(t, [t EXCEPT !.pc = "cancel", !.todo = Replaced(t)])
          /\ UNCHANGED inDoubt
       \/ Ends(t) /\ Doubt          \* the error is not caught
    /\ UNCHANGED <<openOrders, opening, orderIdIndex, tradeCount, cancelled>>

Tries == 2

\* An order is cancelled by its client id.
Others(o) == {p \in openOrders : p.kind # o.kind \/ p.id # o.id}

\* One try.  An error, which an order that is gone gives too, is caught.
CancelOrder(t) ==
    /\ t.pc = "cancel" /\ t.todo # {}
    /\ LET o == CHOOSE o \in t.todo : TRUE
           done == [t EXCEPT !.todo = @ \ {o}, !.tries = 0]
           last == t.tries + 1 >= Tries
       IN
       \/ /\ openOrders' = Others(o)
          /\ Goes(t, done)
          /\ UNCHANGED <<inDoubt, cancelled>>
       \/ /\ openOrders' \in {openOrders, Others(o)}
          /\ Doubt
          /\ Goes(t, IF last THEN done ELSE [t EXCEPT !.tries = @ + 1])
          /\ cancelled' = (cancelled /\ (t.tries + 1 < 2 \/ openOrders' = Others(o)))
    /\ UNCHANGED <<opening, orderIdIndex, tradeCount>>

\* The size is looked at only now that the old orders are gone.
CheckSize(t) ==
    /\ t.pc = "cancel" /\ t.todo = {}
    /\ IF t.refused THEN Ends(t) ELSE Goes(t, [t EXCEPT !.pc = "count"])
    /\ UNCHANGED <<atExchange, opening, orderIdIndex, tradeCount, cancelled>>

-----------------------------------------------------------------------------
(* Orders are posted.                                                       *)

\* next_order_id: the number is increased, and then read.
CountOrder(t) ==
    /\ t.pc = "count"
    /\ orderIdIndex' = orderIdIndex + 1
    /\ Goes(t, [t EXCEPT !.pc = "read"])
    /\ UNCHANGED <<atExchange, opening, tradeCount, cancelled>>

ReadIndex(t) ==
    /\ t.pc = "read"
    /\ Goes(t, [t EXCEPT !.pc = "post", !.id = orderIdIndex])
    /\ UNCHANGED <<atExchange, opening, orderIdIndex, tradeCount, cancelled>>

Posted(t) == [kind |-> t.kind, id |-> t.id, call |-> t.call]

\* The exchange refuses a client id that an open order has.
Placed(t) ==
    IF \E o \in openOrders : o.kind = t.kind /\ o.id = t.id
    THEN openOrders ELSE openOrders \cup {Posted(t)}

\* The next order of the request, if there is one.
AfterPost(t) ==
    IF t.left = 1 THEN Ends(t)
    ELSE Goes(t, [t EXCEPT !.pc = "count", !.left = @ - 1, !.id = 0])

\* The exchange answers: placed, or refused for whatever reason.
PostOrder(t) ==
    /\ t.pc = "post"
    /\ openOrders' \in {openOrders, Placed(t)}
    /\ AfterPost(t)
    /\ UNCHANGED <<inDoubt, opening, orderIdIndex, tradeCount, cancelled>>

\* No answer: every handler ends here, stop_profit_batch because it goes on
\* to parse an answer that is none.
PostFails(t) ==
    /\ t.pc = "post"
    /\ openOrders' \in {openOrders, Placed(t)}
    /\ Doubt
    /\ Ends(t)
    /\ UNCHANGED <<opening, orderIdIndex, tradeCount, cancelled>>

\* _take_longs_order and _take_shorts_order post again under the same id.
Repeated(t) == [t EXCEPT !.again = TRUE]

\* The code -1001: the exchange does not know whether it placed the order.
\* Only the order of an opening is posted once more; another one, and its
\* second answer, count as answered.
PostUnknown(t) ==
    /\ t.pc = "post" /\ t.op = "take" /\ ~t.again
    /\ openOrders' \in {openOrders, Placed(t)}
    /\ Doubt
    /\ Goes(t, Repeated(t))
    /\ UNCHANGED <<opening, orderIdIndex, tradeCount, cancelled>>

-----------------------------------------------------------------------------
(* The market, and the server's end.                                        *)

\* An order fills, or somebody else cancels it.
OrderFills ==
    /\ \E o \in openOrders : openOrders' = openOrders \ {o}
    /\ UNCHANGED <<inDoubt, requests, opening, orderIdIndex, tradeCount, cancelled>>

\* The server keeps nothing: openings taken are forgotten, and the numbers
\* of orders start at random.
RouterRestarts ==
    /\ tradeStarts < MaxTradeStarts
    /\ tradeStarts' = tradeStarts + 1
    /\ requests' = {}
    /\ takeOpen' = NoOpening /\ quarterOver' = FALSE /\ takenNow' = {}
    /\ orderIdIndex' \in FirstIndex
    /\ UNCHANGED <<atExchange, takenTwice, tradeCalls, inTurn, cancelled>>

TradeNext ==
    \/ \E time \in OpenTime, flat \in BOOLEAN : AskTake(time, flat)
    \/ \E d \in Direction, n \in Parts, r \in BOOLEAN : AskProfit(d, n, r)
    \/ EndOpen \/ QuarterPasses \/ OrderFills \/ RouterRestarts
    \/ \E t \in requests :
           \/ TestOpening(t) \/ MarkOpening(t) \/ ListOrders(t) \/ CheckSize(t)
           \/ CancelOrder(t) \/ CountOrder(t) \/ ReadIndex(t)
           \/ PostOrder(t) \/ PostFails(t) \/ PostUnknown(t)

TradeSpec == TradeInit /\ [][TradeNext]_tradeVars

-----------------------------------------------------------------------------
(* Properties.                                                              *)

\* Requests that wait for each other leave the take-profit orders of one
\* request only, in whatever direction the position went before, with calls
\* unanswered, orders filled and the server restarted at any point; unless
\* an order cannot be cancelled at all.  (Requests that overlap list the
\* orders before each other's are placed.)
ProfitsOfOneRequest ==
    inTurn /\ cancelled =>
        \A o, p \in openOrders :
            o.kind \in ProfitKind /\ p.kind \in ProfitKind => o.call = p.call

\* An opening that several traders report in turn is taken once, until its
\* end is reported or a quarter of an hour has passed or the server has
\* forgotten it, whatever older openings are reported in between; and an
\* order that is posted again because nobody knows of the first does not
\* stand beside it.  (It does follow it once the first is filled.)
OpenedOnce ==
    /\ inTurn => ~takenTwice
    /\ \A o, p \in openOrders :
           o.kind = "take" /\ p.kind = "take" /\ o.call = p.call => o = p
=============================================================================
