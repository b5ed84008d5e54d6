------------------------------ MODULE StopLoss ------------------------------
(***************************************************************************)
(* The stop-loss orders that protect open positions, and the two services  *)
(* that place and cancel orders at the exchange without talking to each    *)
(* other:                                                                  *)
(*                                                                         *)
(*   makerStopLoss.py goes over the positions the hub shows; where the     *)
(*   stops of a position cover less than 95% of it, it posts a batch of    *)
(*   new stops and cancels the old ones;                                   *)
(*   checkTimeoutOrders.py lists every open order and starts a thread to   *)
(*   cancel those that are too old, that it does not understand, or that   *)
(*   are stops of a position the hub did not show when it last looked.     *)
(*                                                                         *)
(* Both read the hub first and the exchange later.  Stops that the web     *)
(* server posts for traders have client ids of the maker's form: both      *)
(* services take them for stops of the maker.  The exchange, the traders   *)
(* and the feed that brings positions to the hub (AccountFeed) are the     *)
(* environment.                                                            *)
(***************************************************************************)
EXTENDS Integers, FiniteSets, FiniteSetsExt

CONSTANTS
    Symbol,           \* traded symbols
    Amount,           \* position sizes in lots; shorts are negative
    StopTime,         \* 5 in the code: stops in a batch
    PostedKinds,      \* the kinds of orders the trading side posts
    AskedLots,        \* lots that traders ask the web server to stop
    AskedPrices,      \* numbers of prices they spread them over
    MarketMax,        \* MARKET_LOT_SIZE: lots of the largest market order
    OrderIds,         \* identities of open and remembered orders
    MaxTrades,        \* bound: changes of positions
    MaxTraderOrders,  \* bound: orders the trading side posts
    MaxFaults,        \* bound: calls to the exchange that fail
    MaxHubRestarts    \* bound: restarts of the hub

ASSUME AmountAssumption ==
    Amount \subseteq Int /\ 0 \in Amount /\ Amount # {0} /\ IsFiniteSet(Amount)
ASSUME StopTimeAssumption == StopTime \in Nat \ {0}
ASSUME OrderIdsAssumption == IsFiniteSet(OrderIds) /\ OrderIds \subseteq Nat
ASSUME AskedAssumption ==
    /\ AskedLots \subseteq Nat \ {0} /\ AskedPrices \subseteq Nat \ {0}
    /\ MarketMax \in Nat \ {0}

StopKinds == {"longsStopLoss", "shortsStopLoss"}

\* Orders of the trading side: makers, takes of the web server ("wTake"),
\* closes ("MC"), and orders whose client id has no underscore.
TraderKinds == {"m", "wTake", "MC", "foreign"}

ASSUME PostedKindsAssumption == PostedKinds \subseteq TraderKinds

\* qty is origQty, rung the place of a stop in its batch, and expired says
\* that the order is older than what its kind is allowed (2.5 s for m, 15 s
\* for wTake, 60 s for MC).  own says that the maker posted a stop: the client
\* ids do not tell, and no step reads it.
Order == [id : OrderIds, symbol : Symbol, kind : StopKinds \cup TraderKinds,
          qty : Nat, rung : 0 .. (StopTime - 1), expired : BOOLEAN, own : BOOLEAN]

VARIABLES
    pos,          \* the positions at the exchange
    orders,       \* the open orders at the exchange
    shown,        \* the positions the hub shows
    mpc,          \* maker: "read", "list", "post" or "cancel"
    mpos,         \* maker: POSITION_ARR
    todo,         \* maker: positions of this round still to check
    cur,          \* maker: the position being checked (a set of at most one)
    posted,       \* maker: stops of the batch posted so far
    old,          \* maker: stopLossOrderIDArr
    cpc,          \* checker: "read" or "list"
    cpos,         \* checker: POSITION_ARR
    threads,      \* checker: orders that a thread is about to cancel
    trades, traderOrders, faults, hubRestarts

maker   == <<mpc, mpos, todo, cur, posted, old>>
checker == <<cpc, cpos, threads>>
bounds  == <<trades, traderOrders, faults, hubRestarts>>
vars    == <<pos, orders, shown, maker, checker, bounds>>

TypeOK ==
    /\ pos \in [Symbol -> Amount]
    /\ orders \subseteq Order
    /\ \A o, p \in orders : o.id = p.id => o = p
    /\ shown \in [Symbol -> Amount]
    /\ mpc \in {"read", "list", "post", "cancel"}
    /\ mpos \in [Symbol -> Amount]
    /\ todo \subseteq Symbol
    /\ cur \subseteq Symbol
    /\ mpc # "read" => Cardinality(cur) = 1
    /\ posted \in 0 .. StopTime
    /\ old \subseteq OrderIds
    /\ cpc \in {"read", "list"}
    /\ cpos \in [Symbol -> Amount]
    /\ threads \subseteq OrderIds
    /\ {trades, traderOrders, faults, hubRestarts} \subseteq Nat

Flat == [s \in Symbol |-> 0]

Init ==
    /\ pos = Flat /\ orders = {} /\ shown = Flat
    /\ mpc = "read" /\ mpos = Flat /\ todo = {} /\ cur = {}
    /\ posted = 0 /\ old = {}
    /\ cpc = "read" /\ cpos = Flat /\ threads = {}
    /\ trades = 0 /\ traderOrders = 0 /\ faults = 0 /\ hubRestarts = 0

-----------------------------------------------------------------------------
(* Quantities.                                                             *)

Abs(n) == IF n < 0 THEN -n ELSE n

\* "%.<n>f" of a / b in lots: to the nearest, ties to even.
RoundedQuotient(a, b) ==
    LET q == a \div b
        r == 2 * (a % b)
    IN  IF r < b \/ (r = b /\ q % 2 = 0) THEN q ELSE q + 1

\* What a stop of a batch protects of a position.
StopQuantity(amt) == RoundedQuotient(Abs(amt), StopTime)

StopKindOf(amt) == IF amt < 0 THEN "shortsStopLoss" ELSE "longsStopLoss"

StopsOf(s, kind) == {o \in orders : o.symbol = s /\ o.kind = kind}

Qty(o) == o.qty

Total(stops) == MapThenSumSet(Qty, stops)

\* Mutant of Coverage: counts only the first rung.
CoverageOfFirst(s, kind) == Total({o \in StopsOf(s, kind) : o.rung = 0})

\* Mutant of Coverage: the quantity of the last stop, not the sum.
CoverageOfLast(s, kind) ==
    Total({o \in StopsOf(s, kind) : \A p \in StopsOf(s, kind) : p.id <= o.id})

\* allStopLossQuantity.
Coverage(s, kind) == Total(StopsOf(s, kind))

Covers(quantity, amt) == 100 * quantity >= 95 * Abs(amt)

\* stop_loss_batch: what the stops of a request protect, of which the last
\* takes what rounding has left, be it nothing or less.
BatchQuantities(lots, prices) ==
    LET each == RoundedQuotient(lots, prices)
    IN  {lots - (prices - 1) * each} \cup (IF prices > 1 THEN {each} ELSE {})

\* stop_loss_once: a stop for everything, or up to ten of the largest size.
OnceQuantities(lots) ==
    IF lots <= MarketMax THEN {lots}
    ELSE IF lots <= 10 * MarketMax THEN {MarketMax} ELSE {}

\* What a stop of the web server may protect.
AskedQuantities ==
    UNION ({BatchQuantities(lots, prices) : lots \in AskedLots, prices \in AskedPrices}
           \cup {OnceQuantities(lots) : lots \in AskedLots})

-----------------------------------------------------------------------------
(* The environment.                                                        *)

Unused == OrderIds \ ({o.id : o \in orders} \cup old \cup threads)

FreshId == Min(Unused)

\* A trade opens, changes, turns or closes a position.
Trade(s, amt) ==
    /\ trades < MaxTrades
    /\ pos[s] # amt
    /\ pos' = [pos EXCEPT ![s] = amt]
    /\ trades' = trades + 1
    /\ UNCHANGED <<orders, shown, maker, checker, traderOrders, faults, hubRestarts>>

\* A stop triggers: a reduce-only order, it ends the position or lowers it.
StopFires(o) ==
    /\ trades < MaxTrades
    /\ o.kind \in StopKinds
    /\ orders' = orders \ {o}
    /\ LET left == IF Abs(pos[o.symbol]) > o.qty THEN Abs(pos[o.symbol]) - o.qty ELSE 0
           amt == IF pos[o.symbol] < 0 THEN -left ELSE left
       IN  /\ o.kind = StopKindOf(pos[o.symbol])
           /\ amt \in Amount
           /\ pos' = [pos EXCEPT ![o.symbol] = amt]
    /\ trades' = trades + 1
    /\ UNCHANGED <<shown, maker, checker, traderOrders, faults, hubRestarts>>

EnterOrder(s, kind, qty) ==
    /\ traderOrders < MaxTraderOrders
    /\ Unused # {}
    /\ orders' = orders \cup {[id |-> FreshId, symbol |-> s, kind |-> kind, qty |-> qty,
                               rung |-> 0, expired |-> FALSE, own |-> FALSE]}
    /\ traderOrders' = traderOrders + 1
    /\ UNCHANGED <<pos, shown, maker, checker, trades, faults, hubRestarts>>

TraderPosts(s, kind) == EnterOrder(s, kind, 1)

\* A stop of a request to stop_loss_batch or stop_loss_once, under a client id
\* of the maker's own form.  The posts of a request are steps of their own:
\* each may be refused (a quantity of 0 always is), and a call that raises
\* ends the request, so that any part of them may come to be.
RouterPostsStop(s, kind, qty) == qty > 0 /\ EnterOrder(s, kind, qty)

Expires(o) ==
    /\ o.kind \in {"m", "wTake", "MC"}
    /\ ~o.expired
    /\ orders' = (orders \ {o}) \cup {[o EXCEPT !.expired = TRUE]}
    /\ UNCHANGED <<pos, shown, maker, checker, bounds>>

\* The feeds bring the positions to the hub, which forgets them when it
\* restarts.
HubShows ==
    /\ shown # pos
    /\ shown' = pos
    /\ UNCHANGED <<pos, orders, maker, checker, bounds>>

HubRestarts ==
    /\ hubRestarts < MaxHubRestarts
    /\ hubRestarts' = hubRestarts + 1
    /\ shown' = Flat
    /\ UNCHANGED <<pos, orders, maker, checker, trades, traderOrders, faults>>

Fault == faults < MaxFaults /\ faults' = faults + 1

-----------------------------------------------------------------------------
(* makerStopLoss.py.                                                       *)

\* The for loop of checkAllStopLoss goes on with another position of `rest',
\* or ends.  The order of the list is any order.
GoOn(rest) ==
    /\ old' = {} /\ posted' = 0
    /\ \/ rest = {} /\ mpc' = "read" /\ cur' = {} /\ todo' = {}
       \/ \E s \in rest : mpc' = "list" /\ cur' = {s} /\ todo' = rest \ {s}

\* updatePosition.
MakerReads ==
    /\ mpc = "read"
    /\ mpos' = shown
    /\ GoOn({s \in Symbol : shown[s] # 0})
    /\ UNCHANGED <<pos, orders, shown, checker, bounds>>

\* get_open_orders and the decision.  An order without an underscore in its
\* id raises, errorTime stays below 3, and the loop asks again: the step is
\* not taken while such an order is open.  The same happens when the call
\* raises; a result with a code gives the position up for this round.
MakerLists ==
    /\ mpc = "list"
    /\ \A s \in cur :
        /\ \A o \in orders : o.symbol = s => o.kind # "foreign"
        /\ \/ /\ Covers(Coverage(s, StopKindOf(mpos[s])), mpos[s])
              /\ GoOn(todo)
              /\ UNCHANGED faults
           \/ /\ ~Covers(Coverage(s, StopKindOf(mpos[s])), mpos[s])
              /\ mpc' = "post"
              /\ old' = {o.id : o \in StopsOf(s, StopKindOf(mpos[s]))}
              /\ posted' = 0
              /\ UNCHANGED <<todo, cur, faults>>
           \/ Fault /\ GoOn(todo)
    /\ UNCHANGED <<pos, orders, shown, mpos, checker, trades, traderOrders,
                   hubRestarts>>

NewStop(s) ==
    [id |-> FreshId, symbol |-> s, kind |-> StopKindOf(mpos[s]), rung |-> posted,
     qty |-> StopQuantity(mpos[s]), expired |-> FALSE, own |-> TRUE]

\* Mutants of NextPost: a batch one stop short, and one too long.
NextPostEarly ==
    /\ posted' = posted + 1
    /\ mpc' = IF posted + 2 >= StopTime THEN "cancel" ELSE "post"
NextPostLate ==
    /\ posted' = posted + 1
    /\ mpc' = IF posted = StopTime THEN "cancel" ELSE "post"

\* The batch goes on, or is complete and the old stops are cancelled.
NextPost ==
    /\ posted' = posted + 1
    /\ mpc' = IF posted + 1 = StopTime THEN "cancel" ELSE "post"

\* A stop of the batch is posted: accepted, or answered with a code (a
\* quantity of 0 always is), which only code 4183 makes a difference to.
MakerPosts ==
    /\ mpc = "post"
    /\ \A s \in cur :
        \/ /\ StopQuantity(mpos[s]) > 0
           /\ Unused # {}
           /\ orders' = orders \cup {NewStop(s)}
           /\ NextPost
           /\ UNCHANGED <<pos, faults>>
        \/ /\ StopQuantity(mpos[s]) = 0
           /\ NextPost
           /\ UNCHANGED <<pos, orders, faults>>
        \/ Fault /\ NextPost /\ UNCHANGED <<pos, orders>>
    /\ UNCHANGED <<shown, mpos, todo, cur, old, checker, trades, traderOrders,
                   hubRestarts>>

\* Code 4183: forceCloseLongs or forceCloseShorts posts reduce-only market
\* orders; the batch goes on.
MakerForceCloses ==
    /\ mpc = "post"
    /\ Fault
    /\ \A s \in cur :
        /\ StopKindOf(mpos[s]) = StopKindOf(pos[s])
        /\ pos' = [pos EXCEPT ![s] = 0]
    /\ NextPost
    /\ UNCHANGED <<orders, shown, mpos, todo, cur, old, checker, trades,
                   traderOrders, hubRestarts>>

\* The call raises: the stop may have been accepted or not, the batch ends,
\* and stopLossResult is True all the same.
MakerPostRaises ==
    /\ mpc = "post"
    /\ Fault
    /\ \/ UNCHANGED orders
       \/ /\ Unused # {}
          /\ \A s \in cur : /\ StopQuantity(mpos[s]) > 0
                            /\ orders' = orders \cup {NewStop(s)}
    /\ mpc' = "cancel"
    /\ UNCHANGED <<pos, shown, mpos, todo, cur, posted, old, checker, trades,
                   traderOrders, hubRestarts>>

Without(id) == {o \in orders : o.id # id}

\* cancelOrder of one old stop; its result is not looked at.
MakerCancels ==
    /\ mpc = "cancel"
    /\ \/ \E id \in old :
            /\ \/ orders' = Without(id) /\ UNCHANGED faults
               \/ Fault /\ UNCHANGED orders
            /\ old' = old \ {id}
            /\ UNCHANGED <<mpc, todo, cur, posted>>
       \/ old = {} /\ GoOn(todo) /\ UNCHANGED <<orders, faults>>
    /\ UNCHANGED <<pos, shown, mpos, checker, trades, traderOrders, hubRestarts>>

-----------------------------------------------------------------------------
(* checkTimeoutOrders.py.                                                  *)

\* updatePosition.
CheckerReads ==
    /\ cpc = "read"
    /\ cpos' = shown
    /\ cpc' = "list"
    /\ UNCHANGED <<pos, orders, shown, maker, threads, bounds>>

\* Mutant of ToCancel: an order it does not understand is left alone.
ToCancelKnown(o) ==
    \/ o.kind \in StopKinds /\ cpos[o.symbol] = 0
    \/ o.kind \in {"wTake", "MC"} /\ o.expired

\* Mutant of ToCancel: only shorts are looked at.
ToCancelShorts(o) ==
    \/ o.kind = "foreign"
    \/ o.kind = "shortsStopLoss" /\ cpos[o.symbol] = 0
    \/ o.kind \in {"wTake", "MC"} /\ o.expired

\* Mutant of ToCancel: closes are left open.
ToCancelTakes(o) ==
    \/ o.kind = "foreign"
    \/ o.kind \in StopKinds /\ cpos[o.symbol] = 0
    \/ o.kind = "wTake" /\ o.expired

\* Which orders get a thread.  An "m" order that waits too long is only
\* written down: the code that would take it is commented out.
ToCancel(o) ==
    \/ o.kind = "foreign"
    \/ o.kind \in StopKinds /\ cpos[o.symbol] = 0
    \/ o.kind \in {"wTake", "MC"} /\ o.expired

\* get_all_open_orders; when it fails the loop starts over.
CheckerLists ==
    /\ cpc = "list"
    /\ \/ /\ threads' = threads \cup {o.id : o \in {p \in orders : ToCancel(p)}}
          /\ UNCHANGED faults
       \/ Fault /\ UNCHANGED threads
    /\ cpc' = "read"
    /\ UNCHANGED <<pos, orders, shown, maker, cpos, trades, traderOrders,
                   hubRestarts>>

\* cancel_binance_order_by_web_server in a thread of its own.
ThreadCancels(id) ==
    /\ id \in threads
    /\ \/ orders' = Without(id) /\ UNCHANGED faults
       \/ Fault /\ UNCHANGED orders
    /\ threads' = threads \ {id}
    /\ UNCHANGED <<pos, shown, maker, cpc, cpos, trades, traderOrders, hubRestarts>>

-----------------------------------------------------------------------------
Maker == MakerReads \/ MakerLists \/ MakerPosts \/ MakerForceCloses
         \/ MakerPostRaises \/ MakerCancels

Checker == CheckerReads \/ CheckerLists \/ \E id \in OrderIds : ThreadCancels(id)

Environment ==
    \/ \E s \in Symbol, amt \in Amount : Trade(s, amt)
    \/ \E s \in Symbol, kind \in PostedKinds : TraderPosts(s, kind)
    \/ \E s \in Symbol, kind \in StopKinds, qty \in AskedQuantities :
           RouterPostsStop(s, kind, qty)
    \/ \E o \in orders : StopFires(o) \/ Expires(o)
    \/ HubShows \/ HubRestarts

Next == Maker \/ Checker \/ Environment

Spec == Init /\ [][Next]_vars

\* Both services loop for ever, threads run, and the hub is brought up to
\* date.  That calls fail only MaxFaults times is the bound of the instance.
Fairness ==
    /\ WF_vars(MakerReads) /\ WF_vars(MakerLists)
    /\ WF_vars(MakerPosts) /\ WF_vars(MakerCancels)
    /\ WF_vars(CheckerReads) /\ WF_vars(CheckerLists)
    /\ \A id \in OrderIds : WF_vars(ThreadCancels(id))
    /\ WF_vars(HubShows)

FairSpec == Spec /\ Fairness

-----------------------------------------------------------------------------
(* Properties.                                                             *)

\* The stops the maker posted for one side of a symbol.
OwnStops(s, kind) == {o \in StopsOf(s, kind) : o.own}

\* The maker's stops of one side of a symbol never add up to more than a batch
\* on top of what was too little for the largest position: failed cancels and
\* repeated batches do not pile up, whatever stops the web server adds
\* (checkAllStopLoss).
StopsBounded ==
    \A s \in Symbol, kind \in StopKinds :
        LET top == Max({Abs(a) : a \in Amount})
        IN  100 * Total(OwnStops(s, kind)) <
                95 * top + 100 * StopTime * StopQuantity(top)

\* A position is covered, or has what a whole batch gives it: rounding makes
\* that less than 95% of some small sizes.
Protected(s) ==
    LET quantity == Total(StopsOf(s, StopKindOf(pos[s])))
    IN  \/ Covers(quantity, pos[s])
        \/ quantity >= StopTime * StopQuantity(pos[s])

\* Once calls succeed and the account rests, every open position has its stops
\* for good: whatever batches failed, whatever stops the checker cancelled
\* with an old list of positions or after the hub forgot them, whatever stops
\* of the web server the maker counts and replaces, and although one order
\* without an underscore keeps the maker in its retry loop until the checker
\* has removed it.
PositionsProtected ==
    <>[](\A s \in Symbol : pos[s] # 0 => Protected(s))

\* The stops of a closed position are cancelled, also those that the maker
\* still posts from an old list of positions.
StaleStopsGone ==
    <>[](\A o \in orders : o.kind \in StopKinds => pos[o.symbol] # 0)

\* checkTimeoutOrders cancels what has been open too long, even when its
\* cancel calls fail at first.
TimedOutOrdersGone ==
    <>[](\A o \in orders : ~(o.kind \in {"wTake", "MC"} /\ o.expired))

\* README_EN.md: only after the success of the new stops is confirmed are
\* the old ones cancelled.
OldStopsKeptUntilConfirmed ==
    [][\A id \in old \ old' : Without(id) # orders /\ orders' = Without(id) =>
        \A s \in cur :
            Covers(Total({o \in StopsOf(s, StopKindOf(mpos[s])) : o.id \notin old}),
                   mpos[s])]_vars
=============================================================================
