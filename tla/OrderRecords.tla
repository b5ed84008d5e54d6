---------------------------- MODULE OrderRecords ----------------------------
(***************************************************************************)
(* The recorders that copy the account's orders and trades into the        *)
(* database, "order" (binanceOrdersRecord.py) and "trade"                  *)
(* (binanceTradesRecord.py).  Both loop over the traded symbols, compare   *)
(* what the exchange answers with the newest rows of the symbol, and write *)
(* what they believe to be new.  After each symbol the order recorder also *)
(* looks up one old row that is still NEW.                                 *)
(*                                                                         *)
(* What the exchange says of an order is its progress: 0 is NEW, and every *)
(* change of its status or of its update time adds one.  A row shows the   *)
(* progress it was written at, or NoExit (the status "noExit").            *)
(*                                                                         *)
(* Each recorder is one process and the only writer of its table, so the   *)
(* query and the request of the order recorder make one step and its       *)
(* commit another.                                                         *)
(***************************************************************************)
EXTENDS Integers, Sequences, FiniteSets, FiniteSetsExt, TableRows

CONSTANTS
    Loop,           \* TRADE_SYMBOL_ARR: the symbols, in the order visited
    Answer,         \* entries one answer of the exchange holds (1000 orders,
                    \* 100 trades)
    Window,         \* rows of a symbol the recorders compare with (1000)
    MaxOrders,      \* bound: orders of the account
    MaxProgress,    \* bound: changes of one order
    MaxAges,        \* bound: rows that turn an hour old
    MaxFaults       \* bound: failed requests and commits

ASSUME LoopAssumption == Loop \in Seq(STRING) /\ Len(Loop) > 0
ASSUME RecordBoundsAssumption ==
    /\ Answer \in Nat \ {0} /\ Window \in Nat \ {0}
    /\ MaxOrders \in Nat /\ MaxProgress \in Nat
    /\ MaxAges \in Nat /\ MaxFaults \in Nat
\* The recorders compare with no fewer rows than one answer has entries.
ASSUME WindowAssumption == Answer <= Window

Symbols == {Loop[i] : i \in DOMAIN Loop}

NoExit == -1
New == 0

VARIABLES
    orders,      \* the account's orders, by order id
    trades,      \* the account's trades, by trade id: the symbol of each
    rows,        \* the table "order", by row id
    tradeRows,   \* the table "trade", by row id
    orderAt,     \* binanceOrdersRecord: [i: place in Loop, pc: step]
    orderGot,    \* the answer it has not written yet: the progress of each order
    tradeAt,     \* binanceTradesRecord: place in Loop
    ages, faults

account  == <<orders, trades>>
ordering == <<rows, orderAt, orderGot>>
trading  == <<tradeRows, tradeAt>>
vars     == <<account, ordering, trading, ages, faults>>

OrderOf == [symbol : Symbols, progress : Nat, listed : BOOLEAN]

\* old: written more than an hour ago (my_ts).
Row == [symbol : Symbols, order : Nat, shows : Nat \cup {NoExit}, old : BOOLEAN]
TradeRow == [symbol : Symbols, trade : Nat]

Place == [i : DOMAIN Loop, pc : {"read", "write", "check"}]

TypeOK ==
    /\ orders \in Seq(OrderOf)
    /\ trades \in Seq(Symbols)
    /\ rows \in Seq(Row)
    /\ tradeRows \in Seq(TradeRow)
    /\ orderAt \in Place
    /\ DOMAIN orderGot \subseteq Nat /\ orderGot \in [DOMAIN orderGot -> Nat]
    /\ tradeAt \in DOMAIN Loop
    /\ {ages, faults} \subseteq Nat

Init ==
    /\ orders = <<>> /\ trades = <<>>
    /\ rows = <<>> /\ tradeRows = <<>>
    /\ orderAt = [i |-> 1, pc |-> "read"] /\ orderGot = <<>>
    /\ tradeAt = 1
    /\ ages = 0 /\ faults = 0

-----------------------------------------------------------------------------
(* The exchange.                                                           *)

Places(sym) ==
    /\ Len(orders) < MaxOrders
    /\ orders' = Append(orders, [symbol |-> sym, progress |-> New, listed |-> TRUE])
    /\ UNCHANGED <<trades, ordering, trading, ages, faults>>

\* An order is filled in part or whole, which makes a trade, or cancelled.
Changes(o) ==
    /\ orders[o].listed
    /\ orders[o].progress < MaxProgress
    /\ orders' = [orders EXCEPT ![o].progress = @ + 1]
    /\ trades' = trades \/ trades' = Append(trades, orders[o].symbol)
    /\ UNCHANGED <<ordering, trading, ages, faults>>

\* An order that is over drops out of what the exchange answers.
Expires(o) ==
    /\ orders[o].listed
    /\ orders[o].progress # New
    /\ orders' = [orders EXCEPT ![o].listed = FALSE]
    /\ UNCHANGED <<trades, ordering, trading, ages, faults>>

\* A NEW row turns an hour old; nobody asks the age of the others.
Ages(r) ==
    /\ ages < MaxAges
    /\ ages' = ages + 1
    /\ ~rows[r].old
    /\ rows[r].shows = New
    /\ rows' = [rows EXCEPT ![r].old = TRUE]
    /\ UNCHANGED <<account, orderAt, orderGot, trading, faults>>

-----------------------------------------------------------------------------
(* Helpers.                                                                *)

\* Mutant of WindowOf: limit(1), as for the newest time stamp.
WindowOfNewest(table, sym) ==
    LastOf({r \in DOMAIN table : table[r].symbol = sym}, 1)

\* select ... where symbol order by id desc limit 1000.
WindowOf(table, sym) ==
    LastOf({r \in DOMAIN table : table[r].symbol = sym}, Window)

\* Mutant of After: one place too many.
AfterLate(i) == IF i > Len(Loop) THEN 1 ELSE i + 1

After(i) == IF i = Len(Loop) THEN 1 ELSE i + 1

Following(at) == [i |-> After(at.i), pc |-> "read"]

Here(at) == Loop[at.i]

-----------------------------------------------------------------------------
(* binanceOrdersRecord.py.                                                 *)

\* What the exchange answers for a symbol.
AnswerFor(sym) ==
    LastOf({o \in DOMAIN orders : orders[o].symbol = sym /\ orders[o].listed}, Answer)

\* recordTrades: the symbol's orders as they are now.
OrdersRead ==
    /\ orderAt.pc = "read"
    /\ orderGot' = [o \in AnswerFor(Here(orderAt)) |-> orders[o].progress]
    /\ orderAt' = [orderAt EXCEPT !.pc = "write"]
    /\ UNCHANGED <<account, rows, trading, ages, faults>>

RowFor(o) == [symbol |-> Here(orderAt), order |-> o, shows |-> orderGot[o], old |-> FALSE]

RowsFor(unknown) ==
    [k \in 1 .. Cardinality(unknown) |-> RowFor(InOrder(unknown)[k])]

\* The fields of a changed order go to the row the scan ended at (DBID),
\* which is the oldest of the window whatever order it belongs to; of
\* several such orders the last remains.
Updated(ids, changed) ==
    IF changed = {} THEN rows
    ELSE [rows EXCEPT ![Min(ids)] = RowFor(Max(changed))]

\* Mutant of OrdersWritten: changed orders are written, new ones are not
\* once the symbol has a row.
OrdersWrittenFirst ==
    /\ orderAt.pc = "write"
    /\ rows' = rows \o RowsFor(IF WindowOf(rows, Here(orderAt)) # {} THEN {}
                               ELSE DOMAIN orderGot)
    /\ orderGot' = <<>>
    /\ orderAt' = [orderAt EXCEPT !.pc = "check"]
    /\ UNCHANGED <<account, trading, ages, faults>>

\* recordTrades: unknown orders become rows, changed ones are written over.
OrdersWritten ==
    /\ orderAt.pc = "write"
    /\ LET ids == WindowOf(rows, Here(orderAt))
           unknown == {o \in DOMAIN orderGot : \A r \in ids : rows[r].order # o}
           changed == {o \in DOMAIN orderGot : \E r \in ids :
                          rows[r].order = o /\ rows[r].shows # orderGot[o]}
       IN  rows' = Updated(ids, changed) \o RowsFor(unknown)
    /\ orderGot' = <<>>
    /\ orderAt' = [orderAt EXCEPT !.pc = "check"]
    /\ UNCHANGED <<account, trading, ages, faults>>

\* updateTrade: one old row that is still NEW, of whatever symbol, is asked
\* for under the symbol the loop is at.  There an order of another symbol
\* does not exist (-2013), no more than one that has expired.
RowChecked ==
    /\ orderAt.pc = "check"
    /\ orderAt' = Following(orderAt)
    /\ LET due == {r \in DOMAIN rows : rows[r].shows = New /\ rows[r].old}
       IN  IF due = {} THEN rows' = rows
           ELSE \E r \in due :
                LET o == rows[r].order
                    found == orders[o].symbol = Here(orderAt) /\ orders[o].listed
                IN  rows' = [rows EXCEPT
                        ![r].shows = IF found THEN orders[o].progress ELSE NoExit,
                        ![r].old = FALSE]
    /\ UNCHANGED <<account, orderGot, trading, ages, faults>>

\* A request is answered with a code or raises, or a commit fails: the loop
\* goes on, with updateTrade after a code and with the next symbol else.
OrdersFail ==
    /\ faults < MaxFaults
    /\ faults' = faults + 1
    /\ orderGot' = <<>>
    /\ \/ orderAt' = Following(orderAt)
       \/ orderAt.pc = "read" /\ orderAt' = [orderAt EXCEPT !.pc = "check"]
    /\ UNCHANGED <<account, rows, trading, ages>>

OrderRecorder == OrdersRead \/ OrdersWritten \/ RowChecked

-----------------------------------------------------------------------------
(* binanceTradesRecord.py.                                                 *)

\* recordTrades: a trade never changes, so the time between the answer and
\* the commit shows nowhere, and both make one step.
TradesRecorded ==
    /\ LET sym == Loop[tradeAt]
           answer == LastOf({t \in DOMAIN trades : trades[t] = sym}, Answer)
           ids == WindowOf(tradeRows, sym)
           unknown == {t \in answer : \A r \in ids : tradeRows[r].trade # t}
       IN  tradeRows' = tradeRows \o
            [k \in 1 .. Cardinality(unknown) |->
                [symbol |-> sym, trade |-> InOrder(unknown)[k]]]
    /\ tradeAt' = After(tradeAt)
    /\ UNCHANGED <<account, ordering, ages, faults>>

TradesFail ==
    /\ faults < MaxFaults
    /\ faults' = faults + 1
    /\ tradeAt' = After(tradeAt)
    /\ UNCHANGED <<account, tradeRows, ordering, ages>>

-----------------------------------------------------------------------------
Next ==
    \/ \E sym \in Symbols : Places(sym)
    \/ \E o \in DOMAIN orders : Changes(o) \/ Expires(o)
    \/ \E r \in DOMAIN rows : Ages(r)
    \/ OrderRecorder \/ OrdersFail
    \/ TradesRecorded \/ TradesFail

Spec == Init /\ [][Next]_vars

\* Both recorders loop for ever; failures are bounded, rows need not age.
Fairness == WF_vars(OrderRecorder) /\ WF_vars(TradesRecorded)

FairSpec == Spec /\ Fairness

-----------------------------------------------------------------------------
(* Properties.                                                             *)

\* The orders the exchange answers with.
Reported == UNION {AnswerFor(sym) : sym \in Symbols}

\* Although a change of an order overwrites the row of another one, every
\* order the exchange reports has a row in the end: a lost row is noticed
\* and inserted again, also when requests fail and rows are declared gone.
OrdersKept ==
    <>[](\A o \in Reported : \E r \in DOMAIN rows : rows[r].order = o)

\* README_EN.md: the order table is for analysis, "as long as the final
\* result is right".  In the end every reported order has a row that shows
\* it as it is.
OrdersRight ==
    <>[](\A o \in Reported : \E r \in DOMAIN rows :
            rows[r].order = o /\ rows[r].shows = orders[o].progress)

\* No trade is recorded twice, whatever fails between reading and writing
\* and however trades of other symbols come between: the window of rows
\* always covers what one answer can hold.
TradesOnce ==
    \A r, q \in DOMAIN tradeRows :
        tradeRows[r].trade = tradeRows[q].trade => r = q
=============================================================================
