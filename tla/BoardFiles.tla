----------------------------- MODULE BoardFiles ------------------------------
(* Two files between the uploader (post_trade/webOssUpdate.py) and the     *)
(* legacy board (constainers/Show.js): the balance records, which are      *)
(* packed as changes and unpacked by adding them up, and the daily income, *)
(* whose table gets a row for every day that is over.                      *)
(* Amounts are whole numbers of a small unit; rounding is left out.        *)
EXTENDS Integers, Sequences, FiniteSets, Functions, TableRows

CONSTANTS
    UnitsPerDollar, \* amounts per dollar
    PositionRecord, \* the balance records that are looked at
    RecordLimits,   \* the limits of the ranges
    IncomeKind,     \* the kinds of income that are looked at
    MaxRecords,     \* bound: balance records
    MaxIncomes,     \* bound: incomes
    MaxDay          \* bound: days, from 0

\* A time of the daily income is a number of half days: even ones are
\* midnights.
Midnight(day) == 2 * day
Time == 1 .. Midnight(MaxDay) + 1

Point == [ts : Int, value : Int, balance : Int]
Income == [at : Time, came : Time, kind : IncomeKind]

ASSUME BoardFilesAssumption ==
    /\ UnitsPerDollar \in Nat \ {0}
    /\ PositionRecord \subseteq [ts : Nat, value : Nat, balance : Nat]
    /\ RecordLimits \subseteq Nat
    /\ IncomeKind \subseteq [type : {"COMMISSION", "REALIZED_PNL", "FUNDING_FEE"},
                             asset : {"BNB", "USDT", "BUSD", "another"},
                             ofSymbol : BOOLEAN]
    /\ MaxRecords \in Nat /\ MaxIncomes \in Nat /\ MaxDay \in Nat

VARIABLES
    records,        \* position_record, in the order of the ids
    recordFile,     \* cQuant_change/<range>Arr.json
    packed,         \* history: the records that were packed
    time,
    incomes,        \* income_history_take
    dayRows,        \* income_history_take_day: per day its profit
    todayProfit,    \* TODAY_PROFIT
    todayFresh,     \* history: it was computed now and of these incomes
    incomeFile,     \* cQuant_day_income/data.json
    basis           \* history: time and incomes of the file, was it fresh

recordVars == <<records, recordFile, packed>>
incomeVars == <<time, incomes, dayRows, todayProfit, todayFresh, incomeFile, basis>>

FilesTypeOK ==
    /\ records \in Seq(PositionRecord) /\ packed \in Seq(PositionRecord)
    /\ recordFile \in Seq(Point)
    /\ time \in Time /\ incomes \subseteq Income
    /\ \A day \in DOMAIN dayRows : day \in 0 .. MaxDay /\ dayRows[day] \in Nat
    /\ todayProfit \in Nat /\ todayFresh \in BOOLEAN
    /\ incomeFile \in Seq(Nat)
    /\ basis.at \in Time /\ basis.incomes \subseteq incomes /\ basis.fresh \in BOOLEAN

FilesInit ==
    /\ records = <<>> /\ recordFile = <<>> /\ packed = <<>>
    /\ time = 1 /\ incomes = {} /\ dayRows = <<>>
    /\ todayProfit = 0 /\ todayFresh = TRUE
    /\ incomeFile = <<0>> /\ basis = [at |-> 1, incomes |-> {}, fresh |-> TRUE]

-----------------------------------------------------------------------------
(* Balance records.                                                        *)

\* int(float(x)): dollars.
Whole(x) == x \div UnitsPerDollar

Origin == [ts |-> 0, value |-> 0, balance |-> 0]

\* Mutant of Change: the difference is cut, not the two figures.
ChangeCut(from, to) ==
    [ts |-> to.ts - from.ts, value |-> Whole(to.value - from.value),
     balance |-> Whole(to.balance - from.balance)]

\* What a record is written as: the change since the one written before.
Change(from, to) ==
    [ts |-> to.ts - from.ts, value |-> Whole(to.value) - Whole(from.value),
     balance |-> Whole(to.balance) - Whole(from.balance)]

Since(limit) ==
    LET ids == InOrder({i \in DOMAIN records : records[i].ts >= limit})
    IN  [k \in DOMAIN ids |-> records[ids[k]]]

\* positionRecord.py adds records; their times are those of its clock.
RecordInserted(r) ==
    /\ Len(records) < MaxRecords
    /\ records' = Append(records, r)
    /\ UNCHANGED <<recordFile, packed>>

\* updateRecord, for one of its ranges.
UpdateRecord(limit) ==
    LET kept == Since(limit)
    IN  /\ recordFile' = [i \in DOMAIN kept |->
               Change(IF i = 1 THEN Origin ELSE kept[i - 1], kept[i])]
        /\ packed' = kept
        /\ UNCHANGED records

\* getPositionRecord adds the changes up.
Drawn(file) ==
    LET Added(figure) == [i \in DOMAIN file |->
            SumFunctionOnSet([j \in DOMAIN file |-> file[j][figure]], 1 .. i)]
    IN  [timeArr |-> Added("ts"), balanceArr |-> Added("balance"),
         positionValueArr |-> Added("value")]

\* A chart: points over an axis that begins at the lowest of them, or at
\* "min" if there are none.
Highest == 99999999
Chart(times, values) ==
    [xAxis |-> times, series |-> values,
     min |-> FoldFunction(LAMBDA v, low : IF v < low THEN v ELSE low, Highest, values)]

RecordsNext ==
    \/ \E r \in PositionRecord : RecordInserted(r)
    \/ \E limit \in RecordLimits : UpdateRecord(limit)

-----------------------------------------------------------------------------
(* Daily income.                                                           *)

BnbPrice == 3
Today == time \div 2

\* Tenths that an income of one counts: six of a commission, at the price
\* of its currency.
Tenths(kind) ==
    (IF kind.asset = "BNB" THEN BnbPrice ELSE 1) *
    (IF kind.type = "COMMISSION" THEN 6 ELSE 10)

\* generateObj takes every other currency for dollars and leaves out what is
\* of no symbol; updateDayIncome leaves out other currencies.
TodayWorth(kind) == IF kind.ofSymbol THEN Tenths(kind) ELSE 0
RowWorth(kind) == IF kind.asset = "another" THEN 0 ELSE Tenths(kind)

TodayWorthOf(some) == SumFunction([i \in some |-> TodayWorth(i.kind)])
RowWorthOf(some) == SumFunction([i \in some |-> RowWorth(i.kind)])

\* An income happens, and commission.py stores it then or later.
Earned(at, kind) ==
    /\ at <= time /\ Cardinality(incomes) < MaxIncomes
    /\ \A i \in incomes : i.at # at \/ i.kind # kind
    /\ incomes' = incomes \cup {[at |-> at, came |-> time, kind |-> kind]}
    /\ todayFresh' = FALSE
    /\ UNCHANGED <<time, dayRows, todayProfit, incomeFile, basis>>

TimePasses ==
    /\ time + 1 \in Time
    /\ time' = time + 1
    /\ todayFresh' = FALSE
    /\ UNCHANGED <<incomes, dayRows, todayProfit, incomeFile, basis>>

\* generateObj: today so far, from its first instant on.  It raises after
\* that (ShowBoard), or before it when a position is open: then nothing
\* changes.  The rounds of the next three seconds leave it out and come to
\* updateDayIncome.
GenerateObj ==
    /\ todayProfit' = TodayWorthOf({i \in incomes : i.at >= Midnight(Today)})
    /\ todayFresh' = TRUE
    /\ UNCHANGED <<time, incomes, dayRows, incomeFile, basis>>

\* A day in the table: from after its first instant to the next day's.
DayProfit(day) ==
    RowWorthOf({i \in incomes : i.at > Midnight(day) /\ i.at <= Midnight(day + 1)})

\* Mutant of FirstDay: the last row is taken to be final.
FirstDayAfter == IF DOMAIN dayRows = {} THEN 0
                 ELSE 1 + CHOOSE d \in DOMAIN dayRows : d + 1 \notin DOMAIN dayRows

\* The last row of the table, which is made again, or the first day of all.
FirstDay == IF DOMAIN dayRows = {} THEN 0
            ELSE CHOOSE d \in DOMAIN dayRows : d + 1 \notin DOMAIN dayRows

\* updateDayIncome: rows up to yesterday, then the file of all rows and today.
UpdateDayIncome ==
    /\ dayRows' = [d \in DOMAIN dayRows \cup FirstDay .. Today - 1 |->
           IF d \in FirstDay .. Today - 1 THEN DayProfit(d) ELSE dayRows[d]]
    /\ incomeFile' = [n \in 1 .. Today + 1 |->
           IF n = Today + 1 THEN todayProfit ELSE dayRows'[n - 1]]
    /\ basis' = [at |-> time, incomes |-> incomes, fresh |-> todayFresh]
    /\ UNCHANGED <<time, incomes, todayProfit, todayFresh>>

\* getDayIncomeData: the line adds the bars up.
IncomeLine(file) == [n \in DOMAIN file |-> SumFunctionOnSet(file, 1 .. n)]

IncomeNext ==
    \/ \E at \in Time, kind \in IncomeKind : Earned(at, kind)
    \/ TimePasses \/ GenerateObj \/ UpdateDayIncome

-----------------------------------------------------------------------------
(* Properties.                                                             *)

\* What the board draws of a file are the records it was made of, to the
\* dollar and in their order, whatever their times, and no point lies under
\* the beginning of its axis: adding up the changes loses nothing.
RecordsDrawnRight ==
    LET drawn == Drawn(recordFile)
    IN  /\ drawn.timeArr = [i \in DOMAIN packed |-> packed[i].ts]
        /\ drawn.positionValueArr = [i \in DOMAIN packed |-> Whole(packed[i].value)]
        /\ drawn.balanceArr = [i \in DOMAIN packed |-> Whole(packed[i].balance)]
        /\ \A values \in {drawn.positionValueArr, drawn.balanceArr} :
               \A i \in DOMAIN values : Chart(drawn.timeArr, values).min <= values[i]

DayOf(income) == (income.at - 1) \div 2

\* An income that is stored before the day after its own is over.
Prompt(income) == income.came < Midnight(DayOf(income) + 2)

\* The line of the daily income ends at all that was earned, however long
\* the uploader was down between two days and whatever order incomes,
\* updates and midnights come in, if the figure for today is fresh and no
\* income was more than a day late (its row is not made again then).  Each
\* income counts by the rule of its bar: one in another currency counts
\* while its day lasts and vanishes from the row, one of no symbol appears
\* in the row only, and one at the midnight that today begins with is in
\* two bars until today is over.
IncomeAddsUp ==
    basis.fresh /\ (\A i \in basis.incomes : Prompt(i)) =>
        LET today == basis.at \div 2
        IN  IncomeLine(incomeFile)[today + 1] =
                RowWorthOf({i \in basis.incomes : i.at <= Midnight(today)}) +
                TodayWorthOf({i \in basis.incomes : i.at >= Midnight(today)})
=============================================================================
