------------------------------ MODULE ShowBoard ------------------------------
(* The public board of the legacy front end (constainers/Show.js).  It asks *)
(* every three seconds for the file of figures of the minute before now and *)
(* for the balance records, unless the figures it shows are of that minute. *)
(* They never are: the uploader (post_trade/webOssUpdate.py, generateObj)   *)
(* raises at the name "cQuant/" + nowTime + ".json", where nowTime is a     *)
(* datetime, before it has put any file of figures, so that the answer is   *)
(* always an error page, which does not parse.  The other two files are put *)
(* by updateRecord and updateDayIncome.  Answers come in any order.         *)
EXTENDS Naturals, Sequences, SequencesExt

CONSTANTS
    BoardRange,         \* HISTORY_TABLE_TYPE_ARR
    FirstRange,         \* "fromLastInvestor"
    NoRecords,          \* the charts are empty
    MaxAsked,           \* bound: requests without an answer
    MaxBoardMisses,     \* bound: answers that never come
    MaxBoardLoads       \* bound: loads of the page

ASSUME FirstRangeAssumption == FirstRange \in BoardRange
ASSUME NoRecordsAssumption == NoRecords \notin BoardRange

IncomeType == {"bar", "line"}

VARIABLES
    askedQuant,         \* number of requests for figures
    askedRecords,       \* ranges asked for and not answered, oldest first
    askedIncome,        \* number of requests for the daily income
    recordsOf,          \* the range whose records the charts show
    incomeShown,        \* the daily income has arrived
    historyTableType,
    dayIncomeTableType,
    storedIncomeType,   \* localStorage.dayIncomeTableType
    boardMisses, boardLoads,
    inOrder             \* history: no records were lost or overtaken

asked     == <<askedQuant, askedRecords, askedIncome>>
boardView == <<recordsOf, incomeShown>>
choices   == <<historyTableType, dayIncomeTableType, storedIncomeType>>
boardVars == <<asked, boardView, choices, boardMisses, boardLoads, inOrder>>

BoardTypeOK ==
    /\ askedRecords \in Seq(BoardRange)
    /\ askedQuant \in Nat /\ askedIncome \in Nat
    /\ recordsOf \in BoardRange \cup {NoRecords}
    /\ incomeShown \in BOOLEAN /\ inOrder \in BOOLEAN
    /\ historyTableType \in BoardRange
    /\ {dayIncomeTableType, storedIncomeType} \subseteq IncomeType

\* componentDidMount asks for everything once; loadConfig, which it calls
\* too, brings hot keys that the board does not show.
BoardInit ==
    /\ askedQuant = 1 /\ askedRecords = <<FirstRange>> /\ askedIncome = 1
    /\ recordsOf = NoRecords /\ incomeShown = FALSE
    /\ historyTableType = FirstRange
    /\ storedIncomeType \in IncomeType /\ dayIncomeTableType = storedIncomeType
    /\ boardMisses = 0 /\ boardLoads = 1 /\ inOrder = TRUE

BoardReload ==
    /\ boardLoads < MaxBoardLoads
    /\ boardLoads' = boardLoads + 1
    /\ askedQuant' = 1 /\ askedRecords' = <<FirstRange>> /\ askedIncome' = 1
    /\ recordsOf' = NoRecords /\ incomeShown' = FALSE
    /\ historyTableType' = FirstRange
    /\ dayIncomeTableType' = storedIncomeType
    /\ inOrder' = TRUE
    /\ UNCHANGED <<storedIncomeType, boardMisses>>

-----------------------------------------------------------------------------
(* The timers.                                                             *)

\* The bound on requests; the user and the slow timer leave room for a tick.
RoomFor(n) == askedQuant + Len(askedRecords) + askedIncome + n <= MaxAsked

\* Mutant of RangeOfTimer: the range that the page was loaded with.
RangeOfMount == FirstRange

\* The timer's request names the range that the state holds when it is made.
RangeOfTimer == historyTableType

\* Every three seconds; lastMinTime is "" for ever, which is no minute.
BoardTick ==
    /\ RoomFor(2)
    /\ askedQuant' = askedQuant + 1
    /\ askedRecords' = Append(askedRecords, RangeOfTimer)
    /\ UNCHANGED <<askedIncome, boardView, choices, boardMisses, boardLoads, inOrder>>

\* Every 15 minutes.
IncomeTick ==
    /\ RoomFor(3)
    /\ askedIncome' = askedIncome + 1
    /\ UNCHANGED <<askedQuant, askedRecords, boardView, choices, boardMisses,
                   boardLoads, inOrder>>

-----------------------------------------------------------------------------
(* Answers; i counts the requests for records from the oldest.             *)

\* No file of figures is ever there.
QuantArrives ==
    /\ askedQuant > 0
    /\ askedQuant' = askedQuant - 1
    /\ UNCHANGED <<askedRecords, askedIncome, boardView, choices, boardMisses,
                   boardLoads, inOrder>>

RecordsArrive(i) ==
    /\ i \in DOMAIN askedRecords
    /\ askedRecords' = RemoveAt(askedRecords, i)
    /\ recordsOf' = askedRecords[i]
    /\ inOrder' = (inOrder /\ i = 1)
    /\ UNCHANGED <<askedQuant, askedIncome, incomeShown, choices, boardMisses, boardLoads>>

IncomeArrives ==
    /\ askedIncome > 0
    /\ askedIncome' = askedIncome - 1
    /\ incomeShown' = TRUE
    /\ UNCHANGED <<askedQuant, askedRecords, recordsOf, choices, boardMisses, boardLoads,
                   inOrder>>

\* There is no onerror: a request that fails is forgotten.  One whose file
\* is not there yet changes nothing either.
AnswerMissing ==
    /\ boardMisses < MaxBoardMisses
    /\ boardMisses' = boardMisses + 1
    /\ \/ /\ \E i \in DOMAIN askedRecords : askedRecords' = RemoveAt(askedRecords, i)
          /\ inOrder' = FALSE
          /\ UNCHANGED askedIncome
       \/ /\ askedIncome > 0 /\ askedIncome' = askedIncome - 1
          /\ UNCHANGED <<askedRecords, inOrder>>
    /\ UNCHANGED <<askedQuant, boardView, choices, boardLoads>>

-----------------------------------------------------------------------------
(* The two selects.                                                        *)

\* Mutant of RangeAsked: the state is set only after the request was made.
RangeAskedBefore(range) == historyTableType

\* The handler writes the range into the state before it asks.
RangeAsked(range) == range

ChooseRange(range) ==
    /\ RoomFor(3)
    /\ historyTableType' = range
    /\ askedRecords' = Append(askedRecords, RangeAsked(range))
    /\ UNCHANGED <<askedQuant, askedIncome, boardView, dayIncomeTableType,
                   storedIncomeType, boardMisses, boardLoads, inOrder>>

ChooseIncomeType(type) ==
    /\ RoomFor(3)
    /\ dayIncomeTableType' = type /\ storedIncomeType' = type
    /\ askedRecords' = Append(askedRecords, historyTableType)
    /\ UNCHANGED <<askedQuant, askedIncome, boardView, historyTableType,
                   boardMisses, boardLoads, inOrder>>

BoardNext ==
    \/ BoardReload \/ BoardTick \/ IncomeTick
    \/ QuantArrives \/ IncomeArrives \/ AnswerMissing
    \/ \E i \in 1 .. MaxAsked + 1 : RecordsArrive(i)
    \/ \E range \in BoardRange : ChooseRange(range)
    \/ \E type \in IncomeType : ChooseIncomeType(type)

\* The browser runs its timers, and answers that are not lost arrive, each
\* some time: the oldest is not overtaken for ever.
BoardFairness ==
    /\ WF_boardVars(BoardTick)
    /\ WF_boardVars(QuantArrives) /\ WF_boardVars(RecordsArrive(1))
    /\ WF_boardVars(IncomeArrives)

BoardSpec == BoardInit /\ [][BoardNext]_boardVars /\ BoardFairness

-----------------------------------------------------------------------------
(* Properties.                                                             *)

\* With every answer in its order and none lost, the charts show the range
\* that the select names once nothing is under way, through every mix of
\* choices, timers and first answers.
RangeShown ==
    inOrder /\ askedRecords = <<>> => recordsOf = historyTableType

\* Once the user leaves the select alone, the charts come to show the range
\* that it names and stay with it, although getPositionRecord compares
\* nothing and an answer that was overtaken or lost leaves another range on
\* them for a while: the timer, which never finds the figures it waits for,
\* asks again and again.
RangeSettles ==
    \A range \in BoardRange :
        <>[](historyTableType = range) => <>[](recordsOf = range)
=============================================================================
