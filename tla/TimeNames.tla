------------------------------ MODULE TimeNames ------------------------------
(* How the legacy front end names times (formatDate and turnTsToTime of    *)
(* constants/commonFunction.js) while time goes on.  A time is a number of *)
(* minutes from the beginning of a year.  Summer time is left out.         *)
EXTENDS Integers, Sequences, Functions

CONSTANTS
    MonthLengths,   \* the months looked at, one after the other
    NamedTime,      \* the times that are named, from the third day on
    Step            \* bound: how often one looks at the name

ASSUME MonthAssumption ==
    /\ MonthLengths \in Seq(28 .. 31) /\ MonthLengths # <<>>
    /\ NamedTime \subseteq Nat \ 0 .. 2 * 24 * 60 - 1
    /\ Step \in 1 .. 24 * 60

PerDay == 24 * 60
DayNumber(t) == t \div PerDay
DateBegin(t) == DayNumber(t) * PerDay

DaysBefore ==
    [month \in 1 .. Len(MonthLengths) + 1 |-> SumFunctionOnSet(MonthLengths, 1 .. month - 1)]

DaysLookedAt == SumFunction(MonthLengths)

ASSUME NamedTimeAssumption == \A t \in NamedTime : t < DaysLookedAt * PerDay

VARIABLES
    named,          \* the time that is named
    dateNow         \* Date.now()

namesVars == <<named, dateNow>>

\* getDate of JavaScript.
DateOf(day) ==
    LET month == CHOOSE m \in DOMAIN MonthLengths :
                     DaysBefore[m] <= day /\ day < DaysBefore[m + 1]
    IN  day - DaysBefore[month] + 1

-----------------------------------------------------------------------------
(* formatDate.                                                             *)

\* What the types show that name no day by a word.
PartsOf ==
    [F |-> {"month", "date"}, D |-> {"year", "month", "date"},
     H |-> {"year", "month", "date"},
     C |-> {"year", "month", "date", "hour", "minute", "second"},
     L |-> {"date", "hour", "minute", "second"},
     M |-> {"hour", "minute"}, N |-> {"minute", "second"}]

\* What the others show of the hour with a word, and without one.
HourOf ==
    [A |-> {"hour", "minute", "second"}, B |-> {"hour"},
     E |-> {"hour", "minute"}, G |-> {"hour", "minute"}]
WithoutWord ==
    [A |-> HourOf.A \cup {"date"}, B |-> HourOf.B \cup {"date"},
     E |-> HourOf.E \cup {"month", "date"}, G |-> {"month", "date"}]

\* Mutant of Recent: any time is.
RecentAlways(t, now) == TRUE

Recent(t, now) == now - t < 3 * PerDay

NoWord == 3

\* The word is chosen by the date alone: 0 for today, 1 for yesterday, 2 for
\* the day before.
Word(t, now) ==
    LET same == {n \in 0 .. 2 : /\ Recent(t, now)
                                /\ DateOf(DayNumber(t)) = DateOf(DayNumber(now - n * PerDay))}
    IN  IF same = {} THEN NoWord
        ELSE CHOOSE n \in same : \A k \in same : n <= k

Named(type, t, now) ==
    IF type \in DOMAIN PartsOf THEN [word |-> NoWord, parts |-> PartsOf[type]]
    ELSE LET word == Word(t, now)
         IN  [word |-> word,
              parts |-> IF word = NoWord THEN WithoutWord[type] ELSE HourOf[type]]

-----------------------------------------------------------------------------
(* turnTsToTime.                                                           *)

Interval == {"1m", "15m", "1h", "4h", "1d", "1w", "1M"}

\* A time is cut to an interval, a week and a month to a day like a day; the
\* board's files are named by the minute.
CutTo(interval, t) ==
    LET minute == t % 60
        hour   == (t % PerDay) \div 60
        begin  == DateBegin(t)
    IN  CASE interval = "1m"  -> t
          [] interval = "15m" -> begin + hour * 60 + minute - (minute % 15)
          [] interval = "1h"  -> begin + hour * 60
          [] interval = "4h"  -> begin + (hour - (hour % 4)) * 60
          [] OTHER            -> begin

-----------------------------------------------------------------------------
\* A time is named as soon as it is now.
NamesInit == named \in NamedTime /\ dateNow = named

Later ==
    /\ dateNow + Step < DaysLookedAt * PerDay
    /\ dateNow' = dateNow + Step
    /\ UNCHANGED named

NamesTypeOK == named \in NamedTime /\ dateNow \in named .. DaysLookedAt * PerDay

-----------------------------------------------------------------------------
(* Properties.                                                             *)

\* The name of a time after a while follows on the one before.
NextNameFollows ==
    /\ \A type \in DOMAIN HourOf :
           LET name == Named(type, named, dateNow)
               next == Named(type, named, dateNow')
           IN  /\ next.word =
                      IF DayNumber(dateNow') = DayNumber(dateNow) \/ name.word = NoWord
                      THEN name.word ELSE name.word + 1
               /\ "date" \in next.parts <=> next.word = NoWord
    /\ \A interval \in Interval :
           CutTo(interval, dateNow) <= CutTo(interval, dateNow')

\* As time goes on, what a time is called goes from today over yesterday and
\* the day before to its date, at midnights only, through the ends of short
\* and long months, and no word comes back, although days are compared by
\* their date alone.  A time that is cut to an interval never goes back.
WordsGoOn == [][Later => NextNameFollows]_namesVars
=============================================================================
