--------------------------- MODULE FrontEndProofs ---------------------------
(* The pages of the front end, alone and together (FrontEnd), with the       *)
(* server that keeps the configurations: what they show and what is kept of  *)
(* what was saved, for any settings, hot keys, ranges, files of bars, balance *)
(* records and incomes.                                                     *)
EXTENDS FrontEnd, DialogProofs, DataTheorems

-----------------------------------------------------------------------------
(* The board (ShowBoard): the charts show the range that the select names.  *)
(* First, what happens to its lists of requests.                            *)

\* A list that has got one more request: the request is its last.
LEMMA AskedLast ==
    ASSUME NEW T, NEW s \in Seq(T), NEW x \in T
    PROVE  /\ Append(s, x) \in Seq(T) /\ Append(s, x) # <<>>
           /\ Append(s, x)[Len(Append(s, x))] = x
OBVIOUS

\* An answer takes its request out of the list.
LEMMA AnsweredLeaves ==
    ASSUME NEW T, NEW s \in Seq(T), NEW i \in DOMAIN s
    PROVE  RemoveAt(s, i) \in Seq(T)
<1>1. i \in 1 .. Len(s) /\ Len(s) \in Nat
  OBVIOUS
<1>2. SubSeq(s, 1, i - 1) \in Seq(T)
  BY <1>1
<1>3. SubSeq(s, i + 1, Len(s)) \in Seq(T)
  BY <1>1
<1> QED BY <1>2, <1>3 DEF RemoveAt

\* Without its oldest request a list ends as before, unless it is empty now.
LEMMA OldestLeaves ==
    ASSUME NEW T, NEW s \in Seq(T), 1 \in DOMAIN s
    PROVE  IF RemoveAt(s, 1) = <<>> THEN s[Len(s)] = s[1]
           ELSE RemoveAt(s, 1)[Len(RemoveAt(s, 1))] = s[Len(s)]
<1>1. Len(s) \in Nat /\ Len(s) >= 1
  OBVIOUS
<1>2. SubSeq(s, 1, 0) = <<>>
  BY <1>1
<1> DEFINE rest == SubSeq(s, 2, Len(s))
<1>3. rest \in Seq(T) /\ Len(rest) = Len(s) - 1
  <2>1. rest \in Seq(T)
    BY <1>1
  <2>2. Len(rest) = Len(s) - 1
    <3>1. PICK n \in Nat : n = Len(s) /\ n >= 1
      BY <1>1
    <3>2. Len(SubSeq(s, 2, n)) = n - 1
      BY <3>1
    <3> QED BY <3>1, <3>2
  <2> QED BY <2>1, <2>2
<1>4. RemoveAt(s, 1) = <<>> \o rest
  BY <1>2 DEF RemoveAt
<1>5. RemoveAt(s, 1) = rest
  BY <1>3, <1>4
<1>6. CASE Len(s) = 1
  <2>1. rest = <<>>
    BY <1>3, <1>6
  <2> QED BY <2>1, <1>5, <1>6
<1>7. CASE Len(s) # 1
  <2>1. rest # <<>>
    <3>1. Len(rest) # 0 /\ Len(<<>>) = 0
      BY <1>1, <1>3, <1>7
    <3> HIDE DEF rest
    <3> QED BY <3>1
  <2>2. rest[Len(rest)] = s[Len(s)]
    BY <1>1, <1>3, <1>7
  <2> QED BY <2>1, <2>2, <1>5
<1> QED BY <1>6, <1>7

-----------------------------------------------------------------------------
(* The board's invariant: while the answers come in their order, the newest *)
(* request for records is for the range of the select, and so is what the   *)
(* charts show when none is under way.                                      *)

NewestAsked ==
    IF askedRecords = <<>> THEN recordsOf = historyTableType
    ELSE askedRecords[Len(askedRecords)] = historyTableType

BoardInv ==
    /\ askedRecords \in Seq(BoardRange)
    /\ historyTableType \in BoardRange
    /\ inOrder \in BOOLEAN
    /\ inOrder => NewestAsked

\* The board's invariant holds at first.
LEMMA BoardStarts == BoardInit => BoardInv
BY FirstRangeAssumption DEF BoardInit, BoardInv, NewestAsked

\* Each step keeps it: whoever asks, asks for the range of the select.
LEMMA BoardKeeps == BoardInv /\ [BoardNext]_boardVars => BoardInv'
<1> SUFFICES ASSUME BoardInv, [BoardNext]_boardVars PROVE BoardInv'
  OBVIOUS
<1>0. /\ askedRecords \in Seq(BoardRange) /\ historyTableType \in BoardRange
      /\ inOrder \in BOOLEAN
  BY DEF BoardInv
<1> DEFINE more(x) == Append(askedRecords, x)
<1>1. ASSUME BoardReload PROVE BoardInv'
  BY <1>1, FirstRangeAssumption DEF BoardReload, BoardInv, NewestAsked
<1>2. ASSUME UNCHANGED <<askedRecords, historyTableType, inOrder, recordsOf>>
      PROVE  BoardInv'
  BY <1>2 DEF BoardInv, NewestAsked
<1>3. ASSUME NEW x \in BoardRange, askedRecords' = more(x), historyTableType' = x,
             inOrder' = inOrder
      PROVE  BoardInv'
  <2>1. more(x) \in Seq(BoardRange) /\ more(x) # <<>> /\ more(x)[Len(more(x))] = x
    BY <1>0, AskedLast
  <2> HIDE DEF more
  <2> QED BY <1>0, <1>3, <2>1 DEF BoardInv, NewestAsked
<1>4. ASSUME IncomeTick \/ QuantArrives \/ IncomeArrives PROVE BoardInv'
  BY <1>2, <1>4 DEF IncomeTick, QuantArrives, IncomeArrives, boardView, choices
<1>6. ASSUME BoardTick PROVE BoardInv'
  BY <1>0, <1>3, <1>6 DEF BoardTick, RangeOfTimer, choices
<1>8. ASSUME NEW i \in 1 .. MaxAsked + 1, RecordsArrive(i) PROVE BoardInv'
  <2>1. /\ i \in DOMAIN askedRecords /\ askedRecords' = RemoveAt(askedRecords, i)
        /\ recordsOf' = askedRecords[i] /\ historyTableType' = historyTableType
        /\ inOrder' = (inOrder /\ i = 1)
    BY <1>8 DEF RecordsArrive, choices
  <2>2. askedRecords' \in Seq(BoardRange)
    BY <1>0, <2>1, AnsweredLeaves
  <2>3. ASSUME inOrder' PROVE NewestAsked'
    <3>1. inOrder /\ i = 1 /\ 1 \in DOMAIN askedRecords
      BY <2>1, <2>3
    <3>2. askedRecords # <<>>
      BY <3>1
    <3>3. askedRecords[Len(askedRecords)] = historyTableType
      BY <3>1, <3>2 DEF BoardInv, NewestAsked
    <3>4. IF askedRecords' = <<>> THEN askedRecords[Len(askedRecords)] = askedRecords[1]
          ELSE askedRecords'[Len(askedRecords')] = askedRecords[Len(askedRecords)]
      BY <1>0, <2>1, <3>1, OldestLeaves
    <3> QED BY <2>1, <3>1, <3>3, <3>4 DEF NewestAsked
  <2>4. inOrder' \in BOOLEAN
    BY <2>1
  <2> QED BY <1>0, <2>1, <2>2, <2>3, <2>4 DEF BoardInv
<1>9. ASSUME AnswerMissing PROVE BoardInv'
  <2>1. /\ historyTableType' = historyTableType /\ recordsOf' = recordsOf
        /\ \/ askedRecords' = askedRecords /\ inOrder' = inOrder
           \/ /\ \E i \in DOMAIN askedRecords : askedRecords' = RemoveAt(askedRecords, i)
              /\ inOrder' = FALSE
    BY <1>9 DEF AnswerMissing, boardView, choices
  <2>2. CASE askedRecords' = askedRecords /\ inOrder' = inOrder
    BY <1>2, <2>1, <2>2
  <2>3. CASE /\ \E i \in DOMAIN askedRecords : askedRecords' = RemoveAt(askedRecords, i)
             /\ inOrder' = FALSE
    <3>1. askedRecords' \in Seq(BoardRange)
      BY <1>0, <2>3, AnsweredLeaves
    <3> QED BY <1>0, <2>1, <2>3, <3>1 DEF BoardInv
  <2> QED BY <2>1, <2>2, <2>3
<1>10. ASSUME NEW r \in BoardRange, ChooseRange(r) PROVE BoardInv'
  BY <1>3, <1>10 DEF ChooseRange, RangeAsked
<1>11. ASSUME NEW type \in IncomeType, ChooseIncomeType(type) PROVE BoardInv'
  BY <1>0, <1>3, <1>11 DEF ChooseIncomeType
<1>12. ASSUME UNCHANGED boardVars PROVE BoardInv'
  BY <1>2, <1>12 DEF boardVars, asked, boardView, choices
<1> QED
  BY <1>1, <1>4, <1>6, <1>8, <1>9, <1>10, <1>11, <1>12 DEF BoardNext

\* With every answer in its order and none lost, the charts show the range
\* of the select once nothing is under way: for any ranges, and any number of
\* requests, losses and loads of the page.
THEOREM ChartsShowSelect == BoardSpec => []RangeShown
<1>1. BoardInv => RangeShown
  BY DEF BoardInv, NewestAsked, RangeShown
<1> QED BY <1>1, BoardStarts, BoardKeeps, PTL DEF BoardSpec

-----------------------------------------------------------------------------
(* The replay chart (ChartFeed): it never shows a bar that has not begun.   *)
(* First, the times of bars.                                                *)

\* An earlier bar begins earlier.
LEMMA EarlierBegins ==
    ASSUME NEW a \in Int, NEW b \in Int, a <= b
    PROVE  a * TicksPerBar <= b * TicksPerBar
<1>1. TicksPerBar \in Nat
  BY FeedAssumption
<1>2. PICK d \in Nat : b = a + d
  <2>1. b - a \in Nat /\ b = a + (b - a)
    OBVIOUS
  <2> QED BY <2>1
<1>3. d * TicksPerBar >= 0
  BY <1>1
<1>4. b * TicksPerBar = a * TicksPerBar + d * TicksPerBar
  BY <1>1, <1>2
<1>5. a * TicksPerBar \in Int /\ b * TicksPerBar \in Int /\ d * TicksPerBar \in Int
  BY <1>1
<1> QED BY <1>3, <1>4, <1>5

\* The bar of a time has begun by then.
LEMMA BarOfTime ==
    ASSUME NEW now \in Nat
    PROVE  /\ now \div TicksPerBar \in Nat
           /\ (now \div TicksPerBar) * TicksPerBar <= now
<1> DEFINE T == TicksPerBar
<1>1. T \in Nat /\ T > 0
  BY FeedAssumption
<1> HIDE DEF T
<1>2. now \div T \in Nat /\ (now \div T) * T <= now
  BY <1>1
<1> QED BY <1>2 DEF T

\* The last bar that the timer hands out at a time.
LastAt(now) == IF now >= MaxClock THEN LastBar ELSE now \div TicksPerBar

\* It is a bar of the file and has begun.
LEMMA LastHasBegun ==
    ASSUME NEW now \in Nat
    PROVE  LastAt(now) \in Bar /\ LastAt(now) * TicksPerBar <= now
<1>1. LastBar \in Nat /\ TicksPerBar \in Nat
  BY FeedAssumption
<1>2. LastBar * TicksPerBar <= MaxClock /\ MaxClock \in Nat
  <2>1. LastBar * TicksPerBar <= (LastBar + 1) * TicksPerBar
    BY <1>1, EarlierBegins
  <2>2. (LastBar + 1) * TicksPerBar \in Nat
    BY <1>1
  <2> QED BY <2>1, <2>2 DEF MaxClock, End
<1>3. CASE now >= MaxClock
  <2>1. LastAt(now) = LastBar
    BY <1>3 DEF LastAt
  <2>2. LastBar * TicksPerBar \in Nat
    BY <1>1
  <2> QED BY <1>1, <1>2, <1>3, <2>1, <2>2 DEF Bar
<1>4. CASE ~(now >= MaxClock)
  <2> DEFINE q == now \div TicksPerBar
  <2>1. q \in Nat /\ q * TicksPerBar <= now
    BY BarOfTime
  <2>2. LastAt(now) = q
    BY <1>4 DEF LastAt
  <2> HIDE DEF q
  <2>3. q <= LastBar
    <3> SUFFICES ASSUME q > LastBar PROVE FALSE
      BY <1>1, <2>1
    <3>1. (LastBar + 1) * TicksPerBar <= q * TicksPerBar
      BY <1>1, <2>1, EarlierBegins
    <3>2. MaxClock <= q * TicksPerBar
      BY <3>1 DEF MaxClock, End
    <3>3. q * TicksPerBar \in Nat
      BY <1>1, <2>1
    <3> QED BY <1>2, <1>4, <2>1, <3>2, <3>3
  <2> QED BY <1>1, <2>1, <2>2, <2>3 DEF Bar
<1> QED BY <1>3, <1>4

\* The bars that the timer hands out, and the newest of them.
LEMMA HandedOut ==
    ASSUME NEW now \in Nat
    PROVE  /\ DOMAIN BarsAt(now) = 0 .. LastAt(now)
           /\ Newest(BarsAt(now)) = LastAt(now)
<1> DEFINE last == LastAt(now)
<1>1. last \in Bar /\ last \in Nat /\ LastBar \in Nat
  BY LastHasBegun, FeedAssumption DEF Bar
<1>2. DOMAIN BarsAt(now) = BarsUpTo(last)
  BY DEF BarsAt, LastAt
<1> HIDE DEF last
<1>3. BarsUpTo(last) = 0 .. last
  BY <1>1 DEF BarsUpTo, Bar
<1>4. Cardinality(0 .. last) = last + 1
  BY <1>1, FS_Interval
<1>5. Newest(BarsAt(now)) = last
  BY <1>1, <1>2, <1>3, <1>4 DEF Newest
<1> QED BY <1>2, <1>3, <1>5 DEF last

-----------------------------------------------------------------------------
(* The replay's invariant: neither the chart nor the bars kept for the      *)
(* library go beyond the clock.                                             *)

Begun(bars, now) == \A i \in DOMAIN bars : i \in Int /\ i * TicksPerBar <= now

FutureInv ==
    /\ clock \in Nat
    /\ Begun(chart, clock)
    /\ Begun(barCache, clock)

\* No bars are none too early.
LEMMA NothingBegun == \A now : Begun(NoBars, now)
BY DEF Begun, NoBars

\* What has begun has begun later, too.
LEMMA StaysBegun ==
    ASSUME NEW bars, NEW now \in Nat, NEW later \in Nat, now <= later, Begun(bars, now)
    PROVE  Begun(bars, later)
<1> SUFFICES ASSUME NEW i \in DOMAIN bars PROVE i \in Int /\ i * TicksPerBar <= later
  BY DEF Begun
<1>1. i \in Int /\ i * TicksPerBar <= now /\ TicksPerBar \in Nat
  BY FeedAssumption DEF Begun
<1>2. i * TicksPerBar \in Int
  BY <1>1
<1> QED BY <1>1, <1>2

\* The replay's invariant holds at first.
LEMMA FeedStarts == FeedInit => FutureInv
BY NothingBegun, FeedAssumption DEF FeedInit, FutureInv

\* A request for bars is answered from the bars that are kept, or not yet.
LEMMA AskingKeeps ==
    ASSUME FutureInv, NEW r, AskFor(r)
    PROVE  Begun(chart', clock)
BY NothingBegun DEF AskFor, FutureInv

\* The file, cut at the clock.
LEMMA FileCut ==
    ASSUME NEW now \in Nat
    PROVE  Begun([i \in HistoryUntil(now) |-> End(i)], now)
<1> SUFFICES ASSUME NEW i \in HistoryUntil(now) PROVE i \in Int /\ i * TicksPerBar <= now
  BY DEF Begun
<1>1. i \in Int /\ i * TicksPerBar < now
  BY FeedAssumption DEF HistoryUntil, Bar
<1>2. i * TicksPerBar \in Int
  BY <1>1, FeedAssumption
<1> QED BY <1>1, <1>2

\* The bars of a tick have begun.
LEMMA BarsBegun ==
    ASSUME NEW now \in Nat
    PROVE  Begun(BarsAt(now), now)
<1>1. LastAt(now) \in Nat /\ LastAt(now) * TicksPerBar <= now
  BY LastHasBegun, FeedAssumption DEF Bar
<1> SUFFICES ASSUME NEW i \in 0 .. LastAt(now) PROVE i \in Int /\ i * TicksPerBar <= now
  BY HandedOut DEF Begun
<1>2. i \in Int /\ i <= LastAt(now)
  BY <1>1
<1>3. i * TicksPerBar <= LastAt(now) * TicksPerBar
  BY <1>1, <1>2, EarlierBegins
<1>4. i * TicksPerBar \in Int /\ LastAt(now) * TicksPerBar \in Int
  BY <1>1, <1>2, FeedAssumption
<1> QED BY <1>1, <1>2, <1>3, <1>4

\* The timer gives a subscriber the newest bar and at most the one before it.
LEMMA EmittedBegun ==
    ASSUME NEW now \in Nat, NEW last, NEW i \in Emitted(last, BarsAt(now))
    PROVE  i \in Int /\ i * TicksPerBar <= now
<1>1. LastAt(now) \in Nat /\ LastAt(now) * TicksPerBar <= now
  BY LastHasBegun, FeedAssumption DEF Bar
<1>2. i = LastAt(now) \/ i = LastAt(now) - 1
  BY HandedOut DEF Emitted
<1>3. i \in Int /\ i <= LastAt(now)
  BY <1>1, <1>2
<1>4. i * TicksPerBar <= LastAt(now) * TicksPerBar
  BY <1>1, <1>3, EarlierBegins
<1>5. i * TicksPerBar \in Int /\ LastAt(now) * TicksPerBar \in Int
  BY <1>1, <1>3, FeedAssumption
<1> QED BY <1>1, <1>3, <1>4, <1>5

\* The updates of a tick keep the chart within the clock.
LEMMA UpdatesBegun ==
    ASSUME FutureInv, UpdateData(BarsAt(clock))
    PROVE  Begun(chart', clock)
<1>0. clock \in Nat /\ Begun(chart, clock)
  BY DEF FutureInv
<1>1. CASE chart' = chart
  BY <1>0, <1>1
<1>2. ASSUME NEW last,
             chart' = [i \in DOMAIN chart \cup Emitted(last, BarsAt(clock)) |->
                 IF i \in Emitted(last, BarsAt(clock)) THEN BarsAt(clock)[i] ELSE chart[i]]
      PROVE  Begun(chart', clock)
  <2>1. DOMAIN chart' = DOMAIN chart \cup Emitted(last, BarsAt(clock))
    BY <1>2
  <2>2. \A i \in Emitted(last, BarsAt(clock)) : i \in Int /\ i * TicksPerBar <= clock
    BY <1>0, EmittedBegun
  <2> QED BY <1>0, <2>1, <2>2 DEF Begun
<1>3. \/ chart' = chart
      \/ \E last :
             chart' = [i \in DOMAIN chart \cup Emitted(last, BarsAt(clock)) |->
                 IF i \in Emitted(last, BarsAt(clock)) THEN BarsAt(clock)[i] ELSE chart[i]]
  BY DEF UpdateData
<1> QED BY <1>1, <1>2, <1>3

\* It holds after every step.
LEMMA FeedKeeps == FutureInv /\ [FeedNext]_feedVars => FutureInv'
<1> SUFFICES ASSUME FutureInv, [FeedNext]_feedVars PROVE FutureInv'
  OBVIOUS
<1>0. clock \in Nat /\ Begun(chart, clock) /\ Begun(barCache, clock)
  BY DEF FutureInv
<1>1. ASSUME NEW r \in Resolution, ChooseResolution(r) PROVE FutureInv'
  <2>1. clock' = clock /\ barCache' = barCache /\ AskFor(r)
    BY <1>1 DEF ChooseResolution
  <2>2. Begun(chart', clock)
    BY <2>1, AskingKeeps
  <2> QED BY <1>0, <2>1, <2>2 DEF FutureInv
<1>2. ASSUME UNCHANGED <<clock, chart, barCache>> PROVE FutureInv'
  BY <1>0, <1>2 DEF FutureInv
<1>3. ASSUME NEW r \in Resolution, Unsubscribe(r) PROVE FutureInv'
  BY <1>2, <1>3 DEF Unsubscribe, api, library
<1>4. ASSUME Subscribe PROVE FutureInv'
  BY <1>2, <1>4 DEF Subscribe, api, library
<1>5. ASSUME KlinesArrive PROVE FutureInv'
  <2> DEFINE list == [i \in HistoryUntil(clock) |-> End(i)]
  <2>1. /\ clock' = clock
        /\ barCache' = list \/ barCache' = barCache
        /\ chart' = list \/ chart' = chart
    BY <1>5 DEF KlinesArrive
  <2>2. Begun(list, clock)
    BY <1>0, FileCut
  <2> HIDE DEF list
  <2> QED BY <1>0, <2>1, <2>2 DEF FutureInv
<1>6. ASSUME TradesArrive PROVE FutureInv'
  BY <1>2, <1>6 DEF TradesArrive, library
<1>7. ASSUME FileMissing PROVE FutureInv'
  BY <1>2, <1>7 DEF FileMissing, api, library
<1>8. ASSUME Tick PROVE FutureInv'
  <2>1. clock' \in Nat /\ clock <= clock'
    BY <1>0, <1>8 DEF Tick
  <2>2. barCache' = BarsAt(clock) /\ UpdateData(BarsAt(clock))
    BY <1>8 DEF Tick
  <2>3. Begun(barCache', clock)
    BY <1>0, <2>2, BarsBegun
  <2>4. Begun(chart', clock)
    BY <2>2, UpdatesBegun
  <2>5. Begun(barCache', clock') /\ Begun(chart', clock')
    BY <1>0, <2>1, <2>3, <2>4, StaysBegun
  <2> QED BY <2>1, <2>5 DEF FutureInv
<1>9. ASSUME FeedReload PROVE FutureInv'
  BY <1>9, NothingBegun, FeedAssumption DEF FeedReload, FutureInv
<1>10. ASSUME UNCHANGED feedVars PROVE FutureInv'
  BY <1>2, <1>10 DEF feedVars, api, library
<1> QED
  BY <1>1, <1>3, <1>4, <1>5, <1>6, <1>7, <1>8, <1>9, <1>10 DEF FeedNext

\* The replay never shows a bar before it begins, in whatever order files,
\* requests, ticks, subscriptions and loads of the page come.
THEOREM ReplayHidesFuture == FeedSpec => []NoFutureBar
<1>1. FutureInv => NoFutureBar
  BY DEF FutureInv, Begun, NoFutureBar
<1> QED BY <1>1, FeedStarts, FeedKeeps, PTL DEF FeedSpec

-----------------------------------------------------------------------------
(* The balance records (BoardFiles): the changes that a file is made of add *)
(* up to the records.                                                       *)

\* The changes that some records are written as.
ChangesOf(kept) ==
    [i \in DOMAIN kept |-> Change(IF i = 1 THEN Origin ELSE kept[i - 1], kept[i])]

RecordsInv ==
    /\ records \in Seq(PositionRecord)
    /\ packed \in Seq(PositionRecord)
    /\ recordFile = ChangesOf(packed)

\* The records from a time on are records.
LEMMA SinceAreRecords ==
    ASSUME records \in Seq(PositionRecord), NEW limit
    PROVE  Since(limit) \in Seq(PositionRecord)
<1> DEFINE S == {i \in DOMAIN records : records[i].ts >= limit}
<1>1. S \in SUBSET Nat /\ IsFiniteSet(S)
  BY IdsFinite
<1>2. PICK n : n = Cardinality(S)
  OBVIOUS
<1>3. n \in Nat /\ InOrder(S) \in [1 .. n -> S]
  BY <1>1, <1>2, InOrderLists
<1>4. PICK ids : ids = InOrder(S)
  OBVIOUS
<1>5. Since(limit) = [k \in DOMAIN ids |-> records[ids[k]]]
  BY <1>4 DEF Since
<1>6. \A k \in 1 .. n : records[ids[k]] \in PositionRecord
  BY <1>3, <1>4
<1>7. Since(limit) \in [1 .. n -> PositionRecord]
  BY <1>3, <1>4, <1>5, <1>6
<1> QED BY <1>3, <1>7

\* The file of records is written from records.
LEMMA RecordsStart == FilesInit => RecordsInv
BY DEF FilesInit, RecordsInv, ChangesOf

\* It is so after every step.
LEMMA RecordsKeep == RecordsInv /\ [RecordsNext]_recordVars => RecordsInv'
<1> SUFFICES ASSUME RecordsInv, [RecordsNext]_recordVars PROVE RecordsInv'
  OBVIOUS
<1>1. ASSUME NEW r \in PositionRecord, RecordInserted(r) PROVE RecordsInv'
  BY <1>1 DEF RecordInserted, RecordsInv, ChangesOf
<1>2. ASSUME NEW limit \in RecordLimits, UpdateRecord(limit) PROVE RecordsInv'
  <2>1. Since(limit) \in Seq(PositionRecord)
    BY SinceAreRecords DEF RecordsInv
  <2> QED BY <1>2, <2>1 DEF UpdateRecord, RecordsInv, ChangesOf
<1>3. ASSUME UNCHANGED recordVars PROVE RecordsInv'
  BY <1>3 DEF recordVars, RecordsInv, ChangesOf
<1> QED BY <1>1, <1>2, <1>3 DEF RecordsNext

\* Dollars are whole numbers.
LEMMA WholeIsNumber == Whole(0) = 0 /\ \A x \in Nat : Whole(x) \in Nat
<1>1. PICK u \in Nat \ {0} : u = UnitsPerDollar
  BY BoardFilesAssumption
<1>2. 0 \div u = 0 /\ \A x \in Nat : x \div u \in Nat
  OBVIOUS
<1> QED BY <1>1, <1>2 DEF Whole

\* What a chart shows of a record, in the three figures of a change.
Figure(r, figure) == IF figure = "ts" THEN r.ts ELSE Whole(r[figure])

Figures == {"ts", "value", "balance"}

\* The changes of a figure add up to the figure of the records.
LEMMA ChangesAddUp ==
    ASSUME NEW p \in Seq(PositionRecord), NEW figure \in Figures
    PROVE  \A i \in DOMAIN p :
               /\ Figure(p[i], figure) \in Int
               /\ SumFunctionOnSet([j \in DOMAIN ChangesOf(p) |-> ChangesOf(p)[j][figure]],
                                   1 .. i) = Figure(p[i], figure)
<1> DEFINE n == Len(p)
           h == [i \in 0 .. n |-> IF i = 0 THEN 0 ELSE Figure(p[i], figure)]
           d == [j \in DOMAIN ChangesOf(p) |-> ChangesOf(p)[j][figure]]
<1>1. n \in Nat /\ DOMAIN p = 1 .. n /\ \A i \in 1 .. n : p[i] \in PositionRecord
  OBVIOUS
<1>2. \A r \in PositionRecord : Figure(r, figure) \in Int
  <2> SUFFICES ASSUME NEW r \in PositionRecord PROVE Figure(r, figure) \in Int
    OBVIOUS
  <2>1. r.ts \in Nat /\ r.value \in Nat /\ r.balance \in Nat
    BY BoardFilesAssumption
  <2>2. Whole(r.value) \in Nat /\ Whole(r.balance) \in Nat
    BY <2>1, WholeIsNumber
  <2>3. Figure(r, figure) \in {r.ts, Whole(r.value), Whole(r.balance)}
    BY DEF Figure, Figures
  <2> QED BY <2>1, <2>2, <2>3
<1>3. Figure(Origin, figure) = 0
  BY WholeIsNumber DEF Figure, Figures, Origin
<1>4. \A r, t : Change(r, t)[figure] = Figure(t, figure) - Figure(r, figure)
  BY DEF Change, Figure, Figures
<1>5. h[0] = 0 /\ \A i \in 0 .. n : h[i] \in Int
  BY <1>1, <1>2
<1>6. \A i \in 1 .. n : d[i] = h[i] - h[i - 1]
  <2> SUFFICES ASSUME NEW i \in 1 .. n PROVE d[i] = h[i] - h[i - 1]
    OBVIOUS
  <2>1. d[i] = Change(IF i = 1 THEN Origin ELSE p[i - 1], p[i])[figure]
    BY <1>1 DEF ChangesOf
  <2>2. h[i - 1] = Figure(IF i = 1 THEN Origin ELSE p[i - 1], figure)
    BY <1>1, <1>3
  <2>3. h[i] = Figure(p[i], figure)
    BY <1>1
  <2> HIDE DEF h, d
  <2> QED BY <1>4, <2>1, <2>2, <2>3
<1>7. \A k \in 0 .. n : SumFunctionOnSet(d, 1 .. k) = h[k]
  <2> HIDE DEF h, d, n
  <2> QED BY <1>1, <1>5, <1>6, SumOfChanges
<1> SUFFICES ASSUME NEW i \in 1 .. n
             PROVE  /\ Figure(p[i], figure) \in Int
                    /\ SumFunctionOnSet(d, 1 .. i) = Figure(p[i], figure)
  BY <1>1
<1>8. h[i] = Figure(p[i], figure) /\ i \in 0 .. n
  BY <1>1
<1> HIDE DEF h, d, n
<1> QED BY <1>1, <1>2, <1>7, <1>8

\* What is drawn of a file.
LEMMA DrawnAre ==
    ASSUME NEW p \in Seq(PositionRecord)
    PROVE  LET drawn == Drawn(ChangesOf(p))
           IN  /\ drawn.timeArr = [i \in DOMAIN p |-> Figure(p[i], "ts")]
               /\ drawn.positionValueArr = [i \in DOMAIN p |-> Figure(p[i], "value")]
               /\ drawn.balanceArr = [i \in DOMAIN p |-> Figure(p[i], "balance")]
<1> DEFINE changes == ChangesOf(p)
           Added(figure) == [i \in DOMAIN changes |->
               SumFunctionOnSet([j \in DOMAIN changes |-> changes[j][figure]], 1 .. i)]
<1>1. DOMAIN changes = DOMAIN p
  BY DEF ChangesOf
<1>2. ASSUME NEW figure \in Figures
      PROVE  Added(figure) = [i \in DOMAIN p |-> Figure(p[i], figure)]
  <2>1. \A i \in DOMAIN p :
            SumFunctionOnSet([j \in DOMAIN changes |-> changes[j][figure]], 1 .. i) =
                Figure(p[i], figure)
    BY ChangesAddUp
  <2> HIDE DEF changes
  <2> QED BY <1>1, <2>1
<1>3. /\ Drawn(changes).timeArr = Added("ts")
      /\ Drawn(changes).positionValueArr = Added("value")
      /\ Drawn(changes).balanceArr = Added("balance")
  BY DEF Drawn
<1>4. {"ts", "value", "balance"} \subseteq Figures
  BY DEF Figures
<1> HIDE DEF changes, Added
<1>5. /\ Added("ts") = [i \in DOMAIN p |-> Figure(p[i], "ts")]
      /\ Added("value") = [i \in DOMAIN p |-> Figure(p[i], "value")]
      /\ Added("balance") = [i \in DOMAIN p |-> Figure(p[i], "balance")]
  BY <1>2, <1>4
<1> QED BY <1>3, <1>5 DEF changes

\* No value lies under the beginning of the axis.
LEMMA AxisBeginsBelow ==
    ASSUME NEW times, NEW values, IsFiniteSet(DOMAIN values),
           \A i \in DOMAIN values : values[i] \in Int
    PROVE  \A i \in DOMAIN values : Chart(times, values).min <= values[i]
<1>1. Chart(times, values).min = Lowest(Highest, values, DOMAIN values)
  BY DEF Chart, FoldFunction, Lowest
<1>2. Highest \in Int
  BY DEF Highest
<1> QED BY <1>1, <1>2, LowestIsBelow

\* What the board draws of a file are the records it was made of, for any
\* records, in whatever order they were inserted and packed.
LEMMA RecordsDrawn == RecordsInv => RecordsDrawnRight
<1> SUFFICES ASSUME RecordsInv PROVE RecordsDrawnRight
  OBVIOUS
<1> PICK drawn : drawn = Drawn(recordFile)
  OBVIOUS
<1>1. packed \in Seq(PositionRecord) /\ recordFile = ChangesOf(packed)
  BY DEF RecordsInv
<1>2. /\ drawn.timeArr = [i \in DOMAIN packed |-> packed[i].ts]
      /\ drawn.positionValueArr = [i \in DOMAIN packed |-> Whole(packed[i].value)]
      /\ drawn.balanceArr = [i \in DOMAIN packed |-> Whole(packed[i].balance)]
  BY <1>1, DrawnAre DEF Figure
<1>3. \A i \in DOMAIN packed :
          /\ packed[i].value \in Nat /\ packed[i].balance \in Nat
  BY <1>1, BoardFilesAssumption
<1>4. IsFiniteSet(DOMAIN packed)
  BY <1>1, IdsFinite
<1>5. ASSUME NEW values \in {drawn.positionValueArr, drawn.balanceArr}
      PROVE  \A i \in DOMAIN values : Chart(drawn.timeArr, values).min <= values[i]
  <2>1. DOMAIN values = DOMAIN packed /\ \A i \in DOMAIN values : values[i] \in Int
    BY <1>2, <1>3, WholeIsNumber
  <2> QED BY <1>4, <2>1, AxisBeginsBelow
<1> QED BY <1>2, <1>5 DEF RecordsDrawnRight

-----------------------------------------------------------------------------
(* The daily income (BoardFiles).  First, what incomes are worth.           *)

RowWeights == [i \in Income |-> RowWorth(i.kind)]

\* What an income counts is a number.
LEMMA WorthIsNumber == \A i \in Income : RowWorth(i.kind) \in Nat /\ TodayWorth(i.kind) \in Nat
<1> SUFFICES ASSUME NEW kind PROVE Tenths(kind) \in Nat
  BY DEF RowWorth, TodayWorth
<1>1. Tenths(kind) \in {18, 30, 6, 10}
  BY DEF Tenths, BnbPrice
<1> QED BY <1>1

\* What some incomes count in rows is a sum of weights.
LEMMA WorthIsSum ==
    ASSUME NEW s \in SUBSET Income, IsFiniteSet(s)
    PROVE  RowWorthOf(s) = SumFunctionOnSet(RowWeights, s) /\ RowWorthOf(s) \in Nat
<1> DEFINE f == [i \in s |-> RowWorth(i.kind)]
<1>1. RowWorthOf(s) = SumFunctionOnSet(f, s)
  BY DEF RowWorthOf, SumFunction, FoldFunction, SumFunctionOnSet
<1>2. \A i \in s : f[i] = RowWeights[i] /\ RowWeights[i] \in Nat /\ f[i] \in Int
  BY WorthIsNumber DEF RowWeights
<1> HIDE DEF f
<1>3. SumFunctionOnSet(f, s) = SumFunctionOnSet(RowWeights, s)
  BY <1>2, SumOfSame
<1>4. SumFunctionOnSet(RowWeights, s) \in Nat
  BY <1>2, SumOfPart
<1> QED BY <1>1, <1>3, <1>4

\* What some incomes count today is a number.
LEMMA TodayIsNumber ==
    ASSUME NEW s \in SUBSET Income, IsFiniteSet(s)
    PROVE  TodayWorthOf(s) \in Nat
<1> DEFINE f == [i \in s |-> TodayWorth(i.kind)]
<1>1. TodayWorthOf(s) = SumFunctionOnSet(f, s)
  BY DEF TodayWorthOf, SumFunction, FoldFunction, SumFunctionOnSet
<1>2. \A i \in s : f[i] \in Nat
  BY WorthIsNumber
<1> HIDE DEF f
<1> QED BY <1>1, <1>2, SumOfPart

\* Nothing counts nothing.
LEMMA NothingCounts == RowWorthOf({}) = 0 /\ TodayWorthOf({}) = 0
<1>1. /\ RowWorthOf({}) = SumFunctionOnSet([i \in {} |-> RowWorth(i.kind)], {})
      /\ TodayWorthOf({}) = SumFunctionOnSet([i \in {} |-> TodayWorth(i.kind)], {})
  BY DEF RowWorthOf, TodayWorthOf, SumFunction, FoldFunction, SumFunctionOnSet
<1> QED BY <1>1, SumUnfolds, FS_EmptySet

\* Two sets of incomes together count as much as both.
LEMMA WorthOfBoth ==
    ASSUME NEW s \in SUBSET Income, NEW t \in SUBSET Income, IsFiniteSet(s),
           IsFiniteSet(t), s \cap t = {}
    PROVE  RowWorthOf(s \cup t) = RowWorthOf(s) + RowWorthOf(t)
<1>1. IsFiniteSet(s \cup t) /\ s \cup t \in SUBSET Income
  BY FS_Union
<1>2. \A i \in s \cup t : RowWeights[i] \in Int
  BY WorthIsNumber DEF RowWeights
<1>3. SumFunctionOnSet(RowWeights, s \cup t) =
          SumFunctionOnSet(RowWeights, s) + SumFunctionOnSet(RowWeights, t)
  BY <1>2, SumOfUnion
<1> QED BY <1>1, <1>3, WorthIsSum

-----------------------------------------------------------------------------
(* Days.                                                                    *)

OfDay(all, day) == {i \in all : DayOf(i) = day}

\* What the row of a day counts are the incomes of the day.
LEMMA DayOfTimes ==
    \A i \in Income :
        /\ DayOf(i) \in Nat /\ i.at \in Nat /\ i.came \in Nat
        /\ \A day \in Nat :
               /\ DayOf(i) = day <=> i.at > Midnight(day) /\ i.at <= Midnight(day + 1)
               /\ DayOf(i) < day <=> i.at <= Midnight(day)
<1> SUFFICES ASSUME NEW i \in Income, NEW day \in Nat
             PROVE  /\ DayOf(i) \in Nat /\ i.at \in Nat /\ i.came \in Nat
                    /\ DayOf(i) = day <=> i.at > 2 * day /\ i.at <= 2 * (day + 1)
                    /\ DayOf(i) < day <=> i.at <= 2 * day
  BY DEF Midnight
<1>1. i.at \in Nat /\ i.at >= 1 /\ i.came \in Nat
  BY BoardFilesAssumption DEF Income, Time, Midnight
<1>2. PICK a \in Nat : a = i.at - 1
  BY <1>1
<1>3. i.at = a + 1 /\ DayOf(i) = a \div 2
  BY <1>1, <1>2 DEF DayOf
<1>4. /\ a \div 2 \in Nat
      /\ a \div 2 = day <=> a + 1 > 2 * day /\ a + 1 <= 2 * (day + 1)
      /\ a \div 2 < day <=> a + 1 <= 2 * day
  OBVIOUS
<1> QED BY <1>1, <1>3, <1>4

\* The rows of days add up to all that was earned on them.
LEMMA DaysAddUp ==
    ASSUME NEW all \in SUBSET Income, IsFiniteSet(all), NEW n \in Nat, NEW f,
           \A k \in 1 .. n : f[k] = RowWorthOf(OfDay(all, k - 1))
    PROVE  SumFunctionOnSet(f, 1 .. n) = RowWorthOf({i \in all : DayOf(i) < n})
<1> DEFINE Before(day) == {i \in all : DayOf(i) < day}
           h == [k \in 0 .. n |-> RowWorthOf(Before(k))]
<1>1. \A s \in SUBSET all : s \in SUBSET Income /\ IsFiniteSet(s)
  BY FS_Subset
<1>2. h[0] = 0
  <2>1. Before(0) = {}
    BY DayOfTimes
  <2>2. RowWorthOf({}) = 0
    BY NothingCounts
  <2> QED BY <2>1, <2>2
<1>3. \A k \in 0 .. n : h[k] \in Int
  BY <1>1, WorthIsSum
<1>4. \A k \in 1 .. n : f[k] = h[k] - h[k - 1]
  <2> SUFFICES ASSUME NEW k \in 1 .. n PROVE f[k] = h[k] - h[k - 1]
    OBVIOUS
  <2>1. /\ Before(k) = Before(k - 1) \cup OfDay(all, k - 1)
        /\ Before(k - 1) \cap OfDay(all, k - 1) = {}
    <3>1. \A i \in all : DayOf(i) \in Nat
      BY DayOfTimes
    <3> QED BY <3>1 DEF OfDay
  <2>2. OfDay(all, k - 1) \in SUBSET all /\ Before(k - 1) \in SUBSET all
    BY DEF OfDay
  <2>3. k \in 0 .. n /\ k - 1 \in 0 .. n
    OBVIOUS
  <2>4. h[k] = RowWorthOf(Before(k)) /\ h[k - 1] = RowWorthOf(Before(k - 1))
    BY <2>3
  <2> HIDE DEF Before
  <2>5. RowWorthOf(Before(k)) = RowWorthOf(Before(k - 1)) + RowWorthOf(OfDay(all, k - 1))
    BY <1>1, <2>1, <2>2, WorthOfBoth
  <2>6. RowWorthOf(Before(k - 1)) \in Nat /\ RowWorthOf(OfDay(all, k - 1)) \in Nat
    BY <1>1, <2>2, WorthIsSum
  <2>7. f[k] = RowWorthOf(OfDay(all, k - 1))
    OBVIOUS
  <2> HIDE DEF h
  <2> QED BY <2>4, <2>5, <2>6, <2>7
<1>5. h[n] = RowWorthOf(Before(n)) /\ n \in 0 .. n
  OBVIOUS
<1> HIDE DEF h
<1>6. SumFunctionOnSet(f, 1 .. n) = h[n]
  BY <1>2, <1>3, <1>4, <1>5, SumOfChanges
<1> QED BY <1>5, <1>6

\* With today's figure the line ends at what the rows and today count.
LEMMA LineEnds ==
    ASSUME NEW all \in SUBSET Income, IsFiniteSet(all), NEW n \in Nat, NEW f,
           \A k \in 1 .. n : f[k] = RowWorthOf(OfDay(all, k - 1)),
           f[n + 1] \in Nat
    PROVE  SumFunctionOnSet(f, 1 .. n + 1) =
               RowWorthOf({i \in all : i.at <= Midnight(n)}) + f[n + 1]
<1> DEFINE before == {i \in all : i.at <= Midnight(n)}
           days   == 1 .. n
<1>1. SumFunctionOnSet(f, days) = RowWorthOf(before)
  <2>1. before = {i \in all : DayOf(i) < n}
    BY DayOfTimes
  <2> QED BY <2>1, DaysAddUp
<1>2. SumFunctionOnSet(f, 1 .. n + 1) = SumFunctionOnSet(f, days) + f[n + 1]
  <2>1. days \cup {n + 1} = 1 .. n + 1 /\ n + 1 \notin days
    OBVIOUS
  <2>2. IsFiniteSet(days)
    BY FS_Interval
  <2>3. \A k \in days \cup {n + 1} : f[k] \in Int
    <3>1. \A s \in SUBSET all : s \in SUBSET Income /\ IsFiniteSet(s) /\ RowWorthOf(s) \in Nat
      BY FS_Subset, WorthIsSum
    <3>2. ASSUME NEW k \in days PROVE f[k] \in Nat
      <4>1. OfDay(all, k - 1) \in SUBSET all
        BY DEF OfDay
      <4> QED BY <3>1, <4>1
    <3> QED BY <3>2
  <2> HIDE DEF days
  <2>4. SumFunctionOnSet(f, days \cup {n + 1}) = SumFunctionOnSet(f, days) + f[n + 1]
    BY <2>1, <2>2, <2>3, SumOneMore
  <2> QED BY <2>1, <2>4
<1> QED BY <1>1, <1>2

-----------------------------------------------------------------------------
(* The invariant of the daily income: the table has rows from the first day *)
(* on, of which all but the last are final.  A row is final when the update *)
(* that made it ran a day after its own was over; an income that comes      *)
(* after that is not prompt.                                                *)

Complete(all, day) == \A i \in all : DayOf(i) = day => Prompt(i)

RowsFinal(rows) ==
    /\ DOMAIN dayRows = 0 .. rows - 1
    /\ \A day \in 0 .. rows - 1 : dayRows[day] \in Nat
    /\ \A day \in 0 .. rows - 2 :
           Complete(incomes, day) => dayRows[day] = RowWorthOf(OfDay(incomes, day))

IncomeShape ==
    /\ time \in Time /\ incomes \in SUBSET Income /\ IsFiniteSet(incomes)
    /\ todayProfit \in Nat /\ todayFresh \in BOOLEAN
    /\ incomeFile \in Seq(Nat)
    /\ basis.at \in Time /\ basis.incomes \in SUBSET incomes /\ basis.fresh \in BOOLEAN

IncomeInv ==
    /\ IncomeShape
    /\ todayFresh => todayProfit = TodayWorthOf({i \in incomes : i.at >= Midnight(Today)})
    /\ \E rows \in 0 .. Today : RowsFinal(rows)
    /\ IncomeAddsUp

\* The time lies in its day.
LEMMA Times ==
    ASSUME time \in Time
    PROVE  /\ time \in Nat /\ Today \in 0 .. MaxDay /\ MaxDay \in Nat
           /\ Midnight(Today) <= time
<1>1. MaxDay \in Nat /\ time \in Nat /\ time <= 2 * MaxDay + 1
  BY BoardFilesAssumption DEF Time, Midnight
<1>2. time \div 2 \in Nat /\ time \div 2 <= MaxDay /\ 2 * (time \div 2) <= time
  BY <1>1
<1> QED BY <1>1, <1>2 DEF Today, Midnight

\* The file is of its basis; what happens to the incomes later does not
\* matter to it.
LEMMA FileRests ==
    ASSUME IncomeAddsUp, UNCHANGED <<incomeFile, basis>>
    PROVE  IncomeAddsUp'
BY DEF IncomeAddsUp, IncomeLine, Prompt, DayOf, Midnight, RowWorthOf, RowWorth,
       TodayWorthOf, TodayWorth, Tenths

\* The invariant of the daily income holds at first.
LEMMA IncomeStarts == FilesInit => IncomeInv
<1> SUFFICES ASSUME FilesInit PROVE IncomeInv
  OBVIOUS
<1>1. /\ time = 1 /\ incomes = {} /\ dayRows = <<>> /\ todayProfit = 0
      /\ todayFresh = TRUE /\ incomeFile = <<0>>
      /\ basis = [at |-> 1, incomes |-> {}, fresh |-> TRUE]
  BY DEF FilesInit
<1>2. RowWorthOf({}) = 0 /\ TodayWorthOf({}) = 0
  BY NothingCounts
<1>3. 1 \in Time
  BY BoardFilesAssumption DEF Time, Midnight
<1>4. IncomeShape
  BY <1>1, <1>3, FS_EmptySet DEF IncomeShape
<1>5. \E rows \in 0 .. Today : RowsFinal(rows)
  <2>1. RowsFinal(0)
    BY <1>1 DEF RowsFinal
  <2>2. 0 \in 0 .. Today
    BY <1>1, <1>3, Times
  <2> QED BY <2>1, <2>2
<1>6. IncomeAddsUp
  <2>1. 1 \div 2 = 0
    OBVIOUS
  <2>2. IncomeLine(<<0>>)[1] = SumFunctionOnSet(<<0>>, 1 .. 1)
    BY DEF IncomeLine
  <2>3. SumFunctionOnSet(<<0>>, {1}) = 0
    <3>1. SumFunctionOnSet(<<0>>, {} \cup {1}) = SumFunctionOnSet(<<0>>, {}) + <<0>>[1]
      BY SumOneMore, FS_EmptySet
    <3>2. SumFunctionOnSet(<<0>>, {}) = 0
      BY SumUnfolds, FS_EmptySet
    <3> QED BY <3>1, <3>2
  <2>4. 1 .. 1 = {1}
    OBVIOUS
  <2> QED BY <1>1, <1>2, <2>1, <2>2, <2>3, <2>4 DEF IncomeAddsUp
<1>7. {i \in incomes : i.at >= Midnight(Today)} = {}
  BY <1>1
<1> QED BY <1>1, <1>2, <1>4, <1>5, <1>6, <1>7 DEF IncomeInv

\* An income that comes now is of no final day, or it is late.
LEMMA EarnedKeeps ==
    ASSUME IncomeInv, NEW at \in Time, NEW kind \in IncomeKind, Earned(at, kind)
    PROVE  IncomeInv'
<1> PICK new : new = [at |-> at, came |-> time, kind |-> kind]
  OBVIOUS
<1>1. /\ incomes' = incomes \cup {new} /\ todayFresh' = FALSE
      /\ UNCHANGED <<time, dayRows, todayProfit, incomeFile, basis>>
  BY DEF Earned
<1>2. IncomeShape /\ IncomeAddsUp
  BY DEF IncomeInv
<1>3. new \in Income
  BY <1>2 DEF Income, IncomeShape
<1>4. IncomeShape'
  BY <1>1, <1>2, <1>3, FS_AddElement DEF IncomeShape
<1>5. PICK rows \in 0 .. Today : RowsFinal(rows)
  BY DEF IncomeInv
<1>6. (\E r \in 0 .. Today : RowsFinal(r))'
  <2>1. ASSUME NEW day \in 0 .. rows - 2, Complete(incomes', day)
        PROVE  dayRows[day] = RowWorthOf(OfDay(incomes', day))
    <3>1. DayOf(new) # day
      <4> SUFFICES ASSUME DayOf(new) = day PROVE FALSE
        OBVIOUS
      <4>1. new.came < Midnight(day + 2)
        BY <1>1, <2>1 DEF Complete, Prompt
      <4>2. new.came = time /\ time \in Nat /\ Today \in Nat /\ Midnight(Today) <= time
        BY <1>2, Times DEF IncomeShape
      <4>3. day + 2 <= Today
        BY <1>5, <4>2
      <4> QED BY <4>1, <4>2, <4>3 DEF Midnight
    <3>2. OfDay(incomes', day) = OfDay(incomes, day)
      BY <1>1, <3>1 DEF OfDay
    <3>3. Complete(incomes, day)
      BY <1>1, <2>1 DEF Complete
    <3> QED BY <1>5, <3>2, <3>3 DEF RowsFinal
  <2>2. RowsFinal(rows)'
    BY <1>1, <1>5, <2>1 DEF RowsFinal
  <2>3. Today' = Today
    BY <1>1 DEF Today
  <2> QED BY <2>2, <2>3
<1>7. IncomeAddsUp'
  BY <1>1, <1>2, FileRests
<1> QED BY <1>1, <1>4, <1>6, <1>7 DEF IncomeInv

\* A later day has no fewer final rows.
LEMMA TimeKeeps ==
    ASSUME IncomeInv, TimePasses
    PROVE  IncomeInv'
<1>1. /\ time' = time + 1 /\ time' \in Time /\ todayFresh' = FALSE
      /\ UNCHANGED <<incomes, dayRows, todayProfit, incomeFile, basis>>
  BY DEF TimePasses
<1>2. IncomeShape /\ IncomeAddsUp
  BY DEF IncomeInv
<1>3. IncomeShape'
  BY <1>1, <1>2 DEF IncomeShape
<1>4. (\E rows \in 0 .. Today : RowsFinal(rows))'
  <2>1. PICK rows \in 0 .. Today : RowsFinal(rows)
    BY DEF IncomeInv
  <2>2. RowsFinal(rows)'
    BY <1>1, <2>1 DEF RowsFinal
  <2>3. time \in Nat
    BY <1>2, Times DEF IncomeShape
  <2>4. time \div 2 <= (time + 1) \div 2 /\ (time + 1) \div 2 \in Nat /\ time \div 2 \in Nat
    BY <2>3
  <2>5. rows \in 0 .. Today'
    BY <1>1, <2>1, <2>4 DEF Today
  <2> QED BY <2>2, <2>5
<1>5. IncomeAddsUp'
  BY <1>1, <1>2, FileRests
<1> QED BY <1>1, <1>3, <1>4, <1>5 DEF IncomeInv

\* generateObj: the figure for today is made anew.
LEMMA GenerateKeeps ==
    ASSUME IncomeInv, GenerateObj
    PROVE  IncomeInv'
<1>1. /\ todayProfit' = TodayWorthOf({i \in incomes : i.at >= Midnight(Today)})
      /\ todayFresh' = TRUE
      /\ UNCHANGED <<time, incomes, dayRows, incomeFile, basis>>
  BY DEF GenerateObj
<1>2. IncomeShape /\ IncomeAddsUp
  BY DEF IncomeInv
<1>3. todayProfit' \in Nat
  <2>1. {i \in incomes : i.at >= Midnight(Today)} \in SUBSET incomes
    OBVIOUS
  <2>2. \A s \in SUBSET incomes : TodayWorthOf(s) \in Nat
    BY <1>2, FS_Subset, TodayIsNumber DEF IncomeShape
  <2> QED BY <1>1, <2>1, <2>2
<1>4. IncomeShape'
  BY <1>1, <1>2, <1>3 DEF IncomeShape
<1>5. (\E rows \in 0 .. Today : RowsFinal(rows))'
  BY <1>1 DEF IncomeInv, RowsFinal, Today
<1>6. IncomeAddsUp'
  BY <1>1, <1>2, FileRests
<1> QED BY <1>1, <1>4, <1>5, <1>6 DEF IncomeInv, Today

-----------------------------------------------------------------------------
(* An update.                                                               *)

\* The table after an update has a row for every day before today; those
\* that were not final are made of the incomes that are there.
LEMMA RowsUpdated ==
    ASSUME IncomeInv, UpdateDayIncome
    PROVE  /\ DOMAIN dayRows' = 0 .. Today - 1
           /\ \A day \in 0 .. Today - 1 :
                  /\ dayRows'[day] \in Nat
                  /\ Complete(incomes, day) => dayRows'[day] = RowWorthOf(OfDay(incomes, day))
<1>1. PICK rows \in 0 .. Today : RowsFinal(rows)
  BY DEF IncomeInv
<1>2. Today \in Nat /\ rows \in Nat /\ rows <= Today
  BY <1>1, Times DEF IncomeInv, IncomeShape
<1>3. FirstDay = IF rows = 0 THEN 0 ELSE rows - 1
  <2>1. DOMAIN dayRows = 0 .. rows - 1
    BY <1>1 DEF RowsFinal
  <2>2. CASE rows = 0
    BY <2>1, <2>2 DEF FirstDay
  <2>3. CASE rows # 0
    <3>1. rows - 1 \in DOMAIN dayRows /\ rows - 1 + 1 \notin DOMAIN dayRows
      BY <1>2, <2>1, <2>3
    <3>2. \A d \in DOMAIN dayRows : d + 1 \notin DOMAIN dayRows => d = rows - 1
      BY <1>2, <2>1
    <3>3. FirstDay = CHOOSE d \in DOMAIN dayRows : d + 1 \notin DOMAIN dayRows
      BY <3>1 DEF FirstDay
    <3> QED BY <2>3, <3>1, <3>2, <3>3
  <2> QED BY <2>2, <2>3
<1> PICK first : first = FirstDay
  OBVIOUS
<1>4. dayRows' = [d \in DOMAIN dayRows \cup first .. Today - 1 |->
                     IF d \in first .. Today - 1 THEN DayProfit(d) ELSE dayRows[d]]
  BY DEF UpdateDayIncome
<1>5. DOMAIN dayRows \cup first .. Today - 1 = 0 .. Today - 1
  BY <1>1, <1>2, <1>3 DEF RowsFinal
<1>6. ASSUME NEW day \in 0 .. Today - 1
      PROVE  DayProfit(day) = RowWorthOf(OfDay(incomes, day)) /\ DayProfit(day) \in Nat
  <2>1. {i \in incomes : i.at > Midnight(day) /\ i.at <= Midnight(day + 1)} =
            OfDay(incomes, day)
    BY DayOfTimes DEF OfDay, IncomeInv, IncomeShape
  <2>2. OfDay(incomes, day) \in SUBSET incomes
    BY DEF OfDay
  <2>3. RowWorthOf(OfDay(incomes, day)) \in Nat
    BY <2>2, FS_Subset, WorthIsSum DEF IncomeInv, IncomeShape
  <2> QED BY <2>1, <2>3 DEF DayProfit
<1>7. ASSUME NEW day \in 0 .. Today - 1
      PROVE  /\ dayRows'[day] \in Nat
             /\ Complete(incomes, day) => dayRows'[day] = RowWorthOf(OfDay(incomes, day))
  <2>1. CASE day \in first .. Today - 1
    BY <1>4, <1>6, <2>1
  <2>2. CASE day \notin first .. Today - 1
    <3>1. dayRows'[day] = dayRows[day]
      BY <1>4, <1>5, <2>2
    <3>2. day \in 0 .. rows - 2 /\ day \in 0 .. rows - 1
      BY <1>2, <1>3, <2>2
    <3> QED BY <1>1, <3>1, <3>2 DEF RowsFinal
  <2> QED BY <2>1, <2>2
<1> QED BY <1>4, <1>5, <1>7

\* The file of an update ends at what the rows and today count.
LEMMA UpdateKeeps ==
    ASSUME IncomeInv, UpdateDayIncome
    PROVE  IncomeInv'
<1>1. /\ incomeFile' = [n \in 1 .. Today + 1 |->
             IF n = Today + 1 THEN todayProfit ELSE dayRows'[n - 1]]
      /\ basis' = [at |-> time, incomes |-> incomes, fresh |-> todayFresh]
      /\ UNCHANGED <<time, incomes, todayProfit, todayFresh>>
  BY DEF UpdateDayIncome
<1>2. IncomeShape
  BY DEF IncomeInv
<1>3. Today \in Nat /\ Today' = Today
  BY <1>1, <1>2, Times DEF IncomeShape, Today
<1>4. /\ DOMAIN dayRows' = 0 .. Today - 1
      /\ \A day \in 0 .. Today - 1 :
             /\ dayRows'[day] \in Nat
             /\ Complete(incomes, day) => dayRows'[day] = RowWorthOf(OfDay(incomes, day))
  BY RowsUpdated
<1>5. \A n \in 1 .. Today : n - 1 \in 0 .. Today - 1
  BY <1>3
<1>6. incomeFile' \in Seq(Nat)
  <2>1. \A n \in 1 .. Today + 1 :
            (IF n = Today + 1 THEN todayProfit ELSE dayRows'[n - 1]) \in Nat
    BY <1>2, <1>3, <1>4 DEF IncomeShape
  <2>2. incomeFile' \in [1 .. Today + 1 -> Nat]
    BY <1>1, <2>1
  <2> QED BY <1>3, <2>2
<1>7. IncomeShape'
  BY <1>1, <1>2, <1>6 DEF IncomeShape
<1>8. (\E rows \in 0 .. Today : RowsFinal(rows))'
  <2>1. RowsFinal(Today)'
    BY <1>1, <1>3, <1>4 DEF RowsFinal
  <2>2. Today' \in 0 .. Today'
    BY <1>3
  <2> QED BY <2>1, <2>2
<1>9. ASSUME todayFresh, \A i \in incomes : Prompt(i)
      PROVE  SumFunctionOnSet(incomeFile', 1 .. Today + 1) =
                 RowWorthOf({i \in incomes : i.at <= Midnight(Today)}) +
                 TodayWorthOf({i \in incomes : i.at >= Midnight(Today)})
  <2>1. todayProfit = TodayWorthOf({i \in incomes : i.at >= Midnight(Today)})
    BY <1>9 DEF IncomeInv
  <2>2. incomeFile'[Today + 1] = todayProfit
    BY <1>1, <1>3
  <2>3. \A k \in 1 .. Today : incomeFile'[k] = RowWorthOf(OfDay(incomes, k - 1))
    <3> SUFFICES ASSUME NEW k \in 1 .. Today
                 PROVE  incomeFile'[k] = RowWorthOf(OfDay(incomes, k - 1))
      OBVIOUS
    <3>1. incomeFile'[k] = dayRows'[k - 1]
      BY <1>1, <1>3
    <3>2. Complete(incomes, k - 1)
      BY <1>9 DEF Complete
    <3> QED BY <1>4, <1>5, <3>1, <3>2
  <2> QED BY <1>2, <1>3, <2>1, <2>2, <2>3, LineEnds DEF IncomeShape
<1>10. IncomeAddsUp'
  <2> SUFFICES ASSUME todayFresh, \A i \in incomes : Prompt(i)
               PROVE  IncomeLine(incomeFile')[Today + 1] =
                          RowWorthOf({i \in incomes : i.at <= Midnight(Today)}) +
                          TodayWorthOf({i \in incomes : i.at >= Midnight(Today)})
    BY <1>1 DEF IncomeAddsUp, Today, Prompt, DayOf, Midnight, RowWorthOf, RowWorth,
                TodayWorthOf, TodayWorth, Tenths, IncomeLine
  <2>1. Today + 1 \in DOMAIN incomeFile'
    BY <1>1, <1>3
  <2> QED BY <1>9, <2>1 DEF IncomeLine
<1>11. todayFresh' => todayProfit' = TodayWorthOf({i \in incomes' : i.at >= Midnight(Today')})
  BY <1>1, <1>3 DEF IncomeInv
<1> QED BY <1>7, <1>8, <1>10, <1>11 DEF IncomeInv

\* The invariant holds after every step.
LEMMA IncomeKeeps == IncomeInv /\ [IncomeNext]_incomeVars => IncomeInv'
<1> SUFFICES ASSUME IncomeInv, [IncomeNext]_incomeVars PROVE IncomeInv'
  OBVIOUS
<1>1. ASSUME UNCHANGED incomeVars PROVE IncomeInv'
  <2>1. UNCHANGED <<time, incomes, dayRows, todayProfit, todayFresh, incomeFile, basis>>
    BY <1>1 DEF incomeVars
  <2>2. IncomeAddsUp'
    BY <2>1, FileRests DEF IncomeInv
  <2>3. Today' = Today
    BY <2>1 DEF Today
  <2>4. IncomeShape'
    BY <2>1 DEF IncomeInv, IncomeShape
  <2>5. (\E rows \in 0 .. Today : RowsFinal(rows))'
    BY <2>1, <2>3 DEF IncomeInv, RowsFinal
  <2> QED BY <2>1, <2>2, <2>3, <2>4, <2>5 DEF IncomeInv
<1> QED
  BY <1>1, EarnedKeeps, TimeKeeps, GenerateKeeps, UpdateKeeps DEF IncomeNext

-----------------------------------------------------------------------------
(* Types.                                                                   *)

\* A change of records is a point of a file.
LEMMA ChangesArePoints ==
    ASSUME NEW p \in Seq(PositionRecord)
    PROVE  ChangesOf(p) \in Seq(Point)
<1>1. \A r \in PositionRecord \cup {Origin} :
          r.ts \in Nat /\ Whole(r.value) \in Nat /\ Whole(r.balance) \in Nat
  <2> SUFFICES ASSUME NEW r \in PositionRecord \cup {Origin}
               PROVE  r.ts \in Nat /\ Whole(r.value) \in Nat /\ Whole(r.balance) \in Nat
    OBVIOUS
  <2>1. r.ts \in Nat /\ r.value \in Nat /\ r.balance \in Nat
    BY BoardFilesAssumption DEF Origin
  <2> QED BY <2>1, WholeIsNumber
<1>2. \A r, t \in PositionRecord \cup {Origin} : Change(r, t) \in Point
  BY <1>1 DEF Change, Point
<1>3. \A i \in DOMAIN p : Change(IF i = 1 THEN Origin ELSE p[i - 1], p[i]) \in Point
  <2> SUFFICES ASSUME NEW i \in DOMAIN p
               PROVE  Change(IF i = 1 THEN Origin ELSE p[i - 1], p[i]) \in Point
    OBVIOUS
  <2>1. p[i] \in PositionRecord /\ (i # 1 => p[i - 1] \in PositionRecord)
    OBVIOUS
  <2> QED BY <1>2, <2>1
<1>4. DOMAIN p = 1 .. Len(p) /\ Len(p) \in Nat
  OBVIOUS
<1>5. ChangesOf(p) \in [1 .. Len(p) -> Point]
  BY <1>3, <1>4 DEF ChangesOf
<1> QED BY <1>4, <1>5

\* The types of the two files follow from their invariants.
LEMMA FilesTyped == RecordsInv /\ IncomeInv => FilesTypeOK
<1> SUFFICES ASSUME RecordsInv, IncomeInv PROVE FilesTypeOK
  OBVIOUS
<1>1. recordFile \in Seq(Point)
  BY ChangesArePoints DEF RecordsInv
<1>2. PICK rows \in 0 .. Today : RowsFinal(rows)
  BY DEF IncomeInv
<1>3. Today \in 0 .. MaxDay /\ MaxDay \in Nat
  BY Times DEF IncomeInv, IncomeShape
<1>4. \A day \in DOMAIN dayRows : day \in 0 .. MaxDay /\ dayRows[day] \in Nat
  BY <1>2, <1>3 DEF RowsFinal
<1> QED BY <1>1, <1>4 DEF FilesTypeOK, RecordsInv, IncomeInv, IncomeShape

\* The days looked at.
LEMMA DaysAreNumbers == DaysLookedAt \in Nat /\ PerDay = 1440 /\ Step \in Nat \ {0}
<1>1. \A m \in DOMAIN MonthLengths : MonthLengths[m] \in Nat
  BY MonthAssumption
<1>2. IsFiniteSet(DOMAIN MonthLengths)
  BY MonthAssumption, IdsFinite
<1>3. DaysLookedAt = SumFunctionOnSet(MonthLengths, DOMAIN MonthLengths)
  BY DEF DaysLookedAt, SumFunction, FoldFunction, SumFunctionOnSet
<1>4. DaysLookedAt \in Nat
  BY <1>1, <1>2, <1>3, SumOfPart
<1> QED BY <1>4, MonthAssumption DEF PerDay

\* The names of times have their types.
LEMMA NamesStart == NamesInit => NamesTypeOK
BY DaysAreNumbers, MonthAssumption, NamedTimeAssumption DEF NamesInit, NamesTypeOK

\* They keep them as time goes on.
LEMMA NamesKeep == NamesTypeOK /\ [Later]_namesVars => NamesTypeOK'
BY DaysAreNumbers, MonthAssumption DEF Later, NamesTypeOK, namesVars

-----------------------------------------------------------------------------
(* The board's type.                                                        *)

\* The types hold at first.
LEMMA BoardTypeStarts == BoardInit => BoardTypeOK
<1> SUFFICES ASSUME BoardInit PROVE BoardTypeOK
  OBVIOUS
<1>1. <<FirstRange>> \in Seq(BoardRange)
  BY FirstRangeAssumption
<1> QED
  BY <1>1, FirstRangeAssumption DEF BoardInit, BoardTypeOK

\* They hold after every step.
LEMMA BoardTypeKeeps == BoardTypeOK /\ [BoardNext]_boardVars => BoardTypeOK'
<1> SUFFICES ASSUME BoardTypeOK, [BoardNext]_boardVars PROVE BoardTypeOK'
  OBVIOUS
<1>0. /\ askedQuant \in Nat /\ askedRecords \in Seq(BoardRange)
      /\ askedIncome \in Nat /\ historyTableType \in BoardRange
  BY DEF BoardTypeOK
<1> DEFINE more(r) == Append(askedRecords, r)
<1>1. \A r \in BoardRange : more(r) \in Seq(BoardRange)
  BY <1>0
<1>2. <<FirstRange>> \in Seq(BoardRange)
  BY FirstRangeAssumption
<1>3. ASSUME BoardReload PROVE BoardTypeOK'
  BY <1>2, <1>3, FirstRangeAssumption DEF BoardReload, BoardTypeOK
<1> HIDE DEF more
<1>4. ASSUME BoardTick PROVE BoardTypeOK'
  BY <1>0, <1>1, <1>4 DEF BoardTick, RangeOfTimer, BoardTypeOK, boardView, choices, more
<1>5. ASSUME IncomeTick \/ QuantArrives \/ IncomeArrives PROVE BoardTypeOK'
  <2>1. CASE IncomeTick
    BY <1>0, <2>1 DEF IncomeTick, BoardTypeOK, boardView, choices
  <2>2. CASE QuantArrives
    BY <1>0, <2>2 DEF QuantArrives, BoardTypeOK, boardView, choices
  <2>3. CASE IncomeArrives
    BY <1>0, <2>3 DEF IncomeArrives, BoardTypeOK, choices
  <2> QED BY <1>5, <2>1, <2>2, <2>3
<1>6. ASSUME NEW i \in 1 .. MaxAsked + 1, RecordsArrive(i) PROVE BoardTypeOK'
  <2>1. i \in DOMAIN askedRecords /\ askedRecords' = RemoveAt(askedRecords, i)
        /\ recordsOf' = askedRecords[i] /\ inOrder' = (inOrder /\ i = 1)
    BY <1>6 DEF RecordsArrive
  <2>2. askedRecords' \in Seq(BoardRange) /\ askedRecords[i] \in BoardRange
    BY <1>0, <2>1, AnsweredLeaves
  <2>3. inOrder' \in BOOLEAN /\ recordsOf' \in BoardRange \cup {NoRecords}
    BY <2>1, <2>2
  <2> QED BY <1>6, <2>2, <2>3 DEF RecordsArrive, BoardTypeOK, choices
<1>7. ASSUME AnswerMissing PROVE BoardTypeOK'
  <2>1. /\ UNCHANGED <<askedQuant, recordsOf, incomeShown, historyTableType,
                       dayIncomeTableType, storedIncomeType>>
        /\ inOrder' \in {inOrder, FALSE}
        /\ \/ askedRecords' = askedRecords
           \/ \E i \in DOMAIN askedRecords : askedRecords' = RemoveAt(askedRecords, i)
        /\ \/ askedIncome' = askedIncome
           \/ askedIncome > 0 /\ askedIncome' = askedIncome - 1
    BY <1>7 DEF AnswerMissing, boardView, choices
  <2>2. askedRecords' \in Seq(BoardRange)
    BY <1>0, <2>1, AnsweredLeaves
  <2>3. askedIncome' \in Nat
    BY <1>0, <2>1
  <2>4. inOrder' \in BOOLEAN
    BY <2>1 DEF BoardTypeOK
  <2> QED BY <2>1, <2>2, <2>3, <2>4 DEF BoardTypeOK
<1>8. ASSUME NEW r \in BoardRange, ChooseRange(r) PROVE BoardTypeOK'
  BY <1>1, <1>8 DEF ChooseRange, RangeAsked, BoardTypeOK, boardView, more
<1>9. ASSUME NEW type \in IncomeType, ChooseIncomeType(type) PROVE BoardTypeOK'
  BY <1>0, <1>1, <1>9 DEF ChooseIncomeType, BoardTypeOK, boardView, more
<1>10. ASSUME UNCHANGED boardVars PROVE BoardTypeOK'
  BY <1>10 DEF boardVars, BoardTypeOK, asked, boardView, choices
<1> QED
  BY <1>3, <1>4, <1>5, <1>6, <1>7, <1>8, <1>9, <1>10 DEF BoardNext

-----------------------------------------------------------------------------
(* The replay chart's type.                                                 *)

KnownBars(bars) == \A i \in DOMAIN bars : i \in Bar /\ bars[i] \in Clock

Subscribed(subs) ==
    /\ DOMAIN subs \subseteq Resolution
    /\ \A r \in DOMAIN subs : subs[r] \in Bar \cup {Never}

\* The type invariant in the terms of the lemmas.
LEMMA FeedTypeParts ==
    FeedTypeOK <=>
        /\ stored \in Resolution /\ interval \in Resolution /\ resolution \in Resolution
        /\ clock \in Clock
        /\ traded \in BOOLEAN /\ running \in BOOLEAN
        /\ KnownBars(barCache) /\ KnownBars(chart)
        /\ busy \subseteq Resolution
        /\ Subscribed(subscribers)
        /\ pending \in 0 .. Cardinality(Resolution)
        /\ waiting \in {"no", "kept", "dropped"}
BY DEF FeedTypeOK, KnownBars, Subscribed

\* Bars end within the clock's range.
LEMMA BarsEnd ==
    /\ MaxClock \in Nat /\ Clock \subseteq Nat /\ Start \in Clock
    /\ \A i \in Bar : End(i) \in Clock
    /\ Cardinality(Resolution) \in Nat
    /\ KnownBars(NoBars) /\ Subscribed(NoBars)
<1>1. TicksPerBar \in Nat /\ LastBar \in Nat /\ Start \in Nat /\ Start <= (LastBar + 1) * TicksPerBar
  BY FeedAssumption
<1>2. MaxClock = (LastBar + 1) * TicksPerBar
  BY DEF MaxClock, End
<1>3. MaxClock \in Nat
  BY <1>1, <1>2
<1>4. Clock \subseteq Nat /\ Start \in Clock
  BY <1>1, <1>2, <1>3 DEF Clock
<1>5. ASSUME NEW i \in Bar PROVE End(i) \in Clock
  <2>1. i + 1 \in Nat /\ i + 1 <= LastBar + 1 /\ LastBar + 1 \in Nat
    BY <1>1 DEF Bar
  <2>2. (i + 1) * TicksPerBar <= (LastBar + 1) * TicksPerBar
    BY <2>1, EarlierBegins
  <2>3. (i + 1) * TicksPerBar \in Nat
    BY <1>1, <2>1
  <2>4. End(i) = (i + 1) * TicksPerBar
    BY DEF End
  <2> QED BY <1>2, <1>3, <2>2, <2>3, <2>4 DEF Clock
<1>6. Cardinality(Resolution) \in Nat
  BY FeedAssumption, FS_CardinalityType
<1> QED BY <1>3, <1>4, <1>5, <1>6 DEF KnownBars, Subscribed, NoBars

\* The types hold at first.
LEMMA FeedTypeStarts == FeedInit => FeedTypeOK
<1> SUFFICES ASSUME FeedInit PROVE FeedTypeOK
  OBVIOUS
<1>1. /\ stored \in Resolution /\ interval = stored /\ resolution = stored
      /\ busy = {stored} /\ clock = Start /\ traded = FALSE /\ running = FALSE
      /\ barCache = NoBars /\ chart = NoBars /\ subscribers = NoBars /\ pending = 0
      /\ waiting = "kept"
  BY DEF FeedInit
<1>2. KnownBars(barCache) /\ KnownBars(chart) /\ Subscribed(subscribers)
  BY <1>1, BarsEnd
<1>3. clock \in Clock /\ pending \in 0 .. Cardinality(Resolution)
  BY <1>1, BarsEnd
<1>4. traded \in BOOLEAN /\ running \in BOOLEAN
  BY <1>1
<1> QED BY <1>1, <1>2, <1>3, <1>4, FeedTypeParts

\* The file cut at the clock, and the bars of a tick.
LEMMA BarsKnown ==
    ASSUME NEW now \in Clock
    PROVE  /\ KnownBars([i \in HistoryUntil(now) |-> End(i)])
           /\ KnownBars(BarsAt(now))
           /\ Newest(BarsAt(now)) \in Bar
<1>1. now \in Nat
  BY BarsEnd
<1>2. KnownBars([i \in HistoryUntil(now) |-> End(i)])
  BY BarsEnd DEF KnownBars, HistoryUntil
<1>3. LastAt(now) \in Bar
  BY <1>1, LastHasBegun
<1>4. ASSUME NEW i \in DOMAIN BarsAt(now) PROVE i \in Bar /\ BarsAt(now)[i] \in Clock
  <2>1. i \in Bar /\ BarsAt(now)[i] \in {now, End(i)}
    BY <1>4 DEF BarsAt, BarsUpTo
  <2> QED BY <2>1, BarsEnd
<1> QED BY <1>1, <1>2, <1>3, <1>4, HandedOut DEF KnownBars

\* What the timer gives a subscriber are bars that it has made.
LEMMA EmittedKnown ==
    ASSUME NEW now \in Clock, NEW last \in Bar \cup {Never}
    PROVE  Emitted(last, BarsAt(now)) \subseteq DOMAIN BarsAt(now)
<1>1. now \in Nat
  BY BarsEnd
<1> PICK n : n = LastAt(now)
  OBVIOUS
<1>2. n \in Nat /\ n <= LastBar /\ LastBar \in Nat
  BY <1>1, LastHasBegun, FeedAssumption DEF Bar
<1>3. DOMAIN BarsAt(now) = 0 .. n /\ Newest(BarsAt(now)) = n
  BY <1>1, HandedOut
<1>4. ASSUME last # Never, last < n PROVE last \in Nat
  BY <1>4, FeedAssumption DEF Bar
<1> QED BY <1>2, <1>3, <1>4 DEF Emitted

\* What a tick hands to the subscribers keeps the types.
LEMMA UpdateTyped ==
    ASSUME FeedTypeOK, UpdateData(BarsAt(clock))
    PROVE  /\ Subscribed(subscribers') /\ KnownBars(chart')
           /\ pending' \in 0 .. Cardinality(Resolution)
<1> DEFINE bars == BarsAt(clock)
<1>1. /\ clock \in Clock /\ Subscribed(subscribers) /\ KnownBars(chart)
      /\ pending \in 0 .. Cardinality(Resolution) /\ resolution \in Resolution
  BY FeedTypeParts
<1>2. KnownBars(bars) /\ Newest(bars) \in Bar
  BY <1>1, BarsKnown
<1>3. \A last \in Bar \cup {Never} : Emitted(last, bars) \subseteq DOMAIN bars
  BY <1>1, EmittedKnown
<1> HIDE DEF bars
<1>4. CASE pending # 0
  BY <1>1, <1>4 DEF UpdateData, updater
<1>5. CASE pending = 0
  <2> DEFINE heard == {r \in DOMAIN subscribers : Answered(r)}
  <2>1. /\ pending' = Cardinality(DOMAIN subscribers \ heard)
        /\ subscribers' = [r \in DOMAIN subscribers |->
               IF r \in heard THEN Newest(bars) ELSE subscribers[r]]
        /\ chart' = IF resolution \in heard /\ waiting = "no"
                    THEN LET new == Emitted(subscribers[resolution], bars)
                         IN  [i \in DOMAIN chart \cup new |->
                                 IF i \in new THEN bars[i] ELSE chart[i]]
                    ELSE chart
    BY <1>5 DEF UpdateData, bars
  <2>2. Subscribed(subscribers')
    BY <1>1, <1>2, <2>1 DEF Subscribed
  <2>3. DOMAIN subscribers \ heard \in SUBSET Resolution
    BY <1>1 DEF Subscribed
  <2>4. pending' \in 0 .. Cardinality(Resolution)
    <3> DEFINE late == DOMAIN subscribers \ heard
    <3>1. late \in SUBSET Resolution /\ IsFiniteSet(Resolution) /\ pending' = Cardinality(late)
      BY <2>1, <2>3, FeedAssumption
    <3> HIDE DEF late
    <3>2. /\ IsFiniteSet(late) /\ Cardinality(late) <= Cardinality(Resolution)
          /\ Cardinality(late) \in Nat /\ Cardinality(Resolution) \in Nat
      BY <3>1, FS_Subset, FS_CardinalityType
    <3> QED BY <3>1, <3>2
  <2>5. KnownBars(chart')
    <3>1. CASE resolution \in heard /\ waiting = "no"
      <4> PICK new : new = Emitted(subscribers[resolution], bars)
        OBVIOUS
      <4>1. chart' = [i \in DOMAIN chart \cup new |->
                         IF i \in new THEN bars[i] ELSE chart[i]]
        BY <2>1, <3>1
      <4>2. new \subseteq DOMAIN bars
        BY <1>1, <1>3, <3>1 DEF Subscribed
      <4> QED BY <1>1, <1>2, <4>1, <4>2 DEF KnownBars
    <3>2. CASE ~(resolution \in heard /\ waiting = "no")
      <4>1. chart' = chart
        BY <2>1, <3>2
      <4> QED BY <1>1, <4>1
    <3> QED BY <3>1, <3>2
  <2> QED BY <2>2, <2>4, <2>5
<1> QED BY <1>4, <1>5

\* getBars keeps the types.
LEMMA AskTyped ==
    ASSUME FeedTypeOK, NEW r \in Resolution, AskFor(r)
    PROVE  waiting' \in {"no", "kept", "dropped"} /\ KnownBars(chart') /\ busy' \subseteq Resolution
<1>1. KnownBars(barCache) /\ KnownBars(NoBars) /\ busy \subseteq Resolution
  BY FeedTypeParts, BarsEnd
<1> QED BY <1>1 DEF AskFor

\* The types hold after every step.
LEMMA FeedTypeKeeps == FeedTypeOK /\ [FeedNext]_feedVars => FeedTypeOK'
<1> SUFFICES ASSUME FeedTypeOK, [FeedNext]_feedVars PROVE FeedTypeOK'
  OBVIOUS
<1> DEFINE Typed ==
        /\ stored \in Resolution /\ interval \in Resolution /\ resolution \in Resolution
        /\ clock \in Clock
        /\ traded \in BOOLEAN /\ running \in BOOLEAN
        /\ KnownBars(barCache) /\ KnownBars(chart)
        /\ busy \subseteq Resolution
        /\ Subscribed(subscribers)
        /\ pending \in 0 .. Cardinality(Resolution)
        /\ waiting \in {"no", "kept", "dropped"}
<1>0. Typed
  BY FeedTypeParts
<1> SUFFICES Typed'
  BY DEF FeedTypeOK, KnownBars, Subscribed
<1>1. ASSUME NEW r \in Resolution, ChooseResolution(r) PROVE Typed'
  <2>1. /\ waiting' \in {"no", "kept", "dropped"} /\ KnownBars(chart')
        /\ busy' \subseteq Resolution
    BY <1>1, AskTyped DEF ChooseResolution
  <2> QED BY <1>0, <1>1, <2>1 DEF ChooseResolution, updater
<1>2. ASSUME NEW r \in Resolution, Unsubscribe(r) PROVE Typed'
  <2>1. Subscribed(subscribers')
    BY <1>0, <1>2 DEF Unsubscribe, Subscribed
  <2> QED BY <1>0, <1>2, <2>1 DEF Unsubscribe, api, library
<1>3. ASSUME Subscribe PROVE Typed'
  <2>1. Subscribed(subscribers')
    BY <1>0, <1>3 DEF Subscribe, Subscribed
  <2> QED BY <1>0, <1>3, <2>1 DEF Subscribe, api, library
<1>4. ASSUME KlinesArrive PROVE Typed'
  <2> PICK list : list = [i \in HistoryUntil(clock) |-> End(i)]
    OBVIOUS
  <2>1. KnownBars(list)
    BY <1>0, BarsKnown
  <2>2. /\ barCache' \in {list, barCache} /\ chart' \in {list, chart}
        /\ waiting' \in {"no", waiting} /\ busy' = busy \ {interval} /\ running' = TRUE
        /\ UNCHANGED <<stored, interval, clock, traded, updater, resolution>>
    BY <1>4 DEF KlinesArrive, BusyAfterLoad
  <2> QED BY <1>0, <2>1, <2>2 DEF updater
<1>5. ASSUME TradesArrive PROVE Typed'
  BY <1>0, <1>5 DEF TradesArrive, updater, library
<1>6. ASSUME FileMissing PROVE Typed'
  BY <1>0, <1>6 DEF FileMissing, api, updater, library
<1>7. ASSUME Tick PROVE Typed'
  <2>1. /\ Subscribed(subscribers') /\ KnownBars(chart')
        /\ pending' \in 0 .. Cardinality(Resolution)
    BY <1>7, UpdateTyped DEF Tick
  <2>2. KnownBars(barCache')
    BY <1>0, <1>7, BarsKnown DEF Tick
  <2>3. clock' \in Clock
    BY <1>0, <1>7, BarsEnd DEF Tick, Clock
  <2> QED BY <1>0, <1>7, <2>1, <2>2, <2>3 DEF Tick
<1>8. ASSUME FeedReload PROVE Typed'
  <2>1. /\ interval' = stored /\ resolution' = stored /\ stored' = stored
        /\ busy' = {stored} /\ clock' = Start /\ traded' = FALSE /\ running' = FALSE
        /\ barCache' = NoBars /\ chart' = NoBars /\ subscribers' = NoBars
        /\ pending' = 0 /\ waiting' = "kept"
    BY <1>8 DEF FeedReload
  <2>2. KnownBars(barCache') /\ KnownBars(chart') /\ Subscribed(subscribers')
    BY <2>1, BarsEnd
  <2>3. clock' \in Clock /\ pending' \in 0 .. Cardinality(Resolution)
    BY <2>1, BarsEnd
  <2>4. traded' \in BOOLEAN /\ running' \in BOOLEAN
    BY <2>1
  <2> QED BY <1>0, <2>1, <2>2, <2>3, <2>4
<1>9. ASSUME UNCHANGED feedVars PROVE Typed'
  BY <1>0, <1>9 DEF feedVars, api, updater, library
<1> HIDE DEF Typed
<1> QED
  BY <1>1, <1>2, <1>3, <1>4, <1>5, <1>6, <1>7, <1>8, <1>9 DEF FeedNext

-----------------------------------------------------------------------------
(* The dashboard's type.                                                    *)

\* The kinds that the page follows have slots.
LEMMA Slots ==
    ASSUME slots \in Follow
    PROVE  /\ stores \subseteq Kind
           /\ \A k \in stores : slots[k] \subseteq Slot /\ FirstSlot(k) \in Slot
           /\ \A k \in stores : Free(k) \subseteq Slot
BY FollowAssumption DEF stores, FirstSlot, Free

\* A new request has its type.
LEMMA NewCalls ==
    ASSUME NEW k \in Kind, NEW s \in Slot, NEW r \in ChartRange
    PROVE  NewCall(k, s, r) \in Call
<1>1. NoData \in Reading
  BY VersionsAssumption, DefaultRangeAssumption DEF NoData, Reading, DbVersion
<1> QED BY <1>1 DEF NewCall, Call

\* The types hold at first.
LEMMA WebTypeStarts == WebInit => WebTypeOK
<1> SUFFICES ASSUME WebInit PROVE WebTypeOK
  OBVIOUS
<1>1. NoData \in Reading /\ 1 \in DbVersion /\ 0 \in DbVersion
  BY VersionsAssumption, DefaultRangeAssumption DEF NoData, Reading, DbVersion
<1>2. slots \in Follow /\ AtMount \subseteq stores
  BY DEF WebInit, AtMount
<1>3. calls \subseteq Call
  <2>1. \A k \in AtMount : k \in Kind /\ FirstSlot(k) \in Slot
    BY <1>2, Slots
  <2>2. \A k \in AtMount : NewCall(k, FirstSlot(k), DefaultRange) \in Call
    BY <2>1, NewCalls, DefaultRangeAssumption
  <2> QED BY <2>2 DEF WebInit
<1>4. polling \subseteq stores
  BY <1>2 DEF WebInit, TimersLeft
<1> QED
  BY <1>1, <1>2, <1>3, <1>4, DefaultRangeAssumption DEF WebInit, WebTypeOK

\* They hold after every step.
LEMMA WebTypeKeeps == WebTypeOK /\ [WebNext]_webVars => WebTypeOK'
<1> SUFFICES ASSUME WebTypeOK, [WebNext]_webVars PROVE WebTypeOK'
  OBVIOUS
<1>0. /\ db \in DbVersion /\ slots \in Follow
      /\ cache \in [Kind -> Reading] /\ fresh \in [Kind -> BOOLEAN]
      /\ status \in DbVersion /\ statusFresh \in BOOLEAN
      /\ calls \subseteq Call /\ strict \in BOOLEAN /\ loading \in BOOLEAN
      /\ range \in ChartRange /\ polling \subseteq stores /\ shown \in [Kind -> Reading]
  BY DEF WebTypeOK
<1>1. stores \subseteq Kind
  BY <1>0, Slots
<1>2. \A whole \in BOOLEAN : Read(whole) \in Reading
  <2>1. NoData \in Reading
    BY VersionsAssumption, DefaultRangeAssumption DEF NoData, Reading, DbVersion
  <2>2. \A whole \in BOOLEAN : [NoData EXCEPT !.version = db, !.whole = whole] \in Reading
    BY <1>0, <2>1 DEF Reading
  <2> QED BY <2>2 DEF Read
<1>3. ASSUME NEW c \in Call, NEW p \in {"sent", "read", "fill", "stamped", "status", "answered"}, NEW g \in Reading
      PROVE  [c EXCEPT !.pc = p, !.got = g] \in Call
  BY DEF Call
<1>4. ASSUME NEW c \in calls, NEW reading \in Reading, Answers(c, reading)
      PROVE  calls' \subseteq Call
  <2>1. c \in Call /\ c.range \in ChartRange
    BY <1>0 DEF Call
  <2>2. [reading EXCEPT !.range = c.range] \in Reading
    BY <2>1 DEF Reading
  <2>3. [c EXCEPT !.pc = "answered", !.got = [reading EXCEPT !.range = c.range]] \in Call
    BY <1>3, <2>1, <2>2
  <2> QED BY <1>0, <1>4, <2>3 DEF Answers, Moves
<1>5. ASSUME NEW k \in stores, Poll(k) PROVE WebTypeOK'
  <2>1. \E s \in Free(k) : TRUE
    BY <1>5 DEF Poll
  <2>2. (CHOOSE s \in Free(k) : TRUE) \in Slot
    BY <1>0, <2>1, Slots
  <2>3. NewCall(k, CHOOSE s \in Free(k) : TRUE, RangeNow) \in Call
    BY <1>0, <1>1, <2>2, NewCalls DEF RangeNow
  <2> QED BY <1>0, <1>5, <2>3 DEF Poll, WebTypeOK, machines, server, client, stores
<1>6. ASSUME NEW k \in stores, CacheAges(k) PROVE WebTypeOK'
  <2>1. fresh' \in [Kind -> BOOLEAN]
    BY <1>0, <1>6 DEF CacheAges
  <2> QED BY <1>0, <1>6, <2>1 DEF CacheAges, WebTypeOK, machines, client, stores
<1>7. ASSUME NEW r \in ChartRange, SetRange(r) PROVE WebTypeOK'
  <2>1. "position" \in stores /\ \E s \in Free("position") : TRUE
    BY <1>7 DEF SetRange
  <2>2. (CHOOSE s \in Free("position") : TRUE) \in Slot /\ "position" \in Kind
    BY <1>0, <1>1, <2>1, Slots
  <2>3. NewCall("position", CHOOSE s \in Free("position") : TRUE, r) \in Call
    BY <2>2, NewCalls
  <2> QED BY <1>0, <1>7, <2>3 DEF SetRange, WebTypeOK, machines, server, stores
<1>8. ASSUME Commit PROVE WebTypeOK'
  <2>1. db' \in DbVersion
    BY <1>0, <1>8, VersionsAssumption DEF Commit, DbVersion
  <2> QED BY <1>0, <1>8, <2>1 DEF Commit, WebTypeOK, machines, client, stores
<1>9. ASSUME NEW c \in calls, Handles(c) PROVE WebTypeOK'
  <2>0. c \in Call /\ c.kind \in Kind /\ c.got \in Reading
    BY <1>0 DEF Call
  <2>1. ASSUME AnswerUncached(c) PROVE WebTypeOK'
    <3>1. calls' \subseteq Call
      BY <1>2, <1>4, <2>1 DEF AnswerUncached
    <3> QED BY <1>0, <2>1, <3>1 DEF AnswerUncached, WebTypeOK, machines, server, client, stores
  <2>2. ASSUME AnswerCached(c) PROVE WebTypeOK'
    <3>1. calls' \subseteq Call
      BY <1>0, <1>4, <2>0, <2>2 DEF AnswerCached
    <3> QED BY <1>0, <2>2, <3>1 DEF AnswerCached, WebTypeOK, machines, server, client, stores
  <2>3. ASSUME ReadAnew(c) PROVE WebTypeOK'
    <3>1. [c EXCEPT !.pc = "read", !.got = Read(TRUE)] \in Call
      BY <1>2, <1>3, <2>0
    <3>2. calls' \subseteq Call
      BY <1>0, <2>3, <3>1 DEF ReadAnew, Moves
    <3> QED BY <1>0, <2>3, <3>2 DEF ReadAnew, WebTypeOK, machines, server, client, stores
  <2>4. ASSUME ReplaceCache(c) PROVE WebTypeOK'
    <3>0. WithStatus(c) \in Reading
      BY <1>0, <2>0 DEF WithStatus, Reading
    <3>1. calls' \subseteq Call
      BY <1>4, <2>4, <3>0 DEF ReplaceCache
    <3>2. cache' \in [Kind -> Reading] /\ fresh' \in [Kind -> BOOLEAN]
      BY <1>0, <2>0, <2>4, <3>0 DEF ReplaceCache
    <3> QED BY <1>0, <2>4, <3>1, <3>2 DEF ReplaceCache, WebTypeOK, machines, client, stores
  <2>5. ASSUME ReadLosses(c) PROVE WebTypeOK'
    <3>1. [c EXCEPT !.pc = "read", !.got = Read(FALSE)] \in Call
      BY <1>2, <1>3, <2>0
    <3>2. calls' \subseteq Call /\ fresh' \in [Kind -> BOOLEAN]
      BY <1>0, <2>5, <3>1 DEF ReadLosses, Moves
    <3> QED BY <1>0, <2>5, <3>2 DEF ReadLosses, WebTypeOK, machines, client, stores
  <2>6. ASSUME ClearList(c) PROVE WebTypeOK'
    <3>1. [c EXCEPT !.pc = "fill"] \in Call
      BY <2>0 DEF Call
    <3>2. calls' \subseteq Call /\ cache' \in [Kind -> Reading]
      BY <1>0, <2>0, <2>6, <3>1 DEF ClearList, Moves
    <3> QED BY <1>0, <2>6, <3>2 DEF ClearList, WebTypeOK, machines, client, stores
  <2>7. ASSUME FillList(c) PROVE WebTypeOK'
    <3>1. cache["bigLoss"] \in Reading
      BY <1>0 DEF Kind
    <3>2. [cache["bigLoss"] EXCEPT !.whole = TRUE] \in Reading
      BY <3>1 DEF Reading
    <3>3. cache' \in [Kind -> Reading] /\ cache'["bigLoss"] \in Reading
      BY <1>0, <2>7, <3>2 DEF FillList, Kind
    <3>4. calls' \subseteq Call
      BY <1>4, <2>7, <3>3 DEF FillList
    <3> QED BY <1>0, <2>7, <3>3, <3>4 DEF FillList, WebTypeOK, machines, client, stores
  <2>8. ASSUME StampStatus(c) PROVE WebTypeOK'
    <3>1. [c EXCEPT !.pc = "stamped"] \in Call
      BY <2>0 DEF Call
    <3>2. calls' \subseteq Call
      BY <1>0, <2>8, <3>1 DEF StampStatus, Moves
    <3> QED BY <1>0, <2>8, <3>2 DEF StampStatus, WebTypeOK, client, stores
  <2>9. ASSUME ReadStatus(c) PROVE WebTypeOK'
    <3>1. [c EXCEPT !.pc = "status"] \in Call
      BY <2>0 DEF Call
    <3>2. calls' \subseteq Call
      BY <1>0, <2>9, <3>1 DEF ReadStatus, Moves
    <3> QED BY <1>0, <2>9, <3>2 DEF ReadStatus, WebTypeOK, client, stores
  <2> QED BY <1>9, <2>1, <2>2, <2>3, <2>4, <2>5, <2>6, <2>7, <2>8, <2>9 DEF Handles
<1>10. ASSUME NEW left, left \subseteq calls, SummarySettled(left), UNCHANGED slots
       PROVE  calls' \subseteq Call /\ polling' \subseteq stores'
  <2>1. CASE loading /\ "bigLoss" \in stores
    <3>1. NewCall("bigLoss", FirstSlot("bigLoss"), DefaultRange) \in Call
      BY <1>0, <1>1, <2>1, Slots, NewCalls, DefaultRangeAssumption
    <3> QED
      BY <1>0, <1>10, <2>1, <3>1 DEF SummarySettled, TimersLeft, stores
  <2>2. CASE ~(loading /\ "bigLoss" \in stores)
    BY <1>0, <1>10, <2>2 DEF SummarySettled, stores
  <2> QED BY <2>1, <2>2
<1>14. ASSUME NEW c \in calls, Settled(c), UNCHANGED slots
       PROVE  calls' \subseteq Call /\ polling' \subseteq stores' /\ loading' \in BOOLEAN
  <2>1. CASE c.kind = "summary"
    BY <1>10, <1>14, <2>1 DEF Settled
  <2>2. CASE c.kind # "summary"
    BY <1>0, <1>14, <2>2 DEF Settled, stores
  <2> QED BY <2>1, <2>2
<1>15. ASSUME SpinnerEnds PROVE WebTypeOK'
  <2>1. calls' \subseteq Call /\ polling' \subseteq stores'
    BY <1>10, <1>15 DEF SpinnerEnds
  <2> QED BY <1>0, <1>15, <2>1 DEF SpinnerEnds, WebTypeOK, server, machines
<1>16. ASSUME StatusAges PROVE WebTypeOK'
  BY <1>0, <1>16 DEF StatusAges, WebTypeOK, client, stores
<1>11. ASSUME NEW c \in calls, Arrives(c) PROVE WebTypeOK'
  <2>1. c.kind \in Kind /\ c.got \in Reading
    BY <1>0 DEF Call
  <2>2. shown' \in [Kind -> Reading]
    BY <1>0, <1>11, <2>1 DEF Arrives
  <2>3. calls' \subseteq Call /\ polling' \subseteq stores' /\ loading' \in BOOLEAN
    BY <1>14, <1>11 DEF Arrives
  <2> QED BY <1>0, <1>11, <2>2, <2>3 DEF Arrives, WebTypeOK, machines, server
<1>12. ASSUME NEW c \in calls, Fails(c) PROVE WebTypeOK'
  <2>1. calls' \subseteq Call /\ polling' \subseteq stores' /\ loading' \in BOOLEAN
    BY <1>14, <1>12 DEF Fails
  <2> QED BY <1>0, <1>12, <2>1 DEF Fails, WebTypeOK, machines, server
<1>13. ASSUME UNCHANGED webVars PROVE WebTypeOK'
  BY <1>0, <1>13 DEF webVars, server, machines, client, WebTypeOK, stores
<1> QED
  BY <1>5, <1>6, <1>7, <1>8, <1>9, <1>11, <1>12, <1>13, <1>15, <1>16 DEF WebNext
-----------------------------------------------------------------------------
(* The replay skips no bar: as long as no request of the timer is pending,  *)
(* every subscriber has been given the bars of the last tick.               *)

Follows ==
    /\ clock \in Nat \ {0}
    /\ pending = 0 =>
           \A r \in DOMAIN subscribers : subscribers[r] \in {Never, LastAt(clock - 1)}

\* From one tick to the next at most one bar begins, and none at the end of
\* the file.
LEMMA NextBar ==
    ASSUME NEW now \in Nat \ {0}
    PROVE  /\ LastAt(now) \in {LastAt(now - 1), LastAt(now - 1) + 1}
           /\ now = MaxClock => LastAt(now - 1) = LastAt(now)
<1> DEFINE T == TicksPerBar
           q == (now - 1) \div T
           p == now \div T
<1>1. T \in Nat /\ T > 0 /\ LastBar \in Nat /\ MaxClock = (LastBar + 1) * T
  BY FeedAssumption DEF MaxClock, End
<1>2. /\ q \in Nat /\ q * T <= now - 1 /\ now - 1 < q * T + T
      /\ p \in Nat /\ p * T <= now /\ now < p * T + T
  <2>1. now \in Nat /\ now - 1 \in Nat
    OBVIOUS
  <2> HIDE DEF T
  <2>2. \A n \in Nat : n \div T \in Nat /\ (n \div T) * T <= n /\ n < (n \div T) * T + T
    BY <1>1
  <2> QED BY <2>1, <2>2
<1>3. \A a, b \in Int : a < b => a * T + T <= b * T
  <2> SUFFICES ASSUME NEW a \in Int, NEW b \in Int, a < b PROVE a * T + T <= b * T
    OBVIOUS
  <2>1. (a + 1) * T <= b * T
    BY EarlierBegins
  <2>2. (a + 1) * T = a * T + T
    BY <1>1
  <2> QED BY <2>1, <2>2
<1>4. MaxClock = LastBar * T + T /\ LastBar * T \in Nat
  BY <1>1
<1>5. q * T \in Nat /\ p * T \in Nat /\ (q + 1) * T = q * T + T
  BY <1>1, <1>2
<1>6. LastAt(now) = IF now >= MaxClock THEN LastBar ELSE p
  BY DEF LastAt
<1>7. LastAt(now - 1) = IF now - 1 >= MaxClock THEN LastBar ELSE q
  BY DEF LastAt
<1> HIDE DEF T, q, p
<1>8. p = q \/ p = q + 1
  <2>1. ~(p < q)
    BY <1>1, <1>2, <1>3, <1>5
  <2>2. ~(q + 1 < p)
    <3> SUFFICES ASSUME q + 1 < p PROVE FALSE
      OBVIOUS
    <3>1. (q + 1) * T + T <= p * T
      BY <1>2, <1>3
    <3> QED BY <1>1, <1>2, <1>5, <3>1
  <2> QED BY <1>2, <2>1, <2>2
<1>9. CASE now - 1 < MaxClock /\ now >= MaxClock
  <2>1. now = LastBar * T + T
    BY <1>1, <1>4, <1>9
  <2>2. ~(q < LastBar)
    <3> SUFFICES ASSUME q < LastBar PROVE FALSE
      OBVIOUS
    <3>1. q * T + T <= LastBar * T
      BY <1>1, <1>2, <1>3
    <3> QED BY <1>1, <1>2, <1>4, <1>5, <2>1, <3>1
  <2>3. ~(LastBar < q)
    <3> SUFFICES ASSUME LastBar < q PROVE FALSE
      OBVIOUS
    <3>1. LastBar * T + T <= q * T
      BY <1>1, <1>2, <1>3
    <3> QED BY <1>1, <1>2, <1>4, <1>5, <2>1, <3>1
  <2> QED BY <1>1, <1>2, <1>6, <1>7, <1>9, <2>2, <2>3
<1> QED BY <1>1, <1>4, <1>6, <1>7, <1>8, <1>9

\* No subscriber has been given a bar at first.
LEMMA FollowsStarts == FeedInit => Follows
BY FeedAssumption DEF FeedInit, Follows, NoBars

\* A tick that leaves no request pending has given all subscribers its bars.
LEMMA FollowsKeeps == Follows /\ FeedTypeOK /\ [FeedNext]_feedVars => Follows'
<1> SUFFICES ASSUME Follows, FeedTypeOK, [FeedNext]_feedVars PROVE Follows'
  OBVIOUS
<1>1. ASSUME UNCHANGED <<clock, updater>> PROVE Follows'
  BY <1>1 DEF Follows, updater
<1>2. ASSUME Subscribe \/ \E r \in Resolution : Unsubscribe(r) PROVE Follows'
  <2>1. /\ clock' = clock /\ pending' = pending
        /\ \A r \in DOMAIN subscribers' :
               subscribers'[r] = Never \/
               (r \in DOMAIN subscribers /\ subscribers'[r] = subscribers[r])
    BY <1>2 DEF Subscribe, Unsubscribe, api
  <2> QED BY <2>1 DEF Follows
<1>3. ASSUME Tick PROVE Follows'
  <2> DEFINE bars == BarsAt(clock)
             heard == {r \in DOMAIN subscribers : Answered(r)}
             late == DOMAIN subscribers \ heard
  <2>1. /\ clock \in Nat \ {0} /\ MaxClock \in Nat /\ clock <= MaxClock
        /\ clock' = IF clock < MaxClock THEN clock + 1 ELSE clock
    BY <1>3, BarsEnd DEF Tick, FeedTypeOK, Clock, Follows
  <2>2. LastAt(clock' - 1) = LastAt(clock)
    <3>1. CASE clock < MaxClock
      BY <2>1, <3>1
    <3>2. CASE clock = MaxClock
      <4>1. LastAt(clock - 1) = LastAt(clock)
        BY <2>1, <3>2, NextBar
      <4> QED BY <2>1, <3>2, <4>1
    <3> QED BY <2>1, <3>1, <3>2
  <2>3. CASE pending # 0
    <3>1. pending' = pending
      BY <1>3, <2>3 DEF Tick, UpdateData, updater
    <3> QED BY <2>1, <2>3, <3>1 DEF Follows
  <2>4. CASE pending = 0
    <3>1. /\ pending' = Cardinality(late)
          /\ subscribers' = [r \in DOMAIN subscribers |->
                 IF r \in heard THEN Newest(bars) ELSE subscribers[r]]
      BY <1>3, <2>4 DEF Tick, UpdateData
    <3>2. Newest(bars) = LastAt(clock)
      BY <2>1, HandedOut
    <3>3. IsFiniteSet(late)
      BY FeedAssumption, FS_Subset DEF FeedTypeOK
    <3> HIDE DEF bars, late
    <3>4. pending' = 0 => late = {}
      BY <3>1, <3>3, FS_EmptySet
    <3>5. pending' = 0 => \A r \in DOMAIN subscribers' : subscribers'[r] = LastAt(clock)
      BY <3>1, <3>2, <3>4 DEF late
    <3> QED BY <2>1, <2>2, <3>5 DEF Follows
  <2> QED BY <2>3, <2>4
<1>4. ASSUME FeedReload PROVE Follows'
  BY <1>4, FeedAssumption DEF FeedReload, Follows, NoBars
<1>5. ASSUME \/ \E r \in Resolution : ChooseResolution(r)
             \/ KlinesArrive \/ TradesArrive \/ FileMissing \/ UNCHANGED feedVars
      PROVE  UNCHANGED <<clock, updater>>
  BY <1>5 DEF ChooseResolution, KlinesArrive, TradesArrive, FileMissing, feedVars, api
<1> QED BY <1>1, <1>2, <1>3, <1>4, <1>5 DEF FeedNext

\* Whatever the chart is given after a bar that it follows is the next bar,
\* and the one it followed is complete then.
LEMMA TickSkipsNothing ==
    ASSUME Follows, FeedTypeOK, Tick, NEW r, r = resolution, r \in DOMAIN subscribers,
           waiting = "no", subscribers[r] # Never, subscribers'[r] # subscribers[r]
    PROVE  /\ subscribers'[r] = subscribers[r] + 1
           /\ chart'[subscribers[r]] = End(subscribers[r])
<1> DEFINE bars == BarsAt(clock)
           heard == {q \in DOMAIN subscribers : Answered(q)}
<1> PICK last : last = subscribers[r]
  OBVIOUS
<1>1. clock \in Nat \ {0} /\ UpdateData(bars)
  BY DEF Follows, Tick
<1>2. pending = 0
  BY <1>1 DEF UpdateData, updater
<1>3. last = LastAt(clock - 1)
  BY <1>2 DEF Follows
<1>4. /\ subscribers' = [q \in DOMAIN subscribers |->
             IF q \in heard THEN Newest(bars) ELSE subscribers[q]]
      /\ chart' = IF resolution \in heard /\ waiting = "no"
                  THEN LET new == Emitted(subscribers[resolution], bars)
                       IN  [i \in DOMAIN chart \cup new |->
                               IF i \in new THEN bars[i] ELSE chart[i]]
                  ELSE chart
  BY <1>1, <1>2 DEF UpdateData
<1>5. r \in heard /\ subscribers'[r] = Newest(bars)
  BY <1>4
<1>6. /\ Newest(bars) = LastAt(clock) /\ DOMAIN bars = 0 .. LastAt(clock)
      /\ LastAt(clock) \in Nat /\ last \in Nat
  <2>1. clock \in Nat /\ clock - 1 \in Nat
    BY <1>1
  <2>2. Newest(bars) = LastAt(clock) /\ DOMAIN bars = 0 .. LastAt(clock)
    BY <2>1, HandedOut
  <2>3. LastAt(clock) \in Bar /\ LastAt(clock - 1) \in Bar
    BY <2>1, LastHasBegun
  <2> QED BY <1>3, <2>2, <2>3, FeedAssumption DEF Bar
<1>7. Newest(bars) = last + 1
  BY <1>1, <1>3, <1>5, <1>6, NextBar
<1>8. Emitted(last, bars) = {last, last + 1}
  BY <1>6, <1>7 DEF Emitted
<1>9. bars[last] = End(last)
  <2>1. last \in DOMAIN bars /\ last # LastAt(clock)
    BY <1>6, <1>7
  <2> QED BY <2>1 DEF BarsAt, LastAt
<1> HIDE DEF bars, heard
<1>10. chart' = [i \in DOMAIN chart \cup {last, last + 1} |->
                    IF i \in {last, last + 1} THEN bars[i] ELSE chart[i]]
  BY <1>4, <1>5, <1>8
<1> QED BY <1>5, <1>7, <1>9, <1>10

\* No step but a tick gives the chart a bar that it follows.
LEMMA SkipsNothing ==
    ASSUME Follows, FeedTypeOK, [FeedNext]_feedVars, NEW r, r = resolution,
           r \in DOMAIN subscribers, r \in DOMAIN subscribers', waiting = "no",
           subscribers[r] # Never, subscribers'[r] # subscribers[r]
    PROVE  /\ subscribers'[r] = subscribers[r] + 1
           /\ chart'[subscribers[r]] = End(subscribers[r])
<1>1. CASE Tick
  BY <1>1, TickSkipsNothing
<1>2. CASE Subscribe \/ \E q \in Resolution : Unsubscribe(q)
  BY <1>2 DEF Subscribe, Unsubscribe
<1>3. CASE FeedReload
  BY <1>3 DEF FeedReload, NoBars
<1>4. CASE \/ \E q \in Resolution : ChooseResolution(q)
           \/ KlinesArrive \/ TradesArrive \/ FileMissing \/ UNCHANGED feedVars
  BY <1>4 DEF ChooseResolution, KlinesArrive, TradesArrive, FileMissing, feedVars, updater
<1> QED BY <1>1, <1>2, <1>3, <1>4 DEF FeedNext

\* A chart that follows a bar and is given a later one is given the next,
\* and the one it followed has all its trades, whatever resolutions are
\* chosen and whichever files come late or never.
THEOREM ReplaySkipsNothing == FeedSpec => NothingSkipped
<1>1. Follows /\ FeedTypeOK /\ [FeedNext]_feedVars =>
          [ LET r == resolution IN
            r \in DOMAIN subscribers /\ r \in DOMAIN subscribers' /\ waiting = "no" =>
                \/ subscribers[r] = Never
                \/ subscribers'[r] = subscribers[r]
                \/ /\ subscribers'[r] = subscribers[r] + 1
                   /\ chart'[subscribers[r]] = End(subscribers[r]) ]_feedVars
  BY SkipsNothing
<1> QED
  BY <1>1, FollowsStarts, FollowsKeeps, FeedTypeStarts, FeedTypeKeeps, PTL
  DEF FeedSpec, NothingSkipped

-----------------------------------------------------------------------------
(* The names of times.  Days that lie less than four days apart have        *)
(* different dates, as no month is that short.                              *)

MonthCount == Len(MonthLengths)

\* The months lie one after the other.
LEMMA MonthsFollow ==
    /\ MonthCount \in Nat \ {0}
    /\ DaysBefore[1] = 0 /\ DaysBefore[MonthCount + 1] = DaysLookedAt
    /\ \A m \in 1 .. MonthCount + 1 : DaysBefore[m] \in Nat
    /\ \A m \in 1 .. MonthCount : DaysBefore[m + 1] >= DaysBefore[m] + 28
    /\ \A m, k \in 1 .. MonthCount + 1 : m <= k => DaysBefore[m] <= DaysBefore[k]
<1> DEFINE Sum(S) == SumFunctionOnSet(MonthLengths, S)
<1>1. /\ MonthCount \in Nat \ {0} /\ DOMAIN MonthLengths = 1 .. MonthCount
      /\ \A m \in 1 .. MonthCount : MonthLengths[m] \in Nat /\ MonthLengths[m] >= 28
  BY MonthAssumption DEF MonthCount
<1>2. \A m \in 1 .. MonthCount + 1 : DaysBefore[m] = Sum(1 .. m - 1)
  BY <1>1 DEF DaysBefore, MonthCount
<1>3. \A m \in 1 .. MonthCount + 1 :
          1 .. m - 1 \in SUBSET (1 .. MonthCount) /\ IsFiniteSet(1 .. m - 1)
  <2> SUFFICES ASSUME NEW m \in 1 .. MonthCount + 1
               PROVE  1 .. m - 1 \in SUBSET (1 .. MonthCount) /\ IsFiniteSet(1 .. m - 1)
    OBVIOUS
  <2>1. m \in Int /\ m - 1 \in Int /\ m - 1 <= MonthCount
    BY <1>1
  <2>2. IsFiniteSet(1 .. m - 1)
    BY <2>1, 1 \in Int, FS_Interval
  <2>3. 1 .. m - 1 \subseteq 1 .. MonthCount
    BY <1>1, <2>1
  <2> QED BY <2>2, <2>3
<1>4. ASSUME NEW m \in 1 .. MonthCount + 1, NEW k \in 1 .. MonthCount + 1, m <= k
      PROVE  DaysBefore[m] <= DaysBefore[k] /\ DaysBefore[k] \in Nat
  <2>1. 1 .. m - 1 \in SUBSET (1 .. k - 1)
    BY <1>1, <1>4
  <2>2. Sum(1 .. m - 1) <= Sum(1 .. k - 1) /\ Sum(1 .. k - 1) \in Nat
    BY <1>1, <1>3, <2>1, SumOfPart
  <2> QED BY <1>2, <2>2
<1>5. \A m \in 1 .. MonthCount + 1 : DaysBefore[m] \in Nat
  BY <1>1, <1>4
<1>6. ASSUME NEW m \in 1 .. MonthCount PROVE DaysBefore[m + 1] >= DaysBefore[m] + 28
  <2> DEFINE S == 1 .. m - 1
  <2>1. m \notin S /\ S \cup {m} = 1 .. m /\ S \cup {m} \subseteq 1 .. MonthCount
    BY <1>1
  <2>0. IsFiniteSet(S)
    <3>1. 1 \in Int /\ m - 1 \in Int
      BY <1>1
    <3> QED BY <3>1, FS_Interval
  <2>2. Sum(S) \in Int /\ Sum(S \cup {m}) = Sum(S) + MonthLengths[m]
    <3> HIDE DEF S
    <3> QED BY <1>1, <2>0, <2>1, SumOneMore
  <2>5. Sum(1 .. m) = Sum(S) + MonthLengths[m]
    BY <2>1, <2>2
  <2>3. /\ m \in 1 .. MonthCount + 1 /\ m + 1 \in 1 .. MonthCount + 1 /\ (m + 1) - 1 = m
    BY <1>1
  <2>4. DaysBefore[m] = Sum(S) /\ DaysBefore[m + 1] = Sum(1 .. m)
    BY <1>2, <2>3
  <2> HIDE DEF S, Sum
  <2> QED BY <1>1, <2>2, <2>4, <2>5
<1>7. DaysBefore[1] = 0
  <2>1. DaysBefore[1] = Sum(1 .. 0) /\ 1 .. 0 = {}
    BY <1>1, <1>2
  <2>2. Sum({}) = 0
    BY SumUnfolds, FS_EmptySet
  <2> QED BY <2>1, <2>2
<1>8. DaysBefore[MonthCount + 1] = DaysLookedAt
  <2>1. DaysLookedAt = Sum(DOMAIN MonthLengths)
    BY DEF DaysLookedAt, SumFunction, FoldFunction, SumFunctionOnSet
  <2>2. DaysBefore[MonthCount + 1] = Sum(1 .. (MonthCount + 1) - 1) /\ (MonthCount + 1) - 1 = MonthCount
    BY <1>1, <1>2
  <2> QED BY <1>1, <2>1, <2>2
<1> QED BY <1>1, <1>4, <1>5, <1>6, <1>7, <1>8

\* The date of a day counts from the beginning of its month.
LEMMA DateInMonth ==
    ASSUME NEW day \in Nat, day < DaysLookedAt
    PROVE  \E m \in 1 .. MonthCount :
               /\ DaysBefore[m] <= day /\ day < DaysBefore[m + 1]
               /\ DateOf(day) = day - DaysBefore[m] + 1
<1> DEFINE Covers(m) == DaysBefore[m] <= day /\ day < DaysBefore[m + 1]
           begun == {m \in 1 .. MonthCount : DaysBefore[m] <= day}
<1>1. DOMAIN MonthLengths = 1 .. MonthCount /\ MonthCount \in Nat \ {0}
  BY MonthAssumption, MonthsFollow DEF MonthCount
<1>2. \E m \in 1 .. MonthCount : Covers(m)
  <2>1. 1 \in begun /\ begun \subseteq Int
    BY <1>1, MonthsFollow
  <2>2. IsFiniteSet(begun)
    <3>1. IsFiniteSet(1 .. MonthCount) /\ begun \subseteq 1 .. MonthCount
      BY <1>1, FS_Interval
    <3> QED BY <3>1, FS_Subset
  <2>3. PICK m \in begun : \A k \in begun : m >= k
    <3> HIDE DEF begun
    <3> QED BY <2>1, <2>2, GreatestNumber
  <2>4. m \in 1 .. MonthCount /\ DaysBefore[m] <= day
    OBVIOUS
  <2>5. CASE m = MonthCount
    BY <2>4, <2>5, MonthsFollow
  <2>6. CASE m # MonthCount
    <3>1. m + 1 \in 1 .. MonthCount /\ m + 1 \notin begun
      BY <1>1, <2>3, <2>4, <2>6
    <3>2. DaysBefore[m + 1] \in Nat
      BY <1>1, <3>1, MonthsFollow
    <3> QED BY <2>4, <3>1, <3>2
  <2> QED BY <2>5, <2>6
<1>3. DateOf(day) = day - DaysBefore[CHOOSE m \in 1 .. MonthCount : Covers(m)] + 1
  BY <1>1 DEF DateOf
<1> HIDE DEF Covers
<1>4. PICK c : c = CHOOSE m \in 1 .. MonthCount : Covers(m)
  OBVIOUS
<1>5. c \in 1 .. MonthCount /\ Covers(c)
  BY <1>2, <1>4
<1> QED BY <1>3, <1>4, <1>5 DEF Covers

\* Close days have the same date only if they are the same.
LEMMA CloseDays ==
    ASSUME NEW a \in Nat, NEW b \in Nat, b < DaysLookedAt, a <= b, b - a < 28,
           DateOf(a) = DateOf(b)
    PROVE  a = b
<1>1. PICK m \in 1 .. MonthCount : /\ DaysBefore[m] <= a /\ a < DaysBefore[m + 1]
                               /\ DateOf(a) = a - DaysBefore[m] + 1
  BY DateInMonth, DaysAreNumbers
<1>2. PICK k \in 1 .. MonthCount : /\ DaysBefore[k] <= b /\ b < DaysBefore[k + 1]
                               /\ DateOf(b) = b - DaysBefore[k] + 1
  BY DateInMonth
<1>3. /\ MonthCount \in Nat /\ m + 1 \in 1 .. MonthCount + 1 /\ k + 1 \in 1 .. MonthCount + 1
      /\ m \in 1 .. MonthCount + 1 /\ k \in 1 .. MonthCount + 1
  BY MonthsFollow
<1>4. DaysBefore[m] \in Nat /\ DaysBefore[k] \in Nat /\ DaysBefore[m + 1] \in Nat
      /\ DaysBefore[k + 1] \in Nat /\ DaysBefore[m + 1] >= DaysBefore[m] + 28
  BY <1>3, MonthsFollow
<1>5. m < k => DaysBefore[m + 1] <= DaysBefore[k]
  BY <1>3, MonthsFollow
<1>6. k < m => DaysBefore[k + 1] <= DaysBefore[m]
  BY <1>3, MonthsFollow
<1> PICK x, y : x = DaysBefore[m] /\ y = DaysBefore[k]
  OBVIOUS
<1>7. a - x + 1 = b - y + 1 /\ x \in Nat /\ y \in Nat
  BY <1>1, <1>2, <1>4
<1>8. b - a = y - x
  BY <1>7
<1>9. /\ m < k => x + 28 <= y
      /\ k < m => b < x
      /\ m = k => x = y
  BY <1>1, <1>2, <1>4, <1>5, <1>6
<1>10. m \in Int /\ k \in Int /\ x <= a
  BY <1>1
<1> QED BY <1>7, <1>8, <1>9, <1>10

\* The word counts the days since.
LEMMA WordCounts ==
    ASSUME NEW t \in Nat, NEW now \in Nat, 2 * PerDay <= t, t <= now,
           now < DaysLookedAt * PerDay
    PROVE  /\ DayNumber(t) \in Nat /\ DayNumber(now) \in Nat
           /\ DayNumber(t) <= DayNumber(now)
           /\ Word(t, now) = IF DayNumber(now) - DayNumber(t) <= 2
                             THEN DayNumber(now) - DayNumber(t) ELSE NoWord
<1> DEFINE d == DayNumber(t)
           e == DayNumber(now)
<1>1. PerDay = 1440 /\ DaysLookedAt \in Nat
  BY DaysAreNumbers
<1>2. /\ d \in Nat /\ d * 1440 <= t /\ t < d * 1440 + 1440
      /\ e \in Nat /\ e * 1440 <= now /\ now < e * 1440 + 1440
      /\ \A n \in 0 .. 2 : DayNumber(now - n * PerDay) = e - n
  BY <1>1 DEF DayNumber
<1> HIDE DEF d, e
<1>3. d <= e /\ d >= 2 /\ e < DaysLookedAt
  BY <1>1, <1>2
<1> DEFINE same == {n \in 0 .. 2 : /\ Recent(t, now)
                                   /\ DateOf(d) = DateOf(DayNumber(now - n * PerDay))}
<1>4. same = {n \in 0 .. 2 : n = e - d}
  <2>1. ASSUME NEW n \in 0 .. 2, n = e - d PROVE n \in same
    <3>1. Recent(t, now)
      BY <1>1, <1>2, <2>1 DEF Recent
    <3>2. DayNumber(now - n * PerDay) = d
      BY <1>2, <1>3, <2>1
    <3> QED BY <3>1, <3>2
  <2>2. ASSUME NEW n \in same PROVE n = e - d
    <3>1. n \in 0 .. 2 /\ now - t < 3 * PerDay /\ DateOf(d) = DateOf(e - n)
      BY <1>2 DEF Recent
    <3>2. e - d <= 3 /\ e - n \in Nat /\ e - n < DaysLookedAt /\ d < DaysLookedAt
      BY <1>1, <1>2, <1>3, <3>1
    <3>3. CASE d <= e - n
      BY <1>2, <3>1, <3>2, <3>3, CloseDays
    <3>4. CASE e - n <= d
      BY <1>2, <1>3, <3>1, <3>2, <3>4, CloseDays
    <3> QED BY <1>2, <3>2, <3>3, <3>4
  <2> HIDE DEF same
  <2>3. same \subseteq 0 .. 2
    BY DEF same
  <2> QED BY <2>1, <2>2, <2>3
<1>5. Word(t, now) = IF same = {} THEN NoWord
                     ELSE CHOOSE n \in same : \A k \in same : n <= k
  BY DEF Word, d
<1> HIDE DEF same
<1>6. CASE e - d <= 2
  <2>1. same = {e - d}
    BY <1>2, <1>3, <1>4, <1>6
  <2>2. Word(t, now) = CHOOSE n \in {e - d} : \A k \in {e - d} : n <= k
    BY <1>5, <2>1
  <2>3. e - d <= e - d
    BY <1>2
  <2>4. Word(t, now) = e - d
    BY <2>2, <2>3
  <2> QED BY <1>2, <1>3, <1>6, <2>4 DEF d, e
<1>7. CASE ~(e - d <= 2)
  <2>1. same = {}
    BY <1>2, <1>3, <1>4, <1>7
  <2> QED BY <1>2, <1>3, <1>5, <1>7, <2>1 DEF d, e
<1> QED BY <1>6, <1>7

\* A later time is not cut to an earlier one.
LEMMA CutKeepsOrder ==
    ASSUME NEW a \in Nat, NEW b \in Nat, a <= b, NEW cut \in Interval
    PROVE  CutTo(cut, a) <= CutTo(cut, b)
<1>1. PerDay = 1440
  BY DEF PerDay
<1>2. CASE cut = "1m"
  BY <1>2 DEF CutTo
<1>3. CASE cut = "15m"
  <2>1. ASSUME NEW t \in Nat
        PROVE  CutTo("15m", t) = (t \div 15) * 15
    <3>1. CutTo("15m", t) = (t \div 1440) * 1440 + ((t % 1440) \div 60) * 60
                            + (t % 60) - ((t % 60) % 15)
      BY <1>1 DEF CutTo, DateBegin, DayNumber
    <3>2. (t \div 1440) * 1440 + ((t % 1440) \div 60) * 60 + (t % 60) = t
      OBVIOUS
    <3>3. (t % 60) % 15 = t % 15
      OBVIOUS
    <3> QED BY <3>1, <3>2, <3>3
  <2> QED BY <1>3, <2>1
<1>4. CASE cut = "1h"
  BY <1>1, <1>4 DEF CutTo, DateBegin, DayNumber
<1>5. CASE cut = "4h"
  BY <1>1, <1>5 DEF CutTo, DateBegin, DayNumber
<1>6. CASE cut \in {"1d", "1w", "1M"}
  BY <1>1, <1>6 DEF CutTo, DateBegin, DayNumber
<1> QED BY <1>2, <1>3, <1>4, <1>5, <1>6 DEF Interval

\* From one look to the next the name of a time goes on by a day at most.
LEMMA NameGoesOn ==
    ASSUME NamesTypeOK, Later, NEW type \in DOMAIN HourOf
    PROVE  LET name == Named(type, named, dateNow)
               next == Named(type, named, dateNow')
           IN  /\ next.word =
                      IF DayNumber(dateNow') = DayNumber(dateNow) \/ name.word = NoWord
                      THEN name.word ELSE name.word + 1
               /\ "date" \in next.parts <=> next.word = NoWord
<1>1. /\ named \in Nat /\ 2 * PerDay <= named /\ dateNow \in Nat /\ named <= dateNow
      /\ PerDay = 1440 /\ DaysLookedAt \in Nat
  BY DaysAreNumbers, MonthAssumption DEF NamesTypeOK, PerDay
<1>2. /\ dateNow' \in Nat /\ dateNow <= dateNow' /\ dateNow' <= dateNow + 1440
      /\ dateNow < DaysLookedAt * PerDay /\ dateNow' < DaysLookedAt * PerDay
  BY <1>1, DaysAreNumbers, MonthAssumption DEF Later
<1> PICK word, next : word = Word(named, dateNow) /\ next = Word(named, dateNow')
  OBVIOUS
<1> PICK d, e, f : d = DayNumber(named) /\ e = DayNumber(dateNow) /\ f = DayNumber(dateNow')
  OBVIOUS
<1>3. /\ d \in Nat /\ e \in Nat /\ f \in Nat /\ d <= e
      /\ word = IF e - d <= 2 THEN e - d ELSE 3
      /\ next = IF f - d <= 2 THEN f - d ELSE 3
  BY <1>1, <1>2, WordCounts DEF NoWord
<1>4. f = e \/ f = e + 1
  <2>2. e = dateNow \div 1440 /\ f = dateNow' \div 1440
    BY <1>1 DEF DayNumber
  <2> PICK a, b : a = dateNow /\ b = dateNow'
    OBVIOUS
  <2>3. a \in Nat /\ b \in Nat /\ a <= b /\ b <= a + 1440
    BY <1>1, <1>2
  <2>4. b \div 1440 = a \div 1440 \/ b \div 1440 = (a \div 1440) + 1
    BY ONLY <2>3
  <2> QED BY <2>2, <2>4
<1>5. next = IF f = e \/ word = NoWord THEN word ELSE word + 1
  BY <1>3, <1>4 DEF NoWord
<1>6. type \in {"A", "B", "E", "G"} /\ type \notin DOMAIN PartsOf
  BY DEF HourOf, PartsOf
<1>7. /\ Named(type, named, dateNow).word = word
      /\ Named(type, named, dateNow').word = next
      /\ Named(type, named, dateNow').parts =
             IF next = NoWord THEN WithoutWord[type] ELSE HourOf[type]
  BY <1>6 DEF Named
<1>8. "date" \in WithoutWord[type] /\ "date" \notin HourOf[type]
  BY <1>6 DEF WithoutWord, HourOf
<1> QED BY <1>5, <1>7, <1>8

-----------------------------------------------------------------------------
(* The pages together.  A page that is not open rests, but the hot keys     *)
(* that another browser saves go through the server under the settings.     *)

SettingsRest ==
    /\ OtherTypeOK /\ StoredIsShown /\ FieldsNotMixed
    /\ dialog = "unmounted"

\* Nobody reads the hot keys while the settings are open.
HotKeysKept ==
    /\ ContentsIn(GoodKeys, "hot_key_config_obj")
    /\ \A j \in jobs : j.section = "hot_key_config_obj" => j.op = "modify"

HotKeysRest ==
    /\ HotTypeOK /\ ModalDrawable
    /\ hotKeyConfigObj \in GoodKeys
    /\ HotKeysKept
    /\ hotLoads = 0

DialogsInv ==
    /\ IF page = "hotKeys" THEN SettingsRest ELSE OtherInv
    /\ IF page = "settings" THEN HotKeysRest ELSE HotInv

\* Sending a request that does not ask for hot keys.
LEMMA PostKeepsHotKeys ==
    ASSUME HotKeysKept,
           NEW op \in {"get", "modify"}, NEW section \in Section, NEW body,
           NEW asker \in BOOLEAN, PostFor(op, section, body, asker),
           section = "hot_key_config_obj" => op = "modify" /\ body \in GoodKeys
    PROVE  HotKeysKept'
<1>1. ContentsIn(GoodKeys, "hot_key_config_obj")'
  <2>1. Nothing["hot_key_config_obj"] \in GoodKeys
    BY EmptyIsGood DEF NoHotKeys
  <2> QED
    BY <2>1, PostKeepsContents, HotSection DEF HotKeysKept
<1> DEFINE k == Request(op, section, body, asker)
<1>2. k.op = op /\ k.section = section
  BY DEF Request
<1>3. jobs' = jobs \cup {k}
  BY DEF PostFor
<1> HIDE DEF k
<1> QED
  BY <1>1, <1>2, <1>3 DEF HotKeysKept

\* A step of the server.
LEMMA ServerKeepsHotKeys ==
    ASSUME HotKeysKept, ServerShape, ServerNext
    PROVE  HotKeysKept'
<1>1. ContentsIn(GoodKeys, "hot_key_config_obj")'
  <2>1. Nothing["hot_key_config_obj"] \in GoodKeys
    BY EmptyIsGood DEF NoHotKeys
  <2> QED
    BY <2>1, ServerKeepsContents, HotSection DEF HotKeysKept
<1>2. \A k \in jobs' : k.section = "hot_key_config_obj" => k.op = "modify"
  BY JobsAfter DEF HotKeysKept, SameRequest
<1> QED
  BY <1>1, <1>2 DEF HotKeysKept

\* Under every step of the settings dialog the server's hot keys stay sound.
LEMMA SettingsKeepHotKeys ==
    ASSUME OtherInv, HotKeysKept, [OtherNext]_otherVars
    PROVE  HotKeysKept'
<1>1. ASSUME UNCHANGED serverVars
      PROVE  HotKeysKept'
  BY <1>1 DEF HotKeysKept, ContentsIn, serverVars
<1>2. ASSUME Mount
      PROVE  HotKeysKept'
  <2>1. CASE formDataGlobal
    <3>1. PostFor("get", "state_config_obj", NoConfig, TRUE)
      BY <1>2, <2>1 DEF Mount, Post
    <3> QED
      BY <3>1, PostKeepsHotKeys, Fields
  <2>2. CASE ~formDataGlobal
    BY <1>1, <1>2, <2>2 DEF Mount
  <2> QED
    BY <2>1, <2>2
<1>3. ASSUME ModifyStateConfig
      PROVE  HotKeysKept'
  <2>1. PostFor("modify", "state_config_obj", otherConfig, TRUE)
    BY <1>3 DEF ModifyStateConfig, Post
  <2> QED
    BY <2>1, PostKeepsHotKeys, Fields
<1>4. ASSUME HotKeysSavedElsewhere
      PROVE  HotKeysKept'
  <2>1. PostFor("modify", "hot_key_config_obj", HotKeysElsewhere, FALSE)
    BY <1>4 DEF HotKeysSavedElsewhere
  <2>2. HotKeysElsewhere \in GoodKeys
    BY ElsewhereAssumption DEF GoodKeys
  <2> QED
    BY <2>1, <2>2, PostKeepsHotKeys, Fields
<1>5. ASSUME Reload
      PROVE  HotKeysKept'
  <2>1. Forget /\ ServerShape
    BY <1>5 DEF Reload, OtherInv
  <2>2. ContentsIn(GoodKeys, "hot_key_config_obj")'
    BY <2>1, ForgetKeepsContents, HotSection DEF HotKeysKept
  <2>3. ASSUME NEW k \in jobs'
        PROVE  k.section = "hot_key_config_obj" => k.op = "modify"
    <3>1. PICK j \in jobs : k = [j EXCEPT !.asker = FALSE]
      BY <2>1 DEF Forget
    <3>2. k.section = j.section /\ k.op = j.op
      BY <2>1, <3>1, FALSE \in BOOLEAN, JobForgotten DEF ServerShape
    <3> QED
      BY <3>2 DEF HotKeysKept
  <2> QED
    BY <2>2, <2>3 DEF HotKeysKept
<1>6. ASSUME NEW a \in answers, AnswerArrives(a)
      PROVE  HotKeysKept'
  <2>1. answers' = answers \ {a} /\ UNCHANGED <<file, jobs>>
    BY <1>6 DEF AnswerArrives
  <2> QED
    BY <2>1 DEF HotKeysKept, ContentsIn
<1>7. ASSUME ServerNext
      PROVE  HotKeysKept'
  BY <1>7, ServerKeepsHotKeys DEF OtherInv
<1>8. ASSUME NEW key, NEW f, NEW arr, Put(key, f, arr)
      PROVE  UNCHANGED serverVars
  BY <1>8 DEF Put, serverVars
<1>9. ASSUME NEW v \in Version,
             \/ \E f \in ViewFields : ChangeView(f, v)
             \/ \E f \in LimitFields : ChangeLimit(f, v)
             \/ \E f \in CountFields : ChangeCount(f, v)
             \/ \E f \in {LeverField, DepthField} : ChangeDisplay(f, v)
             \/ ChangeBnbSwitch(v) \/ ChangeStopLoss(v)
             \/ ChangeLossLock(v) \/ ChangeLossLockMins(v)
             \/ ChangeCancelTime(v) \/ ChangeCancelSwitch(v)
      PROVE  UNCHANGED serverVars
  BY <1>8, <1>9 DEF ChangeView, ChangeLimit, ChangeCount, ChangeDisplay,
     ChangeBnbSwitch, ChangeStopLoss, ChangeLossLock, ChangeLossLockMins,
     ChangeCancelTime, ChangeCancelSwitch
<1>10. ASSUME \/ ChangeBnbAmount \/ LossLock
              \/ RestoreServerStateConfig \/ RestoreDefaultStateConfig
              \/ UNCHANGED otherVars
       PROVE  UNCHANGED serverVars
  BY <1>10 DEF ChangeBnbAmount, LossLock, RestoreServerStateConfig,
     RestoreDefaultStateConfig, Restore, otherVars, serverVars
<1> QED
  BY <1>1, <1>2, <1>3, <1>4, <1>5, <1>6, <1>7, <1>9, <1>10 DEF OtherNext
\* The dialogs' invariant holds at first.
LEMMA DialogsStart == FrontInit => DialogsInv
<1> SUFFICES ASSUME FrontInit PROVE DialogsInv
  OBVIOUS
<1>1. PageInit /\ HotInit /\ ServerInit
  BY DEF FrontInit, HotInit
<1>2. OtherInv /\ HotInv
  BY <1>1, OtherStarts, HotStarts DEF OtherInit
<1>3. SettingsRest
  BY <1>1, <1>2, OtherInvShows DEF SettingsRest, PageInit
<1>4. jobs = {} /\ hotLoads = 0
  BY <1>1 DEF ServerInit, HotInit
<1>5. HotKeysRest
  BY <1>2, <1>4 DEF HotKeysRest, HotKeysKept, HotInv, Drawable
<1> QED
  BY <1>2, <1>3, <1>5 DEF DialogsInv

\* Neither dialog is open.
LEMMA DialogsRest ==
    ASSUME DialogsInv, UNCHANGED <<page, pageVars, hotPage, serverVars>>
    PROVE  DialogsInv'
<1>1. ASSUME OtherInv PROVE OtherInv'
  BY <1>1, OtherKeeps DEF otherVars
<1>2. ASSUME HotInv PROVE HotInv'
  BY <1>2, HotKeeps DEF hotVars
<1>3. ASSUME SettingsRest PROVE SettingsRest'
  BY <1>3 DEF SettingsRest, OtherTypeOK, StoredIsShown, FieldsNotMixed, pageVars,
     StandsFor, Config
<1>4. ASSUME HotKeysRest PROVE HotKeysRest'
  <2>1. UNCHANGED <<hotKeyConfigObj, addForm, modifyForm, hotLoads, inputs, loaded,
                    intent, file, jobs, answers>>
    BY DEF hotPage, serverVars
  <2>2. HotTypeOK' /\ ModalDrawable'
    BY <1>4, <2>1 DEF HotKeysRest, HotTypeOK, HotConfig, Binding, addForm,
       modifyForm, intent, ModalDrawable, ModalShown
  <2>3. HotKeysKept'
    BY <1>4, <2>1 DEF HotKeysRest, HotKeysKept, ContentsIn
  <2> QED
    BY <1>4, <2>1, <2>2, <2>3 DEF HotKeysRest
<1> QED
  BY <1>1, <1>2, <1>3, <1>4 DEF DialogsInv

\* The settings are open, and the hot keys' page rests.
LEMMA SettingsKeep ==
    ASSUME DialogsInv, SettingsStep
    PROVE  DialogsInv'
<1>1. page = "settings" /\ page' = page /\ OtherNext /\ UNCHANGED hotPage
  BY DEF SettingsStep
<1>2. OtherInv /\ HotKeysRest
  BY <1>1 DEF DialogsInv
<1>3. OtherInv'
  BY <1>1, <1>2, OtherKeeps
<1>4. HotKeysRest'
  <2>1. UNCHANGED <<hotKeyConfigObj, addForm, modifyForm, hotLoads, inputs, loaded,
                    intent>>
    BY <1>1 DEF hotPage
  <2>2. HotTypeOK' /\ ModalDrawable'
    BY <1>2, <2>1 DEF HotKeysRest, HotTypeOK, HotConfig, Binding, addForm,
       modifyForm, intent, ModalDrawable, ModalShown
  <2>3. HotKeysKept'
    BY <1>1, <1>2, SettingsKeepHotKeys DEF HotKeysRest
  <2> QED
    BY <1>2, <2>1, <2>2, <2>3 DEF HotKeysRest
<1> QED
  BY <1>1, <1>3, <1>4 DEF DialogsInv

\* The hot keys are open, and the settings' page rests.
LEMMA HotKeysKeep ==
    ASSUME DialogsInv, HotKeysStep
    PROVE  DialogsInv'
<1>1. page = "hotKeys" /\ page' = page /\ HotNext /\ UNCHANGED pageVars
  BY DEF HotKeysStep
<1>2. HotInv /\ SettingsRest
  BY <1>1 DEF DialogsInv
<1>3. HotInv'
  BY <1>1, <1>2, HotKeeps
<1>4. SettingsRest'
  BY <1>1, <1>2 DEF SettingsRest, OtherTypeOK, StoredIsShown, FieldsNotMixed,
     pageVars, StandsFor, Config
<1> QED
  BY <1>1, <1>3, <1>4 DEF DialogsInv

FrontInv ==
    /\ DialogsInv
    /\ BoardTypeOK /\ BoardInv
    /\ WebTypeOK
    /\ FeedTypeOK /\ FutureInv /\ Follows
    /\ RecordsInv /\ IncomeInv
    /\ NamesTypeOK

\* The invariant of all pages holds at first.
LEMMA FrontStarts == FrontInit => FrontInv
<1> SUFFICES ASSUME FrontInit PROVE FrontInv
  OBVIOUS
<1>1. /\ BoardInit /\ WebInit /\ FeedInit /\ FilesInit /\ NamesInit
  BY DEF FrontInit
<1> QED
  BY <1>1, DialogsStart, BoardTypeStarts, BoardStarts, WebTypeStarts,
     FeedTypeStarts, FeedStarts, FollowsStarts, RecordsStart, IncomeStarts,
   NamesStart DEF FrontInv

\* A step of one page is a step or a stutter of every page.
LEMMA EachPageSteps ==
    ASSUME [FrontNext]_frontVars
    PROVE  /\ [BoardNext]_boardVars /\ [WebNext]_webVars /\ [FeedNext]_feedVars
           /\ [RecordsNext]_recordVars /\ [IncomeNext]_incomeVars /\ [Later]_namesVars
           /\ \/ SettingsStep \/ HotKeysStep
              \/ UNCHANGED <<page, pageVars, hotPage, serverVars>>
<1>1. CASE UNCHANGED frontVars
  BY <1>1 DEF frontVars, filesVars
<1>2. CASE SettingsStep
  BY <1>2 DEF SettingsStep, filesVars
<1>3. CASE HotKeysStep
  BY <1>3 DEF HotKeysStep, filesVars
<1>4. CASE BoardStep
  BY <1>4 DEF BoardStep, filesVars
<1>5. CASE DashboardStep
  BY <1>5 DEF DashboardStep, filesVars
<1>6. CASE ChartStep
  BY <1>6 DEF ChartStep, filesVars
<1>7. CASE RecordsStep
  BY <1>7 DEF RecordsStep, PagesRest
<1>8. CASE IncomeStep
  BY <1>8 DEF IncomeStep, PagesRest
<1>9. CASE TimesStep
  BY <1>9 DEF TimesStep, PagesRest
<1> QED
  BY <1>1, <1>2, <1>3, <1>4, <1>5, <1>6, <1>7, <1>8, <1>9 DEF FrontNext

\* It holds after every step of the page that is open.
LEMMA FrontKeeps == FrontInv /\ [FrontNext]_frontVars => FrontInv'
<1> SUFFICES ASSUME FrontInv, [FrontNext]_frontVars PROVE FrontInv'
  OBVIOUS
<1>1. DialogsInv'
  BY EachPageSteps, SettingsKeep, HotKeysKeep, DialogsRest DEF FrontInv
<1>2. BoardTypeOK' /\ BoardInv' /\ WebTypeOK' /\ FeedTypeOK'
      /\ FutureInv' /\ Follows'
  BY EachPageSteps, BoardTypeKeeps, BoardKeeps, WebTypeKeeps, FeedTypeKeeps,
     FeedKeeps, FollowsKeeps DEF FrontInv
<1>3. RecordsInv' /\ IncomeInv' /\ NamesTypeOK'
  BY EachPageSteps, RecordsKeep, IncomeKeeps, NamesKeep DEF FrontInv
<1> QED
  BY <1>1, <1>2, <1>3 DEF FrontInv

\* So it always holds.
LEMMA FrontInvariant == FrontSpec => []FrontInv
BY FrontStarts, FrontKeeps, PTL DEF FrontSpec
\* What the invariant says of each page.
LEMMA FrontInvShows ==
  ASSUME FrontInv
  PROVE  /\ FrontTypeOK /\ RangeShown /\ NoFutureBar
         /\ RecordsDrawnRight /\ IncomeAddsUp
         /\ SerialSavesKept /\ StoredIsShown /\ FieldsNotMixed /\ ServerColumnCurrent
         /\ ConfigDrawable /\ ModalDrawable /\ CarefulEditsAddUp
<1>1. RangeShown /\ NoFutureBar
  BY DEF FrontInv, BoardInv, NewestAsked, RangeShown, FutureInv, Begun, NoFutureBar
<1>2. RecordsDrawnRight /\ IncomeAddsUp
  BY RecordsDrawn DEF FrontInv, IncomeInv
<1>3. OtherTypeOK /\ StoredIsShown /\ FieldsNotMixed /\ ServerColumnCurrent
  BY OtherInvShows DEF FrontInv, DialogsInv, SettingsRest, ServerColumnCurrent
<1>4. HotTypeOK /\ ModalDrawable /\ CarefulEditsAddUp
  BY HotInvShows DEF FrontInv, DialogsInv, HotKeysRest, CarefulEditsAddUp
<1>5. SerialSavesKept
  BY OtherInvShows, HotInvShows DEF FrontInv, DialogsInv
<1>6. ConfigDrawable
  <2>1. ASSUME HotKeysRest PROVE ConfigDrawable
    BY <2>1 DEF HotKeysRest, HotKeysKept, ContentsIn, GoodKeys, ConfigDrawable
  <2> QED
    BY <2>1, HotInvShows DEF FrontInv, DialogsInv
<1>7. FrontTypeOK
  BY <1>3, <1>4, FilesTyped DEF FrontInv, FrontTypeOK
<1> QED
  BY <1>1, <1>2, <1>3, <1>4, <1>5, <1>6, <1>7

\* Whatever page is open, every page, file and answer keeps its type.
THEOREM FrontTyped == FrontSpec => []FrontTypeOK
BY FrontInvShows, FrontInvariant, PTL

\* The changes that /get_position_record writes, drawn from any records and
\* any limit, start at the first record and add up to the last
\* (generateCombinationData, uploadPositionRecordToOss).
THEOREM RecordsRight == FrontSpec => []RecordsDrawnRight
BY FrontInvShows, FrontInvariant, PTL

\* The rows of the income file and what is earned today make up everything
\* earned in the days that the file covers, if the figure for today is fresh
\* and none of it came more than a day late: for any incomes, and any order and
\* number of midnights, generations and updates of the file.
THEOREM IncomeRight == FrontSpec => []IncomeAddsUp
BY FrontInvShows, FrontInvariant, PTL

\* The pages keep each other's promises: what is proved of the dialogs, the
\* board and the chart on their own holds when a browser has any one of them
\* open, with the hot keys that another browser saves meanwhile.
THEOREM PagesKeepTheirPromises ==
    FrontSpec => [](/\ SerialSavesKept /\ StoredIsShown /\ FieldsNotMixed
                    /\ ServerColumnCurrent /\ ConfigDrawable /\ ModalDrawable
                    /\ CarefulEditsAddUp /\ RangeShown /\ NoFutureBar)
BY FrontInvShows, FrontInvariant, PTL

\* The replay skips no bar under the other pages either.
THEOREM NoBarSkipped == FrontSpec => NothingSkipped
<1>1. FrontInv /\ [FrontNext]_frontVars =>
          [ LET r == resolution IN
            r \in DOMAIN subscribers /\ r \in DOMAIN subscribers' /\ waiting = "no" =>
                \/ subscribers[r] = Never
                \/ subscribers'[r] = subscribers[r]
                \/ /\ subscribers'[r] = subscribers[r] + 1
                   /\ chart'[subscribers[r]] = End(subscribers[r]) ]_feedVars
  BY EachPageSteps, SkipsNothing DEF FrontInv
<1> QED BY <1>1, FrontInvariant, PTL DEF FrontSpec, NothingSkipped

\* What a time is called goes on by one word a day and never back, for any
\* months and any times, at any speed (formatDate, turnTsToTime).
THEOREM NamesGoOn == FrontSpec => WordsGoOn
<1>1. ASSUME NamesTypeOK, Later PROVE NextNameFollows
  <2>1. dateNow \in Nat /\ dateNow' \in Nat /\ dateNow <= dateNow'
    BY <1>1, DaysAreNumbers, MonthAssumption DEF Later, NamesTypeOK
  <2> QED BY <1>1, <2>1, NameGoesOn, CutKeepsOrder DEF NextNameFollows
<1>2. FrontInv => NamesTypeOK
  BY DEF FrontInv
<1>3. FrontInv /\ [FrontNext]_frontVars => [Later => NextNameFollows]_namesVars
  BY <1>1, <1>2
<1> QED BY <1>3, FrontInvariant, PTL DEF FrontSpec, WordsGoOn
=============================================================================
