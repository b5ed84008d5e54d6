------------------------------ MODULE HubState ------------------------------
(***************************************************************************)
(* The pure operations of the market-data hub: what                        *)
(* ws/ws-server/src/state.rs computes on its in-memory MarketState and     *)
(* what ws/ws-server/src/protocol.rs makes of the number in a frame.       *)
(*                                                                         *)
(* A payload is one value of Data; the empty string "" is Empty, and a key *)
(* missing from a kline map reads as Empty (map_or("") in state.rs), so a  *)
(* map is a total function that starts Empty everywhere.                   *)
(***************************************************************************)
EXTENDS Integers, Sequences

CONSTANTS
    Data,        \* payload texts a frame can carry
    Empty,       \* the empty text
    Ts,          \* timestamps; the 13 digits of a frame, 0 when unparsable
    Radix,       \* 10 in the code: the base the counts are written in
    CountFloor   \* 100 in the code: the least number of three digits

ASSUME DataAssumption == Empty \in Data
ASSUME TsAssumption == Ts \subseteq Nat
ASSUME DigitsAssumption == /\ Radix \in Nat \ {0, 1}
                           /\ CountFloor \in Nat \ {0}

\* The first number of four digits, 1000 in the code.
CountLimit == CountFloor * Radix

\* Values of an index or a count read from three digits.
Index == 0 .. (CountLimit - 1)

Slots == {"tick", "position", "account_balance"}

TimestampedData == [update_ts : Ts \cup {0}, data : Data]

NewSlot == [update_ts |-> 0, data |-> Empty]

\* Mutant of TryUpdate: equal timestamps are rejected.
TryUpdateNewer(slot, ts, data) ==
    IF ts > slot.update_ts THEN [update_ts |-> ts, data |-> data] ELSE slot

\* TimestampedData::try_update: equal timestamps are accepted.
TryUpdate(slot, ts, data) ==
    IF ts >= slot.update_ts
    THEN [update_ts |-> ts, data |-> data]
    ELSE slot

\* The texts of symbols 0 .. count-1, in order: what join("@") lists.
Joined(map, count) == [k \in 1 .. count |-> map[k - 1]]

\* Mutant of NextIndex: wraps one too late.
NextIndexLate(index, count) == IF index + 1 > count THEN 0 ELSE index + 1

\* next_index_1m and next_index_special_1m.
NextIndex(index, count) == IF index + 1 >= count THEN 0 ELSE index + 1

\* A collector writes its count without padding; the frame is 16 bytes
\* longer than the number.  Below 19 bytes parse returns Unknown; otherwise
\* the count is the number's first three digits.
CountUnderstood(n) == n >= CountFloor

\* Mutant of ParsedCount: reads every digit.
ParsedCountWhole(n) == n

ParsedCount(n) == IF n < CountLimit THEN n ELSE n \div Radix
=============================================================================
