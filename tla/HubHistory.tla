----------------------------- MODULE HubHistory -----------------------------
(***************************************************************************)
(* The hub of WsHub with two history variables, so that what it promises   *)
(* over many frames can be stated: everything offered to a slot since the  *)
(* process started, and how often the "F" command handed out each index    *)
(* since the symbol count was last set.                                    *)
(***************************************************************************)
EXTENDS WsHub

CONSTANTS
    MaxOffers,   \* bound: offers per slot recorded in one process
    MaxHanded    \* bound: times one index is handed out per count

ASSUME HistoryBoundsAssumption == MaxOffers \in Nat /\ MaxHanded \in Nat

VARIABLES
    offers,      \* offers[s]: the frames handled for slot s, in order
    handed       \* handed[i]: the times index i answered an "F"

historyVars == <<offers, handed>>

NoOffers == [s \in Slots |-> <<>>]
NoneHanded == [i \in Index |-> 0]

HInit == Init /\ offers = NoOffers /\ handed = NoneHanded

HStart == Start /\ offers' = NoOffers /\ handed' = NoneHanded

HUpdateSlot(c) ==
    /\ UpdateSlot(c)
    /\ LET f == HeadOf(c) IN
        /\ Len(offers[f.kind]) < MaxOffers
        /\ offers' = [offers EXCEPT ![f.kind] =
                        Append(@, [update_ts |-> f.ts, data |-> f.data])]
    /\ UNCHANGED handed

HNextIndex1m(c) ==
    /\ NextIndex1m(c)
    /\ handed[index_1m'] < MaxHanded
    /\ handed' = [handed EXCEPT ![index_1m'] = @ + 1]
    /\ UNCHANGED offers

HSetSymbolCount(c) ==
    /\ SetSymbolCount(c)
    /\ handed' = NoneHanded
    /\ UNCHANGED offers

\* Every other step of the hub and of its clients.
Other ==
    /\ \/ Shutdown \/ Exit
       \/ \E c \in Conn :
            \/ Connection(c) \/ Send(c) \/ Receive(c)
            \/ GetSnapshot(c) \/ GetAllKline1m(c) \/ GetPosition(c)
            \/ GetStatus(c) \/ NextIndexSpecial1m(c) \/ UpdateKline1m(c)
            \/ UpdateKline1mAgg(c) \/ UpdateBanSymbols(c) \/ IgnoreUnknown(c)
    /\ UNCHANGED historyVars

HNext ==
    \/ HStart
    \/ Other
    \/ \E c \in Conn : HUpdateSlot(c) \/ HNextIndex1m(c) \/ HSetSymbolCount(c)

HSpec == HInit /\ [][HNext]_<<hubVars, historyVars>>

-----------------------------------------------------------------------------
(* Properties.                                                             *)

\* The slots, seen with the frames offered to them, are LatestValues.
Served == INSTANCE LatestValue WITH Nothing <- NewSlot, value <- slot

\* However the frames of getBinancePosition, wsPosition and tickToWs are
\* interleaved on the way, and whatever else the hub handles in between,
\* readers are served the newest reading it was ever sent since it started
\* (README: "intercept the latest data by comparing with the update time").
ServesLatest == Served!Spec

\* However many collectors share the "F" command, and whatever index the hub
\* was at when the count was set, no symbol is handed out twice more often
\* than another, and none outside the count is handed out at all: that is
\* the sharing of the kline work that next_index_1m exists for.
DispatchBalanced ==
    \A i, j \in Index :
        /\ i >= symbol_count /\ i # 0 => handed[i] = 0
        /\ i < symbol_count /\ j < symbol_count => handed[i] <= handed[j] + 1
=============================================================================
