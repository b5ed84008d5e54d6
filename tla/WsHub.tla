------------------------------- MODULE WsHub --------------------------------
(***************************************************************************)
(* The WebSocket hub of the data plane (ws/ws-server/src): one process     *)
(* whose MarketState lives in memory, a task per client connection, and a  *)
(* write lock every handler takes once and keeps to its end.  A step of    *)
(* this module is one handler run: the runtime is single threaded and no   *)
(* handler awaits while it holds the lock.                                 *)
(*                                                                         *)
(* A connection is a pair of FIFO byte streams: `inbox' to the hub and     *)
(* `replies' back to the client.  Streams of different connections are     *)
(* served in any order.  The process may stop (ctrl_c) or die at any time; *)
(* a new one starts from MarketState::new().                               *)
(***************************************************************************)
EXTENDS HubState, FiniteSets

CONSTANTS
    Conn,          \* the client connections
    Frames,        \* the frames clients send in this instance
    MaxInFlight,   \* bound: frames and replies pending on a connection
    MaxStarts      \* bound: how often the process is started

Reads == {"snapshot", "all_kline_1m", "get_position",
          "next_index_1m", "next_index_special_1m", "status"}

Frame ==
         [kind : Reads]
    \cup [kind : {"kline_1m", "kline_1m_agg"}, index : Index, data : Data]
    \cup [kind : Slots, ts : Ts, data : Data]
    \cup [kind : {"ban_symbols"}, data : Data]
    \cup [kind : {"symbol_count"}, count : 0 .. (CountLimit * Radix - 1)]

ASSUME FramesAssumption == Frames \subseteq Frame
ASSUME BoundsAssumption == MaxInFlight \in Nat /\ MaxStarts \in Nat
ASSUME ConnAssumption == IsFiniteSet(Conn)

VARIABLES
    server,           \* "down", "running" or "stopping"
    starts,           \* how often the process was started (bound only)
    phase,            \* phase[c]: "closed", "handshake" or "open"
    inbox,            \* inbox[c]: frames sent and not yet handled
    replies,          \* replies[c]: responses sent and not yet read
    kline_1m,         \* MarketState.kline_1m
    kline_1m_agg,     \* MarketState.kline_1m_agg
    kline_1m_agg_joined,
    slot,             \* tick, position and account_balance
    ban_symbols,
    symbol_count,
    index_1m,
    index_special_1m,
    active_connections

klines   == <<kline_1m, kline_1m_agg, kline_1m_agg_joined>>
indices  == <<index_1m, index_special_1m>>
market   == <<klines, slot, ban_symbols, symbol_count, indices>>
process  == <<server, starts>>
channels == <<inbox, replies>>
hubVars  == <<process, phase, channels, market, active_connections>>

TypeOK ==
    /\ server \in {"down", "running", "stopping"}
    /\ starts \in Nat
    /\ phase \in [Conn -> {"closed", "handshake", "open"}]
    /\ inbox \in [Conn -> Seq(Frame)]
    /\ kline_1m \in [Index -> Data]
    /\ kline_1m_agg \in [Index -> Data]
    /\ kline_1m_agg_joined \in Seq(Data)
    /\ slot \in [Slots -> TimestampedData]
    /\ ban_symbols \in Data
    /\ symbol_count \in Index
    /\ index_1m \in Index
    /\ index_special_1m \in Index
    /\ active_connections \in Nat

-----------------------------------------------------------------------------
\* MarketState::new().
Init ==
    /\ server = "running"
    /\ starts = 1
    /\ phase = [c \in Conn |-> "closed"]
    /\ inbox = [c \in Conn |-> <<>>]
    /\ replies = [c \in Conn |-> <<>>]
    /\ kline_1m = [i \in Index |-> Empty]
    /\ kline_1m_agg = [i \in Index |-> Empty]
    /\ kline_1m_agg_joined = <<>>
    /\ slot = [s \in Slots |-> NewSlot]
    /\ ban_symbols = Empty
    /\ symbol_count = 0
    /\ index_1m = 0
    /\ index_special_1m = 0
    /\ active_connections = 0

Open == {c \in Conn : phase[c] = "open"}

-----------------------------------------------------------------------------
(* Connections (server.rs, run and handle_connection).                     *)

\* A client's TCP connection is accepted and its task spawned.
Accept(c) ==
    /\ server = "running"
    /\ phase[c] = "closed"
    /\ phase' = [phase EXCEPT ![c] = "handshake"]
    /\ inbox' = [inbox EXCEPT ![c] = <<>>]
    /\ replies' = [replies EXCEPT ![c] = <<>>]
    /\ UNCHANGED <<process, market, active_connections>>

\* The handshake succeeds, the task counts itself and enters its loop.
Register(c) ==
    /\ server \in {"running", "stopping"}
    /\ phase[c] = "handshake"
    /\ phase' = [phase EXCEPT ![c] = "open"]
    /\ active_connections' = active_connections + 1
    /\ UNCHANGED <<process, channels, market>>

\* Mutant of HandshakeFails: leaves through the decrement.
HandshakeFailsUncounted(c) ==
    /\ server \in {"running", "stopping"}
    /\ phase[c] = "handshake"
    /\ phase' = [phase EXCEPT ![c] = "closed"]
    /\ active_connections' = IF active_connections = 0
                             THEN 0 ELSE active_connections - 1
    /\ UNCHANGED <<process, channels, market>>

\* A handshake that fails, or a wrong token, returns before the count.
HandshakeFails(c) ==
    /\ server \in {"running", "stopping"}
    /\ phase[c] = "handshake"
    /\ phase' = [phase EXCEPT ![c] = "closed"]
    /\ UNCHANGED <<process, channels, market, active_connections>>

\* The loop ends: a close frame, a read error or a failed response.  What
\* was sent and not handled, or answered and not read, is lost.
Disconnect(c) ==
    /\ server \in {"running", "stopping"}
    /\ phase[c] = "open"
    /\ phase' = [phase EXCEPT ![c] = "closed"]
    /\ inbox' = [inbox EXCEPT ![c] = <<>>]
    /\ replies' = [replies EXCEPT ![c] = <<>>]
    /\ active_connections' = IF active_connections = 0
                             THEN 0 ELSE active_connections - 1
    /\ UNCHANGED <<process, market>>

\* ctrl_c: the accept loop stops and the connection tasks are told to end.
Shutdown ==
    /\ server = "running"
    /\ server' = "stopping"
    /\ UNCHANGED <<starts, phase, channels, market, active_connections>>

\* A task sees the broadcast: its handle_connection future is dropped, and
\* with it the decrement at its end.
DropTask(c) ==
    /\ server = "stopping"
    /\ phase[c] # "closed"
    /\ phase' = [phase EXCEPT ![c] = "closed"]
    /\ inbox' = [inbox EXCEPT ![c] = <<>>]
    /\ replies' = [replies EXCEPT ![c] = <<>>]
    /\ UNCHANGED <<process, market, active_connections>>

\* The process ends, in order or killed: every connection goes with it.
Exit ==
    /\ server # "down"
    /\ server' = "down"
    /\ phase' = [c \in Conn |-> "closed"]
    /\ inbox' = [c \in Conn |-> <<>>]
    /\ replies' = [c \in Conn |-> <<>>]
    /\ UNCHANGED <<starts, market, active_connections>>

\* restart: unless-stopped brings up a process with a fresh MarketState.
Start ==
    /\ server = "down"
    /\ starts < MaxStarts
    /\ server' = "running"
    /\ starts' = starts + 1
    /\ kline_1m' = [i \in Index |-> Empty]
    /\ kline_1m_agg' = [i \in Index |-> Empty]
    /\ kline_1m_agg_joined' = <<>>
    /\ slot' = [s \in Slots |-> NewSlot]
    /\ ban_symbols' = Empty
    /\ symbol_count' = 0
    /\ index_1m' = 0
    /\ index_special_1m' = 0
    /\ active_connections' = 0
    /\ UNCHANGED <<phase, channels>>

-----------------------------------------------------------------------------
(* The handlers (handler.rs, handle_message).                              *)

HeadOf(c) == Head(inbox[c])

Handling(c, kinds) ==
    /\ server \in {"running", "stopping"}
    /\ phase[c] = "open"
    /\ inbox[c] # <<>>
    /\ HeadOf(c).kind \in kinds
    /\ inbox' = [inbox EXCEPT ![c] = Tail(@)]
    /\ UNCHANGED <<process, phase, active_connections>>

Respond(c, r) == replies' = [replies EXCEPT ![c] = Append(@, r)]

GetSnapshot(c) ==
    /\ Handling(c, {"snapshot"})
    /\ Respond(c, [agg |-> kline_1m_agg_joined,
                   slots |-> [s \in Slots |-> slot[s].data],
                   ban |-> ban_symbols])
    /\ UNCHANGED market

GetAllKline1m(c) ==
    /\ Handling(c, {"all_kline_1m"})
    /\ Respond(c, [klines |-> Joined(kline_1m, symbol_count)])
    /\ UNCHANGED market

GetPosition(c) ==
    /\ Handling(c, {"get_position"})
    /\ Respond(c, [position |-> slot["position"].data])
    /\ UNCHANGED market

GetStatus(c) ==
    /\ Handling(c, {"status"})
    /\ Respond(c, [count |-> symbol_count,
                   connections |-> active_connections,
                   ts |-> [s \in Slots |-> slot[s].update_ts]])
    /\ UNCHANGED market

NextIndex1m(c) ==
    /\ Handling(c, {"next_index_1m"})
    /\ index_1m' = NextIndex(index_1m, symbol_count)
    /\ Respond(c, [index |-> index_1m'])
    /\ UNCHANGED <<klines, slot, ban_symbols, symbol_count, index_special_1m>>

NextIndexSpecial1m(c) ==
    /\ Handling(c, {"next_index_special_1m"})
    /\ index_special_1m' = NextIndex(index_special_1m, symbol_count)
    /\ Respond(c, [index |-> index_special_1m'])
    /\ UNCHANGED <<klines, slot, ban_symbols, symbol_count, index_1m>>

UpdateKline1m(c) ==
    /\ Handling(c, {"kline_1m"})
    /\ kline_1m' = [kline_1m EXCEPT ![HeadOf(c).index] = HeadOf(c).data]
    /\ UNCHANGED <<replies, kline_1m_agg, kline_1m_agg_joined, slot,
                   ban_symbols, symbol_count, indices>>

\* Mutant of UpdateKline1mAgg: rebuilds before it inserts.
UpdateKline1mAggEarly(c) ==
    /\ Handling(c, {"kline_1m_agg"})
    /\ kline_1m_agg' = [kline_1m_agg EXCEPT ![HeadOf(c).index] = HeadOf(c).data]
    /\ kline_1m_agg_joined' = Joined(kline_1m_agg, symbol_count)
    /\ UNCHANGED <<replies, kline_1m, slot, ban_symbols, symbol_count, indices>>

\* rebuild_agg_cache runs under the same lock as the insertion.
UpdateKline1mAgg(c) ==
    /\ Handling(c, {"kline_1m_agg"})
    /\ kline_1m_agg' = [kline_1m_agg EXCEPT ![HeadOf(c).index] = HeadOf(c).data]
    /\ kline_1m_agg_joined' = Joined(kline_1m_agg', symbol_count)
    /\ UNCHANGED <<replies, kline_1m, slot, ban_symbols, symbol_count, indices>>

\* UpdateTick, UpdatePosition and UpdateBalance: one slot each.
UpdateSlot(c) ==
    /\ Handling(c, Slots)
    /\ slot' = [slot EXCEPT ![HeadOf(c).kind] =
                    TryUpdate(@, HeadOf(c).ts, HeadOf(c).data)]
    /\ UNCHANGED <<replies, klines, ban_symbols, symbol_count, indices>>

UpdateBanSymbols(c) ==
    /\ Handling(c, {"ban_symbols"})
    /\ HeadOf(c).data # Empty
    /\ ban_symbols' = HeadOf(c).data
    /\ UNCHANGED <<replies, klines, slot, symbol_count, indices>>

\* The joined cache is left as it is until the next aggregated write.
SetSymbolCount(c) ==
    /\ Handling(c, {"symbol_count"})
    /\ CountUnderstood(HeadOf(c).count)
    /\ symbol_count' = ParsedCount(HeadOf(c).count)
    /\ UNCHANGED <<replies, klines, slot, ban_symbols, indices>>

\* Frames below 19 bytes: an empty ban list, a count of one or two digits.
IgnoreUnknown(c) ==
    /\ Handling(c, {"ban_symbols", "symbol_count"})
    /\ \/ HeadOf(c).kind = "ban_symbols" /\ HeadOf(c).data = Empty
       \/ HeadOf(c).kind = "symbol_count" /\ ~CountUnderstood(HeadOf(c).count)
    /\ UNCHANGED <<replies, market>>

Handle(c) ==
    \/ GetSnapshot(c) \/ GetAllKline1m(c) \/ GetPosition(c) \/ GetStatus(c)
    \/ NextIndex1m(c) \/ NextIndexSpecial1m(c)
    \/ UpdateKline1m(c) \/ UpdateKline1mAgg(c) \/ UpdateSlot(c)
    \/ UpdateBanSymbols(c) \/ SetSymbolCount(c) \/ IgnoreUnknown(c)

Connection(c) ==
    Accept(c) \/ Register(c) \/ HandshakeFails(c) \/ Disconnect(c) \/ DropTask(c)

ServerNext ==
    \/ Shutdown \/ Exit \/ Start
    \/ \E c \in Conn : Connection(c) \/ Handle(c)

-----------------------------------------------------------------------------
(* The clients, as far as the hub knows them: any frame on any stream.     *)

Put(c, f) == inbox' = [inbox EXCEPT ![c] = Append(@, f)]

Send(c) ==
    /\ phase[c] = "open"
    /\ Len(inbox[c]) + Len(replies[c]) < MaxInFlight
    /\ \E f \in Frames : Put(c, f)
    /\ UNCHANGED <<process, phase, replies, market, active_connections>>

Receive(c) ==
    /\ replies[c] # <<>>
    /\ replies' = [replies EXCEPT ![c] = Tail(@)]
    /\ UNCHANGED <<process, phase, inbox, market, active_connections>>

Next == ServerNext \/ \E c \in Conn : Send(c) \/ Receive(c)

Spec == Init /\ [][Next]_hubVars

-----------------------------------------------------------------------------
(* Properties.                                                             *)

\* The pre-joined cache that every snapshot is built from (state.rs) never
\* shows a text other than the one stored for that symbol, whatever the
\* order in which counts and klines of several collectors arrive: only its
\* length may lag behind symbol_count.
AggCacheCurrent ==
    \A k \in DOMAIN kline_1m_agg_joined :
        kline_1m_agg_joined[k] = kline_1m_agg[k - 1]

\* active_connections, which the status command reports, is the number of
\* registered connections while the hub serves; a shutdown drops tasks
\* without their decrement, so then it can only be too high, and the
\* saturating subtraction of handle_connection never hides an underflow.
ConnectionsCounted ==
    /\ server = "running" => active_connections = Cardinality(Open)
    /\ server = "stopping" => active_connections >= Cardinality(Open)

\* As long as the process lives, no frame of any client makes the tick, the
\* position or the balance older than what was served before (try_update):
\* two writers racing, one of them with an old reading, never turn it back.
TimestampsAdvance ==
    [][server # "down" =>
        \A s \in Slots : slot'[s].update_ts >= slot[s].update_ts]_hubVars
=============================================================================
