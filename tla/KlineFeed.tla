----------------------------- MODULE KlineFeed ------------------------------
(***************************************************************************)
(* The kline collectors and the hub, composed.  Every collector is a       *)
(* client of WsHub with a connection of its own; it announces the number   *)
(* of symbols once, when it starts, and then loops: ask the hub for an     *)
(* index, read that symbol's klines from the exchange, write the short     *)
(* text (two minutes) and then the long one (45 minutes).                  *)
(*                                                                         *)
(* oneMinKlineToWs.py draws from index_1m; specialOneMinKlineToWs.py draws *)
(* from index_special_1m and skips symbols whose volume does not ask for   *)
(* a reading.  All of them write the same two maps.                        *)
(*                                                                         *)
(* A text is the version of the market it was read at: Data is             *)
(* 0 .. MaxVersion and Empty is 0.                                         *)
(***************************************************************************)
EXTENDS WsHub

CONSTANTS
    Special,        \* the connections of specialOneMinKlineToWs
    Known,          \* Known[c]: length of TRADE_SYMBOL_ARR of c
    MaxVersion,     \* bound: versions of the market
    MaxFaults       \* bound: broken connections, failed readings and dropped
                    \* texts (announcements may all be dropped)

ASSUME SpecialAssumption == Special \subseteq Conn
ASSUME KnownAssumption == Known \in [Conn -> Index]
ASSUME VersionAssumption ==
    MaxVersion \in Nat /\ Data = 0 .. MaxVersion /\ Empty = 0 /\ MaxFaults \in Nat

VARIABLES
    now,        \* the version of the market
    pc,         \* pc[c]: "boot", "loop", "asked", "fetch", "agg" or "full"
    symbol,     \* symbol[c]: the symbol being read
    text,       \* text[c]: what was read
    faults

collectors == <<pc, symbol, text>>
feedVars   == <<hubVars, now, collectors, faults>>

FeedInit ==
    /\ Init
    /\ now = 1
    /\ pc = [c \in Conn |-> "boot"]
    /\ symbol = [c \in Conn |-> 0]
    /\ text = [c \in Conn |-> Empty]
    /\ faults = 0

-----------------------------------------------------------------------------
(* The market and the hub.                                                 *)

Market ==
    /\ now < MaxVersion
    /\ now' = now + 1
    /\ UNCHANGED <<hubVars, collectors, faults>>

\* The hub's own steps.  It stops only while it is to be started again, and
\* connections break MaxFaults times.  A collector that waits for an answer
\* connects again only after it has noticed that its connection is gone.
HubAlone(A) == A /\ UNCHANGED <<now, collectors, faults>>

Accepts(c) == pc[c] # "asked" /\ Accept(c)

HubStep ==
    HubAlone(\/ \E c \in Conn : Accepts(c) \/ Register(c) \/ DropTask(c) \/ Handle(c)
             \/ starts < MaxStarts /\ (Shutdown \/ Exit)
             \/ Start)

Breaks(c) ==
    /\ faults < MaxFaults
    /\ faults' = faults + 1
    /\ Disconnect(c) \/ HandshakeFails(c)
    /\ UNCHANGED <<now, collectors>>

-----------------------------------------------------------------------------
(* A collector.                                                            *)

Goto(c, label) == pc' = [pc EXCEPT ![c] = label]

\* send_to_ws_a: a frame that finds the connection closed is sent once more
\* after reconnecting, which is this step taken later; when that fails too,
\* as it does while the hub is away, the frame is dropped.
SendOrDrop(c, f) ==
    /\ \/ phase[c] = "open" /\ Put(c, f)
       \/ phase[c] # "open" /\ UNCHANGED inbox
    /\ UNCHANGED <<process, phase, replies, market, active_connections>>

DroppedByFault(c) == phase[c] # "open" /\ server = "running"

\* The count, written without padding: once, so that it may be lost.
Announce(c) ==
    /\ pc[c] = "boot"
    /\ SendOrDrop(c, [kind |-> "symbol_count", count |-> Known[c]])
    /\ Goto(c, "loop")
    /\ UNCHANGED <<now, symbol, text, faults>>

\* A text: sent, or dropped.
Write(c, f) ==
    /\ SendOrDrop(c, f)
    /\ IF DroppedByFault(c)
       THEN faults < MaxFaults /\ faults' = faults + 1
       ELSE UNCHANGED faults
    /\ UNCHANGED <<now, symbol, text>>

\* Mutant of Command: one index for all collectors.
CommandShared(c) == "next_index_1m"

Command(c) == IF c \in Special THEN "next_index_special_1m" ELSE "next_index_1m"

\* get_from_ws_a: the command.  Without a connection the result is {} and
\* int({}) raises: the loop starts over, which is the same state.
Ask(c) ==
    /\ pc[c] = "loop"
    /\ phase[c] = "open"
    /\ Put(c, [kind |-> Command(c)])
    /\ Goto(c, "asked")
    /\ UNCHANGED <<process, phase, replies, market, active_connections,
                   now, symbol, text, faults>>

\* get_from_ws_a: the answer.  An index beyond the collector's own list
\* raises IndexError; the except clause uses an undefined name, sleeps and
\* goes on.
Answered(c) ==
    /\ pc[c] = "asked"
    /\ replies[c] # <<>>
    /\ LET index == Head(replies[c]).index IN
        /\ Goto(c, IF index < Known[c] THEN "fetch" ELSE "loop")
        /\ symbol' = [symbol EXCEPT ![c] = IF index < Known[c] THEN index ELSE @]
    /\ replies' = [replies EXCEPT ![c] = Tail(@)]
    /\ UNCHANGED <<process, phase, inbox, market, active_connections,
                   now, text, faults>>

\* The connection breaks before the answer: the command is sent again on a
\* new one.
Unanswered(c) ==
    /\ pc[c] = "asked"
    /\ phase[c] # "open"
    /\ Goto(c, "loop")
    /\ UNCHANGED <<hubVars, now, symbol, text, faults>>

\* klineToWs reads the klines and the depth and makes both texts of them.
Fetch(c) ==
    /\ pc[c] = "fetch"
    /\ Goto(c, "agg") /\ text' = [text EXCEPT ![c] = now]
    /\ UNCHANGED <<hubVars, now, symbol, faults>>

\* The exchange answers with a code, or a reading raises (then klineToWs is
\* called once more with an undefined index, which raises too).
FetchFails(c) ==
    /\ pc[c] = "fetch"
    /\ faults < MaxFaults
    /\ faults' = faults + 1
    /\ Goto(c, "loop")
    /\ UNCHANGED <<hubVars, now, symbol, text>>

\* A special collector passes over a symbol whose volume does not ask for a
\* reading, or whose volume figures are three minutes old.
PassesOver(c) ==
    /\ c \in Special
    /\ pc[c] = "fetch"
    /\ Goto(c, "loop")
    /\ UNCHANGED <<hubVars, now, symbol, text, faults>>

WriteAgg(c) ==
    /\ pc[c] = "agg"
    /\ Write(c, [kind |-> "kline_1m_agg", index |-> symbol[c], data |-> text[c]])
    /\ Goto(c, "full")

WriteFull(c) ==
    /\ pc[c] = "full"
    /\ Write(c, [kind |-> "kline_1m", index |-> symbol[c], data |-> text[c]])
    /\ Goto(c, "loop")

Collector(c) ==
    \/ Announce(c) \/ Ask(c) \/ Answered(c) \/ Unanswered(c)
    \/ Fetch(c) \/ FetchFails(c) \/ PassesOver(c)
    \/ WriteAgg(c) \/ WriteFull(c)

FeedNext ==
    \/ Market \/ HubStep
    \/ \E c \in Conn : Breaks(c) \/ Collector(c)

FeedSpec == FeedInit /\ [][FeedNext]_feedVars

\* The hub accepts and handles, docker restarts it, collectors loop.  A
\* special collector is not assumed to read anything.
FeedFairness ==
    /\ WF_feedVars(HubAlone(Start))
    /\ \A c \in Conn :
        /\ WF_feedVars(HubAlone(Accepts(c)))
        /\ WF_feedVars(HubAlone(Register(c)))
        /\ WF_feedVars(HubAlone(Handle(c)))
        /\ WF_feedVars(Collector(c))

FairFeedSpec == FeedSpec /\ FeedFairness

-----------------------------------------------------------------------------
(* Properties.                                                             *)

Symbols == {i \in Index : \E c \in Conn : i < Known[c]}

AllRefreshed == \A i \in Symbols : kline_1m[i] = now /\ kline_1m_agg[i] = now

\* Once the hub has been told the number of symbols, every symbol's texts come
\* to show the market and keep showing it when it rests: the shared round
\* robin leaves no symbol out, whatever connections broke, readings failed,
\* one announcement was lost or old readings were written late, and although
\* special collectors draw from the hub and write to the same maps.  A hub
\* that was never told (every announcement was lost) is outside the promise:
\* nothing announces the number again.
EverySymbolRefreshed ==
    <>[](symbol_count = Cardinality(Symbols)) => <>[]AllRefreshed

\* Readers of the hub get the texts of all symbols, not only of some.
Served == AllRefreshed /\ symbol_count = Cardinality(Symbols)
                       /\ Len(kline_1m_agg_joined) = symbol_count

=============================================================================
