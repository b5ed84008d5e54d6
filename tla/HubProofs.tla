------------------------------ MODULE HubProofs ------------------------------
(* The hub (WsHub), for any connections, frames, payloads and base of the   *)
(* digits: its types, the pre-joined cache, the order of the timestamps and  *)
(* the count of the connections.  With the history of what it was offered    *)
(* (HubHistory): that its slots serve the newest reading, as LatestValue     *)
(* says, and that it shares the indices out evenly.                          *)
EXTENDS HubHistory, FiniteSetTheorems, TLAPS

\* A count cut to its first three digits has at most three digits.
LEMMA DivBound ==
    ASSUME NEW n \in Nat, NEW limit \in Nat, NEW radix \in Nat \ {0},
           n < limit * radix
    PROVE  n \div radix \in 0 .. (limit - 1)
  <1> DEFINE q == n \div radix
  <1>1. q \in Nat /\ radix * q <= n
    BY SMT
  <1>2. ASSUME q >= limit PROVE FALSE
    <2>1. radix * q >= radix * limit
      BY <1>1, <1>2, SMT
    <2> QED
      BY <1>1, <2>1, SMT
  <1> QED
    BY <1>1, <1>2, SMT

\* A count read from a text is an index.
LEMMA ParsedCountInIndex ==
    ASSUME NEW n \in 0 .. (CountLimit * Radix - 1)
    PROVE  ParsedCount(n) \in Index
  <1>1. /\ CountLimit \in Nat \ {0}
        /\ Radix \in Nat \ {0}
        /\ CountLimit * Radix \in Nat
        /\ n \in Nat /\ n < CountLimit * Radix
    BY DigitsAssumption DEF CountLimit
  <1>2. n \div Radix \in 0 .. (CountLimit - 1)
    BY <1>1, DivBound
  <1> QED
    BY <1>1, <1>2 DEF ParsedCount, Index

\* What a frame carries, by its kind.
LEMMA FrameFields ==
    ASSUME NEW f \in Frame
    PROVE  /\ f.kind \in {"kline_1m", "kline_1m_agg"} =>
                /\ f.index \in Index
                /\ f.data \in Data
           /\ f.kind \in Slots => f.ts \in Ts /\ f.data \in Data
           /\ f.kind = "ban_symbols" => f.data \in Data
           /\ f.kind = "symbol_count" =>
                f.count \in 0 .. (CountLimit * Radix - 1)
  BY DEF Frame, Reads, Slots

\* The round robin stays among the indices.
LEMMA IndexFacts ==
    /\ 0 \in Index
    /\ \A i, n \in Index : NextIndex(i, n) \in Index
    /\ \A n \in Index : n \in Nat /\ 1 .. n \subseteq Nat
    /\ \A n \in Index : \A k \in 1 .. n : k - 1 \in Index
  <1>1. CountLimit \in Nat \ {0}
    BY DigitsAssumption DEF CountLimit
  <1> QED
    BY <1>1 DEF Index, NextIndex

\* The joined text is made of texts.
LEMMA JoinedType ==
    ASSUME NEW map \in [Index -> Data], NEW n \in Index
    PROVE  Joined(map, n) \in Seq(Data)
  <1>1. n \in Nat /\ \A k \in 1 .. n : map[k - 1] \in Data
    BY IndexFacts
  <1> QED
    BY <1>1 DEF Joined

\* An offer leaves a reading in a slot, and none older.
LEMMA SlotType ==
    ASSUME NEW v \in TimestampedData, NEW t \in Ts, NEW d \in Data
    PROVE  /\ TryUpdate(v, t, d) \in TimestampedData
           /\ TryUpdate(v, t, d).update_ts >= v.update_ts
  <1>1. \A u \in Ts \cup {0} : u \in Nat
    BY TsAssumption
  <1>2. CASE t >= v.update_ts
    <2>1. TryUpdate(v, t, d) = [update_ts |-> t, data |-> d]
      BY <1>2 DEF TryUpdate
    <2>2. TryUpdate(v, t, d) \in TimestampedData
      BY <2>1 DEF TimestampedData
    <2> QED
      BY <1>2, <2>1, <2>2
  <1>3. CASE ~(t >= v.update_ts)
    <2>1. v.update_ts \in Nat
      BY <1>1 DEF TimestampedData
    <2> QED
      BY <1>3, <2>1 DEF TryUpdate
  <1> QED
    BY <1>2, <1>3

\* The parts of a handler every other action shares.
LEMMA HandlingType ==
    ASSUME TypeOK, NEW c \in Conn, NEW kinds, Handling(c, kinds)
    PROVE  /\ HeadOf(c) \in Frame
           /\ HeadOf(c).kind \in kinds
           /\ inbox' \in [Conn -> Seq(Frame)]
           /\ UNCHANGED <<server, starts, phase, active_connections>>
  <1>1. inbox[c] \in Seq(Frame) /\ inbox[c] # <<>>
    BY DEF TypeOK, Handling
  <1>2. Head(inbox[c]) \in Frame /\ Tail(inbox[c]) \in Seq(Frame)
    BY <1>1
  <1> QED
    BY <1>2 DEF TypeOK, Handling, HeadOf, process

\* The types hold at first.
LEMMA InitType == Init => TypeOK
  BY DataAssumption, IndexFacts
  DEF Init, TypeOK, NewSlot, TimestampedData

\* They hold after every step.
LEMMA NextType == TypeOK /\ [Next]_hubVars => TypeOK'
  <1> SUFFICES ASSUME TypeOK, [Next]_hubVars PROVE TypeOK'
    OBVIOUS
  <1>1. CASE UNCHANGED hubVars
    BY <1>1 DEF TypeOK, hubVars, process, channels, market, klines, indices
  <1>2. CASE Shutdown
    BY <1>2 DEF Shutdown, TypeOK, channels, market, klines, indices
  <1>3. CASE Exit
    BY <1>3 DEF Exit, TypeOK, market, klines, indices
  <1>4. CASE Start
    BY <1>4, DataAssumption, IndexFacts
    DEF Start, TypeOK, NewSlot, TimestampedData, channels
  <1>5. ASSUME NEW c \in Conn, Connection(c) PROVE TypeOK'
    <2>1. CASE Accept(c)
      BY <2>1 DEF Accept, TypeOK, process, market, klines, indices
    <2>2. CASE Register(c)
      BY <2>2 DEF Register, TypeOK, process, channels, market, klines, indices
    <2>3. CASE HandshakeFails(c)
      BY <2>3
      DEF HandshakeFails, TypeOK, process, channels, market, klines, indices
    <2>4. CASE Disconnect(c)
      <3>1. active_connections' \in Nat
        BY <2>4 DEF Disconnect, TypeOK
      <3> QED
        BY <2>4, <3>1 DEF Disconnect, TypeOK, process, market, klines, indices
    <2>5. CASE DropTask(c)
      BY <2>5 DEF DropTask, TypeOK, process, market, klines, indices
    <2> QED
      BY <1>5, <2>1, <2>2, <2>3, <2>4, <2>5 DEF Connection
  <1>6. ASSUME NEW c \in Conn, Handle(c) PROVE TypeOK'
    <2>1. CASE GetSnapshot(c) \/ GetAllKline1m(c) \/ GetPosition(c)
               \/ GetStatus(c) \/ IgnoreUnknown(c)
      BY <2>1, HandlingType
      DEF GetSnapshot, GetAllKline1m, GetPosition, GetStatus, IgnoreUnknown,
          TypeOK, market, klines, indices
    <2>2. CASE NextIndex1m(c) \/ NextIndexSpecial1m(c)
      BY <2>2, HandlingType, IndexFacts
      DEF NextIndex1m, NextIndexSpecial1m, TypeOK, klines
    <2>3. CASE UpdateKline1m(c)
      <3>1. Handling(c, {"kline_1m"})
        BY <2>3 DEF UpdateKline1m
      <3>2. /\ HeadOf(c) \in Frame /\ HeadOf(c).kind \in {"kline_1m"}
            /\ inbox' \in [Conn -> Seq(Frame)]
            /\ UNCHANGED <<server, starts, phase, active_connections>>
        BY <3>1, HandlingType
      <3>3. HeadOf(c).index \in Index /\ HeadOf(c).data \in Data
        BY <3>2, FrameFields
      <3> QED
        BY <2>3, <3>2, <3>3
        DEF UpdateKline1m, TypeOK, indices
    <2>4. CASE UpdateKline1mAgg(c)
      <3>1. Handling(c, {"kline_1m_agg"})
        BY <2>4 DEF UpdateKline1mAgg
      <3>2. /\ HeadOf(c) \in Frame /\ HeadOf(c).kind \in {"kline_1m_agg"}
            /\ inbox' \in [Conn -> Seq(Frame)]
            /\ UNCHANGED <<server, starts, phase, active_connections>>
        BY <3>1, HandlingType
      <3>3. HeadOf(c).index \in Index /\ HeadOf(c).data \in Data
        BY <3>2, FrameFields
      <3> QED
        BY <2>4, <3>2, <3>3, JoinedType
        DEF UpdateKline1mAgg, TypeOK, indices
    <2>5. CASE UpdateSlot(c)
      <3>1. Handling(c, Slots)
        BY <2>5 DEF UpdateSlot
      <3>2. /\ HeadOf(c) \in Frame /\ HeadOf(c).kind \in Slots
            /\ inbox' \in [Conn -> Seq(Frame)]
            /\ UNCHANGED <<server, starts, phase, active_connections>>
        BY <3>1, HandlingType
      <3>3. HeadOf(c).ts \in Ts /\ HeadOf(c).data \in Data
        BY <3>2, FrameFields
      <3> QED
        BY <2>5, <3>2, <3>3, SlotType
        DEF UpdateSlot, TypeOK, klines, indices
    <2>6. CASE UpdateBanSymbols(c)
      <3>1. Handling(c, {"ban_symbols"})
        BY <2>6 DEF UpdateBanSymbols
      <3>2. /\ HeadOf(c) \in Frame /\ HeadOf(c).kind \in {"ban_symbols"}
            /\ inbox' \in [Conn -> Seq(Frame)]
            /\ UNCHANGED <<server, starts, phase, active_connections>>
        BY <3>1, HandlingType
      <3>3. HeadOf(c).data \in Data
        BY <3>2, FrameFields
      <3> QED
        BY <2>6, <3>2, <3>3
        DEF UpdateBanSymbols, TypeOK, klines, indices
    <2>7. CASE SetSymbolCount(c)
      <3>1. Handling(c, {"symbol_count"})
        BY <2>7 DEF SetSymbolCount
      <3>2. /\ HeadOf(c) \in Frame /\ HeadOf(c).kind \in {"symbol_count"}
            /\ inbox' \in [Conn -> Seq(Frame)]
            /\ UNCHANGED <<server, starts, phase, active_connections>>
        BY <3>1, HandlingType
      <3>3. HeadOf(c).count \in 0 .. (CountLimit * Radix - 1)
        BY <3>2, FrameFields
      <3> QED
        BY <2>7, <3>2, <3>3, ParsedCountInIndex
        DEF SetSymbolCount, TypeOK, klines, indices
    <2> QED
      BY <1>6, <2>1, <2>2, <2>3, <2>4, <2>5, <2>6, <2>7 DEF Handle
  <1>7. ASSUME NEW c \in Conn, Send(c) PROVE TypeOK'
    BY <1>7, FramesAssumption
    DEF Send, Put, TypeOK, process, market, klines, indices
  <1>8. ASSUME NEW c \in Conn, Receive(c) PROVE TypeOK'
    BY <1>8 DEF Receive, TypeOK, process, market, klines, indices
  <1> QED
    BY <1>1, <1>2, <1>3, <1>4, <1>5, <1>6, <1>7, <1>8 DEF Next, ServerNext

\* The state of the hub is always well typed: in particular the count and
\* both round-robin indices stay in the range three digits can name.
THEOREM TypeCorrect == Spec => []TypeOK
  BY InitType, NextType, PTL DEF Spec

-----------------------------------------------------------------------------
(* The pre-joined cache.                                                   *)

\* Steps that touch neither the aggregated klines nor their cache.
LEMMA AggUntouched ==
    AggCacheCurrent /\ UNCHANGED <<kline_1m_agg, kline_1m_agg_joined>>
        => AggCacheCurrent'
  BY DEF AggCacheCurrent

\* A reader of the "B" snapshot is never served a kline text that was since
\* replaced: whatever the connections, counts and frames, every entry of the
\* cache is the entry of the map.
THEOREM CacheCurrent == Spec => []AggCacheCurrent
  <1>1. Init => AggCacheCurrent
    BY DEF Init, AggCacheCurrent
  <1>2. TypeOK /\ AggCacheCurrent /\ [Next]_hubVars => AggCacheCurrent'
    <2> SUFFICES ASSUME TypeOK, AggCacheCurrent, [Next]_hubVars
                 PROVE  AggCacheCurrent'
      OBVIOUS
    <2>1. CASE UNCHANGED hubVars
      BY <2>1, AggUntouched DEF hubVars, market, klines
    <2>2. CASE Shutdown \/ Exit
      BY <2>2, AggUntouched DEF Shutdown, Exit, market, klines
    <2>3. CASE Start
      BY <2>3 DEF Start, AggCacheCurrent
    <2>4. ASSUME NEW c \in Conn, Connection(c) \/ Send(c) \/ Receive(c)
          PROVE  AggCacheCurrent'
      BY <2>4, AggUntouched
      DEF Connection, Accept, Register, HandshakeFails, Disconnect, DropTask,
          Send, Receive, market, klines
    <2>5. ASSUME NEW c \in Conn, UpdateKline1mAgg(c)
          PROVE  AggCacheCurrent'
      <3>1. kline_1m_agg_joined' = [k \in 1 .. symbol_count |-> kline_1m_agg'[k - 1]]
        BY <2>5 DEF UpdateKline1mAgg, Joined
      <3> QED
        BY <3>1 DEF AggCacheCurrent
    <2>6. ASSUME NEW c \in Conn, Handle(c), ~UpdateKline1mAgg(c)
          PROVE  AggCacheCurrent'
      BY <2>6, AggUntouched
      DEF Handle, GetSnapshot, GetAllKline1m, GetPosition, GetStatus,
          NextIndex1m, NextIndexSpecial1m, UpdateKline1m, UpdateSlot,
          UpdateBanSymbols, SetSymbolCount, IgnoreUnknown, market, klines
    <2> QED
      BY <2>1, <2>2, <2>3, <2>4, <2>5, <2>6 DEF Next, ServerNext
  <1> QED
    BY <1>1, <1>2, TypeCorrect, PTL DEF Spec

-----------------------------------------------------------------------------
(* The order of the timestamps.                                            *)

\* While the process lives no step of any client or task serves a tick, a
\* position or a balance with an older timestamp than the one before.
THEOREM NeverTurnedBack == Spec => TimestampsAdvance
  <1> DEFINE Advance == server # "down" =>
        \A s \in Slots : slot'[s].update_ts >= slot[s].update_ts
  <1>1. TypeOK /\ [Next]_hubVars => [Advance]_hubVars
    <2> SUFFICES ASSUME TypeOK, Next, server # "down" PROVE Advance
      OBVIOUS
    <2>1. \A s \in Slots : slot[s] \in TimestampedData
      BY DEF TypeOK
    <2>2. \A v \in TimestampedData : v.update_ts >= v.update_ts
      <3>1. \A u \in Ts \cup {0} : u >= u
        BY TsAssumption
      <3> QED
        BY <3>1 DEF TimestampedData
    <2>3. CASE UNCHANGED slot
      BY <2>1, <2>2, <2>3
    <2>4. ASSUME NEW c \in Conn, UpdateSlot(c) PROVE Advance
      <3>1. Handling(c, Slots)
        BY <2>4 DEF UpdateSlot
      <3>2. HeadOf(c).kind \in Slots /\ HeadOf(c).ts \in Ts /\ HeadOf(c).data \in Data
        BY <3>1, HandlingType, FrameFields
      <3> DEFINE k == HeadOf(c).kind
      <3>3. slot'[k].update_ts >= slot[k].update_ts
        BY <2>1, <2>4, <3>2, SlotType DEF UpdateSlot, TypeOK
      <3>4. ASSUME NEW s \in Slots, s # k PROVE slot'[s] = slot[s]
        BY <2>4, <3>2, <3>4 DEF UpdateSlot, TypeOK
      <3> QED
        BY <2>1, <2>2, <3>3, <3>4
    <2>5. UNCHANGED slot \/ Start \/ \E c \in Conn : UpdateSlot(c)
      BY DEF Next, ServerNext, Shutdown, Exit, Connection, Accept, Register,
         HandshakeFails, Disconnect, DropTask, Send, Receive, Handle,
         GetSnapshot, GetAllKline1m, GetPosition, GetStatus, NextIndex1m,
         NextIndexSpecial1m, UpdateKline1m, UpdateKline1mAgg,
         UpdateBanSymbols, SetSymbolCount, IgnoreUnknown, market
    <2>6. ~Start
      BY DEF Start
    <2> QED
      BY <2>3, <2>4, <2>5, <2>6
  <1> QED
    BY <1>1, TypeCorrect, PTL DEF Spec, TimestampsAdvance

-----------------------------------------------------------------------------
(* The connection count.  ConnectionsCounted is not inductive: a start sets *)
(* the count to 0, which is right only because a process that is down holds *)
(* no connection.                                                           *)

CountInv ==
    /\ ConnectionsCounted
    /\ server = "down" => Open = {}

\* Finitely many connections are open.
LEMMA OpenFinite == IsFiniteSet(Open) /\ Cardinality(Open) \in Nat
  BY ConnAssumption, FS_Subset, FS_CardinalityType DEF Open

\* What touches no connection keeps the count.
LEMMA CountUntouched ==
    CountInv /\ UNCHANGED <<server, phase, active_connections>> => CountInv'
  BY DEF CountInv, ConnectionsCounted, Open

\* The number the status command reports is the number of registered
\* connections, for any number of clients coming and going, across
\* shutdowns, crashes and restarts.
THEOREM CountCorrect == Spec => []ConnectionsCounted
  <1>1. Init => CountInv
    <2> SUFFICES ASSUME Init PROVE CountInv
      OBVIOUS
    <2>1. Open = {}
      BY DEF Init, Open
    <2> QED
      BY <2>1, FS_EmptySet DEF Init, CountInv, ConnectionsCounted
  <1>2. TypeOK /\ CountInv /\ [Next]_hubVars => CountInv'
    <2> SUFFICES ASSUME TypeOK, CountInv, [Next]_hubVars PROVE CountInv'
      OBVIOUS
    <2>1. CASE UNCHANGED hubVars
      BY <2>1, CountUntouched DEF hubVars, process
    <2>2. CASE Shutdown
      <3>1. Open' = Open
        BY <2>2 DEF Shutdown, Open
      <3> QED
        BY <2>2, <3>1, OpenFinite DEF Shutdown, CountInv, ConnectionsCounted
    <2>3. CASE Exit
      BY <2>3 DEF Exit, CountInv, ConnectionsCounted, Open
    <2>4. CASE Start
      <3>1. Open' = {}
        BY <2>4 DEF Start, CountInv, Open
      <3> QED
        BY <2>4, <3>1, FS_EmptySet DEF Start, CountInv, ConnectionsCounted
    <2>5. ASSUME NEW c \in Conn, Accept(c) \/ HandshakeFails(c) PROVE CountInv'
      <3>1. Open' = Open /\ UNCHANGED <<server, active_connections>>
        BY <2>5 DEF Accept, HandshakeFails, Open, TypeOK, process
      <3> QED
        BY <3>1 DEF CountInv, ConnectionsCounted
    <2>6. ASSUME NEW c \in Conn, Register(c) PROVE CountInv'
      <3>1. Open' = Open \cup {c} /\ c \notin Open
        BY <2>6 DEF Register, Open, TypeOK
      <3>2. Cardinality(Open') = Cardinality(Open) + 1
        BY <3>1, OpenFinite, FS_AddElement
      <3> QED
        BY <2>6, <3>1, <3>2, OpenFinite
        DEF Register, CountInv, ConnectionsCounted, TypeOK, process
    <2>7. ASSUME NEW c \in Conn, Disconnect(c) PROVE CountInv'
      <3>1. Open' = Open \ {c} /\ c \in Open
        BY <2>7 DEF Disconnect, Open, TypeOK
      <3>2. Cardinality(Open') = Cardinality(Open) - 1
        BY <3>1, OpenFinite, FS_RemoveElement
      <3>3. Cardinality(Open) # 0
        BY <3>1, OpenFinite, FS_EmptySet
      <3>4. server' = server /\ server \in {"running", "stopping"}
            /\ active_connections' = IF active_connections = 0
                                     THEN 0 ELSE active_connections - 1
        BY <2>7 DEF Disconnect, process
      <3> QED
        BY <3>2, <3>3, <3>4, OpenFinite
        DEF CountInv, ConnectionsCounted, TypeOK
    <2>8. ASSUME NEW c \in Conn, DropTask(c) PROVE CountInv'
      <3>1. Open' \in SUBSET Open
        BY <2>8 DEF DropTask, Open, TypeOK
      <3>2. Cardinality(Open') \in Nat /\ Cardinality(Open') <= Cardinality(Open)
        BY <3>1, OpenFinite, FS_Subset, FS_CardinalityType
      <3> QED
        BY <2>8, <3>2, OpenFinite
        DEF DropTask, CountInv, ConnectionsCounted, TypeOK, process
    <2>9. ASSUME NEW c \in Conn, Handle(c) PROVE CountInv'
      <3>1. \E kinds : Handling(c, kinds)
        BY <2>9
        DEF Handle, GetSnapshot, GetAllKline1m, GetPosition, GetStatus,
            NextIndex1m, NextIndexSpecial1m, UpdateKline1m, UpdateKline1mAgg,
            UpdateSlot, UpdateBanSymbols, SetSymbolCount, IgnoreUnknown
      <3> QED
        BY <3>1, CountUntouched DEF Handling, process
    <2>10. ASSUME NEW c \in Conn, Send(c) \/ Receive(c) PROVE CountInv'
      BY <2>10, CountUntouched DEF Send, Receive, process
    <2> QED
      BY <2>1, <2>2, <2>3, <2>4, <2>5, <2>6, <2>7, <2>8, <2>9, <2>10
      DEF Next, ServerNext, Connection
  <1>3. CountInv => ConnectionsCounted
    BY DEF CountInv
  <1> QED
    BY <1>1, <1>2, <1>3, TypeCorrect, PTL DEF Spec

-----------------------------------------------------------------------------
(* What the hub was offered, and the refinement of LatestValue.             *)

Offer == [update_ts : Ts, data : Data]

\* Times are numbers.
LEMMA TsNat == \A t \in Ts \cup {0} : t \in Nat
  BY TsAssumption

\* So are the times of what was offered.
LEMMA OfferTs == ASSUME NEW o \in Seq(Offer), NEW j \in DOMAIN o
                 PROVE  o[j].update_ts \in Nat
  <1>1. o[j] \in Offer
    OBVIOUS
  <1> QED
    BY <1>1, TsNat DEF Offer

\* There is only one offer that outranks all others.
LEMMA LatestIsNewest ==
    ASSUME NEW o \in Seq(Offer), NEW k \in DOMAIN o, Served!Newest(o, k)
    PROVE  Served!Latest(o) = o[k]
  <1> DEFINE m == CHOOSE i \in DOMAIN o : Served!Newest(o, i)
  <1>1. m \in DOMAIN o /\ Served!Newest(o, m)
    OBVIOUS
  <1>2. o[k].update_ts \in Nat /\ o[m].update_ts \in Nat
    BY <1>1, OfferTs
  <1>3. k \in Nat /\ m \in Nat
    BY <1>1
  <1>4. m = k
    BY <1>1, <1>2, <1>3 DEF Served!Newest
  <1> QED
    BY <1>4 DEF Served!Latest

\* An accepted reading outranks every earlier offer.
LEMMA AcceptedIsNewest ==
    ASSUME NEW o \in Seq(Offer), NEW x \in Offer,
           \A j \in DOMAIN o : o[j].update_ts <= x.update_ts
    PROVE  /\ Append(o, x) \in Seq(Offer)
           /\ Len(o) + 1 \in DOMAIN Append(o, x)
           /\ Append(o, x)[Len(o) + 1] = x
           /\ Served!Newest(Append(o, x), Len(o) + 1)
  <1> DEFINE p == Append(o, x)
             n == Len(o) + 1
  <1>1. p \in Seq(Offer) /\ DOMAIN p = 1 .. n /\ n \in 1 .. n /\ p[n] = x
    OBVIOUS
  <1>2. ASSUME NEW j \in DOMAIN p
        PROVE  p[j].update_ts <= p[n].update_ts /\ j <= n
    <2>1. CASE j = n
      <3>1. p[n].update_ts \in Nat
        BY <1>1, OfferTs
      <3> QED
        BY <1>1, <2>1, <3>1
    <2>2. CASE j # n
      BY <1>1, <2>2
    <2> QED
      BY <2>1, <2>2
  <1>3. \A j \in DOMAIN p : p[j].update_ts \in Nat
    BY <1>1, OfferTs
  <1> QED
    BY <1>1, <1>2, <1>3 DEF Served!Newest

\* A rejected reading leaves the newest offer the newest.
LEMMA RejectedKeepsNewest ==
    ASSUME NEW o \in Seq(Offer), NEW x \in Offer, NEW k \in DOMAIN o,
           Served!Newest(o, k), x.update_ts < o[k].update_ts
    PROVE  /\ Append(o, x) \in Seq(Offer)
           /\ k \in DOMAIN Append(o, x)
           /\ Append(o, x)[k] = o[k]
           /\ Served!Newest(Append(o, x), k)
  BY DEF Served!Newest

-----------------------------------------------------------------------------
(* The inductive invariant: a slot that was offered nothing is new, any     *)
(* other holds one of its offers, and one that outranks the others.         *)

SlotServes(s) ==
    /\ offers[s] = <<>> => slot[s] = NewSlot
    /\ offers[s] # <<>> =>
        \E k \in DOMAIN offers[s] : /\ Served!Newest(offers[s], k)
                                    /\ slot[s] = offers[s][k]

HistoryInv ==
    /\ TypeOK
    /\ offers \in [Slots -> Seq(Offer)]
    /\ \A s \in Slots : SlotServes(s)

\* What is in the slot after one more reading is the newest of all.
LEMMA UpdateServes ==
    ASSUME NEW o \in Seq(Offer), NEW x \in Offer, NEW v \in TimestampedData,
           o = <<>> => v = NewSlot,
           o # <<>> => \E k \in DOMAIN o : Served!Newest(o, k) /\ v = o[k]
    PROVE  LET p == Append(o, x) IN
           /\ p \in Seq(Offer)
           /\ p # <<>>
           /\ \E k \in DOMAIN p : /\ Served!Newest(p, k)
                                  /\ TryUpdate(v, x.update_ts, x.data) = p[k]
  <1> DEFINE p == Append(o, x)
             w == TryUpdate(v, x.update_ts, x.data)
  <1>1. p \in Seq(Offer) /\ p # <<>>
    <2>1. p \in Seq(Offer) /\ Len(p) = Len(o) + 1 /\ Len(o) \in Nat
      OBVIOUS
    <2> QED
      BY <2>1
  <1>2. x = [update_ts |-> x.update_ts, data |-> x.data]
    BY DEF Offer
  <1>3. x.update_ts \in Nat
    BY TsNat DEF Offer
  <1>4. CASE o = <<>>
    <2>1. w = x
      BY <1>2, <1>3, <1>4 DEF TryUpdate, NewSlot
    <2>2. \A j \in DOMAIN o : o[j].update_ts <= x.update_ts
      BY <1>4
    <2> QED
      BY <1>1, <2>1, <2>2, AcceptedIsNewest
  <1>5. CASE o # <<>>
    <2>1. PICK k \in DOMAIN o : Served!Newest(o, k) /\ v = o[k]
      BY <1>5
    <2>2. v.update_ts \in Nat
      BY <2>1, OfferTs
    <2>3. CASE x.update_ts >= v.update_ts
      <3>1. w = x
        BY <1>2, <2>3 DEF TryUpdate
      <3>2. ASSUME NEW j \in DOMAIN o PROVE o[j].update_ts <= x.update_ts
        <4>1. o[j].update_ts \in Nat
          BY OfferTs
        <4>2. o[j].update_ts < v.update_ts \/ o[j].update_ts = v.update_ts
          BY <2>1 DEF Served!Newest
        <4> QED
          BY <1>3, <2>2, <2>3, <4>1, <4>2
      <3> QED
        BY <1>1, <3>1, <3>2, AcceptedIsNewest
    <2>4. CASE ~(x.update_ts >= v.update_ts)
      <3>1. w = v
        BY <2>4 DEF TryUpdate
      <3>2. x.update_ts < o[k].update_ts
        BY <1>3, <2>1, <2>2, <2>4
      <3> QED
        BY <1>1, <2>1, <3>1, <3>2, RejectedKeepsNewest
    <2> QED
      BY <2>3, <2>4
  <1> QED
    BY <1>4, <1>5

\* The history's invariant holds at first.
LEMMA HInitInv == HInit => HistoryInv
  <1> SUFFICES ASSUME HInit PROVE HistoryInv
    OBVIOUS
  <1>1. TypeOK
    BY InitType DEF HInit
  <1>2. offers = [s \in Slots |-> <<>>]
    BY DEF HInit, NoOffers
  <1>3. \A s \in Slots : slot[s] = NewSlot
    BY DEF HInit, Init
  <1> QED
    BY <1>1, <1>2, <1>3 DEF HistoryInv, SlotServes

\* Every step with history is a step of the hub.
LEMMA HNextIsNext == [HNext]_<<hubVars, historyVars>> => [Next]_hubVars
  BY DEF HNext, HStart, Other, HUpdateSlot, HNextIndex1m, HSetSymbolCount,
     Next, ServerNext, Handle

\* One reading for slot s is an Arrive step, every other step a stutter or,
\* for a process that starts, a Forget.
LEMMA UpdateImplements ==
    ASSUME HistoryInv, NEW c \in Conn, HUpdateSlot(c)
    PROVE  /\ offers' \in [Slots -> Seq(Offer)]
           /\ \A s \in Slots : SlotServes(s)'
           /\ Served!Next
  <1> DEFINE k == HeadOf(c).kind
             x == [update_ts |-> HeadOf(c).ts, data |-> HeadOf(c).data]
  <1>1. Handling(c, Slots)
    BY DEF HUpdateSlot, UpdateSlot
  <1>2. k \in Slots /\ HeadOf(c).ts \in Ts /\ HeadOf(c).data \in Data
    BY <1>1, HandlingType, FrameFields DEF HistoryInv
  <1>3. x \in Offer
    BY <1>2 DEF Offer
  <1>4. /\ offers' = [offers EXCEPT ![k] = Append(@, x)]
        /\ slot' = [slot EXCEPT ![k] = TryUpdate(@, x.update_ts, x.data)]
    BY DEF HUpdateSlot, UpdateSlot
  <1>5. /\ offers \in [Slots -> Seq(Offer)]
        /\ slot \in [Slots -> TimestampedData]
    BY DEF HistoryInv, TypeOK
  <1>6. /\ offers'[k] = Append(offers[k], x)
        /\ slot'[k] = TryUpdate(slot[k], x.update_ts, x.data)
    BY <1>2, <1>4, <1>5
  <1>7. \A s \in Slots : s # k => offers'[s] = offers[s] /\ slot'[s] = slot[s]
    BY <1>4, <1>5
  <1>8. SlotServes(k)
    BY <1>2 DEF HistoryInv
  <1>9. /\ offers'[k] \in Seq(Offer)
        /\ offers'[k] # <<>>
        /\ \E i \in DOMAIN offers'[k] : /\ Served!Newest(offers'[k], i)
                                        /\ slot'[k] = offers'[k][i]
    <2>1. offers[k] \in Seq(Offer) /\ slot[k] \in TimestampedData
      BY <1>2, <1>5
    <2>2. /\ offers[k] = <<>> => slot[k] = NewSlot
          /\ offers[k] # <<>> =>
                \E i \in DOMAIN offers[k] : /\ Served!Newest(offers[k], i)
                                            /\ slot[k] = offers[k][i]
      BY <1>8 DEF SlotServes
    <2> HIDE DEF x, k
    <2>3. LET p == Append(offers[k], x) IN
          /\ p \in Seq(Offer)
          /\ p # <<>>
          /\ \E i \in DOMAIN p :
                /\ Served!Newest(p, i)
                /\ TryUpdate(slot[k], x.update_ts, x.data) = p[i]
      BY <1>3, <2>1, <2>2, UpdateServes
    <2> QED
      BY <1>6, <2>3
  <1>10. offers' \in [Slots -> Seq(Offer)]
    BY <1>2, <1>4, <1>5, <1>6, <1>9
  <1>11. \A s \in Slots : SlotServes(s)'
    <2> SUFFICES ASSUME NEW s \in Slots PROVE SlotServes(s)'
      OBVIOUS
    <2>1. CASE s = k
      BY <1>9, <2>1 DEF SlotServes
    <2>2. CASE s # k
      BY <1>7, <2>2 DEF SlotServes, HistoryInv
    <2> QED
      BY <2>1, <2>2
  <1>12. slot'[k] = Served!Latest(offers'[k])
    BY <1>9, LatestIsNewest
  <1>13. slot' = [slot EXCEPT ![k] = Served!Latest(offers'[k])]
    BY <1>2, <1>4, <1>5, <1>12
  <1>14. Served!Arrive(k, x)
    BY <1>4, <1>13 DEF Served!Arrive
  <1> QED
    BY <1>2, <1>3, <1>10, <1>11, <1>14 DEF Served!Next, Served!Offer, Offer

\* A start of the hub is one of LatestValue.
LEMMA StartImplements ==
    ASSUME HStart
    PROVE  /\ offers' \in [Slots -> Seq(Offer)]
           /\ \A s \in Slots : SlotServes(s)'
           /\ Served!Next
  <1>1. offers' = [s \in Slots |-> <<>>] /\ slot' = [s \in Slots |-> NewSlot]
    BY DEF HStart, NoOffers, Start
  <1> QED
    BY <1>1 DEF SlotServes, Served!Next, Served!Forget

\* All other steps leave the slots and their offers alone.
LEMMA OthersStutter ==
    ASSUME [HNext]_<<hubVars, historyVars>>, ~HStart,
           ~\E c \in Conn : HUpdateSlot(c)
    PROVE  UNCHANGED <<offers, slot>>
  <1>1. CASE UNCHANGED <<hubVars, historyVars>>
    BY <1>1 DEF hubVars, historyVars, market
  <1>2. CASE Other
    BY <1>2
    DEF Other, Shutdown, Exit, Connection, Accept, Register, HandshakeFails,
        Disconnect, DropTask, Send, Receive, GetSnapshot, GetAllKline1m,
        GetPosition, GetStatus, NextIndexSpecial1m, UpdateKline1m,
        UpdateKline1mAgg, UpdateBanSymbols, IgnoreUnknown, historyVars, market
  <1>3. CASE \E c \in Conn : HNextIndex1m(c) \/ HSetSymbolCount(c)
    BY <1>3 DEF HNextIndex1m, NextIndex1m, HSetSymbolCount, SetSymbolCount
  <1> QED
    BY <1>1, <1>2, <1>3 DEF HNext

\* For any number of writers and any timestamps: readers of the hub see the
\* newest reading offered since it started, however the frames are ordered.
THEOREM HubServesLatest == HSpec => ServesLatest
  <1>1. HInit => Served!Init
    BY DEF HInit, NoOffers, Init, Served!Init
  <1>2. HistoryInv /\ [HNext]_<<hubVars, historyVars>>
            => [Served!Next]_<<offers, slot>> /\ HistoryInv'
    <2> SUFFICES ASSUME HistoryInv, [HNext]_<<hubVars, historyVars>>
                 PROVE  [Served!Next]_<<offers, slot>> /\ HistoryInv'
      OBVIOUS
    <2>1. TypeOK'
      BY HNextIsNext, NextType DEF HistoryInv
    <2>2. CASE HStart
      BY <2>1, <2>2, StartImplements DEF HistoryInv
    <2>3. CASE \E c \in Conn : HUpdateSlot(c)
      BY <2>1, <2>3, UpdateImplements DEF HistoryInv
    <2>4. CASE ~HStart /\ ~\E c \in Conn : HUpdateSlot(c)
      <3>1. UNCHANGED <<offers, slot>>
        BY <2>4, OthersStutter
      <3> QED
        BY <2>1, <3>1 DEF HistoryInv, SlotServes
    <2> QED
      BY <2>2, <2>3, <2>4
  <1> QED
    BY <1>1, <1>2, HInitInv, PTL DEF HSpec, ServesLatest, Served!Spec

-----------------------------------------------------------------------------
(* The "F" command.  Since the count was set, indices were handed out in    *)
(* rounds: those from where the first round began up to the last one handed *)
(* out are one round ahead of the rest.                                     *)

\* Whether i is between s and p, going up and around.
Since(s, p, i) == IF s <= p THEN s <= i /\ i <= p ELSE s <= i \/ i <= p

InRounds(f, p, n) ==
    \E b \in Nat, s \in Index :
        /\ s < n
        /\ \A i \in Index : i < n => f[i] = IF Since(s, p, i) THEN b + 1 ELSE b

Shared(f, p, n) ==
    \/ \A i \in Index : f[i] = 0
    \/ n = 0 /\ p = 0 /\ \A i \in Index : i # 0 => f[i] = 0
    \/ /\ p < n
       /\ \A i \in Index : i >= n => f[i] = 0
       /\ InRounds(f, p, n)

\* Indices are numbers.
LEMMA IndexIsNat == \A i \in Index : i \in Nat
  BY DigitsAssumption DEF Index, CountLimit

\* Handing out the next index keeps the shares even.
LEMMA NextIsShared ==
    ASSUME NEW f \in [Index -> Nat], NEW p \in Index, NEW n \in Index, Shared(f, p, n)
    PROVE  LET q == NextIndex(p, n)
           IN  /\ [f EXCEPT ![q] = @ + 1] \in [Index -> Nat]
               /\ Shared([f EXCEPT ![q] = @ + 1], q, n)
  <1> PICK q \in Index : q = NextIndex(p, n)
    BY IndexFacts
  <1> PICK g : g = [f EXCEPT ![q] = @ + 1]
    OBVIOUS
  <1>1. g \in [Index -> Nat] /\ g[q] = f[q] + 1
        /\ \A i \in Index : i # q => g[i] = f[i]
    OBVIOUS
  <1>2. p \in Nat /\ n \in Nat /\ q \in Nat
    BY IndexIsNat
  <1>3. CASE n = 0
    <2>1. q = 0
      BY <1>2, <1>3 DEF NextIndex
    <2>2. \A i \in Index : i # 0 => f[i] = 0
      BY <1>2, <1>3 DEF Shared
    <2> QED
      BY <1>1, <1>3, <2>1, <2>2 DEF Shared
  <1>4. CASE n # 0 /\ \A i \in Index : f[i] = 0
    <2>1. q < n
      BY <1>2, <1>4 DEF NextIndex
    <2>2. \A i \in Index : i < n => g[i] = IF Since(q, q, i) THEN 0 + 1 ELSE 0
      BY <1>1, <1>2, <1>4, IndexIsNat DEF Since
    <2>3. InRounds(g, q, n)
      BY <2>1, <2>2 DEF InRounds
    <2>4. \A i \in Index : i >= n => g[i] = 0
      BY <1>1, <1>2, <1>4, <2>1, IndexIsNat
    <2> QED
      BY <2>1, <2>3, <2>4 DEF Shared
  <1>5. CASE /\ n # 0 /\ p < n
             /\ \A i \in Index : i >= n => f[i] = 0
             /\ InRounds(f, p, n)
    <2>1. q < n
      BY <1>2, <1>5 DEF NextIndex
    <2>2. \A i \in Index : i >= n => g[i] = 0
      BY <1>1, <1>2, <1>5, <2>1, IndexIsNat
    <2>3. PICK b \in Nat, s \in Index :
              /\ s < n
              /\ \A i \in Index : i < n => f[i] = IF Since(s, p, i) THEN b + 1 ELSE b
      BY <1>5 DEF InRounds
    <2>4. s \in Nat
      BY IndexIsNat
    <2>5. CASE q = s
      <3>1. ASSUME NEW i \in Index, i < n
            PROVE  Since(s, p, i) /\ (Since(q, q, i) <=> i = q)
        BY <1>2, <1>5, <2>3, <2>4, <2>5, <3>1, IndexIsNat DEF Since, NextIndex
      <3> PICK e \in Nat : e = b + 1
        OBVIOUS
      <3>2. \A i \in Index : i < n => g[i] = IF Since(q, q, i) THEN e + 1 ELSE e
        BY <1>1, <2>1, <2>3, <3>1
      <3>3. InRounds(g, q, n)
        BY <2>1, <3>2 DEF InRounds
      <3> QED
        BY <2>1, <2>2, <3>3 DEF Shared
    <2>6. CASE q # s
      <3>1. ASSUME NEW i \in Index, i < n
            PROVE  /\ ~Since(s, p, q)
                   /\ Since(s, q, i) <=> Since(s, p, i) \/ i = q
        BY <1>2, <1>5, <2>3, <2>4, <2>6, <3>1, IndexIsNat DEF Since, NextIndex
      <3>2. \A i \in Index : i < n => g[i] = IF Since(s, q, i) THEN b + 1 ELSE b
        BY <1>1, <2>1, <2>3, <3>1
      <3>3. InRounds(g, q, n)
        BY <2>3, <3>2 DEF InRounds
      <3> QED
        BY <2>1, <2>2, <3>3 DEF Shared
    <2> QED
      BY <2>5, <2>6
  <1> QED
    BY <1>1, <1>3, <1>4, <1>5 DEF Shared

\* Even shares differ by one at most.
LEMMA SharedIsBalanced ==
    ASSUME NEW f \in [Index -> Nat], NEW p \in Index, NEW n \in Index, Shared(f, p, n)
    PROVE  \A i, j \in Index :
               /\ i >= n /\ i # 0 => f[i] = 0
               /\ i < n /\ j < n => f[i] <= f[j] + 1
  <1> SUFFICES ASSUME NEW i \in Index, NEW j \in Index
               PROVE  /\ i >= n /\ i # 0 => f[i] = 0
                      /\ i < n /\ j < n => f[i] <= f[j] + 1
    OBVIOUS
  <1>1. i \in Nat /\ j \in Nat /\ n \in Nat
    BY IndexIsNat
  <1>2. CASE InRounds(f, p, n) /\ \A k \in Index : k >= n => f[k] = 0
    <2>1. PICK b \in Nat, s \in Index :
              \A k \in Index : k < n => f[k] = IF Since(s, p, k) THEN b + 1 ELSE b
      BY <1>2 DEF InRounds
    <2>2. /\ i < n => f[i] \in {b, b + 1}
          /\ j < n => f[j] \in {b, b + 1}
      BY <2>1
    <2> QED
      BY <1>2, <2>2
  <1>3. CASE \A k \in Index : f[k] = 0
    BY <1>3
  <1>4. CASE n = 0 /\ \A k \in Index : k # 0 => f[k] = 0
    BY <1>1, <1>4
  <1> QED
    BY <1>2, <1>3, <1>4 DEF Shared

DispatchInv ==
    /\ TypeOK
    /\ handed \in [Index -> Nat]
    /\ Shared(handed, index_1m, symbol_count)

\* Nothing handed out is handed out evenly.
LEMMA NoneIsShared ==
    ASSUME NEW p, NEW n
    PROVE  NoneHanded \in [Index -> Nat] /\ Shared(NoneHanded, p, n)
  BY DEF NoneHanded, Shared

\* Every step of the hub hands out one index or none.
LEMMA DispatchStep ==
    ASSUME DispatchInv, [HNext]_<<hubVars, historyVars>>
    PROVE  DispatchInv'
  <1>1. TypeOK'
    BY HNextIsNext, NextType DEF DispatchInv
  <1>2. /\ TypeOK /\ handed \in [Index -> Nat]
        /\ Shared(handed, index_1m, symbol_count)
        /\ index_1m \in Index /\ symbol_count \in Index
    BY DEF DispatchInv, TypeOK
  <1>3. ASSUME NEW c \in Conn, HNextIndex1m(c)
        PROVE  DispatchInv'
    <2>1. PICK q : q = NextIndex(index_1m, symbol_count)
      OBVIOUS
    <2>2. /\ index_1m' = q /\ symbol_count' = symbol_count
          /\ handed' = [handed EXCEPT ![q] = @ + 1]
      BY <1>3, <2>1 DEF HNextIndex1m, NextIndex1m
    <2> QED
      BY <1>1, <1>2, <2>1, <2>2, NextIsShared DEF DispatchInv
  <1>4. ASSUME HStart \/ \E c \in Conn : HSetSymbolCount(c)
        PROVE  DispatchInv'
    BY <1>1, <1>4, NoneIsShared DEF HStart, HSetSymbolCount, DispatchInv
  <1>5. ASSUME UNCHANGED <<handed, index_1m, symbol_count>>
        PROVE  DispatchInv'
    <2>1. UNCHANGED Index
      BY DEF Index, CountLimit
    <2> QED
      BY <1>1, <1>2, <1>5, <2>1 DEF DispatchInv, Shared, InRounds, Since
  <1>6. CASE Other
    <2>1. UNCHANGED <<handed, index_1m, symbol_count>>
      BY <1>6
      DEF Other, Shutdown, Exit, Connection, Accept, Register, HandshakeFails,
          Disconnect, DropTask, Send, Receive, GetSnapshot, GetAllKline1m,
          GetPosition, GetStatus, NextIndexSpecial1m, UpdateKline1m,
          UpdateKline1mAgg, UpdateBanSymbols, IgnoreUnknown, historyVars, market,
          indices
    <2> QED
      BY <1>5, <2>1
  <1>7. CASE \E c \in Conn : HUpdateSlot(c)
    <2>1. UNCHANGED <<handed, index_1m, symbol_count>>
      BY <1>7 DEF HUpdateSlot, UpdateSlot, indices
    <2> QED
      BY <1>5, <2>1
  <1>8. CASE UNCHANGED <<hubVars, historyVars>>
    <2>1. UNCHANGED <<handed, index_1m, symbol_count>>
      BY <1>8 DEF hubVars, historyVars, market, indices
    <2> QED
      BY <1>5, <2>1
  <1> QED
    BY <1>3, <1>4, <1>6, <1>7, <1>8 DEF HNext

\* However many collectors share the command, whatever count was set when
\* and wherever the index stood then: nobody's symbol is handed out twice
\* more often than another, and none outside the count at all (next_index_1m).
THEOREM IndicesShared == HSpec => []DispatchBalanced
  <1>1. HInit => DispatchInv
    BY InitType, NoneIsShared DEF HInit, DispatchInv
  <1>2. DispatchInv => DispatchBalanced
    BY SharedIsBalanced DEF DispatchInv, TypeOK, DispatchBalanced
  <1> QED
    BY <1>1, <1>2, DispatchStep, PTL DEF HSpec
==============================================================================
