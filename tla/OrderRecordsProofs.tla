------------------------- MODULE OrderRecordsProofs --------------------------
(* The recorders (OrderRecords): their tables keep their types and no trade *)
(* is recorded twice, for every loop of symbols, every length of an answer   *)
(* and of the window, and any number of orders, trades and failures.        *)
EXTENDS OrderRecords, DataTheorems

TradesOf(sym) == {t \in DOMAIN trades : trades[t] = sym}

\* Rows show orders and trades that the account has.
RowsKnown ==
    /\ \A r \in DOMAIN rows : rows[r].order \in DOMAIN orders
    /\ DOMAIN orderGot \subseteq DOMAIN orders
    /\ \A r \in DOMAIN tradeRows :
           /\ tradeRows[r].trade \in DOMAIN trades
           /\ tradeRows[r].symbol = trades[tradeRows[r].trade]

\* The trades of a symbol are recorded in their order.
RowsInOrder ==
    \A r, q \in DOMAIN tradeRows :
        tradeRows[r].symbol = tradeRows[q].symbol /\ r < q =>
            tradeRows[r].trade < tradeRows[q].trade

\* A trade that was missed, although a newer one of its symbol is recorded, is
\* too old to be answered again.
GapsAreOld ==
    \A q \in DOMAIN tradeRows : \A t \in TradesOf(tradeRows[q].symbol) :
        \/ t >= tradeRows[q].trade
        \/ \E r \in DOMAIN tradeRows : tradeRows[r].trade = t
        \/ t \notin LastOf(TradesOf(tradeRows[q].symbol), Answer)

\* The recorders' inductive invariant.
RecordInv == TypeOK /\ RowsKnown /\ RowsInOrder /\ GapsAreOld

-----------------------------------------------------------------------------
(* The steps.                                                               *)

\* The invariant holds at first.
LEMMA RecordsStart == Init => RecordInv
<1> SUFFICES ASSUME Init PROVE RecordInv
  OBVIOUS
<1> USE DEF Init
<1>1. 1 \in DOMAIN Loop
  BY LoopAssumption
<1>2. TypeOK
  BY <1>1 DEF TypeOK, Place
<1>3. RowsKnown
  BY DEF RowsKnown
<1>4. RowsInOrder /\ GapsAreOld
  BY DEF RowsInOrder, GapsAreOld
<1> QED BY <1>2, <1>3, <1>4 DEF RecordInv

\* New orders and trades, and what becomes of the old ones, leave the tables
\* as right as they were.
LEMMA AccountKeeps ==
    ASSUME RecordInv, UNCHANGED <<ordering, trading>>, ages' = ages, faults' = faults,
           orders' \in Seq(OrderOf), DOMAIN orders \subseteq DOMAIN orders',
           trades' = trades \/ \E sym \in Symbols : trades' = Append(trades, sym)
    PROVE  RecordInv'
<1> USE DEF ordering, trading
<1>0. trades \in Seq(Symbols) /\ tradeRows \in Seq(TradeRow)
  BY DEF RecordInv, TypeOK
<1>1. trades' \in Seq(Symbols)
  BY <1>0
<1>2. /\ Len(trades) \in Nat /\ DOMAIN trades = 1 .. Len(trades)
      /\ DOMAIN trades \subseteq DOMAIN trades'
      /\ \A t \in DOMAIN trades : trades'[t] = trades[t]
      /\ \A t \in DOMAIN trades' : t \notin DOMAIN trades => t = Len(trades) + 1
  <2>1. CASE trades' = trades
    BY <1>0, <2>1
  <2>2. ASSUME NEW sym \in Symbols, trades' = Append(trades, sym)
        PROVE  /\ DOMAIN trades' = 1 .. Len(trades) + 1
               /\ \A t \in DOMAIN trades : trades'[t] = trades[t]
    BY <1>0, <2>2
  <2>3. Len(trades) \in Nat /\ DOMAIN trades = 1 .. Len(trades)
    BY <1>0
  <2> QED BY <2>1, <2>2, <2>3
<1>3. TypeOK'
  BY <1>1 DEF RecordInv, TypeOK
<1>4. RowsKnown'
  BY <1>2 DEF RecordInv, RowsKnown
<1>5. RowsInOrder'
  BY DEF RecordInv, RowsInOrder
<1>6. GapsAreOld'
  <2> SUFFICES ASSUME NEW q \in DOMAIN tradeRows, NEW t \in TradesOf(tradeRows[q].symbol)',
                      ~(t >= tradeRows[q].trade),
                      ~(\E r \in DOMAIN tradeRows : tradeRows[r].trade = t)
               PROVE  t \notin LastOf(TradesOf(tradeRows[q].symbol)', Answer)
    BY DEF GapsAreOld
  <2>1. tradeRows[q].trade \in DOMAIN trades /\ tradeRows[q].trade <= Len(trades)
    BY <1>2 DEF RecordInv, RowsKnown
  <2>2. t \in DOMAIN trades' /\ trades'[t] = tradeRows[q].symbol
    BY DEF TradesOf
  <2>3. t \in DOMAIN trades
    BY <1>2, <2>1, <2>2
  <2>4. t \in TradesOf(tradeRows[q].symbol)
    BY <1>2, <2>2, <2>3 DEF TradesOf
  <2>5. t \notin LastOf(TradesOf(tradeRows[q].symbol), Answer)
    BY <2>4 DEF RecordInv, GapsAreOld
  <2>6. TradesOf(tradeRows[q].symbol) \in SUBSET TradesOf(tradeRows[q].symbol)'
    BY <1>2 DEF TradesOf
  <2>7. TradesOf(tradeRows[q].symbol)' \in SUBSET DOMAIN trades'
    BY DEF TradesOf
  <2>8. /\ IsFiniteSet(TradesOf(tradeRows[q].symbol)')
        /\ TradesOf(tradeRows[q].symbol)' \subseteq Nat
    BY <1>1, <2>7, IdsFinite
  <2> QED BY <2>4, <2>5, <2>6, <2>8, LastOfShrinks, RecordBoundsAssumption
<1> QED BY <1>3, <1>4, <1>5, <1>6 DEF RecordInv

\* The order recorder does nothing to the trades.
LEMMA OrdersKeep ==
    ASSUME RecordInv, UNCHANGED <<account, trading>>,
           rows' \in Seq(Row), \A r \in DOMAIN rows' : rows'[r].order \in DOMAIN orders,
           DOMAIN orderGot' \subseteq DOMAIN orders,
           orderGot' \in [DOMAIN orderGot' -> Nat],
           orderAt' \in Place, ages' \in Nat, faults' \in Nat
    PROVE  RecordInv'
<1> USE DEF account, trading
<1>1. DOMAIN orders \subseteq Nat
  BY DEF RecordInv, TypeOK
<1>2. TypeOK'
  BY <1>1 DEF RecordInv, TypeOK
<1>3. RowsKnown'
  BY DEF RecordInv, RowsKnown
<1>4. RowsInOrder'
  BY DEF RecordInv, RowsInOrder
<1>5. GapsAreOld'
  BY DEF RecordInv, GapsAreOld, TradesOf
<1> QED BY <1>2, <1>3, <1>4, <1>5 DEF RecordInv

\* The loop comes to a symbol of its own again.
LEMMA AfterInLoop ==
    ASSUME NEW i \in DOMAIN Loop
    PROVE  After(i) \in DOMAIN Loop
BY LoopAssumption DEF After

\* A loop goes on at one of its places,
LEMMA FollowingIsPlace ==
    ASSUME NEW at \in Place
    PROVE  Following(at) \in Place
BY AfterInLoop DEF Following, Place

\* which a step within a round does not leave.
LEMMA PcIsPlace ==
    ASSUME NEW at \in Place, NEW pc \in {"read", "write", "check"}
    PROVE  [at EXCEPT !.pc = pc] \in Place
BY DEF Place

\* The least and the greatest of some ids are among them.
LEMMA ExtremesAreIn ==
    ASSUME NEW S \in SUBSET Nat, IsFiniteSet(S), S # {}
    PROVE  Min(S) \in S /\ Max(S) \in S
<1>1. \E x \in S : \A y \in S : x <= y
  BY LeastNumber
<1>2. \E x \in S : \A y \in S : x >= y
  <2>1. S \subseteq Int
    OBVIOUS
  <2> QED BY <2>1, GreatestNumber
<1> QED BY <1>1, <1>2 DEF Min, Max

\* New rows, typed.
LEMMA RowForIsRow ==
    ASSUME RecordInv, NEW o \in DOMAIN orderGot
    PROVE  RowFor(o) \in Row /\ RowFor(o).order = o
<1>1. Here(orderAt) \in Symbols
  BY DEF RecordInv, TypeOK, Place, Here, Symbols
<1>2. o \in Nat /\ orderGot[o] \in Nat
  BY DEF RecordInv, TypeOK
<1> QED BY <1>1, <1>2 DEF RowFor, Row

\* The rows made for some of the orders of an answer.
LEMMA RowsForAreRows ==
    ASSUME RecordInv, NEW S \in SUBSET DOMAIN orderGot
    PROVE  /\ RowsFor(S) \in Seq(Row)
           /\ \A k \in DOMAIN RowsFor(S) : RowsFor(S)[k].order \in DOMAIN orders
<1>1. orders \in Seq(OrderOf) /\ S \in SUBSET DOMAIN orders /\ S \in SUBSET Nat
  BY DEF RecordInv, RowsKnown, TypeOK
<1>2. IsFiniteSet(S)
  BY <1>1, IdsFinite
<1>3. Cardinality(S) \in Nat /\ InOrder(S) \in [1 .. Cardinality(S) -> S]
  BY <1>1, <1>2, InOrderLists
<1>4. \A k \in 1 .. Cardinality(S) : InOrder(S)[k] \in S
  BY <1>3
<1>5. DOMAIN RowsFor(S) = 1 .. Cardinality(S)
      /\ \A k \in 1 .. Cardinality(S) : RowsFor(S)[k] = RowFor(InOrder(S)[k])
  BY DEF RowsFor
<1>6. RowsFor(S) \in [1 .. Cardinality(S) -> Row]
  BY <1>4, RowForIsRow DEF RowsFor
<1>7. RowsFor(S) \in Seq(Row)
  BY <1>3, <1>6
<1> QED BY <1>1, <1>4, <1>5, <1>7, RowForIsRow

\* The steps of the order recorder: the answer is read,
LEMMA OrdersReadKeeps == RecordInv /\ OrdersRead => RecordInv'
<1> SUFFICES ASSUME RecordInv, OrdersRead PROVE RecordInv'
  OBVIOUS
<1> DEFINE S == AnswerFor(Here(orderAt))
<1>1. S \in SUBSET DOMAIN orders
  BY DEF AnswerFor, LastOf
<1>2. orders \in Seq(OrderOf)
  BY DEF RecordInv, TypeOK
<1>3. \A o \in DOMAIN orders : orders[o].progress \in Nat
  <2>1. \A o \in DOMAIN orders : orders[o] \in OrderOf
    BY <1>2
  <2> QED BY <2>1 DEF OrderOf
<1>4. orderGot' = [o \in S |-> orders[o].progress]
  BY DEF OrdersRead
<1> HIDE DEF S
<1>5. DOMAIN orderGot' = S /\ orderGot' \in [DOMAIN orderGot' -> Nat]
  BY <1>1, <1>3, <1>4
<1>6. orderAt' \in Place
  BY PcIsPlace DEF RecordInv, TypeOK, OrdersRead
<1>7. /\ UNCHANGED <<account, trading>> /\ rows' = rows
      /\ ages' = ages /\ faults' = faults
  BY DEF OrdersRead
<1>8. /\ rows \in Seq(Row) /\ ages \in Nat /\ faults \in Nat
      /\ \A r \in DOMAIN rows : rows[r].order \in DOMAIN orders
  BY DEF RecordInv, TypeOK, RowsKnown
<1> QED BY <1>1, <1>5, <1>6, <1>7, <1>8, OrdersKeep

\* its orders are written,
LEMMA OrdersWrittenKeeps == RecordInv /\ OrdersWritten => RecordInv'
<1> SUFFICES ASSUME RecordInv, OrdersWritten PROVE RecordInv'
  OBVIOUS
<1> DEFINE ids == WindowOf(rows, Here(orderAt))
           unknown == {o \in DOMAIN orderGot : \A r \in ids : rows[r].order # o}
           changed == {o \in DOMAIN orderGot : \E r \in ids :
                          rows[r].order = o /\ rows[r].shows # orderGot[o]}
<1>1. /\ rows \in Seq(Row) /\ orders \in Seq(OrderOf) /\ orderAt \in Place
      /\ \A r \in DOMAIN rows : rows[r].order \in DOMAIN orders
      /\ DOMAIN orderGot \subseteq DOMAIN orders
      /\ ages \in Nat /\ faults \in Nat
  BY DEF RecordInv, TypeOK, RowsKnown
<1>2. /\ rows' = Updated(ids, changed) \o RowsFor(unknown) /\ orderGot' = <<>>
      /\ orderAt' = [orderAt EXCEPT !.pc = "check"]
      /\ UNCHANGED <<account, trading>> /\ ages' = ages /\ faults' = faults
  BY DEF OrdersWritten
<1>3. ids \in SUBSET DOMAIN rows /\ unknown \in SUBSET DOMAIN orderGot
      /\ changed \in SUBSET DOMAIN orderGot /\ (changed # {} => ids # {})
  BY DEF WindowOf, LastOf
<1> HIDE DEF ids, unknown, changed
<1>4. /\ Updated(ids, changed) \in Seq(Row)
      /\ \A r \in DOMAIN Updated(ids, changed) :
             Updated(ids, changed)[r].order \in DOMAIN orders
  <2>1. CASE changed = {}
    BY <1>1, <2>1 DEF Updated
  <2>2. CASE changed # {}
    <3>1. /\ IsFiniteSet(ids) /\ ids \in SUBSET Nat /\ ids # {}
          /\ IsFiniteSet(changed) /\ changed \in SUBSET Nat
      <4>1. changed \in SUBSET DOMAIN orders
        BY <1>1, <1>3
      <4> QED BY <1>1, <1>3, <2>2, <4>1, IdsFinite
    <3>2. Min(ids) \in DOMAIN rows /\ Max(changed) \in DOMAIN orderGot
      BY <1>3, <2>2, <3>1, ExtremesAreIn
    <3> DEFINE new == RowFor(Max(changed))
               at == Min(ids)
    <3>3. new \in Row /\ new.order \in DOMAIN orders
      BY <1>1, <3>2, RowForIsRow
    <3>4. Updated(ids, changed) = [rows EXCEPT ![at] = new] /\ at \in DOMAIN rows
      BY <2>2, <3>2 DEF Updated
    <3> HIDE DEF new, at
    <3>5. [rows EXCEPT ![at] = new] \in Seq(Row)
      BY <1>1, <3>3, <3>4
    <3>6. \A r \in DOMAIN rows : [rows EXCEPT ![at] = new][r].order \in DOMAIN orders
      BY <1>1, <3>3, <3>4
    <3> QED BY <1>1, <3>4, <3>5, <3>6
  <2> QED BY <2>1, <2>2
<1>5. /\ RowsFor(unknown) \in Seq(Row)
      /\ \A k \in DOMAIN RowsFor(unknown) : RowsFor(unknown)[k].order \in DOMAIN orders
  BY <1>3, RowsForAreRows
<1>6. /\ rows' \in Seq(Row)
      /\ \A r \in DOMAIN rows' : rows'[r].order \in DOMAIN orders
  <2> DEFINE a == Updated(ids, changed)
             b == RowsFor(unknown)
  <2>1. a \in Seq(Row) /\ b \in Seq(Row) /\ rows' = a \o b
    BY <1>2, <1>4, <1>5
  <2>2. /\ \A r \in DOMAIN a : a[r].order \in DOMAIN orders
        /\ \A k \in DOMAIN b : b[k].order \in DOMAIN orders
    BY <1>4, <1>5
  <2> HIDE DEF a, b
  <2>3. rows' \in Seq(Row)
    BY <2>1
  <2>4. \A r \in DOMAIN rows' : \/ r \in DOMAIN a /\ rows'[r] = a[r]
                                \/ r - Len(a) \in DOMAIN b /\ rows'[r] = b[r - Len(a)]
    BY <2>1
  <2> QED BY <2>2, <2>3, <2>4
<1>7. orderAt' \in Place
  BY <1>1, <1>2, PcIsPlace
<1>8. DOMAIN orderGot' \subseteq DOMAIN orders /\ orderGot' \in [DOMAIN orderGot' -> Nat]
  <2>1. orderGot' \in Seq(Nat) /\ Len(orderGot') = 0
    BY <1>2
  <2> QED BY <2>1
<1> QED BY <1>1, <1>2, <1>6, <1>7, <1>8, OrdersKeep

\* a row is checked,
LEMMA RowCheckedKeeps == RecordInv /\ RowChecked => RecordInv'
<1> SUFFICES ASSUME RecordInv, RowChecked PROVE RecordInv'
  OBVIOUS
<1>1. /\ rows \in Seq(Row) /\ orders \in Seq(OrderOf) /\ orderAt \in Place
      /\ \A r \in DOMAIN rows : rows[r].order \in DOMAIN orders
      /\ DOMAIN orderGot \subseteq DOMAIN orders /\ orderGot \in [DOMAIN orderGot -> Nat]
      /\ ages \in Nat /\ faults \in Nat
  BY DEF RecordInv, TypeOK, RowsKnown
<1>2. /\ UNCHANGED <<account, trading>> /\ ages' = ages /\ faults' = faults
      /\ orderAt' = Following(orderAt) /\ orderGot' = orderGot
  BY DEF RowChecked
<1>3. /\ rows' \in Seq(Row)
      /\ \A r \in DOMAIN rows' : rows'[r].order \in DOMAIN orders
  <2>1. CASE rows' = rows
    BY <1>1, <2>1
  <2>2. CASE rows' # rows
    <3>1. PICK r \in DOMAIN rows :
            LET o == rows[r].order
                found == orders[o].symbol = Here(orderAt) /\ orders[o].listed
            IN  rows' = [rows EXCEPT
                    ![r].shows = IF found THEN orders[o].progress ELSE NoExit,
                    ![r].old = FALSE]
      BY <2>2 DEF RowChecked
    <3>2. PICK x \in Nat \cup {NoExit} :
            rows' = [rows EXCEPT ![r].shows = x, ![r].old = FALSE]
      <4>1. orders[rows[r].order].progress \in Nat
        <5>1. orders[rows[r].order] \in OrderOf
          BY <1>1
        <5> QED BY <5>1 DEF OrderOf
      <4> QED BY <3>1, <4>1
    <3>3. rows[r] \in Row
      BY <1>1
    <3> DEFINE new == [rows[r] EXCEPT !.shows = x, !.old = FALSE]
    <3>4. new \in Row /\ new.order = rows[r].order
      BY <3>3 DEF Row
    <3>5. rows' = [rows EXCEPT ![r] = new]
      BY <1>1, <3>2
    <3> HIDE DEF new
    <3>6. rows' \in Seq(Row)
      BY <1>1, <3>4, <3>5
    <3> QED BY <1>1, <3>4, <3>5, <3>6
  <2> QED BY <2>1, <2>2
<1>4. orderAt' \in Place
  BY <1>1, <1>2, FollowingIsPlace
<1> QED BY <1>1, <1>2, <1>3, <1>4, OrdersKeep

\* or the request fails.
LEMMA OrdersFailKeeps == RecordInv /\ OrdersFail => RecordInv'
<1> SUFFICES ASSUME RecordInv, OrdersFail PROVE RecordInv'
  OBVIOUS
<1>1. /\ rows \in Seq(Row) /\ orderAt \in Place
      /\ \A r \in DOMAIN rows : rows[r].order \in DOMAIN orders
      /\ ages \in Nat /\ faults \in Nat
  BY DEF RecordInv, TypeOK, RowsKnown
<1>2. /\ UNCHANGED <<account, trading>> /\ rows' = rows /\ ages' = ages
      /\ faults' = faults + 1 /\ orderGot' = <<>>
      /\ orderAt' = Following(orderAt) \/ orderAt' = [orderAt EXCEPT !.pc = "check"]
  BY DEF OrdersFail
<1>3. orderAt' \in Place
  BY <1>1, <1>2, FollowingIsPlace, PcIsPlace
<1>4. DOMAIN orderGot' \subseteq DOMAIN orders /\ orderGot' \in [DOMAIN orderGot' -> Nat]
  <2>1. orderGot' \in Seq(Nat) /\ Len(orderGot') = 0
    BY <1>2
  <2> QED BY <2>1
<1>5. faults' \in Nat
  BY <1>1, <1>2
<1> QED BY <1>1, <1>2, <1>3, <1>4, <1>5, OrdersKeep

\* A row grows old.
LEMMA AgesKeeps ==
    ASSUME RecordInv, NEW r \in DOMAIN rows, Ages(r)  PROVE RecordInv'
<1>1. /\ rows \in Seq(Row) /\ orderAt \in Place /\ ages \in Nat /\ faults \in Nat
      /\ \A q \in DOMAIN rows : rows[q].order \in DOMAIN orders
      /\ DOMAIN orderGot \subseteq DOMAIN orders /\ orderGot \in [DOMAIN orderGot -> Nat]
  BY DEF RecordInv, TypeOK, RowsKnown
<1>2. /\ UNCHANGED <<account, trading>> /\ ages' = ages + 1 /\ faults' = faults
      /\ orderAt' = orderAt /\ orderGot' = orderGot
      /\ rows' = [rows EXCEPT ![r].old = TRUE]
  BY DEF Ages
<1> DEFINE new == [rows[r] EXCEPT !.old = TRUE]
<1>3. new \in Row /\ new.order = rows[r].order
  <2>1. rows[r] \in Row
    BY <1>1
  <2> QED BY <2>1 DEF Row
<1>4. rows' = [rows EXCEPT ![r] = new]
  BY <1>1, <1>2
<1> HIDE DEF new
<1>5. rows' \in Seq(Row)
  BY <1>1, <1>3, <1>4
<1>6. \A q \in DOMAIN rows' : rows'[q].order \in DOMAIN orders
  BY <1>1, <1>3, <1>4
<1>7. ages' \in Nat
  BY <1>1, <1>2
<1> QED BY <1>1, <1>2, <1>5, <1>6, <1>7, OrdersKeep

\* What happens at the exchange.
LEMMA ExchangeKeeps ==
    ASSUME RecordInv,
           \/ \E sym \in Symbols : Places(sym)
           \/ \E o \in DOMAIN orders : Changes(o) \/ Expires(o)
    PROVE  RecordInv'
<1>0. orders \in Seq(OrderOf) /\ \A o \in DOMAIN orders : orders[o] \in OrderOf
  BY DEF RecordInv, TypeOK
<1>1. CASE \E sym \in Symbols : Places(sym)
  <2>1. PICK sym \in Symbols : Places(sym)
    BY <1>1
  <2> DEFINE new == [symbol |-> sym, progress |-> New, listed |-> TRUE]
  <2>2. new \in OrderOf
    BY DEF OrderOf, New
  <2>3. orders' = Append(orders, new)
    BY <2>1 DEF Places
  <2> HIDE DEF new
  <2>4. orders' \in Seq(OrderOf) /\ DOMAIN orders \subseteq DOMAIN orders'
    BY <1>0, <2>2, <2>3
  <2> QED BY <2>1, <2>4, AccountKeeps DEF Places
<1>2. CASE \E o \in DOMAIN orders : Changes(o) \/ Expires(o)
  <2>1. PICK o \in DOMAIN orders : Changes(o) \/ Expires(o)
    BY <1>2
  <2>2. PICK new \in OrderOf : orders' = [orders EXCEPT ![o] = new]
    <3>1. CASE Changes(o)
      <4> DEFINE new == [orders[o] EXCEPT !.progress = @ + 1]
      <4>1. new \in OrderOf
        BY <1>0 DEF OrderOf
      <4>2. orders' = [orders EXCEPT ![o] = new]
        BY <1>0, <3>1 DEF Changes
      <4> QED BY <4>1, <4>2
    <3>2. CASE Expires(o)
      <4> DEFINE new == [orders[o] EXCEPT !.listed = FALSE]
      <4>1. new \in OrderOf
        BY <1>0 DEF OrderOf
      <4>2. orders' = [orders EXCEPT ![o] = new]
        BY <1>0, <3>2 DEF Expires
      <4> QED BY <4>1, <4>2
    <3> QED BY <2>1, <3>1, <3>2
  <2>3. orders' \in Seq(OrderOf) /\ DOMAIN orders \subseteq DOMAIN orders'
    BY <1>0, <2>2
  <2>4. trades' = trades \/ \E sym \in Symbols : trades' = Append(trades, sym)
    <3>1. orders[o].symbol \in Symbols
      BY <1>0 DEF OrderOf
    <3> QED BY <2>1, <3>1 DEF Changes, Expires
  <2>5. UNCHANGED <<ordering, trading>> /\ ages' = ages /\ faults' = faults
    BY <2>1 DEF Changes, Expires
  <2> QED BY <2>3, <2>4, <2>5, AccountKeeps
<1> QED BY <1>1, <1>2

\* A trade of an answer that is recorded is recorded in the window: rows of
\* the symbol after its own show newer trades, of which the answer has less
\* than Answer.
LEMMA WindowCovers ==
    ASSUME RecordInv, NEW sym \in Symbols,
           NEW t \in LastOf(TradesOf(sym), Answer),
           NEW r \in DOMAIN tradeRows, tradeRows[r].trade = t
    PROVE  r \in WindowOf(tradeRows, sym)
<1>0. /\ tradeRows \in Seq(TradeRow) /\ trades \in Seq(Symbols)
      /\ t \in TradesOf(sym) /\ Answer \in Nat /\ Window \in Nat
  BY RecordBoundsAssumption DEF RecordInv, TypeOK, LastOf
<1> DEFINE theirs == {q \in DOMAIN tradeRows : tradeRows[q].symbol = sym}
           A == {q \in theirs : q >= r}
           B == {x \in TradesOf(sym) : x >= t}
           f == [q \in A |-> tradeRows[q].trade]
<1>1. r \in theirs
  BY <1>0 DEF RecordInv, RowsKnown, TradesOf
<1>2. IsFiniteSet(B) /\ Cardinality(B) <= Answer /\ Cardinality(B) \in Nat
  <2>1. TradesOf(sym) \in SUBSET DOMAIN trades /\ B \in SUBSET DOMAIN trades
    BY DEF TradesOf
  <2>2. IsFiniteSet(B)
    BY <1>0, <2>1, IdsFinite
  <2>3. Cardinality(B) <= Answer
    BY DEF LastOf
  <2> QED BY <2>2, <2>3, FS_CardinalityType
<1>3. A \in SUBSET DOMAIN tradeRows /\ theirs \in SUBSET DOMAIN tradeRows
  OBVIOUS
<1>4. IsFiniteSet(A) /\ A \subseteq Nat
  BY <1>0, <1>3, IdsFinite
<1>5. \A q \in A : tradeRows[q].trade \in B
  <2> SUFFICES ASSUME NEW q \in A PROVE tradeRows[q].trade \in B
    OBVIOUS
  <2>1. tradeRows[q].trade \in TradesOf(sym)
    BY DEF RecordInv, RowsKnown, TradesOf
  <2>2. q \in Nat /\ r \in Nat /\ t \in Nat /\ tradeRows[q].trade \in Nat
    BY <1>0, <1>1, <1>4, <2>1 DEF TradesOf
  <2>3. CASE q = r
    BY <2>1, <2>2, <2>3
  <2>4. CASE r < q
    BY <1>1, <2>1, <2>2, <2>4 DEF RecordInv, RowsInOrder
  <2> QED BY <2>2, <2>3, <2>4
<1>6. f \in Injection(A, B)
  <2>1. f \in [A -> B]
    BY <1>5
  <2>2. \A q, p \in A : q < p => f[q] < f[p]
    BY DEF RecordInv, RowsInOrder
  <2>3. \A q \in A : f[q] \in Nat
    <3>1. \A q \in A : f[q] \in TradesOf(sym)
      BY <2>1
    <3>2. TradesOf(sym) \subseteq Nat
      BY <1>0 DEF TradesOf
    <3> QED BY <3>1, <3>2
  <2> HIDE DEF f, A, B
  <2>4. ASSUME NEW q \in A, NEW p \in A, f[q] = f[p] PROVE q = p
    <3>1. q \in Nat /\ p \in Nat /\ ~(q < p) /\ ~(p < q)
      BY <1>4, <2>2, <2>3, <2>4
    <3> QED BY <3>1
  <2>5. DOMAIN f = A
    BY <2>1
  <2> QED BY <2>1, <2>4, <2>5 DEF Injection, IsInjective
<1> HIDE DEF f, B
<1>7. Cardinality(A) <= Cardinality(B) /\ Cardinality(A) \in Nat
  BY <1>2, <1>4, <1>6, FS_Injection, FS_CardinalityType
<1>8. Cardinality(A) <= Window
  BY <1>0, <1>2, <1>7, WindowAssumption
<1> QED BY <1>1, <1>8 DEF WindowOf, LastOf

\* What is written of an answer is newer than every recorded trade of its
\* symbol, and with it the answer is recorded in whole.
LEMMA TradesRecordedKeeps == RecordInv /\ TradesRecorded => RecordInv'
<1> SUFFICES ASSUME RecordInv, TradesRecorded PROVE RecordInv'
  OBVIOUS
<1> DEFINE sym == Loop[tradeAt]
           answer == LastOf(TradesOf(sym), Answer)
           ids == WindowOf(tradeRows, sym)
           unknown == {t \in answer : \A r \in ids : tradeRows[r].trade # t}
           n == Cardinality(unknown)
           list == InOrder(unknown)
           added == [k \in 1 .. n |-> [symbol |-> sym, trade |-> list[k]]]
<1>1. /\ tradeRows' = tradeRows \o added /\ tradeAt' = After(tradeAt)
      /\ UNCHANGED <<account, ordering, ages, faults>>
  BY DEF TradesRecorded, TradesOf
<1>2. /\ tradeRows \in Seq(TradeRow) /\ trades \in Seq(Symbols)
      /\ tradeAt \in DOMAIN Loop /\ sym \in Symbols
  BY DEF RecordInv, TypeOK, Symbols
<1>3. TradesOf(sym) \in SUBSET DOMAIN trades /\ unknown \in SUBSET answer
      /\ answer \in SUBSET TradesOf(sym) /\ DOMAIN trades \subseteq Nat
  BY <1>2 DEF TradesOf, LastOf
<1>4. IsFiniteSet(unknown) /\ unknown \in SUBSET Nat
  <2>1. unknown \in SUBSET DOMAIN trades
    BY <1>3
  <2> HIDE DEF unknown
  <2> QED BY <1>2, <2>1, IdsFinite
\* What is unknown is recorded nowhere.
<1>5. \A t \in unknown, r \in DOMAIN tradeRows : tradeRows[r].trade # t
  <2> SUFFICES ASSUME NEW t \in unknown, NEW r \in DOMAIN tradeRows, tradeRows[r].trade = t
               PROVE  FALSE
    OBVIOUS
  <2>1. t \in answer
    OBVIOUS
  <2> HIDE DEF sym
  <2>2. r \in ids
    BY <1>2, <2>1, WindowCovers
  <2> QED BY <2>2
<1>6. \A t \in unknown, r \in DOMAIN tradeRows :
          tradeRows[r].symbol = sym => tradeRows[r].trade < t
  <2> SUFFICES ASSUME NEW t \in unknown, NEW r \in DOMAIN tradeRows, tradeRows[r].symbol = sym
               PROVE  tradeRows[r].trade < t
    OBVIOUS
  <2>1. t \in answer /\ t \in TradesOf(sym) /\ t \in Nat
    BY <1>3
  <2>2. t >= tradeRows[r].trade
    BY <1>5, <2>1 DEF RecordInv, GapsAreOld
  <2>3. tradeRows[r].trade \in Nat
    BY <1>3 DEF RecordInv, RowsKnown
  <2> HIDE DEF unknown
  <2> QED BY <1>5, <2>1, <2>2, <2>3
<1>7. \A t \in answer : t \in unknown \/ \E r \in DOMAIN tradeRows : tradeRows[r].trade = t
  BY DEF WindowOf, LastOf
<1> HIDE DEF unknown, ids
<1>8. /\ n \in Nat /\ list \in [1 .. n -> unknown]
      /\ \A j, k \in 1 .. n : j < k => list[j] < list[k]
      /\ \A x \in unknown : \E k \in 1 .. n : list[k] = x
  BY <1>4, InOrderLists
<1>9. \A k \in 1 .. n : list[k] \in unknown /\ list[k] \in TradesOf(sym)
  BY <1>3, <1>8
<1> HIDE DEF n, list, answer, sym
<1>10. /\ added \in Seq(TradeRow) /\ Len(added) = n /\ DOMAIN added = 1 .. n
       /\ \A k \in 1 .. n : added[k].symbol = sym /\ added[k].trade = list[k]
  <2>1. \A k \in 1 .. n : [symbol |-> sym, trade |-> list[k]] \in TradeRow
    BY <1>2, <1>3, <1>9 DEF TradeRow
  <2>2. added \in [1 .. n -> TradeRow]
    BY <2>1
  <2> QED BY <1>8, <2>2
<1> HIDE DEF added
\* A row is one of the old, or one of those added after them.
<1> DEFINE m == Len(tradeRows)
<1>11. /\ m \in Nat /\ DOMAIN tradeRows = 1 .. m /\ tradeRows' \in Seq(TradeRow)
       /\ DOMAIN tradeRows' = 1 .. m + n
       /\ \A r \in 1 .. m : tradeRows'[r] = tradeRows[r]
       /\ \A k \in 1 .. n : tradeRows'[m + k] = added[k]
  BY <1>1, <1>2, <1>8, <1>10
<1> HIDE DEF m
<1>12. \A r \in DOMAIN tradeRows' :
          \/ r \in DOMAIN tradeRows
          \/ r \notin DOMAIN tradeRows /\ \E k \in 1 .. n : r = m + k
  <2> SUFFICES ASSUME NEW r \in 1 .. m + n, r \notin 1 .. m
               PROVE  \E k \in 1 .. n : r = m + k
    BY <1>11
  <2>1. r - m \in 1 .. n /\ r = m + (r - m)
    BY <1>8, <1>11
  <2> QED BY <2>1
<1>13. TypeOK'
  BY <1>1, <1>2, <1>11, AfterInLoop DEF RecordInv, TypeOK, account, ordering
<1>14. RowsKnown'
  <2>1. trades' = trades /\ orders' = orders /\ rows' = rows /\ orderGot' = orderGot
    BY <1>1 DEF account, ordering
  <2>2. ASSUME NEW r \in DOMAIN tradeRows'
        PROVE  /\ tradeRows'[r].trade \in DOMAIN trades
               /\ tradeRows'[r].symbol = trades[tradeRows'[r].trade]
    <3>1. CASE r \in DOMAIN tradeRows
      BY <1>11, <3>1 DEF RecordInv, RowsKnown
    <3>2. ASSUME NEW k \in 1 .. n, r = m + k
          PROVE  /\ tradeRows'[r].trade \in DOMAIN trades
                 /\ tradeRows'[r].symbol = trades[tradeRows'[r].trade]
      BY <1>9, <1>10, <1>11, <3>2 DEF TradesOf
    <3> QED BY <1>12, <3>1, <3>2
  <2> QED BY <2>1, <2>2 DEF RecordInv, RowsKnown
<1>15. RowsInOrder'
  <2> SUFFICES ASSUME NEW r \in DOMAIN tradeRows', NEW q \in DOMAIN tradeRows',
                      tradeRows'[r].symbol = tradeRows'[q].symbol, r < q
               PROVE  tradeRows'[r].trade < tradeRows'[q].trade
    BY DEF RowsInOrder
  <2>1. CASE q \in DOMAIN tradeRows
    <3>1. r \in DOMAIN tradeRows
      BY <1>8, <1>11, <2>1
    <3> QED BY <1>11, <2>1, <3>1 DEF RecordInv, RowsInOrder
  <2>2. ASSUME NEW k \in 1 .. n, q = m + k
        PROVE  tradeRows'[r].trade < tradeRows'[q].trade
    <3>1. tradeRows'[q].symbol = sym /\ tradeRows'[q].trade = list[k]
      BY <1>10, <1>11, <2>2
    <3>2. CASE r \in DOMAIN tradeRows
      BY <1>6, <1>9, <1>11, <3>1, <3>2
    <3>3. ASSUME NEW j \in 1 .. n, r = m + j
          PROVE  tradeRows'[r].trade < tradeRows'[q].trade
      <4>1. tradeRows'[r].trade = list[j]
        BY <1>10, <1>11, <3>3
      <4>2. j < k
        BY <1>8, <1>11, <2>2, <3>3
      <4> QED BY <1>8, <3>1, <4>1, <4>2
    <3> QED BY <1>12, <3>2, <3>3
  <2> QED BY <1>12, <2>1, <2>2
<1>16. GapsAreOld'
  <2>1. \A s : TradesOf(s)' = TradesOf(s)
    BY <1>1 DEF account, TradesOf
  <2> SUFFICES ASSUME NEW q \in DOMAIN tradeRows', NEW t \in TradesOf(tradeRows'[q].symbol),
                      ~(t >= tradeRows'[q].trade),
                      \A r \in DOMAIN tradeRows' : tradeRows'[r].trade # t
               PROVE  t \notin LastOf(TradesOf(tradeRows'[q].symbol), Answer)
    BY <2>1 DEF GapsAreOld
  <2>2. \A r \in DOMAIN tradeRows : r \in DOMAIN tradeRows' /\ tradeRows[r].trade # t
    BY <1>8, <1>11
  <2>3. t \notin unknown
    <3> SUFFICES ASSUME NEW k \in 1 .. n, list[k] = t PROVE FALSE
      BY <1>8
    <3>1. m + k \in DOMAIN tradeRows' /\ tradeRows'[m + k].trade = t
      BY <1>8, <1>10, <1>11
    <3> QED BY <3>1
  <2>4. t \notin answer
    BY <1>7, <2>2, <2>3
  <2>5. CASE tradeRows'[q].symbol = sym
    BY <2>4, <2>5 DEF answer
  <2>6. CASE tradeRows'[q].symbol # sym
    <3>1. q \in DOMAIN tradeRows
      BY <1>10, <1>11, <1>12, <2>6
    <3> QED BY <1>11, <2>2, <3>1 DEF RecordInv, GapsAreOld
  <2> QED BY <2>5, <2>6
<1> QED BY <1>13, <1>14, <1>15, <1>16 DEF RecordInv

\* Every step of the recorders and of the exchange keeps the invariant.
LEMMA RecordStep == RecordInv /\ [Next]_vars => RecordInv'
<1> SUFFICES ASSUME RecordInv, [Next]_vars PROVE RecordInv'
  OBVIOUS
<1>1. ASSUME \E sym \in Symbols : Places(sym) PROVE RecordInv'
  BY <1>1, ExchangeKeeps
<1>2. ASSUME \E o \in DOMAIN orders : Changes(o) \/ Expires(o) PROVE RecordInv'
  BY <1>2, ExchangeKeeps
<1>3. ASSUME NEW r \in DOMAIN rows, Ages(r) PROVE RecordInv'
  BY <1>3, AgesKeeps
<1>4. ASSUME OrderRecorder \/ OrdersFail PROVE RecordInv'
  BY <1>4, OrdersReadKeeps, OrdersWrittenKeeps, RowCheckedKeeps, OrdersFailKeeps
     DEF OrderRecorder
<1>5. ASSUME TradesRecorded PROVE RecordInv'
  BY <1>5, TradesRecordedKeeps
<1>6. ASSUME TradesFail \/ UNCHANGED vars PROVE RecordInv'
  <2>1. /\ UNCHANGED <<orders, trades, rows, tradeRows, orderAt, orderGot, ages>>
        /\ tradeAt' \in DOMAIN Loop /\ faults' \in Nat
    BY <1>6, AfterInLoop
       DEF RecordInv, TypeOK, TradesFail, vars, account, ordering, trading
  <2>2. TypeOK'
    BY <2>1 DEF RecordInv, TypeOK
  <2>3. RowsKnown' /\ RowsInOrder' /\ GapsAreOld'
    BY <2>1 DEF RecordInv, RowsKnown, RowsInOrder, GapsAreOld, TradesOf
  <2> QED BY <2>2, <2>3 DEF RecordInv
<1> QED BY <1>1, <1>2, <1>3, <1>4, <1>5, <1>6 DEF Next

\* The invariant always holds.
LEMMA RecordInvariant == Spec => []RecordInv
<1> QED BY RecordsStart, RecordStep, PTL DEF Spec

\* Whatever the exchange answers and whatever fails, the tables hold rows of
\* the traded symbols, and both loops stay at places of their own
\* (binanceOrdersRecord.py, binanceTradesRecord.py).
THEOREM RecordersTyped == Spec => []TypeOK
<1>1. RecordInv => TypeOK
  BY DEF RecordInv
<1> QED BY <1>1, RecordInvariant, PTL

\* No trade is recorded twice, for any window that is no smaller than an
\* answer (binanceTradesRecord.py, recordTrades).
THEOREM TradesRecordedOnce == Spec => []TradesOnce
<1>1. RecordInv => TradesOnce
  <2> SUFFICES ASSUME RecordInv, NEW r \in DOMAIN tradeRows, NEW q \in DOMAIN tradeRows,
                      tradeRows[r].trade = tradeRows[q].trade
               PROVE  r = q
    BY DEF TradesOnce
  <2>1. tradeRows[r].symbol = tradeRows[q].symbol
    BY DEF RecordInv, RowsKnown
  <2>2. tradeRows[r].trade \in Nat /\ r \in Nat /\ q \in Nat
    BY DEF RecordInv, RowsKnown, TypeOK
  <2>3. ~(r < q) /\ ~(q < r)
    BY <2>1, <2>2 DEF RecordInv, RowsInOrder
  <2> QED BY <2>2, <2>3
<1> QED BY <1>1, RecordInvariant, PTL
=============================================================================
