------------------------- MODULE OrderServicesProofs -------------------------
(* The services that keep orders at the exchange (OrderServices): what the  *)
(* runs check of them, for every set of symbols, sizes and openings and      *)
(* every number of requests, failed calls and restarts.                     *)
EXTENDS OrderServices, DataTheorems

-----------------------------------------------------------------------------
(* The web server's requests (TradingRouter).                               *)

Request ==
    [call : Nat, op : {"take", "profit"}, kind : ProfitKind \cup {"take"},
     pc : {"test", "mark", "list", "cancel", "count", "read", "post"},
     left : Nat \ {0}, openTime : Nat, flat : BOOLEAN, refused : BOOLEAN,
     todo : SUBSET RouterOrder, tries : Nat, id : Nat, again : BOOLEAN]

\* A handler is at a step of its own.
RequestFits(t) ==
    /\ t.kind = "take" <=> t.op = "take"
    /\ t.op = "take" => t.left = 1 /\ t.pc \notin {"list", "cancel"}
    /\ t.pc \in {"test", "mark"} => t.op = "take" /\ t.openTime \in OpenTime

RequestsOK ==
    /\ requests \subseteq Request
    /\ \A t \in requests : RequestFits(t)
    /\ tradeCalls \in Nat
    /\ takeOpen \in [openTime : OpenTime \cup {0}, status : {"none", "trading", "end"}]
    /\ inTurn \in BOOLEAN /\ cancelled \in BOOLEAN
    /\ takenTwice \in BOOLEAN /\ quarterOver \in BOOLEAN

\* Requests have numbers of their own, and so have the orders they post.
CallsDiffer ==
    /\ \A t \in requests : t.call < tradeCalls
    /\ \A o \in openOrders : o.call < tradeCalls
    /\ \A t, u \in requests : t.call = u.call => t = u

\* An opening's order is open while its request runs only if the request is
\* about to post it once more.
TakenByCall ==
    /\ \A t \in requests, o \in openOrders :
           o.kind = "take" /\ o.call = t.call =>
               t.op = "take" /\ t.pc = "post" /\ t.again /\ o.id = t.id
    /\ \A o, p \in openOrders :
           o.kind = "take" /\ p.kind = "take" /\ o.call = p.call => o = p

\* While requests come in turn there is one at a time; the openings taken are
\* not newer than the one that is marked, which is traded still, and the one
\* that is about to be marked is newer than all of them.
InTurnInv ==
    inTurn =>
        /\ ~takenTwice
        /\ \A t, u \in requests : t = u
        /\ \A x \in takenNow : /\ x <= takeOpen.openTime
                               /\ takeOpen.status = "trading" /\ ~quarterOver
        /\ \A t \in requests, x \in takenNow : t.pc = "mark" => x < t.openTime

\* The take-profits that are open are of one request; of those that were open
\* before, the running one has every one on its list until it posts.
ProfitsInv ==
    inTurn /\ cancelled =>
        /\ \A o, p \in openOrders :
               o.kind \in ProfitKind /\ p.kind \in ProfitKind => o.call = p.call
        /\ \A t \in requests, o \in openOrders :
               t.op = "profit" /\ o.kind \in ProfitKind =>
                   /\ t.pc = "cancel" => o \in t.todo
                   /\ t.pc \in {"count", "read", "post"} => o.call = t.call

\* The router's inductive invariant.
TradeInv ==
    /\ TradeTypeOK /\ RequestsOK
    /\ CallsDiffer /\ TakenByCall /\ InTurnInv /\ ProfitsInv

\* The router's invariant holds of the empty account.
LEMMA TradeStarts == TradeInit => TradeInv
<1> SUFFICES ASSUME TradeInit PROVE TradeInv
  OBVIOUS
<1> USE DEF TradeInit
<1>1. TradeTypeOK
  BY TradeAssumption DEF TradeTypeOK, NoOpening
<1>2. RequestsOK
  BY DEF RequestsOK, NoOpening
<1> QED BY <1>1, <1>2 DEF TradeInv, CallsDiffer, TakenByCall, InTurnInv, ProfitsInv

\* The request that arrives.
LEMMA NewTake ==
    ASSUME TradeInv, NEW time \in OpenTime, NEW flat \in BOOLEAN
    PROVE  LET t == [NewThread("take", "take", "test", 1)
                        EXCEPT !.openTime = time, !.flat = flat]
           IN  t \in Request /\ RequestFits(t) /\ t.call = tradeCalls /\ t.pc = "test"
<1>1. tradeCalls \in Nat /\ time \in Nat
  BY TradeAssumption DEF TradeInv, RequestsOK
<1> DEFINE a == NewThread("take", "take", "test", 1)
<1>2. /\ a \in Request /\ a.call = tradeCalls /\ a.op = "take" /\ a.pc = "test"
      /\ a.kind = "take" /\ a.left = 1
  BY <1>1 DEF NewThread, Request
<1> HIDE DEF a
<1> DEFINE t == [a EXCEPT !.openTime = time, !.flat = flat]
<1>3. t \in Request
  BY <1>1, <1>2 DEF Request
<1>4. /\ t.call = a.call /\ t.op = a.op /\ t.pc = a.pc /\ t.kind = a.kind
      /\ t.left = a.left /\ t.openTime = time
  BY <1>2 DEF Request
<1>5. RequestFits(t)
  BY <1>2, <1>4 DEF RequestFits
<1> QED BY <1>2, <1>3, <1>4, <1>5 DEF a

\* What a take-profit request is made of when it arrives.
LEMMA NewProfit ==
    ASSUME TradeInv, NEW d \in Direction, NEW n \in Parts, NEW refused \in BOOLEAN
    PROVE  LET t == [NewThread("profit", KindOf[d], "list", n) EXCEPT !.refused = refused]
           IN  t \in Request /\ RequestFits(t) /\ t.call = tradeCalls /\ t.pc = "list"
<1>1. tradeCalls \in Nat /\ n \in Nat \ {0} /\ KindOf[d] \in ProfitKind
  BY TradeAssumption DEF TradeInv, RequestsOK, KindOf, Direction, ProfitKind
<1> DEFINE a == NewThread("profit", KindOf[d], "list", n)
<1>2. /\ a \in Request /\ a.call = tradeCalls /\ a.op = "profit" /\ a.pc = "list"
      /\ a.kind \in ProfitKind
  BY <1>1 DEF NewThread, Request
<1> HIDE DEF a
<1> DEFINE t == [a EXCEPT !.refused = refused]
<1>3. t \in Request
  BY <1>2 DEF Request
<1>4. t.call = a.call /\ t.op = a.op /\ t.pc = a.pc /\ t.kind = a.kind
  BY <1>2 DEF Request
<1>5. RequestFits(t)
  BY <1>2, <1>4 DEF RequestFits, ProfitKind
<1> QED BY <1>2, <1>3, <1>4, <1>5 DEF a

\* A request that arrives keeps the invariant.
LEMMA StartsKeeps ==
    ASSUME TradeInv, NEW t \in Request, RequestFits(t), t.call = tradeCalls,
           t.pc \in {"test", "list"}, Starts(t)
    PROVE  TradeInv'
<1> USE DEF Starts, atExchange, opening, tradeCount
<1>1. TradeTypeOK' /\ RequestsOK'
  BY DEF TradeInv, TradeTypeOK, RequestsOK, Request
<1>2. CallsDiffer'
  BY DEF TradeInv, RequestsOK, CallsDiffer, Request, RouterOrder, TradeTypeOK
<1>3. TakenByCall'
  BY DEF TradeInv, RequestsOK, CallsDiffer, TakenByCall, TradeTypeOK, Request, RouterOrder
<1>4. InTurnInv'
  BY DEF TradeInv, RequestsOK, InTurnInv
<1>5. ProfitsInv'
  BY DEF TradeInv, RequestsOK, ProfitsInv
<1> QED BY <1>1, <1>2, <1>3, <1>4, <1>5 DEF TradeInv

\* Orders and requests that go do no harm.
LEMMA LessKeeps ==
    ASSUME TradeInv, openOrders' \subseteq openOrders, requests' \subseteq requests,
           orderIdIndex' \in Nat, cancelled' = cancelled, UNCHANGED <<opening, tradeCount>>
    PROVE  TradeInv'
<1> USE DEF opening, tradeCount
<1>1. TradeTypeOK' /\ RequestsOK'
  BY DEF TradeInv, TradeTypeOK, RequestsOK, Request, RequestFits
<1>2. CallsDiffer'
  BY DEF TradeInv, CallsDiffer
<1>3. TakenByCall'
  BY DEF TradeInv, TakenByCall
<1>4. InTurnInv'
  BY DEF TradeInv, InTurnInv
<1>5. ProfitsInv'
  BY DEF TradeInv, ProfitsInv
<1> QED BY <1>1, <1>2, <1>3, <1>4, <1>5 DEF TradeInv

\* What a request may become.
Becomes(t, u) ==
    /\ u \in Request /\ RequestFits(u)
    /\ u.call = t.call /\ u.op = t.op /\ u.kind = t.kind

\* A request that does not post moves on, and no order comes.
LEMMA MoveKeeps ==
    ASSUME TradeInv, NEW t \in requests, NEW u, Becomes(t, u), Goes(t, u),
           t.pc # "post",
           openOrders' \subseteq openOrders, orderIdIndex' \in Nat,
           cancelled' \in BOOLEAN, cancelled' => cancelled,
           UNCHANGED <<opening, tradeCount>>,
           inTurn /\ u.pc = "mark" => \A x \in takenNow : x < u.openTime,
           inTurn /\ cancelled' /\ u.op = "profit" =>
               \A o \in openOrders' : o.kind \in ProfitKind =>
                   /\ u.pc = "cancel" => o \in u.todo
                   /\ u.pc \in {"count", "read", "post"} => o.call = u.call
    PROVE  TradeInv'
<1> USE DEF opening, tradeCount, Goes, Becomes
<1>1. TradeTypeOK' /\ RequestsOK'
  BY DEF TradeInv, TradeTypeOK, RequestsOK, Request
<1>2. CallsDiffer'
  BY DEF TradeInv, CallsDiffer
<1>3. TakenByCall'
  BY DEF TradeInv, TakenByCall
<1>4. InTurnInv'
  BY DEF TradeInv, InTurnInv
<1>5. ProfitsInv'
  BY DEF TradeInv, ProfitsInv, InTurnInv
<1> QED BY <1>1, <1>2, <1>3, <1>4, <1>5 DEF TradeInv

\* A request posts its order, and ends, goes on to its next one, or is to
\* post the order of an opening again.
LEMMA PostKeeps ==
    ASSUME TradeInv, NEW t \in requests, t.pc = "post",
           openOrders' \in {openOrders, Placed(t)},
           UNCHANGED <<opening, orderIdIndex, tradeCount, cancelled>>,
           \/ Ends(t)
           \/ \E u : /\ Becomes(t, u) /\ Goes(t, u)
                     /\ \/ t.op = "profit" /\ u.pc = "count"
                        \/ t.op = "take" /\ ~t.again
                           /\ u.pc = "post" /\ u.again /\ u.id = t.id
    PROVE  TradeInv'
<1> USE DEF opening, tradeCount
<1>0. t \in Request /\ RequestFits(t) /\ t.call < tradeCalls /\ tradeCalls \in Nat
  BY DEF TradeInv, RequestsOK, CallsDiffer
<1>1. /\ Posted(t) \in RouterOrder /\ Posted(t).kind = t.kind
      /\ Posted(t).call = t.call /\ Posted(t).id = t.id
  BY <1>0 DEF Posted, RouterOrder, Request
<1>2. \/ openOrders' = openOrders
      \/ /\ openOrders' = openOrders \cup {Posted(t)}
         /\ \A o \in openOrders : o.kind # t.kind \/ o.id # t.id
  BY DEF Placed
<1>3. \/ requests' = requests \ {t}
      \/ \E u : /\ Becomes(t, u) /\ requests' = (requests \ {t}) \cup {u}
                /\ \/ t.op = "profit" /\ u.pc = "count"
                   \/ t.op = "take" /\ u.pc = "post" /\ u.again /\ u.id = t.id
  BY DEF Ends, Goes
<1> HIDE DEF Placed
<1>4. TradeTypeOK' /\ RequestsOK'
  BY <1>1, <1>2, <1>3 DEF TradeInv, TradeTypeOK, RequestsOK, Request, Becomes
<1>5. CallsDiffer'
  BY <1>0, <1>1, <1>2, <1>3 DEF TradeInv, CallsDiffer, Becomes
<1>6. TakenByCall'
  <2>1. \A o \in openOrders : o.kind = "take" /\ o.call = t.call =>
            t.op = "take" /\ t.again /\ o.id = t.id
    BY DEF TradeInv, TakenByCall
  <2>2. \A o, p \in openOrders' :
            o.kind = "take" /\ p.kind = "take" /\ o.call = p.call => o = p
    BY <1>0, <1>1, <1>2, <2>1 DEF TradeInv, TakenByCall, RequestFits
  <2>3. ASSUME NEW v \in requests', NEW o \in openOrders',
               o.kind = "take", o.call = v.call
        PROVE  v.op = "take" /\ v.pc = "post" /\ v.again /\ o.id = v.id
    <3>1. CASE v \in requests /\ v # t
      BY <1>1, <1>2, <2>3, <3>1 DEF TradeInv, CallsDiffer, TakenByCall
    <3>2. CASE ~(v \in requests /\ v # t)
      <4>1. PICK u : /\ Becomes(t, u) /\ v = u
                     /\ \/ t.op = "profit" /\ u.pc = "count"
                        \/ t.op = "take" /\ u.pc = "post" /\ u.again /\ u.id = t.id
        BY <1>3, <3>2
      <4>2. v.call = t.call /\ v.op = t.op
        BY <4>1 DEF Becomes
      <4> QED BY <1>0, <1>1, <1>2, <2>1, <2>3, <4>1, <4>2 DEF RequestFits
    <3> QED BY <3>1, <3>2
  <2> QED BY <2>2, <2>3 DEF TakenByCall
<1>7. InTurnInv'
  BY <1>3 DEF TradeInv, InTurnInv, Becomes
<1>8. ProfitsInv'
  <2> SUFFICES ASSUME inTurn, cancelled PROVE ProfitsInv'
    BY DEF ProfitsInv
  <2>1. \A v \in requests : v = t
    BY DEF TradeInv, InTurnInv
  <2>2. \A v \in requests' : v.op = t.op /\ v.call = t.call /\ v.pc \in {"count", "post"}
    BY <1>3, <2>1 DEF Becomes
  <2>3. CASE t.op = "take"
    <3>1. \A o \in openOrders' : o.kind \in ProfitKind => o \in openOrders
      BY <1>0, <1>1, <1>2, <2>3 DEF RequestFits, ProfitKind
    <3> QED BY <2>2, <2>3, <3>1 DEF TradeInv, ProfitsInv
  <2>4. CASE t.op = "profit"
    <3>1. \A o \in openOrders' : o.kind \in ProfitKind => o.call = t.call
      BY <1>1, <1>2, <2>4 DEF TradeInv, ProfitsInv
    <3> QED BY <2>2, <3>1 DEF ProfitsInv
  <2> QED BY <1>0, <2>3, <2>4 DEF Request
<1> QED BY <1>4, <1>5, <1>6, <1>7, <1>8 DEF TradeInv

-----------------------------------------------------------------------------
(* The steps of a request.                                                  *)

\* A request goes from one step of its handler to another.
LEMMA PcMoves ==
    ASSUME NEW t \in Request, RequestFits(t),
           NEW pc \in {"mark", "count", "read", "post"},
           pc = "mark" => t.pc = "test"
    PROVE  LET u == [t EXCEPT !.pc = pc]
           IN  Becomes(t, u) /\ u.pc = pc /\ u.openTime = t.openTime
<1> DEFINE u == [t EXCEPT !.pc = pc]
<1>1. u \in Request
  BY DEF Request
<1>2. /\ u.pc = pc /\ u.openTime = t.openTime /\ u.call = t.call /\ u.op = t.op
      /\ u.kind = t.kind /\ u.left = t.left
  BY DEF Request
<1> QED BY <1>1, <1>2 DEF Becomes, RequestFits

\* A request has listed what it is to cancel.
LEMMA ListMoves ==
    ASSUME NEW t \in Request, RequestFits(t), t.pc = "list",
           NEW tasks \in SUBSET RouterOrder
    PROVE  LET u == [t EXCEPT !.pc = "cancel", !.todo = tasks]
           IN  Becomes(t, u) /\ u.pc = "cancel" /\ u.todo = tasks
<1> DEFINE u == [t EXCEPT !.pc = "cancel", !.todo = tasks]
<1>1. u \in Request
  BY DEF Request
<1>2. /\ u.pc = "cancel" /\ u.todo = tasks /\ u.call = t.call
      /\ u.op = t.op /\ u.kind = t.kind /\ u.left = t.left
  BY DEF Request
<1> QED BY <1>1, <1>2 DEF Becomes, RequestFits

\* A request is done with an order of its list.
LEMMA DoneMoves ==
    ASSUME NEW t \in Request, RequestFits(t), t.pc = "cancel", NEW o
    PROVE  LET u == [t EXCEPT !.todo = @ \ {o}, !.tries = 0]
           IN  Becomes(t, u) /\ u.pc = "cancel" /\ u.todo = t.todo \ {o}
<1> DEFINE u == [t EXCEPT !.todo = @ \ {o}, !.tries = 0]
<1>1. u \in Request
  BY DEF Request
<1>2. /\ u.pc = "cancel" /\ u.todo = t.todo \ {o} /\ u.call = t.call
      /\ u.op = t.op /\ u.kind = t.kind /\ u.left = t.left
  BY DEF Request
<1> QED BY <1>1, <1>2 DEF Becomes, RequestFits

\* A request tries the same order again.
LEMMA TryMoves ==
    ASSUME NEW t \in Request, RequestFits(t), t.pc = "cancel"
    PROVE  LET u == [t EXCEPT !.tries = @ + 1]
           IN  Becomes(t, u) /\ u.pc = "cancel" /\ u.todo = t.todo
<1> DEFINE u == [t EXCEPT !.tries = @ + 1]
<1>1. u \in Request
  BY DEF Request
<1>2. /\ u.pc = "cancel" /\ u.todo = t.todo /\ u.call = t.call
      /\ u.op = t.op /\ u.kind = t.kind /\ u.left = t.left
  BY DEF Request
<1> QED BY <1>1, <1>2 DEF Becomes, RequestFits

\* The number a request posts under.
LEMMA IdMoves ==
    ASSUME NEW t \in Request, RequestFits(t), NEW id \in Nat
    PROVE  LET u == [t EXCEPT !.pc = "post", !.id = id]
           IN  Becomes(t, u) /\ u.pc = "post"
<1> DEFINE u == [t EXCEPT !.pc = "post", !.id = id]
<1>1. u \in Request
  BY DEF Request
<1>2. /\ u.pc = "post" /\ u.call = t.call /\ u.op = t.op
      /\ u.kind = t.kind /\ u.left = t.left
  BY DEF Request
<1> QED BY <1>1, <1>2 DEF Becomes, RequestFits

\* A request's next order, and its order again.
LEMMA PostMoves ==
    ASSUME NEW t \in Request, RequestFits(t)
    PROVE  /\ LET u == [t EXCEPT !.pc = "count", !.left = @ - 1, !.id = 0]
              IN  t.left # 1 => Becomes(t, u) /\ u.pc = "count"
           /\ LET u == [t EXCEPT !.again = TRUE]
              IN  Becomes(t, u) /\ u.pc = t.pc /\ u.again /\ u.id = t.id
<1> DEFINE b == [t EXCEPT !.pc = "count", !.left = @ - 1, !.id = 0]
           c == [t EXCEPT !.again = TRUE]
<1>1. ASSUME t.left # 1 PROVE b \in Request
  <2>1. PICK n \in Nat \ {0} : n = t.left - 1
    BY <1>1 DEF Request
  <2>2. [t EXCEPT !.pc = "count", !.left = n, !.id = 0] \in Request
    BY DEF Request
  <2> QED BY <2>1, <2>2
<1>2. b.pc = "count" /\ b.call = t.call /\ b.op = t.op /\ b.kind = t.kind
  BY DEF Request
<1>3. c \in Request
  BY DEF Request
<1>4. /\ c.pc = t.pc /\ c.again /\ c.id = t.id /\ c.call = t.call /\ c.op = t.op
      /\ c.kind = t.kind /\ c.left = t.left /\ c.openTime = t.openTime
  BY DEF Request
<1>5. Becomes(t, c)
  BY <1>3, <1>4 DEF Becomes, RequestFits
<1>6. ASSUME t.left # 1 PROVE Becomes(t, b)
  BY <1>1, <1>2, <1>6 DEF Becomes, RequestFits
<1> QED BY <1>2, <1>4, <1>5, <1>6

\* What is known of a request before it takes a step.
LEMMA OfRequests ==
    ASSUME TradeInv, NEW t \in requests
    PROVE  /\ t \in Request /\ RequestFits(t) /\ orderIdIndex \in Nat
           /\ cancelled \in BOOLEAN /\ inTurn \in BOOLEAN
           /\ openOrders \subseteq RouterOrder
BY DEF TradeInv, RequestsOK, TradeTypeOK

\* The reading of the opening's mark, and what it decides.
LEMMA TestKeeps ==
    ASSUME TradeInv, NEW t \in requests, TestOpening(t)  PROVE TradeInv'
<1>0. t \in Request /\ RequestFits(t) /\ orderIdIndex \in Nat /\ cancelled \in BOOLEAN
  BY OfRequests
<1>1. /\ t.pc = "test" /\ t.op = "take" /\ openOrders' = openOrders
      /\ UNCHANGED <<opening, orderIdIndex, tradeCount, cancelled>>
  BY <1>0 DEF TestOpening, atExchange, RequestFits, Request
<1>2. CASE ShouldTrade(t) /\ Goes(t, [t EXCEPT !.pc = "mark"])
  <2> DEFINE u == [t EXCEPT !.pc = "mark"]
  <2>1. Becomes(t, u) /\ u.pc = "mark" /\ u.openTime = t.openTime
    BY <1>0, <1>1, PcMoves
  <2>2. ASSUME inTurn, NEW x \in takenNow PROVE x < t.openTime
    <3>1. /\ takeOpen.status = "trading" /\ ~quarterOver /\ x <= takeOpen.openTime
          /\ x \in Nat /\ takeOpen.openTime \in Nat /\ t.openTime \in Nat
      <4>1. /\ takeOpen.status = "trading" /\ ~quarterOver /\ x <= takeOpen.openTime
        BY <2>2 DEF TradeInv, InTurnInv
      <4>2. x \in Nat /\ takeOpen.openTime \in Nat
        <5>1. takeOpen.openTime \in OpenTime \cup {0} /\ x \in OpenTime
          BY DEF TradeInv, TradeTypeOK
        <5>2. OpenTime \subseteq Nat
          BY TradeAssumption
        <5>3. x \in Nat
          BY <5>1, <5>2
        <5>4. takeOpen.openTime \in Nat
          <6>1. CASE takeOpen.openTime \in OpenTime
            BY <5>2, <6>1
          <6>2. CASE takeOpen.openTime = 0
            BY <6>2
          <6> QED BY <5>1, <6>1, <6>2
        <5> QED BY <5>3, <5>4
      <4> QED BY <1>0, <4>1, <4>2 DEF Request
    <3>2. takeOpen # NoOpening
      BY <3>1 DEF NoOpening
    <3>3. t.openTime > takeOpen.openTime
      <4>1. takeOpen.status # "end"
        BY <3>1
      <4> QED BY <1>2, <3>1, <3>2, <4>1, Zenon DEF ShouldTrade
    <3> QED BY <3>1, <3>3
  <2>3. u.op = "take"
    BY <1>1, <2>1 DEF Becomes
  <2> HIDE DEF u
  <2> QED BY <1>0, <1>1, <1>2, <2>1, <2>2, <2>3, MoveKeeps DEF u
<1>3. CASE Ends(t)
  BY <1>0, <1>1, <1>3, LessKeeps DEF Ends
<1> QED BY <1>2, <1>3 DEF TestOpening

\* The marking of the opening.
LEMMA MarkKeeps ==
    ASSUME TradeInv, NEW t \in requests, MarkOpening(t)  PROVE TradeInv'
<1>0. t \in Request /\ RequestFits(t) /\ orderIdIndex \in Nat /\ t.openTime \in OpenTime
  BY OfRequests DEF MarkOpening, RequestFits
<1> DEFINE u == [t EXCEPT !.pc = "count"]
<1>1. Becomes(t, u) /\ u.pc = "count"
  BY <1>0, PcMoves
<1>2. /\ t.pc = "mark" /\ t.op = "take" /\ requests' = (requests \ {t}) \cup {u}
      /\ takeOpen' = [openTime |-> t.openTime, status |-> "trading"]
      /\ quarterOver' = FALSE /\ takenNow' = takenNow \cup {t.openTime}
      /\ takenTwice' = (takenTwice \/ t.openTime \in takenNow)
      /\ UNCHANGED <<openOrders, orderIdIndex, tradeCalls, inTurn, cancelled>>
  BY <1>0 DEF MarkOpening, Goes, Opened, atExchange, tradeCount, RequestFits
<1> HIDE DEF u
<1>3. TradeTypeOK' /\ RequestsOK'
  BY <1>0, <1>1, <1>2 DEF TradeInv, TradeTypeOK, RequestsOK, Request, Becomes
<1>4. CallsDiffer'
  BY <1>1, <1>2 DEF TradeInv, CallsDiffer, Becomes
<1>5. TakenByCall'
  BY <1>1, <1>2 DEF TradeInv, TakenByCall, Becomes
<1>6. InTurnInv'
  <2> SUFFICES ASSUME inTurn PROVE InTurnInv'
    BY <1>2 DEF InTurnInv
  <2>1. \A x \in takenNow : x < t.openTime /\ x \in Nat
    BY <1>2, TradeAssumption DEF TradeInv, InTurnInv, TradeTypeOK
  <2>2. requests' = {u} /\ u.pc = "count"
    BY <1>1, <1>2 DEF TradeInv, InTurnInv
  <2>3. takenTwice' = FALSE
    BY <1>2, <2>1, TradeAssumption, <1>0 DEF TradeInv, InTurnInv, RequestsOK
  <2>4. \A x \in takenNow' : x <= t.openTime
    <3>1. t.openTime \in Nat /\ takenNow' = takenNow \cup {t.openTime}
      BY <1>0, <1>2, TradeAssumption
    <3> QED BY <2>1, <3>1
  <2> QED BY <1>2, <2>2, <2>3, <2>4 DEF InTurnInv
<1>7. ProfitsInv'
  BY <1>1, <1>2 DEF TradeInv, InTurnInv, ProfitsInv, Becomes
<1> QED BY <1>3, <1>4, <1>5, <1>6, <1>7 DEF TradeInv

\* The listing of the orders that are to be replaced.
LEMMA ListKeeps ==
    ASSUME TradeInv, NEW t \in requests, ListOrders(t)  PROVE TradeInv'
<1>0. /\ t \in Request /\ RequestFits(t) /\ orderIdIndex \in Nat
      /\ cancelled \in BOOLEAN /\ openOrders \subseteq RouterOrder
  BY OfRequests
<1>1. /\ t.pc = "list" /\ openOrders' = openOrders
      /\ UNCHANGED <<opening, orderIdIndex, tradeCount, cancelled>>
  BY DEF ListOrders
<1>2. CASE Goes(t, [t EXCEPT !.pc = "cancel", !.todo = Replaced(t)])
  <2> DEFINE u == [t EXCEPT !.pc = "cancel", !.todo = Replaced(t)]
  <2>1. Replaced(t) \in SUBSET RouterOrder
    BY <1>0 DEF Replaced
  <2>2. Becomes(t, u) /\ u.pc = "cancel" /\ u.todo = Replaced(t)
    BY <1>0, <1>1, <2>1, ListMoves
  <2>3. \A o \in openOrders' : o.kind \in ProfitKind => o \in u.todo
    BY <1>1, <2>2 DEF Replaced
  <2> HIDE DEF u
  <2> QED BY <1>0, <1>1, <1>2, <2>2, <2>3, MoveKeeps DEF u
<1>3. CASE Ends(t)
  BY <1>0, <1>1, <1>3, LessKeeps DEF Ends
<1> QED BY <1>2, <1>3 DEF ListOrders

\* The cancelling of one of them, answered or not.
LEMMA CancelKeeps ==
    ASSUME TradeInv, NEW t \in requests, CancelOrder(t)  PROVE TradeInv'
<1>0. /\ t \in Request /\ RequestFits(t) /\ orderIdIndex \in Nat
      /\ cancelled \in BOOLEAN /\ openOrders \subseteq RouterOrder
  BY OfRequests
<1> DEFINE o == CHOOSE o \in t.todo : TRUE
           done == [t EXCEPT !.todo = @ \ {o}, !.tries = 0]
           more == [t EXCEPT !.tries = @ + 1]
<1>1. t.pc = "cancel" /\ t.op = "profit" /\ o \in t.todo
  BY <1>0 DEF CancelOrder, Request, RequestFits
<1>2. /\ Becomes(t, done) /\ done.pc = "cancel" /\ done.todo = t.todo \ {o}
      /\ Becomes(t, more) /\ more.pc = "cancel" /\ more.todo = t.todo
  <2> HIDE DEF o
  <2>1. Becomes(t, done) /\ done.pc = "cancel" /\ done.todo = t.todo \ {o}
    BY <1>0, <1>1, DoneMoves
  <2>2. Becomes(t, more) /\ more.pc = "cancel" /\ more.todo = t.todo
    BY <1>0, <1>1, TryMoves
  <2> QED BY <2>1, <2>2
<1>3. /\ UNCHANGED <<opening, orderIdIndex, tradeCount>>
      /\ \/ openOrders' = Others(o) /\ Goes(t, done) /\ cancelled' = cancelled
         \/ /\ openOrders' \in {openOrders, Others(o)}
            /\ \/ Goes(t, done) /\ ~(t.tries + 1 < 2)
               \/ Goes(t, more)
            /\ cancelled' = (cancelled /\ (t.tries + 1 < 2 \/ openOrders' = Others(o)))
  BY <1>0 DEF CancelOrder, Tries, Request
<1> HIDE DEF o, done, more
<1>4. Others(o) \subseteq openOrders /\ o \notin Others(o)
  BY DEF Others
<1>5. openOrders' \subseteq openOrders /\ cancelled' \in BOOLEAN /\ (cancelled' => cancelled)
  <2>1. openOrders' \subseteq openOrders
    BY <1>3, <1>4
  <2>2. cancelled' \in BOOLEAN /\ (cancelled' => cancelled)
    <3>1. CASE cancelled' = cancelled
      BY <1>0, <3>1
    <3>2. CASE cancelled' = (cancelled /\ (t.tries + 1 < 2 \/ openOrders' = Others(o)))
      <4> DEFINE gone == t.tries + 1 < 2 \/ openOrders' = Others(o)
      <4>1. CASE gone
        BY <1>0, <3>2, <4>1 DEF gone
      <4>2. CASE ~gone
        BY <3>2, <4>2 DEF gone
      <4> QED BY <4>1, <4>2
    <3> QED BY <1>3, <3>1, <3>2
  <2> QED BY <2>1, <2>2
<1>6. inTurn /\ cancelled => \A q \in openOrders : q.kind \in ProfitKind => q \in t.todo
  BY <1>1 DEF TradeInv, ProfitsInv
<1>7. CASE Goes(t, done) /\ (cancelled' => openOrders' = Others(o))
  BY <1>0, <1>1, <1>2, <1>3, <1>4, <1>5, <1>6, <1>7, MoveKeeps
<1>8. CASE Goes(t, more)
  BY <1>0, <1>1, <1>2, <1>3, <1>5, <1>6, <1>8, MoveKeeps
<1> QED BY <1>3, <1>7, <1>8

\* The counting of what is to be posted.
LEMMA SizeKeeps ==
    ASSUME TradeInv, NEW t \in requests, CheckSize(t)  PROVE TradeInv'
<1>0. t \in Request /\ RequestFits(t) /\ orderIdIndex \in Nat /\ cancelled \in BOOLEAN
  BY OfRequests
<1>1. /\ t.pc = "cancel" /\ t.todo = {} /\ t.op = "profit" /\ openOrders' = openOrders
      /\ UNCHANGED <<opening, orderIdIndex, tradeCount, cancelled>>
  BY <1>0 DEF CheckSize, atExchange, RequestFits, Request
<1>2. CASE Goes(t, [t EXCEPT !.pc = "count"])
  <2> DEFINE u == [t EXCEPT !.pc = "count"]
  <2>1. Becomes(t, u) /\ u.pc = "count"
    BY <1>0, PcMoves
  <2>2. inTurn /\ cancelled => \A o \in openOrders : ~(o.kind \in ProfitKind)
    BY <1>1 DEF TradeInv, ProfitsInv
  <2> HIDE DEF u
  <2> QED BY <1>0, <1>1, <1>2, <2>1, <2>2, MoveKeeps DEF u
<1>3. CASE Ends(t)
  BY <1>0, <1>1, <1>3, LessKeeps DEF Ends
<1> QED BY <1>2, <1>3 DEF CheckSize

\* The reading of the number that the next order is posted under.
LEMMA NumberKeeps ==
    ASSUME TradeInv, NEW t \in requests, CountOrder(t) \/ ReadIndex(t)  PROVE TradeInv'
<1>0. t \in Request /\ RequestFits(t) /\ orderIdIndex \in Nat /\ cancelled \in BOOLEAN
  BY OfRequests
<1>1. /\ t.pc \in {"count", "read"} /\ openOrders' = openOrders
      /\ UNCHANGED <<opening, tradeCount, cancelled>> /\ orderIdIndex' \in Nat
  BY <1>0 DEF CountOrder, ReadIndex, atExchange
<1>2. PICK u : Becomes(t, u) /\ Goes(t, u) /\ u.pc \in {"read", "post"}
  <2>1. CASE CountOrder(t)
    BY <1>0, <2>1, PcMoves DEF CountOrder
  <2>2. CASE ReadIndex(t)
    BY <1>0, <2>2, IdMoves DEF ReadIndex
  <2> QED BY <2>1, <2>2
<1>3. inTurn /\ cancelled => \A o \in openOrders :
          t.op = "profit" /\ o.kind \in ProfitKind => o.call = t.call
  BY <1>1 DEF TradeInv, ProfitsInv
<1> QED BY <1>0, <1>1, <1>2, <1>3, MoveKeeps DEF Becomes

\* The posting of an order, with its answer or without.
LEMMA PostingKeeps ==
    ASSUME TradeInv, NEW t \in requests, PostOrder(t) \/ PostFails(t) \/ PostUnknown(t)
    PROVE  TradeInv'
<1>0. t \in Request /\ RequestFits(t)
  BY OfRequests
<1>1. /\ t.pc = "post" /\ openOrders' \in {openOrders, Placed(t)}
      /\ UNCHANGED <<opening, orderIdIndex, tradeCount, cancelled>>
  BY DEF PostOrder, PostFails, PostUnknown
<1>2. CASE PostOrder(t)
  <2>1. CASE t.left = 1
    <3>1. Ends(t)
      BY <1>2, <2>1 DEF PostOrder, AfterPost
    <3> QED BY <1>1, <3>1, PostKeeps
  <2>2. CASE t.left # 1
    <3>1. PICK u : Becomes(t, u) /\ Goes(t, u) /\ u.pc = "count"
      BY <1>0, <1>2, <2>2, PostMoves DEF PostOrder, AfterPost
    <3>2. t.op = "profit"
      BY <1>0, <2>2 DEF RequestFits, Request
    <3> QED BY <1>1, <3>1, <3>2, PostKeeps
  <2> QED BY <2>1, <2>2
<1>3. CASE PostFails(t)
  <2>1. Ends(t)
    BY <1>3 DEF PostFails
  <2> QED BY <1>1, <2>1, PostKeeps
<1>4. CASE PostUnknown(t)
  <2>1. PICK u : Becomes(t, u) /\ Goes(t, u) /\ u.pc = "post" /\ u.again /\ u.id = t.id
    BY <1>0, <1>1, <1>4, PostMoves DEF PostUnknown, Repeated
  <2>2. t.op = "take" /\ ~t.again
    BY <1>4 DEF PostUnknown
  <2> QED BY <1>1, <2>1, <2>2, PostKeeps
<1> QED BY <1>2, <1>3, <1>4

\* An end that is reported, a quarter of an hour, and a restart.
LEMMA OpeningKeeps ==
    ASSUME TradeInv, EndOpen \/ QuarterPasses \/ RouterRestarts
    PROVE  TradeInv'
<1>1. CASE EndOpen
  <2> USE DEF EndOpen, atExchange
  <2>1. TradeTypeOK' /\ RequestsOK'
    <3>1. /\ takeOpen' \in [openTime : OpenTime \cup {0}, status : {"none", "trading", "end"}]
          /\ takenNow' = {}
      BY <1>1 DEF TradeInv, RequestsOK
    <3>2. TradeTypeOK'
      BY <1>1, <3>1 DEF TradeInv, TradeTypeOK
    <3>3. RequestsOK'
      BY <1>1, <3>1 DEF TradeInv, RequestsOK
    <3> QED BY <3>2, <3>3
  <2> QED BY <1>1, <2>1 DEF TradeInv, CallsDiffer, TakenByCall, InTurnInv, ProfitsInv
<1>2. CASE QuarterPasses
  BY <1>2 DEF QuarterPasses, atExchange, tradeCount, TradeInv, TradeTypeOK, RequestsOK,
     CallsDiffer, TakenByCall, InTurnInv, ProfitsInv
<1>3. CASE RouterRestarts
  <2> USE DEF RouterRestarts, atExchange
  <2>1. TradeTypeOK'
    <3>1. takeOpen'.openTime = 0 /\ takeOpen'.status = "none"
      BY <1>3 DEF NoOpening
    <3>2. orderIdIndex' \in Nat
      BY <1>3, TradeAssumption
    <3> QED BY <1>3, <3>1, <3>2 DEF TradeInv, TradeTypeOK
  <2>2. RequestsOK'
    BY <1>3 DEF TradeInv, RequestsOK, NoOpening
  <2> QED BY <1>3, <2>1, <2>2
     DEF TradeInv, CallsDiffer, TakenByCall, InTurnInv, ProfitsInv
<1> QED BY <1>1, <1>2, <1>3

\* Every step of the router keeps its invariant.
LEMMA TradeStep == TradeInv /\ [TradeNext]_tradeVars => TradeInv'
<1> SUFFICES ASSUME TradeInv, [TradeNext]_tradeVars PROVE TradeInv'
  OBVIOUS
<1>1. ASSUME NEW time \in OpenTime, NEW flat \in BOOLEAN, AskTake(time, flat)
      PROVE  TradeInv'
  <2> DEFINE t == [NewThread("take", "take", "test", 1) EXCEPT !.openTime = time, !.flat = flat]
  <2>1. t \in Request /\ RequestFits(t) /\ t.call = tradeCalls /\ t.pc = "test"
    BY NewTake
  <2>2. Starts(t)
    BY <1>1 DEF AskTake
  <2> HIDE DEF t
  <2> QED BY <2>1, <2>2, StartsKeeps
<1>2. ASSUME NEW d \in Direction, NEW n \in Parts, NEW refused \in BOOLEAN,
             AskProfit(d, n, refused)
      PROVE  TradeInv'
  <2> DEFINE t == [NewThread("profit", KindOf[d], "list", n) EXCEPT !.refused = refused]
  <2>1. t \in Request /\ RequestFits(t) /\ t.call = tradeCalls /\ t.pc = "list"
    BY NewProfit
  <2>2. Starts(t)
    BY <1>2 DEF AskProfit
  <2> HIDE DEF t
  <2> QED BY <2>1, <2>2, StartsKeeps
<1>3. ASSUME EndOpen \/ QuarterPasses \/ RouterRestarts PROVE TradeInv'
  BY <1>3, OpeningKeeps
<1>4. ASSUME OrderFills PROVE TradeInv'
  <2>1. orderIdIndex \in Nat
    BY DEF TradeInv, TradeTypeOK
  <2> QED BY <1>4, <2>1, LessKeeps DEF OrderFills
<1>5. ASSUME NEW t \in requests, TestOpening(t) \/ MarkOpening(t) PROVE TradeInv'
  BY <1>5, TestKeeps, MarkKeeps
<1>6. ASSUME NEW t \in requests, ListOrders(t) \/ CheckSize(t) \/ CancelOrder(t)
      PROVE  TradeInv'
  BY <1>6, ListKeeps, SizeKeeps, CancelKeeps
<1>7. ASSUME NEW t \in requests, CountOrder(t) \/ ReadIndex(t) PROVE TradeInv'
  BY <1>7, NumberKeeps
<1>8. ASSUME NEW t \in requests, PostOrder(t) \/ PostFails(t) \/ PostUnknown(t)
      PROVE  TradeInv'
  BY <1>8, PostingKeeps
<1>9. ASSUME UNCHANGED tradeVars PROVE TradeInv'
  <2>1. orderIdIndex \in Nat
    BY DEF TradeInv, TradeTypeOK
  <2> QED BY <1>9, <2>1, LessKeeps DEF tradeVars, atExchange
<1> QED
  BY <1>1, <1>2, <1>3, <1>4, <1>5, <1>6, <1>7, <1>8, <1>9 DEF TradeNext

\* What the invariant says of the orders that are open.
LEMMA TradeInvShows == TradeInv => TradeTypeOK /\ ProfitsOfOneRequest /\ OpenedOnce
BY DEF TradeInv, ProfitsInv, TakenByCall, InTurnInv, ProfitsOfOneRequest, OpenedOnce

-----------------------------------------------------------------------------
(* The stops (StopLoss).                                                    *)

\* The maker works on one symbol, and posts what its batch still lacks.
MakerOK ==
    /\ mpc # "read" => \E s \in Symbol : cur = {s}
    /\ mpc = "post" => posted < StopTime

\* The size of the largest position there is.
Largest == Max({Abs(a) : a \in Amount})

\* The maker's stops of a symbol's side cover less than the largest position and
\* one batch more: old stops are replaced only when they cover too little.
Bound(s, kind) ==
    100 * Total(OwnStops(s, kind)) < 95 * Largest + 100 * (StopTime * StopQuantity(Largest))

\* While a batch is posted the maker's stops are too few for the position, without
\* those that the batch has so far.
BatchGrows ==
    mpc = "post" => \A s \in cur :
        100 * Total(OwnStops(s, StopKindOf(mpos[s]))) <
            95 * Abs(mpos[s]) + 100 * (posted * StopQuantity(mpos[s]))

\* Of the open orders: what they are, and that their ids are their own.
OrdersOK ==
    /\ orders \subseteq Order
    /\ \A o, p \in orders : o.id = p.id => o = p
    /\ IsFiniteSet(orders)

\* What every variable of the maker, the checker and the exchange is made of.
StopTyped ==
    /\ OrdersOK /\ MakerOK
    /\ pos \in [Symbol -> Amount] /\ shown \in [Symbol -> Amount]
    /\ mpos \in [Symbol -> Amount] /\ cpos \in [Symbol -> Amount]
    /\ mpc \in {"read", "list", "post", "cancel"} /\ cpc \in {"read", "list"}
    /\ todo \subseteq Symbol /\ cur \subseteq Symbol
    /\ posted \in 0 .. StopTime /\ old \subseteq OrderIds /\ threads \subseteq OrderIds
    /\ trades \in Nat /\ traderOrders \in Nat /\ faults \in Nat /\ hubRestarts \in Nat

\* The maker's inductive invariant.
StopInv ==
    /\ StopTyped
    /\ \A s \in Symbol, kind \in StopKinds : Bound(s, kind)
    /\ BatchGrows

-----------------------------------------------------------------------------
(* Sums of quantities.                                                      *)

\* Total adds up the quantities of stops.
LEMMA TotalIsSum ==
    ASSUME NEW S
    PROVE  Total(S) = SumFunctionOnSet([o \in S |-> o.qty], S)
<1> DEFINE f == [o \in S |-> o.qty]
           R(g) == [s \in SUBSET S |-> IF s = {} THEN 0 ELSE Qty(Some(s)) + g[s \ {Some(s)}]]
<1>1. Total(S) = (CHOOSE g : g = R(g))[S]
  BY DEF Total, MapThenSumSet, MapThenFoldSet, Some
<1>2. ASSUME NEW g PROVE R(g) = Round("sum", 0, f, S, g)
  <2>1. \A s \in SUBSET S : s # {} => Qty(Some(s)) = f[Some(s)]
    BY SomeIsIn DEF Qty
  <2> HIDE DEF f
  <2> QED BY <2>1 DEF Round, Combine
<1> HIDE DEF R
<1>3. (CHOOSE g : g = R(g)) = CHOOSE g : g = Round("sum", 0, f, S, g)
  BY <1>2
<1> QED BY <1>1, <1>3, SumIsPartial DEF Partial

\* A stop more, and stops that go.
LEMMA TotalMore ==
    ASSUME NEW S, IsFiniteSet(S), NEW x, x \notin S, \A o \in S \cup {x} : o.qty \in Nat
    PROVE  Total(S) \in Nat /\ Total(S \cup {x}) = Total(S) + x.qty
<1> DEFINE f == [o \in S |-> o.qty]
           g == [o \in S \cup {x} |-> o.qty]
<1>1. \A o \in S : f[o] = g[o] /\ f[o] \in Int /\ f[o] \in Nat
  OBVIOUS
<1>2. \A o \in S \cup {x} : g[o] \in Int
  OBVIOUS
<1>3. Total(S) = SumFunctionOnSet(f, S) /\ Total(S \cup {x}) = SumFunctionOnSet(g, S \cup {x})
  BY TotalIsSum
<1>4. g[x] = x.qty
  OBVIOUS
<1> HIDE DEF f, g
<1>5. SumFunctionOnSet(f, S) = SumFunctionOnSet(g, S)
  BY <1>1, SumOfSame
<1>6. SumFunctionOnSet(g, S \cup {x}) = SumFunctionOnSet(g, S) + g[x]
  BY <1>2, SumOneMore
<1>7. SumFunctionOnSet(f, S) \in Nat
  BY <1>1, SumOfPart
<1> QED BY <1>3, <1>4, <1>5, <1>6, <1>7

\* What a batch of stops covers without one of them.
LEMMA TotalLess ==
    ASSUME NEW S, IsFiniteSet(S), \A o \in S : o.qty \in Nat, NEW T \in SUBSET S
    PROVE  Total(T) \in Nat /\ Total(S) \in Nat /\ Total(T) <= Total(S)
<1> DEFINE f == [o \in S |-> o.qty]
           g == [o \in T |-> o.qty]
<1>1. (\A o \in S : f[o] \in Nat) /\ (\A o \in T : g[o] = f[o] /\ g[o] \in Int /\ g[o] \in Nat)
  OBVIOUS
<1>2. Total(S) = SumFunctionOnSet(f, S) /\ Total(T) = SumFunctionOnSet(g, T)
  BY TotalIsSum
<1>3. IsFiniteSet(T)
  BY FS_Subset
<1> HIDE DEF f, g
<1>4. SumFunctionOnSet(g, T) = SumFunctionOnSet(f, T)
  BY <1>1, <1>3, SumOfSame
<1>5. SumFunctionOnSet(f, S) \in Nat /\ SumFunctionOnSet(f, T) <= SumFunctionOnSet(f, S)
  BY <1>1, SumOfPart
<1>6. SumFunctionOnSet(g, T) \in Nat
  BY <1>1, <1>3, SumOfPart
<1> QED BY <1>2, <1>4, <1>5, <1>6

\* A rounded quotient grows with what is divided.
LEMMA QuotientGrows ==
    ASSUME NEW a \in Nat, NEW b \in Nat \ {0}, NEW c \in Nat, a <= c
    PROVE  /\ RoundedQuotient(a, b) \in Nat
           /\ RoundedQuotient(a, b) <= RoundedQuotient(c, b)
<1> DEFINE q == a \div b
           p == c \div b
           r == a % b
           s == c % b
<1>1. q \in Nat /\ r \in Nat /\ r < b /\ a = b * q + r
  OBVIOUS
<1>2. p \in Nat /\ s \in Nat /\ s < b /\ c = b * p + s
  OBVIOUS
<1>3. /\ RoundedQuotient(a, b) = IF 2 * r < b \/ (2 * r = b /\ q % 2 = 0) THEN q ELSE q + 1
      /\ RoundedQuotient(c, b) = IF 2 * s < b \/ (2 * s = b /\ p % 2 = 0) THEN p ELSE p + 1
  BY DEF RoundedQuotient
<1> HIDE DEF q, p, r, s
<1>4. q <= p
  <2> SUFFICES ASSUME p + 1 <= q PROVE FALSE
    BY <1>1, <1>2
  <2>1. PICK d \in Nat : q = p + 1 + d
    <3>1. q - p - 1 \in Nat /\ q = p + 1 + (q - p - 1)
      BY <1>1, <1>2
    <3> QED BY <3>1
  <2>2. b * q = b * p + b + b * d
    BY <1>1, <1>2, <2>1
  <2>3. b * d \in Nat /\ b * p \in Nat
    BY <1>2
  <2> QED BY <1>1, <1>2, <2>2, <2>3
<1>5. CASE q = p
  BY <1>1, <1>2, <1>3, <1>5
<1>6. CASE q < p
  BY <1>1, <1>2, <1>3, <1>6
<1> QED BY <1>1, <1>2, <1>4, <1>5, <1>6

-----------------------------------------------------------------------------
(* Sizes of positions.                                                      *)

\* No position is larger than the largest.
LEMMA LargestSize ==
    /\ Largest \in Nat \ {0}
    /\ \A a \in Amount : Abs(a) \in Nat /\ Abs(a) <= Largest
<1> DEFINE T == {Abs(a) : a \in Amount}
<1>1. T \subseteq Nat /\ T # {} /\ IsFiniteSet(T)
  <2>1. IsFiniteSet(T)
    <3> DEFINE f == [a \in Amount |-> Abs(a)]
    <3>1. f \in Surjection(Amount, T)
      BY DEF Surjection
    <3> QED BY <3>1, FS_Surjection, AmountAssumption
  <2> QED BY <2>1, AmountAssumption DEF Abs
<1>2. \E n \in T : \A m \in T : n >= m
  BY <1>1, GreatestNumber
<1>3. Largest \in T /\ \A m \in T : Largest >= m
  BY <1>2 DEF Largest, Max
<1>4. PICK a \in Amount : a # 0
  BY AmountAssumption
<1>5. Abs(a) \in T /\ Abs(a) > 0
  BY <1>4, AmountAssumption DEF Abs
<1>6. Largest \in Nat /\ Largest >= Abs(a) /\ Abs(a) \in Nat
  BY <1>1, <1>3, <1>5
<1>7. \A b \in Amount : Abs(b) \in T
  OBVIOUS
<1>8. ASSUME NEW b \in Amount PROVE Abs(b) \in Nat /\ Abs(b) <= Largest
  <2>1. Abs(b) \in T /\ Abs(b) \in Nat /\ Largest >= Abs(b)
    BY <1>1, <1>3, <1>7
  <2> QED BY <1>6, <2>1
<1>9. Largest # 0
  BY <1>5, <1>6
<1> HIDE DEF T
<1> QED BY <1>6, <1>8, <1>9

\* A batch of stops for a position is no more than one for the largest.
LEMMA BatchSize ==
    ASSUME NEW amt \in Amount, NEW n \in 0 .. StopTime
    PROVE  /\ StopQuantity(amt) \in Nat /\ StopQuantity(Largest) \in Nat
           /\ n * StopQuantity(amt) \in Nat /\ StopTime * StopQuantity(Largest) \in Nat
           /\ n * StopQuantity(amt) <= StopTime * StopQuantity(Largest)
<1>1. /\ Abs(amt) \in Nat /\ Largest \in Nat /\ Abs(Largest) = Largest
      /\ Abs(amt) <= Largest /\ StopTime \in Nat \ {0}
  BY LargestSize, StopTimeAssumption DEF Abs
<1> DEFINE q == StopQuantity(amt)
           t == StopQuantity(Largest)
<1>2. q \in Nat /\ t \in Nat /\ q <= t
  BY <1>1, QuotientGrows DEF StopQuantity
<1> HIDE DEF q, t
<1>3. n \in Nat /\ n <= StopTime
  BY <1>1
<1>4. n * q <= n * t
  <2>1. PICK d \in Nat : t = q + d
    <3>1. t - q \in Nat /\ t = q + (t - q)
      BY <1>2
    <3> QED BY <3>1
  <2>2. n * t = n * q + n * d /\ n * d \in Nat /\ n * q \in Nat
    BY <1>2, <1>3, <2>1
  <2> QED BY <2>2
<1>5. n * t <= StopTime * t
  <2>1. PICK d \in Nat : StopTime = n + d
    <3>1. StopTime - n \in Nat /\ StopTime = n + (StopTime - n)
      BY <1>1, <1>3
    <3> QED BY <3>1
  <2>2. StopTime * t = n * t + d * t /\ d * t \in Nat /\ n * t \in Nat
    BY <1>2, <1>3, <2>1
  <2> QED BY <2>2
<1>6. n * q \in Nat /\ n * t \in Nat /\ StopTime * t \in Nat
  BY <1>1, <1>2, <1>3
<1> QED BY <1>2, <1>4, <1>5, <1>6 DEF q, t

-----------------------------------------------------------------------------
(* The open orders.                                                         *)

\* A new order gets an id that nothing else has.
LEMMA FreshIdIsNew ==
    ASSUME Unused # {}
    PROVE  /\ FreshId \in OrderIds /\ FreshId \notin old /\ FreshId \notin threads
           /\ \A o \in orders : o.id # FreshId
<1>1. Unused \subseteq Nat
  BY OrderIdsAssumption DEF Unused
<1>2. FreshId \in Unused
  BY <1>1, LeastNumber DEF FreshId, Min
<1> QED BY <1>2 DEF Unused

\* The stop that the maker posts next.
LEMMA NewStopIsOrder ==
    ASSUME StopInv, NEW s \in Symbol, mpc = "post", Unused # {}, StopQuantity(mpos[s]) > 0
    PROVE  /\ NewStop(s) \in Order /\ NewStop(s) \notin orders
           /\ \A o \in orders : o.id # NewStop(s).id
           /\ NewStop(s).symbol = s /\ NewStop(s).kind = StopKindOf(mpos[s])
           /\ NewStop(s).qty = StopQuantity(mpos[s]) /\ NewStop(s).own
           /\ StopKindOf(mpos[s]) \in StopKinds
<1>1. mpos[s] \in Amount /\ posted \in 0 .. (StopTime - 1)
  BY StopTimeAssumption DEF StopInv, StopTyped, OrdersOK, MakerOK
<1>2. StopQuantity(mpos[s]) \in Nat
  BY <1>1, BatchSize, StopTimeAssumption
<1>3. StopKindOf(mpos[s]) \in StopKinds
  BY DEF StopKindOf, StopKinds
<1> QED BY <1>1, <1>2, <1>3, FreshIdIsNew DEF NewStop, Order

\* The stops of a side of a symbol.
LEMMA SideFinite ==
    ASSUME StopInv, NEW s, NEW kind
    PROVE  /\ IsFiniteSet(StopsOf(s, kind))
           /\ \A o \in StopsOf(s, kind) : o.qty \in Nat
           /\ Total(StopsOf(s, kind)) \in Nat
<1>1. StopsOf(s, kind) \subseteq orders
  BY DEF StopsOf
<1>2. IsFiniteSet(StopsOf(s, kind))
  BY <1>1, FS_Subset DEF StopInv, StopTyped, OrdersOK
<1>3. \A o \in StopsOf(s, kind) : o.qty \in Nat
  BY <1>1 DEF StopInv, StopTyped, OrdersOK, Order
<1> HIDE DEF StopsOf
<1> QED BY <1>2, <1>3, TotalLess

\* Those of them that the maker posted.
LEMMA StopsFinite ==
    ASSUME StopInv, NEW s, NEW kind
    PROVE  /\ IsFiniteSet(OwnStops(s, kind))
           /\ \A o \in OwnStops(s, kind) : o.qty \in Nat
           /\ Total(OwnStops(s, kind)) \in Nat
<1>1. OwnStops(s, kind) \subseteq StopsOf(s, kind)
  BY DEF OwnStops
<1>2. IsFiniteSet(OwnStops(s, kind)) /\ \A o \in OwnStops(s, kind) : o.qty \in Nat
  BY <1>1, SideFinite, FS_Subset
<1> HIDE DEF OwnStops
<1> QED BY <1>2, TotalLess

\* Fewer stops, and a batch that goes on, keep the bounds.
LEMMA FewerStops ==
    ASSUME StopInv,
           \A s \in Symbol, kind \in StopKinds : OwnStops(s, kind)' \in SUBSET OwnStops(s, kind),
           mpc' = "post" => /\ mpc = "post" /\ cur' = cur /\ mpos' = mpos
                            /\ posted' \in Nat /\ posted <= posted'
    PROVE  (\A s \in Symbol, kind \in StopKinds : Bound(s, kind)') /\ BatchGrows'
<1>1. ASSUME NEW s \in Symbol, NEW kind \in StopKinds
      PROVE  /\ Total(OwnStops(s, kind)) \in Nat /\ Total(OwnStops(s, kind)') \in Nat
             /\ Total(OwnStops(s, kind)') <= Total(OwnStops(s, kind))
  <2>1. /\ IsFiniteSet(OwnStops(s, kind)) /\ \A o \in OwnStops(s, kind) : o.qty \in Nat
        /\ OwnStops(s, kind)' \in SUBSET OwnStops(s, kind)
    BY StopsFinite
  <2> HIDE DEF OwnStops
  <2> QED BY <2>1, TotalLess
<1>2. Largest \in Nat /\ StopTime * StopQuantity(Largest) \in Nat
  BY LargestSize, BatchSize, AmountAssumption, StopTimeAssumption
<1>3. ASSUME NEW s \in Symbol, NEW kind \in StopKinds PROVE Bound(s, kind)'
  <2>1. Bound(s, kind)
    BY DEF StopInv
  <2> QED BY <1>1, <1>2, <2>1 DEF Bound
<1>4. ASSUME mpc' = "post", NEW s \in cur'
      PROVE  (100 * Total(OwnStops(s, StopKindOf(mpos[s]))) <
                 95 * Abs(mpos[s]) + 100 * (posted * StopQuantity(mpos[s])))'
  <2>1. /\ mpc = "post" /\ s \in cur /\ s \in Symbol /\ mpos' = mpos
        /\ mpos[s] \in Amount /\ posted \in Nat /\ posted' \in Nat /\ posted <= posted'
    BY <1>4 DEF StopInv, StopTyped, OrdersOK
  <2>2. PICK kind, q, a, n, m :
            /\ kind = StopKindOf(mpos[s]) /\ q = StopQuantity(mpos[s]) /\ a = Abs(mpos[s])
            /\ n = posted /\ m = posted'
    OBVIOUS
  <2>3. kind \in StopKinds /\ q \in Nat /\ a \in Nat
    BY <2>1, <2>2, BatchSize, LargestSize, StopTimeAssumption DEF StopKindOf, StopKinds
  <2>4. 100 * Total(OwnStops(s, kind)) < 95 * a + 100 * (n * q)
    BY <2>1, <2>2 DEF StopInv, BatchGrows
  <2>5. /\ Total(OwnStops(s, kind)) \in Nat /\ Total(OwnStops(s, kind)') \in Nat
        /\ Total(OwnStops(s, kind)') <= Total(OwnStops(s, kind))
    BY <1>1, <2>1, <2>3
  <2>6. n * q \in Nat /\ m * q \in Nat /\ n * q <= m * q
    <3>0. n \in Nat /\ m \in Nat /\ n <= m
      BY <2>1, <2>2
    <3>1. PICK d \in Nat : m = n + d
      <4>1. m - n \in Nat /\ m = n + (m - n)
        BY <3>0
      <4> QED BY <4>1
    <3>2. m * q = n * q + d * q /\ d * q \in Nat /\ n * q \in Nat
      BY <2>3, <3>0, <3>1
    <3> QED BY <3>2
  <2>7. 100 * Total(OwnStops(s, kind)') < 95 * a + 100 * (m * q)
    BY <2>3, <2>4, <2>5, <2>6
  <2>8. /\ kind = StopKindOf(mpos[s])' /\ q = StopQuantity(mpos[s])' /\ a = Abs(mpos[s])'
        /\ m = posted'
    BY <2>1, <2>2
  <2> QED BY <2>7, <2>8
<1>5. BatchGrows'
  BY <1>4 DEF BatchGrows
<1> QED BY <1>3, <1>5

\* A stop more of the batch keeps them.
LEMMA OneMoreStop ==
    ASSUME StopInv, mpc = "post", NEW s \in Symbol, cur = {s},
           Unused # {}, StopQuantity(mpos[s]) > 0, orders' = orders \cup {NewStop(s)},
           mpos' = mpos, cur' = cur, mpc' = "post" => posted' = posted + 1
    PROVE  (\A z \in Symbol, kind \in StopKinds : Bound(z, kind)') /\ BatchGrows'
<1>1. PICK new, kind, q, a, n :
          /\ new = NewStop(s) /\ kind = StopKindOf(mpos[s]) /\ q = StopQuantity(mpos[s])
          /\ a = Abs(mpos[s]) /\ n = posted
  OBVIOUS
<1>2. /\ new \notin orders /\ new.symbol = s /\ new.kind = kind /\ new.qty = q /\ new.own
      /\ kind \in StopKinds /\ orders' = orders \cup {new}
  BY <1>1, NewStopIsOrder
<1>3. /\ mpos[s] \in Amount /\ n \in 0 .. StopTime /\ n + 1 \in 0 .. StopTime
  BY <1>1, StopTimeAssumption DEF StopInv, StopTyped, OrdersOK, MakerOK
<1>4. q \in Nat /\ a \in Nat /\ a <= Largest /\ Largest \in Nat
  BY <1>1, <1>3, BatchSize, LargestSize
<1>5. PICK all : all = StopTime * StopQuantity(Largest)
  OBVIOUS
<1>6. (n + 1) * q \in Nat /\ n * q \in Nat /\ all \in Nat /\ (n + 1) * q <= all
  BY <1>1, <1>3, <1>5, BatchSize
<1>7. OwnStops(s, kind)' = OwnStops(s, kind) \cup {new} /\ new \notin OwnStops(s, kind)
  BY <1>2 DEF OwnStops, StopsOf
<1>8. \A z, k : z # s \/ k # kind => OwnStops(z, k)' = OwnStops(z, k)
  BY <1>2 DEF OwnStops, StopsOf
<1>9. /\ Total(OwnStops(s, kind)) \in Nat
      /\ Total(OwnStops(s, kind)') = Total(OwnStops(s, kind)) + q
  <2>1. IsFiniteSet(OwnStops(s, kind)) /\ \A o \in OwnStops(s, kind) \cup {new} : o.qty \in Nat
    BY <1>2, <1>4, StopsFinite
  <2> HIDE DEF OwnStops
  <2> QED BY <1>2, <1>7, <2>1, TotalMore
<1>10. 100 * Total(OwnStops(s, kind)) < 95 * a + 100 * (n * q)
  BY <1>1 DEF StopInv, BatchGrows
<1>11. 100 * Total(OwnStops(s, kind)') < 95 * a + 100 * ((n + 1) * q)
  <2>1. (n + 1) * q = n * q + q
    BY <1>3, <1>4
  <2> QED BY <1>4, <1>6, <1>9, <1>10, <2>1
<1>12. ASSUME NEW z \in Symbol, NEW k \in StopKinds PROVE Bound(z, k)'
  <2>1. CASE z = s /\ k = kind
    BY <1>4, <1>5, <1>6, <1>9, <1>11, <2>1 DEF Bound
  <2>2. CASE ~(z = s /\ k = kind)
    <3>1. Bound(z, k) /\ OwnStops(z, k)' = OwnStops(z, k)
      BY <1>8, <2>2 DEF StopInv
    <3> QED BY <3>1 DEF Bound
  <2> QED BY <2>1, <2>2
<1>13. ASSUME mpc' = "post", NEW z \in cur'
       PROVE  (100 * Total(OwnStops(z, StopKindOf(mpos[z]))) <
                  95 * Abs(mpos[z]) + 100 * (posted * StopQuantity(mpos[z])))'
  <2>1. z = s /\ posted' = n + 1
    BY <1>1, <1>13
  <2>2. /\ kind = StopKindOf(mpos[z])' /\ q = StopQuantity(mpos[z])' /\ a = Abs(mpos[z])'
    BY <1>1, <2>1
  <2> QED BY <1>11, <2>1, <2>2
<1>14. BatchGrows'
  BY <1>13 DEF BatchGrows
<1> QED BY <1>12, <1>14

\* The decision to post: what is open is too little.
LEMMA BatchBegins ==
    ASSUME StopInv, NEW s \in Symbol, cur = {s}, mpc = "list",
           ~Covers(Coverage(s, StopKindOf(mpos[s])), mpos[s]),
           orders' = orders, mpos' = mpos, cur' = cur, posted' = 0
    PROVE  (\A z \in Symbol, kind \in StopKinds : Bound(z, kind)') /\ BatchGrows'
<1>1. \A z, k : OwnStops(z, k)' = OwnStops(z, k)
  BY DEF OwnStops, StopsOf
<1>2. \A z \in Symbol, k \in StopKinds : Bound(z, k)'
  BY <1>1 DEF StopInv, Bound
<1>3. PICK kind, q, a : /\ kind = StopKindOf(mpos[s]) /\ q = StopQuantity(mpos[s])
                        /\ a = Abs(mpos[s])
  OBVIOUS
<1>4. mpos[s] \in Amount
  BY DEF StopInv, StopTyped, OrdersOK
<1>5. q \in Nat /\ a \in Nat /\ Total(OwnStops(s, kind)) \in Nat
  BY <1>3, <1>4, BatchSize, LargestSize, StopsFinite, StopTimeAssumption
<1>6. 100 * Total(OwnStops(s, kind)) < 95 * a
  <2>1. 100 * Total(StopsOf(s, kind)) < 95 * a /\ Total(StopsOf(s, kind)) \in Nat
    BY <1>3, <1>5, SideFinite DEF Covers, Coverage
  <2>2. Total(OwnStops(s, kind)) <= Total(StopsOf(s, kind))
    <3>1. OwnStops(s, kind) \in SUBSET StopsOf(s, kind)
      BY DEF OwnStops
    <3>2. IsFiniteSet(StopsOf(s, kind)) /\ \A o \in StopsOf(s, kind) : o.qty \in Nat
      BY SideFinite
    <3> HIDE DEF OwnStops, StopsOf
    <3> QED BY <3>1, <3>2, TotalLess
  <2> QED BY <1>5, <2>1, <2>2
<1>7. 100 * Total(OwnStops(s, kind)') < 95 * a + 100 * (0 * q)
  BY <1>1, <1>5, <1>6
<1>8. ASSUME NEW z \in cur'
      PROVE  (100 * Total(OwnStops(z, StopKindOf(mpos[z]))) <
                  95 * Abs(mpos[z]) + 100 * (posted * StopQuantity(mpos[z])))'
  <2>1. z = s /\ kind = StopKindOf(mpos[z])' /\ q = StopQuantity(mpos[z])' /\ a = Abs(mpos[z])'
    BY <1>3, <1>8
  <2> QED BY <1>7, <2>1
<1>9. BatchGrows'
  BY <1>8 DEF BatchGrows
<1> QED BY <1>2, <1>9

-----------------------------------------------------------------------------
(* The types of the stops' side.                                            *)

\* Orders that end leave the rest as they were.
LEMMA OrdersGo == ASSUME OrdersOK, orders' \subseteq orders PROVE OrdersOK'
BY FS_Subset DEF OrdersOK

\* An order with a number of its own may join the others.
LEMMA OrderComes ==
    ASSUME OrdersOK, NEW o \in Order, \A p \in orders : p.id # o.id, orders' = orders \cup {o}
    PROVE  OrdersOK'
BY FS_AddElement DEF OrdersOK

\* The types the proof keeps are those of the runs.
LEMMA TypedIsTypeOK == StopTyped => TypeOK
<1>1. StopTyped => (mpc # "read" => Cardinality(cur) = 1)
  BY FS_Singleton DEF StopTyped, MakerOK
<1> QED BY <1>1 DEF StopTyped, TypeOK, OrdersOK

\* The maker's loop goes on or ends.
LEMMA GoOnTypes ==
    ASSUME NEW rest \in SUBSET Symbol, GoOn(rest)
    PROVE  /\ MakerOK' /\ mpc' \in {"read", "list"} /\ todo' \subseteq Symbol
           /\ cur' \subseteq Symbol /\ posted' = 0 /\ posted' \in 0 .. StopTime
           /\ old' \subseteq OrderIds
BY StopTimeAssumption DEF GoOn, MakerOK

\* What the maker holds after a posting has its types.
LEMMA NextPostTypes ==
    ASSUME StopTyped, mpc = "post", NextPost, cur' = cur
    PROVE  /\ MakerOK' /\ mpc' \in {"post", "cancel"}
           /\ posted' = posted + 1 /\ posted' \in 0 .. StopTime
BY StopTimeAssumption DEF StopTyped, NextPost, MakerOK

-----------------------------------------------------------------------------
(* Every step keeps the invariant.                                          *)

\* The maker starts with no stops on any account it may meet.
LEMMA StopsStart == Init => StopInv
<1> SUFFICES ASSUME Init PROVE StopInv
  OBVIOUS
<1> USE DEF Init
<1>1. StopTyped
  BY AmountAssumption, StopTimeAssumption, FS_EmptySet
     DEF StopTyped, OrdersOK, MakerOK, Flat
<1>2. ASSUME NEW s \in Symbol, NEW kind \in StopKinds PROVE Bound(s, kind)
  <2>1. OwnStops(s, kind) = {}
    BY DEF OwnStops, StopsOf
  <2>2. Total({}) = 0
    BY TotalIsSum, SumUnfolds, FS_EmptySet
  <2>3. Largest \in Nat \ {0} /\ StopTime * StopQuantity(Largest) \in Nat
    BY LargestSize, BatchSize, AmountAssumption, StopTimeAssumption
  <2> QED BY <2>1, <2>2, <2>3 DEF Bound
<1> QED BY <1>1, <1>2 DEF StopInv, BatchGrows

\* A step that neither adds a stop nor begins a batch.
LEMMA QuietStep ==
    ASSUME StopInv, StopTyped',
           \A s \in Symbol, kind \in StopKinds : OwnStops(s, kind)' \in SUBSET OwnStops(s, kind),
           mpc' = "post" => /\ mpc = "post" /\ cur' = cur /\ mpos' = mpos
                            /\ posted' \in Nat /\ posted <= posted'
    PROVE  StopInv'
<1>1. (\A s \in Symbol, kind \in StopKinds : Bound(s, kind)') /\ BatchGrows'
  BY FewerStops
<1> QED BY <1>1 DEF StopInv

\* What is left of a request after rounding is a whole number of lots.
LEMMA AskedQuantity == \A qty \in AskedQuantities : qty \in Int
<1>1. ASSUME NEW lots \in Nat \ {0}, NEW prices \in Nat \ {0}
      PROVE  BatchQuantities(lots, prices) \subseteq Int
  <2>1. PICK each : each = RoundedQuotient(lots, prices)
    OBVIOUS
  <2>2. each \in Nat
    BY <2>1, QuotientGrows
  <2>3. (prices - 1) * each \in Int
    BY <2>2
  <2>4. lots - (prices - 1) * each \in Int
    BY <2>3
  <2> QED BY <2>1, <2>2, <2>4 DEF BatchQuantities
<1>2. ASSUME NEW lots \in Nat \ {0} PROVE OnceQuantities(lots) \subseteq Int
  BY AskedAssumption DEF OnceQuantities
<1> QED BY <1>1, <1>2, AskedAssumption DEF AskedQuantities

\* The steps of the exchange, the traders and the hub.
LEMMA EnvironmentKeeps == StopInv /\ Environment => StopInv'
<1> SUFFICES ASSUME StopInv, Environment PROVE StopInv'
  OBVIOUS
<1>0. StopTyped /\ posted \in Nat
  BY StopTimeAssumption DEF StopInv, StopTyped
<1>1. mpc' = mpc /\ cur' = cur /\ mpos' = mpos /\ posted' = posted
  BY DEF Environment, Trade, TraderPosts, RouterPostsStop, EnterOrder, StopFires, Expires, HubShows, HubRestarts, maker
<1>2. ASSUME StopTyped', orders' \subseteq orders PROVE StopInv'
  <2>1. \A s \in Symbol, kind \in StopKinds : OwnStops(s, kind)' \in SUBSET OwnStops(s, kind)
    BY <1>2 DEF OwnStops, StopsOf
  <2> QED BY <1>0, <1>1, <1>2, <2>1, QuietStep
<1>3. ASSUME NEW s \in Symbol, NEW amt \in Amount, Trade(s, amt) PROVE StopInv'
  <2>1. StopTyped'
    BY <1>0, <1>3 DEF StopTyped, Trade, OrdersOK, MakerOK, maker, checker
  <2> QED BY <1>2, <1>3, <2>1 DEF Trade
<1>4. ASSUME NEW o \in orders, StopFires(o) PROVE StopInv'
  <2>1. o.symbol \in Symbol /\ OrdersOK'
    BY <1>0, <1>4, OrdersGo DEF StopTyped, OrdersOK, StopFires, Order
  <2>2. pos' \in [Symbol -> Amount]
    BY <1>0, <1>4, <2>1 DEF StopTyped, StopFires
  <2>3. StopTyped'
    BY <1>0, <1>4, <2>1, <2>2 DEF StopTyped, StopFires, MakerOK, maker, checker
  <2> QED BY <1>2, <1>4, <2>3 DEF StopFires
<1>5. ASSUME NEW s \in Symbol, NEW kind \in StopKinds \cup TraderKinds, NEW qty \in Nat,
             EnterOrder(s, kind, qty)
      PROVE  StopInv'
  <2> DEFINE o == [id |-> FreshId, symbol |-> s, kind |-> kind, qty |-> qty,
                   rung |-> 0, expired |-> FALSE, own |-> FALSE]
  <2>1. /\ o \in Order /\ (\A p \in orders : p.id # o.id)
        /\ ~o.own /\ orders' = orders \cup {o}
    <3>1. FreshId \in OrderIds /\ \A p \in orders : p.id # FreshId
      BY <1>5, FreshIdIsNew DEF EnterOrder
    <3>2. 0 \in 0 .. (StopTime - 1)
      BY StopTimeAssumption
    <3> QED BY <1>5, <3>1, <3>2 DEF EnterOrder, Order
  <2> HIDE DEF o
  <2>2. OrdersOK'
    BY <1>0, <2>1, OrderComes DEF StopTyped
  <2>3. StopTyped'
    BY <1>0, <1>5, <2>2 DEF StopTyped, EnterOrder, MakerOK, maker, checker
  <2>4. \A z \in Symbol, k \in StopKinds : OwnStops(z, k)' \in SUBSET OwnStops(z, k)
    BY <2>1 DEF OwnStops, StopsOf
  <2> QED BY <1>0, <1>1, <2>3, <2>4, QuietStep
<1>9. ASSUME NEW s \in Symbol, NEW kind \in PostedKinds, TraderPosts(s, kind) PROVE StopInv'
  <2>1. kind \in StopKinds \cup TraderKinds /\ EnterOrder(s, kind, 1)
    BY <1>9, PostedKindsAssumption DEF TraderPosts
  <2> QED BY <1>5, <2>1
<1>10. ASSUME NEW s \in Symbol, NEW kind \in StopKinds, NEW qty \in AskedQuantities,
              RouterPostsStop(s, kind, qty)
       PROVE  StopInv'
  <2>1. qty \in Nat /\ EnterOrder(s, kind, qty)
    <3>1. qty \in Int /\ qty > 0
      BY <1>10, AskedQuantity DEF RouterPostsStop
    <3> QED BY <1>10, <3>1 DEF RouterPostsStop
  <2> QED BY <1>5, <2>1
<1>6. ASSUME NEW o \in orders, Expires(o) PROVE StopInv'
  <2> DEFINE p == [o EXCEPT !.expired = TRUE]
  <2>1. /\ o \in Order /\ p \in Order /\ p.id = o.id /\ p.kind = o.kind
        /\ o.kind \notin StopKinds /\ orders' = (orders \ {o}) \cup {p}
    BY <1>0, <1>6 DEF StopTyped, OrdersOK, Expires, Order, StopKinds
  <2> HIDE DEF p
  <2>2. OrdersOK'
    <3>1. IsFiniteSet(orders \ {o}) /\ IsFiniteSet((orders \ {o}) \cup {p})
      BY <1>0, FS_RemoveElement, FS_AddElement DEF StopTyped, OrdersOK
    <3> QED BY <1>0, <2>1, <3>1 DEF StopTyped, OrdersOK
  <2>3. StopTyped'
    BY <1>0, <1>6, <2>2 DEF StopTyped, Expires, MakerOK, maker, checker, bounds
  <2>4. \A z \in Symbol, k \in StopKinds : OwnStops(z, k)' \in SUBSET OwnStops(z, k)
    BY <2>1 DEF OwnStops, StopsOf
  <2> QED BY <1>0, <1>1, <2>3, <2>4, QuietStep
<1>7. ASSUME HubShows PROVE StopInv'
  <2>1. StopTyped'
    BY <1>0, <1>7 DEF StopTyped, HubShows, OrdersOK, MakerOK, maker, checker, bounds
  <2> QED BY <1>2, <1>7, <2>1 DEF HubShows
<1>8. ASSUME HubRestarts PROVE StopInv'
  <2>1. StopTyped'
    BY <1>0, <1>8, AmountAssumption
       DEF StopTyped, HubRestarts, OrdersOK, MakerOK, maker, checker, Flat
  <2> QED BY <1>2, <1>8, <2>1 DEF HubRestarts
<1> QED BY <1>3, <1>4, <1>6, <1>7, <1>8, <1>9, <1>10 DEF Environment

\* The steps of the checker.
LEMMA CheckerKeeps == StopInv /\ Checker => StopInv'
<1> SUFFICES ASSUME StopInv, Checker PROVE StopInv'
  OBVIOUS
<1>0. StopTyped /\ posted \in Nat
  BY StopTimeAssumption DEF StopInv, StopTyped
<1>1. mpc' = mpc /\ cur' = cur /\ mpos' = mpos /\ posted' = posted /\ orders' \subseteq orders
  BY DEF Checker, CheckerReads, CheckerLists, ThreadCancels, maker, Without
<1>2. \A s \in Symbol, kind \in StopKinds : OwnStops(s, kind)' \in SUBSET OwnStops(s, kind)
  BY <1>1 DEF OwnStops, StopsOf
<1>3. OrdersOK' /\ MakerOK'
  BY <1>0, <1>1, OrdersGo DEF StopTyped, MakerOK
<1>4. CASE CheckerReads
  <2>1. StopTyped'
    BY <1>0, <1>3, <1>4 DEF StopTyped, CheckerReads, maker, bounds
  <2> QED BY <1>0, <1>1, <1>2, <2>1, QuietStep
<1>5. CASE CheckerLists
  <2>1. threads' \subseteq OrderIds
    BY <1>0, <1>5 DEF StopTyped, OrdersOK, CheckerLists, Order
  <2>2. faults' \in Nat
    BY <1>0, <1>5 DEF StopTyped, CheckerLists, Fault
  <2>3. StopTyped'
    BY <1>0, <1>3, <1>5, <2>1, <2>2 DEF StopTyped, CheckerLists, maker
  <2> QED BY <1>0, <1>1, <1>2, <2>3, QuietStep
<1>6. CASE \E id \in OrderIds : ThreadCancels(id)
  <2>1. faults' \in Nat
    BY <1>0, <1>6 DEF StopTyped, ThreadCancels, Fault
  <2>2. StopTyped'
    BY <1>0, <1>3, <1>6, <2>1 DEF StopTyped, ThreadCancels, maker
  <2> QED BY <1>0, <1>1, <1>2, <2>2, QuietStep
<1> QED BY <1>4, <1>5, <1>6 DEF Checker

\* The steps of the maker that are about the whole list or end a batch.
LEMMA MakerListKeeps ==
    ASSUME StopInv, MakerReads \/ MakerLists \/ MakerCancels PROVE StopInv'
<1>0. StopTyped /\ posted \in Nat
  BY StopTimeAssumption DEF StopInv, StopTyped
<1>1. orders' \subseteq orders
  BY DEF MakerReads, MakerLists, MakerCancels, Without
<1>2. \A s \in Symbol, kind \in StopKinds : OwnStops(s, kind)' \in SUBSET OwnStops(s, kind)
  BY <1>1 DEF OwnStops, StopsOf
<1>3. OrdersOK'
  BY <1>0, <1>1, OrdersGo DEF StopTyped
<1>4. ASSUME StopTyped', mpc' # "post" PROVE StopInv'
  BY <1>2, <1>4, QuietStep
<1>5. CASE MakerReads
  <2>1. PICK rest \in SUBSET Symbol : GoOn(rest)
    BY <1>5 DEF MakerReads
  <2>2. /\ MakerOK' /\ mpc' \in {"read", "list"} /\ todo' \subseteq Symbol
        /\ cur' \subseteq Symbol /\ posted' \in 0 .. StopTime /\ old' \subseteq OrderIds
    BY <2>1, GoOnTypes
  <2>3. StopTyped'
    BY <1>0, <1>3, <1>5, <2>2 DEF StopTyped, MakerReads, checker, bounds
  <2> QED BY <1>4, <2>2, <2>3
<1>6. CASE MakerLists
  <2>1. PICK s \in Symbol : cur = {s}
    BY <1>0, <1>6 DEF StopTyped, MakerOK, MakerLists
  <2>2. /\ mpc = "list" /\ orders' = orders /\ mpos' = mpos
        /\ UNCHANGED <<pos, shown, checker, trades, traderOrders, hubRestarts>>
        /\ faults' \in Nat
    BY <1>0, <1>6, <2>1 DEF MakerLists, Fault, StopTyped
  <2>3. CASE GoOn(todo)
    <3>1. todo \in SUBSET Symbol
      BY <1>0 DEF StopTyped
    <3>2. /\ MakerOK' /\ mpc' \in {"read", "list"} /\ todo' \subseteq Symbol
          /\ cur' \subseteq Symbol /\ posted' \in 0 .. StopTime /\ old' \subseteq OrderIds
      BY <2>3, <3>1, GoOnTypes
    <3>3. StopTyped'
      BY <1>0, <1>3, <2>2, <3>2 DEF StopTyped, checker
    <3> QED BY <1>4, <3>2, <3>3
  <2>4. CASE ~GoOn(todo)
    <3>1. /\ ~Covers(Coverage(s, StopKindOf(mpos[s])), mpos[s])
          /\ mpc' = "post" /\ posted' = 0 /\ todo' = todo /\ cur' = cur
          /\ old' = {o.id : o \in StopsOf(s, StopKindOf(mpos[s]))}
      BY <1>6, <2>1, <2>4 DEF MakerLists
    <3>2. old' \subseteq OrderIds
      BY <1>0, <3>1 DEF StopTyped, OrdersOK, OwnStops, StopsOf, Order
    <3>3. MakerOK' /\ posted' \in 0 .. StopTime
      BY <2>1, <3>1, StopTimeAssumption DEF MakerOK
    <3>4. StopTyped'
      BY <1>0, <1>3, <2>2, <3>1, <3>2, <3>3 DEF StopTyped, checker
    <3>5. (\A z \in Symbol, kind \in StopKinds : Bound(z, kind)') /\ BatchGrows'
      BY <2>1, <2>2, <3>1, BatchBegins
    <3> QED BY <3>4, <3>5 DEF StopInv
  <2> QED BY <2>3, <2>4
<1>7. CASE MakerCancels
  <2>1. /\ mpc = "cancel" /\ faults' \in Nat /\ mpos' = mpos
        /\ UNCHANGED <<pos, shown, checker, trades, traderOrders, hubRestarts>>
    BY <1>0, <1>7 DEF MakerCancels, Fault, StopTyped
  <2>2. CASE GoOn(todo)
    <3>1. todo \in SUBSET Symbol
      BY <1>0 DEF StopTyped
    <3>2. /\ MakerOK' /\ mpc' \in {"read", "list"} /\ todo' \subseteq Symbol
          /\ cur' \subseteq Symbol /\ posted' \in 0 .. StopTime /\ old' \subseteq OrderIds
      BY <2>2, <3>1, GoOnTypes
    <3>3. StopTyped'
      BY <1>0, <1>3, <2>1, <3>2 DEF StopTyped, checker
    <3> QED BY <1>4, <3>2, <3>3
  <2>3. CASE \E id \in old : old' = old \ {id} /\ UNCHANGED <<mpc, todo, cur, posted>>
    <3>1. StopTyped'
      BY <1>0, <1>3, <2>1, <2>3 DEF StopTyped, MakerOK, checker
    <3> QED BY <1>4, <2>1, <2>3, <3>1
  <2> QED BY <1>7, <2>2, <2>3 DEF MakerCancels
<1> QED BY <1>5, <1>6, <1>7

\* The steps that post the stops of a batch.
LEMMA MakerPostKeeps ==
    ASSUME StopInv, MakerPosts \/ MakerForceCloses \/ MakerPostRaises PROVE StopInv'
<1>0. StopTyped /\ posted \in Nat /\ mpc = "post"
  BY StopTimeAssumption DEF StopInv, StopTyped, MakerPosts, MakerForceCloses, MakerPostRaises
<1>1. PICK s \in Symbol : cur = {s}
  BY <1>0 DEF StopTyped, MakerOK
<1>2. /\ UNCHANGED <<shown, mpos, todo, cur, old, checker, trades, traderOrders, hubRestarts>>
      /\ faults' \in Nat
  BY <1>0, <1>1 DEF MakerPosts, MakerForceCloses, MakerPostRaises, Fault, StopTyped
<1>3. pos' \in [Symbol -> Amount]
  BY <1>0, <1>1, AmountAssumption
     DEF MakerPosts, MakerForceCloses, MakerPostRaises, StopTyped
<1>4. /\ MakerOK' /\ mpc' \in {"post", "cancel"} /\ posted' \in 0 .. StopTime
      /\ posted' \in Nat /\ posted <= posted'
      /\ mpc' = "post" => posted' = posted + 1
  <2>1. CASE NextPost
    BY <1>0, <1>2, <2>1, NextPostTypes, StopTimeAssumption
  <2>2. CASE mpc' = "cancel" /\ posted' = posted
    BY <1>0, <1>2, <2>2 DEF StopTyped, MakerOK
  <2> QED BY <1>1, <2>1, <2>2 DEF MakerPosts, MakerForceCloses, MakerPostRaises
<1>5. ASSUME OrdersOK' PROVE StopTyped'
  BY <1>0, <1>2, <1>3, <1>4, <1>5 DEF StopTyped, checker
<1>6. CASE orders' = orders
  <2>1. OrdersOK'
    BY <1>0, <1>6 DEF StopTyped, OrdersOK
  <2>2. \A z \in Symbol, kind \in StopKinds : OwnStops(z, kind)' \in SUBSET OwnStops(z, kind)
    BY <1>6 DEF OwnStops, StopsOf
  <2> QED BY <1>0, <1>2, <1>4, <1>5, <2>1, <2>2, QuietStep
<1>7. CASE /\ Unused # {} /\ StopQuantity(mpos[s]) > 0
           /\ orders' = orders \cup {NewStop(s)}
  <2>1. NewStop(s) \in Order /\ \A o \in orders : o.id # NewStop(s).id
    BY <1>0, <1>7, NewStopIsOrder
  <2>2. OrdersOK'
    BY <1>0, <1>7, <2>1, OrderComes DEF StopTyped
  <2>3. (\A z \in Symbol, kind \in StopKinds : Bound(z, kind)') /\ BatchGrows'
    BY <1>0, <1>1, <1>2, <1>4, <1>7, OneMoreStop
  <2> QED BY <1>5, <2>2, <2>3 DEF StopInv
<1> QED BY <1>1, <1>6, <1>7 DEF MakerPosts, MakerForceCloses, MakerPostRaises

\* Every step of the maker, the checker and the exchange keeps the invariant.
LEMMA StopsKeep == StopInv /\ [Next]_vars => StopInv'
<1> SUFFICES ASSUME StopInv, [Next]_vars PROVE StopInv'
  OBVIOUS
<1>1. CASE UNCHANGED vars
  <2>1. StopTyped' /\ posted \in Nat
    BY <1>1, StopTimeAssumption
       DEF StopInv, StopTyped, OrdersOK, MakerOK, vars, maker, checker, bounds
  <2>2. \A s \in Symbol, kind \in StopKinds : OwnStops(s, kind)' \in SUBSET OwnStops(s, kind)
    BY <1>1 DEF vars, OwnStops, StopsOf
  <2> QED BY <1>1, <2>1, <2>2, QuietStep DEF vars, maker
<1> QED
  BY <1>1, EnvironmentKeeps, CheckerKeeps, MakerListKeeps, MakerPostKeeps DEF Next, Maker

\* The maker's invariant implies what the runs check.
LEMMA StopInvShows == StopInv => TypeOK /\ StopsBounded
<1> SUFFICES ASSUME StopInv PROVE TypeOK /\ StopsBounded
  OBVIOUS
<1>1. 100 * (StopTime * StopQuantity(Largest)) = 100 * StopTime * StopQuantity(Largest)
  BY StopTimeAssumption, LargestSize, BatchSize, AmountAssumption
<1>2. StopsBounded
  BY <1>1 DEF StopInv, Bound, StopsBounded, Largest
<1> QED BY <1>2, TypedIsTypeOK DEF StopInv

-----------------------------------------------------------------------------
(* Both services together.                                                  *)

\* The router's invariant holds of the services together.
LEMMA RouterInvariant == OrdersSpec => []TradeInv
<1>1. OrdersInit => TradeInv
  BY TradeStarts DEF OrdersInit
<1>2. TradeInv /\ [StopsStep \/ RouterStep]_servicesVars => TradeInv'
  <2>1. [StopsStep \/ RouterStep]_servicesVars => [TradeNext]_tradeVars
    BY DEF StopsStep, RouterStep, servicesVars
  <2> QED BY <2>1, TradeStep
<1> QED BY <1>1, <1>2, PTL DEF OrdersSpec

\* The maker's invariant holds of the services together.
LEMMA StopsInvariant == OrdersSpec => []StopInv
<1>1. OrdersInit => StopInv
  BY StopsStart DEF OrdersInit
<1>2. StopInv /\ [StopsStep \/ RouterStep]_servicesVars => StopInv'
  <2>1. [StopsStep \/ RouterStep]_servicesVars => [Next]_vars
    BY DEF StopsStep, RouterStep, servicesVars
  <2> QED BY <2>1, StopsKeep
<1> QED BY <1>1, <1>2, PTL DEF OrdersSpec

\* The state of both services keeps its type: ids of open orders differ, the
\* maker works on one position, its batch does not exceed its length, and what
\* a request still has to post is never less than nothing.
THEOREM ServicesTyped == OrdersSpec => []OrdersTypeOK
<1>1. TradeInv /\ StopInv => OrdersTypeOK
  BY TradeInvShows, StopInvShows DEF OrdersTypeOK
<1> QED BY <1>1, RouterInvariant, StopsInvariant, PTL

\* Failed cancels and repeated batches never pile up more of the maker's stops
\* than a batch on top of too few, whatever stops the web server posts under
\* ids of the same form: for any symbols, sizes of positions, lengths of a
\* batch and requests, and any number of trades, faults and restarts.
THEOREM StopsNeverPileUp == OrdersSpec => []StopsBounded
BY StopsInvariant, StopInvShows, PTL

\* Requests that come in turn leave the take-profit orders of one request
\* only: for any number of requests, orders, unanswered calls and restarts.
THEOREM OneRequestsProfits == OrdersSpec => []ProfitsOfOneRequest
BY RouterInvariant, TradeInvShows, PTL

\* An opening that traders report in turn is taken once until its end, a
\* quarter of an hour or a restart, and what is posted twice for one request
\* is open once: for any openings, in any order.
THEOREM OpeningTakenOnce == OrdersSpec => []OpenedOnce
BY RouterInvariant, TradeInvShows, PTL
=============================================================================
